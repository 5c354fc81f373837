------------------------------ MODULE EventLog ------------------------------
(***************************************************************************)
(* What SessionStore promises its callers, whatever fails: events appear   *)
(* one at a time with the next seq, are acknowledged in that order, once   *)
(* each or, when the write of one fails, never; a crash takes away none    *)
(* that is acknowledged; and a reader with a cursor receives the events in *)
(* order, each once since it started.                                      *)
(***************************************************************************)
EXTENDS Naturals, Sequences

CONSTANT Readers

VARIABLES log, acks, delivered

vars == <<log, acks, delivered>>

LastAck == IF acks = <<>> THEN 0 ELSE acks[Len(acks)]

Init ==
  /\ log = <<>> /\ acks = <<>>
  /\ delivered = [r \in Readers |-> <<>>]

Publish ==
  /\ log' = Append(log, Len(log) + 1)
  /\ UNCHANGED <<acks, delivered>>

\* Events whose write failed are passed over.
Acknowledge ==
  /\ \E n \in LastAck + 1 .. Len(log) : acks' = Append(acks, log[n])
  /\ UNCHANGED <<log, delivered>>

\* A reader is brought up to the end of the log.
Deliver(r) ==
  /\ delivered' = [delivered EXCEPT ![r] = log]
  /\ UNCHANGED <<log, acks>>

\* The end of the log may be lost, up to the last event acknowledged, and
\* readers start again.
Crash ==
  /\ \E n \in LastAck .. Len(log) : log' = SubSeq(log, 1, n)
  /\ delivered' = [r \in Readers |-> <<>>]
  /\ UNCHANGED acks

Next == Publish \/ Acknowledge \/ (\E r \in Readers : Deliver(r)) \/ Crash

Spec == Init /\ [][Next]_vars

=============================================================================
