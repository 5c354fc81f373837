------------------------------- MODULE Ledger -------------------------------
(***************************************************************************)
(* The append-only event ledger of one session: the file ledger.jsonl that *)
(* SessionStore::append writes under seq_lock and SessionStore::read reads *)
(* without it (daemon/crates/ledger/src/lib.rs).                           *)
(*                                                                         *)
(* The file is a sequence of chunks.  A line takes three: the head and the *)
(* rest of the serialised event (one write_all, which a crash, an I/O      *)
(* error or a concurrent reader may find half done) and the newline (a     *)
(* second write_all).  What an event says is left out; its seq is kept.    *)
(***************************************************************************)
EXTENDS Integers, Sequences

CONSTANTS
  Writers,     \* tasks that append: turns, request handlers
  Readers,     \* turns that follow the ledger with a cursor (last_seen_seq)
  NoWriter,    \* seq_lock is free
  Faults,      \* which faults happen: "crash" (daemon or host), "io" (a failed write or sync)
  MaxEvents    \* bound of the model: no append begins once seq MaxEvents is on the file

ASSUME LedgerAssumption ==
  /\ NoWriter \notin Writers
  /\ Faults \subseteq {"crash", "io"}
  /\ MaxEvents \in Nat

VARIABLES
  file,      \* what read(2) returns: the chunks written so far
  synced,    \* how many of them sync_all has made durable
  lock,      \* holder of seq_lock
  pc, seq,   \* where each append is, and the seq it chose
  acks,      \* the seqs append has returned Ok for, in that order
  seen       \* per reader: the seqs delivered to it since it started

vars == <<file, synced, lock, pc, seq, acks, seen>>

Parts == {"head", "rest", "newline"}
Chunk == [part : Parts, seq : Nat \ {0}]   \* a cursor of 0 asks for every event
Steps == {"idle", "write", "torn", "unended", "ended", "durable"}

-----------------------------------------------------------------------------
(* Reading the file.                                                       *)

\* What follows on a line, and from one line to the next.
After(part) ==
  CASE part = "head" -> "rest" [] part = "rest" -> "newline" [] OTHER -> "head"

\* Every line is one event: read splits at newlines and takes a last line
\* without one, but neither a torn line nor two events on a line parse.
Parsable(f) ==
  /\ \A i \in DOMAIN f : f[i].part = "head" => i < Len(f)
  /\ \A i \in 1 .. Len(f) - 1 : f[i + 1].part = After(f[i].part)

Seqs(f) == {f[i].seq : i \in {j \in DOMAIN f : f[j].part = "rest"}}

LastSeq(f) == CHOOSE n \in Seqs(f) \cup {0} : \A m \in Seqs(f) : m <= n

\* A mistaken cursor comparison (>= for >).
UnseenInclusive(f, since) ==
  LET out[i \in 0 .. Len(f)] ==
        IF i = 0 THEN <<>>
        ELSE IF f[i].part = "rest" /\ f[i].seq >= since
             THEN Append(out[i - 1], f[i].seq) ELSE out[i - 1]
  IN  out[Len(f)]

\* What read(session, since) returns of a file that parses: the events past
\* the cursor, line after line.
Unseen(f, since) ==
  LET out[i \in 0 .. Len(f)] ==
        IF i = 0 THEN <<>>
        ELSE IF f[i].part = "rest" /\ f[i].seq > since
             THEN Append(out[i - 1], f[i].seq) ELSE out[i - 1]
  IN  out[Len(f)]

-----------------------------------------------------------------------------
Init ==
  /\ file = <<>> /\ synced = 0
  /\ lock = NoWriter
  /\ pc = [w \in Writers |-> "idle"] /\ seq = [w \in Writers |-> 0]
  /\ acks = <<>>
  /\ seen = [r \in Readers |-> <<>>]

Step(w, from, to) == pc[w] = from /\ pc' = [pc EXCEPT ![w] = to]

Write(w, part) == file' = Append(file, [part |-> part, seq |-> seq[w]])

\* The seq read before seq_lock is taken.
BeginAppendUnlocked(w) ==
  /\ Step(w, "idle", "write")
  /\ Parsable(file)
  /\ LastSeq(file) < MaxEvents
  /\ lock' = w
  /\ seq' = [seq EXCEPT ![w] = LastSeq(file) + 1]
  /\ UNCHANGED <<file, synced, acks, seen>>

\* The last seq itself in place of the next one.
BeginAppendReused(w) ==
  /\ lock = NoWriter
  /\ Step(w, "idle", "write")
  /\ Parsable(file)
  /\ LastSeq(file) < MaxEvents
  /\ lock' = w
  /\ seq' = [seq EXCEPT ![w] = LastSeq(file)]
  /\ UNCHANGED <<file, synced, acks, seen>>

\* append takes seq_lock and derives seq from the whole file.  On a file with
\* a corrupt line it returns Err and changes nothing, so it has no step.
BeginAppend(w) ==
  /\ lock = NoWriter
  /\ Step(w, "idle", "write")
  /\ Parsable(file)
  /\ LastSeq(file) < MaxEvents
  /\ lock' = w
  /\ seq' = [seq EXCEPT ![w] = LastSeq(file) + 1]
  /\ UNCHANGED <<file, synced, acks, seen>>

WriteHead(w) ==
  /\ Step(w, "write", "torn")
  /\ Write(w, "head")
  /\ UNCHANGED <<synced, lock, seq, acks, seen>>

WriteRest(w) ==
  /\ Step(w, "torn", "unended")
  /\ Write(w, "rest")
  /\ UNCHANGED <<synced, lock, seq, acks, seen>>

WriteNewline(w) ==
  /\ Step(w, "unended", "ended")
  /\ Write(w, "newline")
  /\ UNCHANGED <<synced, lock, seq, acks, seen>>

\* flush() in place of sync_all(): nothing becomes durable.
SyncOmitted(w) ==
  /\ Step(w, "ended", "durable")
  /\ UNCHANGED <<file, synced, lock, seq, acks, seen>>

Sync(w) ==
  /\ Step(w, "ended", "durable")
  /\ synced' = Len(file)
  /\ UNCHANGED <<file, lock, seq, acks, seen>>

\* append returns Ok(event) and drops the guard.
Ack(w) ==
  /\ Step(w, "durable", "idle")
  /\ acks' = Append(acks, seq[w])
  /\ lock' = NoWriter
  /\ UNCHANGED <<file, synced, seq, seen>>

\* A write_all or sync_all fails: append returns Err, and what was written stays.
IOError(w) ==
  /\ "io" \in Faults
  /\ pc[w] \in {"write", "torn", "unended", "ended"}
  /\ pc' = [pc EXCEPT ![w] = "idle"]
  /\ lock' = NoWriter
  /\ UNCHANGED <<file, synced, seq, acks, seen>>

\* The daemon and the page cache are lost: any prefix of the file that holds
\* the durable part may be what is left, and every task starts again.
Crash ==
  /\ "crash" \in Faults
  /\ \E k \in synced .. Len(file) :
       /\ file' = SubSeq(file, 1, k)
       /\ synced' = k
  /\ lock' = NoWriter
  /\ pc' = [w \in Writers |-> "idle"]
  /\ seen' = [r \in Readers |-> <<>>]
  /\ UNCHANGED <<seq, acks>>

\* A turn reads past its cursor, without the lock.  On a corrupt line read
\* returns Err, the turn ends and nothing is delivered.
Read(r) ==
  LET since == IF seen[r] = <<>> THEN 0 ELSE seen[r][Len(seen[r])]
  IN  /\ Parsable(file)
      /\ Unseen(file, since) # <<>>
      /\ seen' = [seen EXCEPT ![r] = @ \o Unseen(file, since)]
      /\ UNCHANGED <<file, synced, lock, pc, seq, acks>>

AppendStep(w) ==
  \/ WriteHead(w) \/ WriteRest(w) \/ WriteNewline(w) \/ Sync(w) \/ Ack(w)

Next ==
  \/ \E w \in Writers : BeginAppend(w) \/ AppendStep(w) \/ IOError(w)
  \/ \E r \in Readers : Read(r)
  \/ Crash

Spec == Init /\ [][Next]_vars

-----------------------------------------------------------------------------
\* The writers' part of the state.
WriterTypeOK ==
  /\ file \in Seq(Chunk) /\ synced \in 0 .. Len(file)
  /\ lock \in Writers \cup {NoWriter}
  /\ pc \in [Writers -> Steps] /\ seq \in [Writers -> Nat]
  /\ acks \in Seq(Nat)

\* Type invariant: no append writes an event of seq 0, which no cursor finds.
TypeOK ==
  /\ WriterTypeOK
  /\ seen \in [Readers -> Seq(Nat)]

\* Seqs are dense: on a ledger that parses, the n-th line carries seq n,
\* whatever crashes and failed writes came before (append, last_seq).
DenseSeq ==
  Parsable(file) =>
    \A i \in DOMAIN file : file[i].part = "rest" => i = 3 * file[i].seq - 1

\* Write and fsync before ack: an event append acknowledged is on the part
\* of the file no crash can take away.
AckedDurable ==
  \A k \in DOMAIN acks : \E i \in 1 .. synced :
    file[i] = [part |-> "rest", seq |-> acks[k]]

\* No seq is acknowledged twice, and acknowledgements come in seq order, for
\* concurrent writers and across crashes and failed writes.
AcksIncrease ==
  \A j, k \in DOMAIN acks : j < k => acks[j] < acks[k]

\* A turn following the ledger by its cursor gets every event once and in
\* order, although read takes no lock.
ReaderInOrder ==
  \A r \in Readers : \A k \in DOMAIN seen[r] : seen[r][k] = k

\* "Replay reconstructs any session": with no append in progress the ledger
\* can be read back.
ReplayReconstructs == lock = NoWriter => Parsable(file)

-----------------------------------------------------------------------------
(* What the ledger promises: an atomic log, with the losses of its faults. *)

Log == INSTANCE EventLog WITH
  log <- [n \in 1 .. LastSeq(file) |-> n],
  delivered <- seen

\* append under seq_lock and the unlocked cursor reads implement a log whose
\* events appear one by one, are acknowledged in that order and at most once,
\* survive crashes once acknowledged, and reach a reader as a prefix of the
\* log, whatever lines are torn by crashes and failed writes.
ImplementsEventLog == Log!Spec

=============================================================================
