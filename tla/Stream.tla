------------------------------- MODULE Stream -------------------------------
(***************************************************************************)
(* How ledger events reach the human's view: append_event broadcasts what  *)
(* it has appended, the stream route turns a subscription into server-sent *)
(* events (api.rs), and the view loads a session by fetching its events    *)
(* and then connecting to its stream (chatView.ts, daemon.ts).             *)
(*                                                                         *)
(* What Ledger shows to be an atomic log is one here.  An event is its     *)
(* session and seq, and the task that appended it.                         *)
(***************************************************************************)
EXTENDS Naturals, Sequences, FiniteSets

CONSTANTS
  Sessions,
  Tasks,       \* turns and request handlers that append events
  Loads,       \* times that the human opens a session in the view
  None,        \* no session, no connection
  Cap,         \* frames that the channel of a session keeps for a slow reader
  MaxEvents,   \* bound of the model: events appended
  MaxDeltas    \* bound of the model: delta frames

ASSUME StreamAssumption ==
  /\ None \notin Sessions \cup Loads
  /\ Cap \in Nat \ {0} /\ MaxEvents \in Nat /\ MaxDeltas \in Nat

VARIABLES
  log,        \* per session: the tasks that appended its events
  owed,       \* frames of events that are appended and not yet broadcast
  deltas,     \* delta frames sent so far
  current,    \* the session the view has been told to show (this.session)
  load,       \* per load: where it is, the session asked for, the events answered
  conn,       \* per load: the connection it has made
  disposer,   \* the connection that disposeStream closes
  view,       \* what the view shows: a session's first events, then live ones
  overlap     \* history: a load began while another was under way

vars == <<log, owed, deltas, current, load, conn, disposer, view, overlap>>
server == <<log, owed, deltas>>
client == <<current, load, disposer, overlap>>

Frame == [session : Sessions, seq : Nat \ {0}, by : Tasks]
Delta == [session |-> None, seq |-> 0, by |-> None]   \* a piece of text
Closed == [pc |-> "closed", session |-> None, queue |-> <<>>, lagged |-> FALSE, since |-> {}]

Init ==
  /\ log = [s \in Sessions |-> <<>>] /\ owed = {} /\ deltas = 0
  /\ current = None /\ disposer = None
  /\ load = [l \in Loads |-> [pc |-> "idle", asked |-> None, upto |-> 0]]
  /\ conn = [l \in Loads |-> Closed]
  /\ view = [by |-> None, label |-> None, of |-> None, upto |-> 0, live |-> <<>>]
  /\ overlap = FALSE

-----------------------------------------------------------------------------
(* The daemon.                                                             *)

Events == UNION {{<<s, n>> : n \in DOMAIN log[s]} : s \in Sessions}

\* The next event is appended before the last has been broadcast.
AppendAhead(t) ==
  /\ Cardinality(Events) < MaxEvents
  /\ \E s \in Sessions :
       /\ log' = [log EXCEPT ![s] = Append(@, t)]
       /\ owed' = owed \cup {[session |-> s, seq |-> Len(log'[s]), by |-> t]}
  /\ UNCHANGED <<deltas, client, conn, view>>

\* append_event: the store has appended, and released the session's lock ...
AppendEvent(t) ==
  /\ \A f \in owed : f.by # t
  /\ Cardinality(Events) < MaxEvents
  /\ \E s \in Sessions :
       /\ log' = [log EXCEPT ![s] = Append(@, t)]
       /\ owed' = owed \cup {[session |-> s, seq |-> Len(log'[s]), by |-> t]}
  /\ UNCHANGED <<deltas, client, conn, view>>

\* A channel without a limit.
PushUnbounded(c, frame) == [c EXCEPT !.queue = Append(@, frame)]

\* A reader that lags is not told.
PushSilently(c, frame) ==
  IF Len(c.queue) < Cap THEN [c EXCEPT !.queue = Append(@, frame)]
  ELSE [c EXCEPT !.queue = Append(Tail(@), frame)]

\* The channel overwrites the oldest frame, and the reader will be told.
Push(c, frame) ==
  IF Len(c.queue) < Cap THEN [c EXCEPT !.queue = Append(@, frame)]
  ELSE [c EXCEPT !.queue = Append(Tail(@), frame), !.lagged = TRUE]

Send(s, frame) ==
  conn' = [l \in Loads |->
             IF conn[l].pc = "open" /\ conn[l].session = s THEN Push(conn[l], frame)
             ELSE conn[l]]

\* ... and only then broadcasts.
Broadcast(t) ==
  /\ \E f \in owed : f.by = t /\ owed' = owed \ {f} /\ Send(f.session, f)
  /\ UNCHANGED <<log, deltas, client, view>>

\* A piece of the model's text goes to the same channel and not to the ledger.
BroadcastDelta(s) ==
  /\ deltas < MaxDeltas
  /\ deltas' = deltas + 1
  /\ Send(s, Delta)
  /\ UNCHANGED <<log, owed, client, view>>

\* stream: the subscription begins when the request arrives.
Subscribe(l) ==
  /\ conn[l].pc = "connecting"
  /\ LET s == conn[l].session
         late == {f.seq : f \in {g \in owed : g.session = s}}
     IN  conn' = [conn EXCEPT ![l].pc = "open", ![l].since = DOMAIN log[s] \ late]
  /\ UNCHANGED <<server, client, view>>

-----------------------------------------------------------------------------
(* The view.                                                               *)

Loading == {l \in Loads : load[l].pc \in {"fetching", "answered"}}

Dispose == IF disposer = None THEN conn ELSE [conn EXCEPT ![disposer] = Closed]

\* The stream of the session shown before stays.
OpenKeepsStream(l, s) ==
  /\ load[l].pc = "idle"
  /\ current' = s
  /\ load' = [load EXCEPT ![l].pc = "fetching", ![l].asked = s]
  /\ overlap' = (overlap \/ Loading # {})
  /\ UNCHANGED <<server, conn, disposer, view>>

\* openSession or initSession: loadSession closes the stream and asks for the
\* events.
OpenSession(l, s) ==
  /\ load[l].pc = "idle"
  /\ current' = s
  /\ load' = [load EXCEPT ![l].pc = "fetching", ![l].asked = s]
  /\ conn' = Dispose
  /\ overlap' = (overlap \/ Loading # {})
  /\ UNCHANGED <<server, disposer, view>>

EventsAnswered(l) ==
  /\ load[l].pc = "fetching"
  /\ load' = [load EXCEPT ![l].pc = "answered", ![l].upto = Len(log[load[l].asked])]
  /\ UNCHANGED <<server, current, conn, disposer, view, overlap>>

LoadFails(l) ==
  /\ load[l].pc = "fetching"
  /\ load' = [load EXCEPT ![l].pc = "failed"]
  /\ UNCHANGED <<server, current, conn, disposer, view, overlap>>

\* The rest of loadSession goes by this.session, whatever was asked for.
ShowSession(l) ==
  /\ load[l].pc = "answered"
  /\ load' = [load EXCEPT ![l].pc = "shown"]
  /\ view' = [by |-> l, label |-> current, of |-> load[l].asked, upto |-> load[l].upto,
              live |-> <<>>]
  /\ conn' = [conn EXCEPT ![l] = [Closed EXCEPT !.pc = "connecting", !.session = current]]
  /\ disposer' = l
  /\ UNCHANGED <<server, current, overlap>>

\* The connection is refused or breaks: nobody is told and nobody reconnects.
ConnectionEnds(l) ==
  /\ conn[l].pc \in {"connecting", "open"}
  /\ conn' = [conn EXCEPT ![l] = Closed]
  /\ UNCHANGED <<server, client, view>>

\* The next frame reaches onLedger or onDelta, whatever the view shows by now.
\* (That a reader has lagged reaches onDelta as a text of no length.)
Deliver(l) ==
  /\ conn[l].pc = "open" /\ conn[l].queue # <<>>
  /\ LET frame == Head(conn[l].queue)
     IN  view' = IF frame = Delta THEN view ELSE [view EXCEPT !.live = Append(@, frame)]
  /\ conn' = [conn EXCEPT ![l].queue = Tail(@)]
  /\ UNCHANGED <<server, client>>

-----------------------------------------------------------------------------
Next ==
  \/ \E t \in Tasks : AppendEvent(t) \/ Broadcast(t)
  \/ \E s \in Sessions : BroadcastDelta(s)
  \/ \E l \in Loads :
       \/ \E s \in Sessions : OpenSession(l, s)
       \/ EventsAnswered(l) \/ LoadFails(l) \/ ShowSession(l)
       \/ Subscribe(l) \/ ConnectionEnds(l) \/ Deliver(l)

Spec == Init /\ [][Next]_vars

\* The daemon runs its tasks and the view reads what arrives.
FairSpec ==
  /\ Spec
  /\ \A t \in Tasks : WF_vars(Broadcast(t))
  /\ \A l \in Loads : WF_vars(Deliver(l))

-----------------------------------------------------------------------------
\* The types of the state; no channel keeps more than its capacity.
TypeOK ==
  /\ log \in [Sessions -> Seq(Tasks)]
  /\ owed \subseteq Frame /\ deltas \in 0 .. MaxDeltas
  /\ current \in Sessions \cup {None} /\ disposer \in Loads \cup {None}
  /\ load \in [Loads -> [pc : {"idle", "fetching", "answered", "shown", "failed"},
                         asked : Sessions \cup {None}, upto : Nat]]
  /\ conn \in [Loads -> [pc : {"closed", "connecting", "open"},
                         session : Sessions \cup {None},
                         queue : Seq(Frame \cup {Delta}), lagged : BOOLEAN,
                         since : SUBSET Nat]]
  /\ \A l \in Loads : Len(conn[l].queue) <= Cap
  /\ view \in [by : Loads \cup {None}, label : Sessions \cup {None},
               of : Sessions \cup {None}, upto : Nat, live : Seq(Frame)]
  /\ overlap \in BOOLEAN

\* As long as the human opens no session while another loads, whatever loads
\* fail, lag or lose their connection, the events the view shows live are all of
\* the session it says it shows, and none is among them twice.
OneSession ==
  ~overlap =>
    /\ view.label = view.of
    /\ \A i \in DOMAIN view.live : view.live[i].session = view.label
    /\ \A i, j \in DOMAIN view.live : i # j => view.live[i].seq # view.live[j].seq

\* Appends that race are broadcast in any order, but over one stream the events
\* of one task (a call, its approval, its result) arrive in ledger order.
TaskOrder ==
  ~overlap =>
    \A i, j \in DOMAIN view.live :
      i < j /\ view.live[i].by = view.live[j].by => view.live[i].seq < view.live[j].seq

\* Load l is what the view shows and its stream is whole; event n is still to come.
Awaited(l, n) ==
  /\ view.by = l /\ conn[l].pc = "open" /\ ~conn[l].lagged
  /\ n \in DOMAIN log[conn[l].session] \ conn[l].since
  /\ view.of = conn[l].session => n > view.upto
  /\ \A i \in DOMAIN view.live : view.live[i].seq # n \/ view.live[i].session # conn[l].session

\* Of the session it shows the view comes to show every event, but for those
\* broadcast after they could be fetched and before the subscription, unless the
\* reader lags, the connection ends, or the human opens another session.
EventuallyShown ==
  \A l \in Loads, n \in 1 .. MaxEvents : Awaited(l, n) ~> ~Awaited(l, n)

=============================================================================
