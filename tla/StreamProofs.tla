---------------------------- MODULE StreamProofs ----------------------------
(***************************************************************************)
(* What Stream says of any number of sessions, tasks and loads and of any  *)
(* capacity of the channels: which frames a view shows live, and in which  *)
(* order.                                                                  *)
(***************************************************************************)
EXTENDS Stream, TLAPS

LoadState == [pc : {"idle", "fetching", "answered", "shown", "failed"},
              asked : Sessions \cup {None}, upto : Nat]
Conn == [pc : {"closed", "connecting", "open"}, session : Sessions \cup {None},
         queue : Seq(Frame \cup {Delta}), lagged : BOOLEAN, since : SUBSET Nat]
View == [by : Loads \cup {None}, label : Sessions \cup {None},
         of : Sessions \cup {None}, upto : Nat, live : Seq(Frame)]

Types ==
  /\ log \in [Sessions -> Seq(Tasks)]
  /\ owed \subseteq Frame /\ deltas \in 0 .. MaxDeltas
  /\ current \in Sessions \cup {None} /\ disposer \in Loads \cup {None}
  /\ load \in [Loads -> LoadState] /\ conn \in [Loads -> Conn]
  /\ \A l \in Loads : Len(conn[l].queue) <= Cap
  /\ view \in View /\ overlap \in BOOLEAN

\* Frame g reaches a view before frame h: it is another event, and an earlier
\* one if both are of one task.
Before(g, h) == g.seq # h.seq /\ (g.by = h.by => g.seq < h.seq)

InOrder(s) ==
  \A i, j \in DOMAIN s : i < j /\ s[i] # Delta /\ s[j] # Delta => Before(s[i], s[j])

\* Frames still to be broadcast are of events in the log, one per event and
\* one per task.
Owed ==
  /\ \A f \in owed : f.seq <= Len(log[f.session])
  /\ \A f, g \in owed : f.by = g.by \/ (f.session = g.session /\ f.seq = g.seq) => f = g

\* A load that no other overlaps has the session shown, and no stream is open
\* until it is over.
OneLoad ==
  \A l \in Loading :
    /\ load[l].asked = current /\ current \in Sessions
    /\ \A k \in Loading : k = l
    /\ \A k \in Loads : conn[k].pc = "closed"

\* What the view shows live is of one session, in order.
Shown ==
  /\ view.label = view.of
  /\ InOrder(view.live)
  /\ \A i \in DOMAIN view.live :
       view.live[i].session = view.label /\ view.live[i].seq <= Len(log[view.label])

\* A connection is that of the view; its frames come after those shown and
\* before those owed.
Connected ==
  \A l \in Loads :
    conn[l].pc # "closed" =>
      /\ disposer = l /\ conn[l].session = view.label /\ view.label \in Sessions
      /\ InOrder(conn[l].queue)
      /\ \A j \in DOMAIN conn[l].queue :
           LET g == conn[l].queue[j]
           IN  g # Delta =>
                 /\ g.session = view.label /\ g.seq <= Len(log[view.label])
                 /\ \A i \in DOMAIN view.live : Before(view.live[i], g)
                 /\ \A f \in owed : f.session = view.label => Before(g, f)
      /\ \A i \in DOMAIN view.live : \A f \in owed :
           f.session = view.label => Before(view.live[i], f)

\* Loads and connections are of sessions.
Aimed ==
  /\ \A l \in Loads : conn[l].pc # "closed" => conn[l].session \in Sessions
  /\ \A l \in Loading : current \in Sessions /\ load[l].asked \in Sessions

Alone == OneLoad /\ Shown /\ Connected

IInv == Types /\ Owed /\ Aimed /\ (~overlap => Alone)

-----------------------------------------------------------------------------
\* A piece of text is no event.
LEMMA DeltaNoFrame == Delta \notin Frame
  BY StreamAssumption DEF Delta, Frame, StreamAssumption

LEMMA ClosedConn == Closed \in Conn /\ Len(Closed.queue) = 0 /\ Closed.pc = "closed"
  BY DEF Closed, Conn

\* Queue p is queue q with frame f at the end, and perhaps without its head.
Extends(p, q, f) ==
  \E k \in {0, 1} :
    /\ Len(p) = Len(q) + 1 - k
    /\ \A j \in DOMAIN p :
         IF j = Len(p) THEN p[j] = f ELSE j + k \in DOMAIN q /\ p[j] = q[j + k]

\* What a frame does to a channel: it comes last, and the oldest may go.
LEMMA Pushed ==
  ASSUME NEW c \in Conn, Len(c.queue) <= Cap, NEW f \in Frame \cup {Delta},
         NEW p, p = Push(c, f)
  PROVE  /\ p \in Conn /\ Len(p.queue) <= Cap
         /\ p.pc = c.pc /\ p.session = c.session
         /\ Extends(p.queue, c.queue, f)
<1> DEFINE q == c.queue
<1>1. q \in Seq(Frame \cup {Delta}) /\ Len(q) \in Nat /\ DOMAIN q = 1 .. Len(q)
  BY DEF Conn
<1>2. Cap \in Nat \ {0}
  BY StreamAssumption DEF StreamAssumption
<1>3. CASE Len(q) < Cap
  <2>1. p = [c EXCEPT !.queue = Append(q, f)]
    BY <1>3 DEF Push
  <2>2. Append(q, f) \in Seq(Frame \cup {Delta}) /\ Len(Append(q, f)) = Len(q) + 1
    BY <1>1
  <2>3. \A j \in DOMAIN Append(q, f) :
          IF j = Len(q) + 1 THEN Append(q, f)[j] = f
          ELSE j + 0 \in DOMAIN q /\ Append(q, f)[j] = q[j + 0]
    BY <1>1
  <2>4. p \in Conn /\ p.queue = Append(q, f) /\ p.pc = c.pc /\ p.session = c.session
    BY <2>1, <2>2 DEF Conn
  <2> QED
    BY <1>1, <1>2, <1>3, <2>2, <2>3, <2>4 DEF Extends
<1>4. CASE ~(Len(q) < Cap)
  <2> DEFINE n == Append(Tail(q), f)
  <2>1. p = [c EXCEPT !.queue = n, !.lagged = TRUE]
    BY <1>4 DEF Push
  <2>2. Len(q) = Cap /\ q # <<>>
    BY <1>1, <1>2, <1>4
  <2>3. Tail(q) \in Seq(Frame \cup {Delta}) /\ Len(Tail(q)) = Len(q) - 1
        /\ \A j \in 1 .. Len(q) - 1 : Tail(q)[j] = q[j + 1]
    BY <1>1, <2>2
  <2>4. n \in Seq(Frame \cup {Delta}) /\ Len(n) = Len(q)
    BY <1>1, <2>2, <2>3
  <2>5. \A j \in DOMAIN n :
          IF j = Len(q) THEN n[j] = f ELSE j + 1 \in DOMAIN q /\ n[j] = q[j + 1]
    BY <1>1, <2>2, <2>3, <2>4
  <2>6. p \in Conn /\ p.queue = n /\ p.pc = c.pc /\ p.session = c.session
    BY <2>1, <2>4 DEF Conn
  <2> HIDE DEF n
  <2> QED
    BY <1>1, <2>2, <2>4, <2>5, <2>6 DEF Extends
<1> QED
  BY <1>3, <1>4

\* Sending to the streams of a session changes no types.
LEMMA SendTypes ==
  ASSUME Types, NEW s \in Sessions, NEW f \in Frame \cup {Delta}, Send(s, f)
  PROVE  /\ conn' \in [Loads -> Conn] /\ \A l \in Loads : Len(conn'[l].queue) <= Cap
         /\ \A l \in Loads : conn'[l].pc = conn[l].pc /\ conn'[l].session = conn[l].session
<1>1. ASSUME NEW l \in Loads
      PROVE  /\ Push(conn[l], f) \in Conn /\ Len(Push(conn[l], f).queue) <= Cap
             /\ Push(conn[l], f).pc = conn[l].pc /\ Push(conn[l], f).session = conn[l].session
  <2>1. conn[l] \in Conn /\ Len(conn[l].queue) <= Cap
    BY DEF Types
  <2> QED
    BY <2>1, Pushed
<1>2. \A l \in Loads : conn[l] \in Conn /\ Len(conn[l].queue) <= Cap
  BY DEF Types
<1>3. conn' = [l \in Loads |-> IF conn[l].pc = "open" /\ conn[l].session = s
                               THEN Push(conn[l], f) ELSE conn[l]]
  BY DEF Send
<1> HIDE DEF Conn
<1> QED
  BY <1>1, <1>2, <1>3

-----------------------------------------------------------------------------
LEMMA Initially == Init => IInv
<1> SUFFICES ASSUME Init PROVE IInv
  OBVIOUS
<1>1. Types
  <2>1. conn \in [Loads -> Conn] /\ \A l \in Loads : Len(conn[l].queue) <= Cap
    BY ClosedConn, StreamAssumption DEF Init, StreamAssumption
  <2>2. load \in [Loads -> LoadState] /\ view \in View
    BY DEF Init, LoadState, View
  <2>3. log \in [Sessions -> Seq(Tasks)] /\ deltas \in 0 .. MaxDeltas
    BY StreamAssumption DEF Init, StreamAssumption
  <2> QED
    BY <2>1, <2>2, <2>3 DEF Init, Types
<1>2. Owed
  BY DEF Init, Owed
<1>3. Alone /\ Aimed
  <2>1. Loading = {} /\ view.live = <<>> /\ view.label = view.of
        /\ \A l \in Loads : conn[l].pc = "closed"
    BY ClosedConn DEF Init, Loading
  <2> QED
    BY <2>1 DEF Alone, Aimed, OneLoad, Shown, Connected, InOrder
<1> QED
  BY <1>1, <1>2, <1>3 DEF IInv

\* The next event of a session is after all of its events, and is now owed.
LEMMA AppendStep == ASSUME IInv, NEW t \in Tasks, AppendEvent(t) PROVE IInv'
<1>1. PICK s \in Sessions :
        /\ log' = [log EXCEPT ![s] = Append(@, t)]
        /\ owed' = owed \cup {[session |-> s, seq |-> Len(log'[s]), by |-> t]}
  BY DEF AppendEvent
<1>2. /\ \A f \in owed : f.by # t
      /\ UNCHANGED <<deltas, current, load, disposer, overlap, conn, view>>
  BY DEF AppendEvent, client
<1> DEFINE new == [session |-> s, seq |-> Len(log'[s]), by |-> t]
<1>3. /\ log' \in [Sessions -> Seq(Tasks)] /\ Len(log'[s]) = Len(log[s]) + 1
      /\ \A u \in Sessions : Len(log[u]) \in Nat /\ Len(log'[u]) \in Nat
                             /\ Len(log[u]) <= Len(log'[u])
  BY <1>1 DEF IInv, Types
<1>4. new \in Frame /\ new.session = s /\ new.by = t /\ new.seq = Len(log[s]) + 1
  BY <1>3 DEF Frame
<1>5. owed' = owed \cup {new} /\ owed \subseteq Frame /\ owed' \subseteq Frame
  BY <1>1, <1>4 DEF IInv, Types
<1> HIDE DEF new
<1>6. Types'
  BY <1>2, <1>3, <1>5 DEF IInv, Types
<1>7. Owed'
  <2>1. \A f \in owed : f.session \in Sessions /\ f.seq \in Nat
    BY <1>5 DEF Frame
  <2>2. \A f \in owed : f.seq <= Len(log[f.session])
    BY DEF IInv, Owed
  <2>3. \A f \in owed' : f.seq <= Len(log'[f.session])
    BY <1>3, <1>4, <1>5, <2>1, <2>2
  <2>4. \A f \in owed : f.by # new.by /\ ~(f.session = new.session /\ f.seq = new.seq)
    BY <1>2, <1>3, <1>4, <2>1, <2>2
  <2> QED
    BY <1>5, <2>3, <2>4 DEF IInv, Owed
<1>8. ASSUME ~overlap PROVE Alone'
  <2>1. OneLoad'
    BY <1>2, <1>8 DEF IInv, Alone, OneLoad, Loading
  <2>2. \A i \in DOMAIN view.live : view.live[i].seq \in Nat /\ view.live[i].session \in Sessions
    <3>1. view.live \in Seq(Frame)
      BY DEF IInv, Types, View
    <3>2. \A i \in DOMAIN view.live : view.live[i] \in Frame
      BY <3>1
    <3> QED
      BY <3>2 DEF Frame
  <2>3. Shown'
    <3>1. \A i \in DOMAIN view.live : view.live[i].seq <= Len(log'[view.label])
      BY <1>3, <1>8, <2>2 DEF IInv, Alone, Shown
    <3> QED
      BY <1>2, <1>8, <3>1 DEF IInv, Alone, Shown
  <2>4. ASSUME NEW l \in Loads, conn[l].pc # "closed", NEW j \in DOMAIN conn[l].queue,
               conn[l].queue[j] # Delta
        PROVE  /\ conn[l].queue[j].seq <= Len(log'[view.label])
               /\ \A f \in owed' : f.session = view.label => Before(conn[l].queue[j], f)
    <3>1. conn[l].queue[j] \in Frame
      BY <2>4 DEF IInv, Types, Conn
    <3>2. /\ conn[l].queue[j].seq <= Len(log[view.label]) /\ view.label \in Sessions
          /\ \A f \in owed : f.session = view.label => Before(conn[l].queue[j], f)
      BY <1>8, <2>4 DEF IInv, Alone, Connected
    <3>3. conn[l].queue[j].seq \in Nat
      BY <3>1 DEF Frame
    <3>4. new.session = view.label => Before(conn[l].queue[j], new)
      BY <1>3, <1>4, <3>2, <3>3 DEF Before
    <3> QED
      BY <1>3, <1>5, <3>2, <3>3, <3>4
  <2>5. \A i \in DOMAIN view.live : new.session = view.label => Before(view.live[i], new)
    BY <1>3, <1>4, <1>8, <2>2 DEF IInv, Alone, Shown, Before
  <2>6. Connected'
    BY <1>2, <1>5, <1>8, <2>4, <2>5 DEF IInv, Alone, Connected
  <2> QED
    BY <2>1, <2>3, <2>6 DEF Alone
<1>9. Aimed'
  BY <1>2 DEF IInv, Aimed, Loading
<1> QED
  BY <1>2, <1>6, <1>7, <1>8, <1>9 DEF IInv

\* A frame that comes after all that is shown and queued, and before all that
\* is still owed, may be sent.
LEMMA SendKeeps ==
  ASSUME Types, Connected, NEW s \in Sessions, NEW f \in Frame \cup {Delta}, Send(s, f),
         UNCHANGED <<log, disposer, view>>, owed' \subseteq owed, owed \subseteq Frame,
         f # Delta =>
           /\ f.session = s /\ f.seq <= Len(log[s])
           /\ \A g \in owed' : g.session = s => Before(f, g)
           /\ f \in owed
  PROVE  Connected'
<1>1. conn' = [l \in Loads |-> IF conn[l].pc = "open" /\ conn[l].session = s
                               THEN Push(conn[l], f) ELSE conn[l]]
  BY DEF Send
<1> SUFFICES ASSUME NEW l \in Loads, conn'[l].pc # "closed"
             PROVE  /\ disposer' = l /\ conn'[l].session = view'.label /\ view'.label \in Sessions
                    /\ InOrder(conn'[l].queue)
                    /\ \A j \in DOMAIN conn'[l].queue :
                         LET g == conn'[l].queue[j]
                         IN  g # Delta =>
                               /\ g.session = view'.label /\ g.seq <= Len(log'[view'.label])
                               /\ \A i \in DOMAIN view'.live : Before(view'.live[i], g)
                               /\ \A h \in owed' : h.session = view'.label => Before(g, h)
                    /\ \A i \in DOMAIN view'.live : \A h \in owed' :
                         h.session = view'.label => Before(view'.live[i], h)
  BY DEF Connected
<1>2. conn[l].pc # "closed" /\ conn'[l].session = conn[l].session
  BY SendTypes
<1>3. /\ disposer = l /\ conn[l].session = view.label /\ view.label \in Sessions
      /\ InOrder(conn[l].queue)
      /\ \A j \in DOMAIN conn[l].queue :
           conn[l].queue[j] # Delta =>
             /\ conn[l].queue[j].session = view.label
             /\ conn[l].queue[j].seq <= Len(log[view.label])
             /\ \A i \in DOMAIN view.live : Before(view.live[i], conn[l].queue[j])
             /\ \A h \in owed : h.session = view.label => Before(conn[l].queue[j], h)
      /\ \A i \in DOMAIN view.live : \A h \in owed :
           h.session = view.label => Before(view.live[i], h)
  BY <1>2 DEF Connected
<1>4. CASE ~(conn[l].pc = "open" /\ conn[l].session = s)
  <2>1. conn'[l] = conn[l]
    BY <1>1, <1>4
  <2> QED
    BY <1>3, <2>1
<1>5. CASE conn[l].pc = "open" /\ conn[l].session = s
  <2>1. PICK c : c = conn[l] /\ c \in Conn /\ Len(c.queue) <= Cap
    BY DEF Types
  <2>2. PICK d : d = conn'[l] /\ d = Push(c, f)
    BY <1>1, <1>5, <2>1
  <2> DEFINE q == c.queue  p == d.queue
  <2>3. /\ p \in Seq(Frame \cup {Delta})
        /\ Extends(p, q, f)
    <3>1. d \in Conn
      BY <2>1, <2>2, Pushed
    <3>2. p \in Seq(Frame \cup {Delta})
      BY <3>1 DEF Conn
    <3>3. Extends(d.queue, c.queue, f)
      BY <2>1, <2>2, Pushed
    <3> QED
      BY <3>2, <3>3
  <2>6. PICK k \in {0, 1} :
          /\ Len(p) = Len(q) + 1 - k
          /\ \A j \in DOMAIN p :
               IF j = Len(p) THEN p[j] = f ELSE j + k \in DOMAIN q /\ p[j] = q[j + k]
    BY <2>3 DEF Extends
  <2>7. /\ InOrder(q)
        /\ \A j \in DOMAIN q :
             q[j] # Delta =>
               /\ q[j].session = view.label /\ q[j].seq <= Len(log[view.label])
               /\ \A i \in DOMAIN view.live : Before(view.live[i], q[j])
               /\ \A h \in owed : h.session = view.label => Before(q[j], h)
    BY <1>3, <2>1
  <2> HIDE DEF q, p
  <2>4. ASSUME NEW j \in DOMAIN p, p[j] # Delta
        PROVE  /\ p[j].session = view.label /\ p[j].seq <= Len(log[view.label])
               /\ \A i \in DOMAIN view.live : Before(view.live[i], p[j])
               /\ \A h \in owed' : h.session = view.label => Before(p[j], h)
    <3>1. CASE j = Len(p)
      BY <1>3, <1>5, <2>4, <2>6, <3>1
    <3>2. CASE j # Len(p)
      BY <2>4, <2>6, <2>7, <3>2
    <3> QED
      BY <3>1, <3>2
  <2>5. InOrder(p)
    <3> SUFFICES ASSUME NEW i \in DOMAIN p, NEW j \in DOMAIN p, i < j, p[i] # Delta, p[j] # Delta
                 PROVE  Before(p[i], p[j])
      BY DEF InOrder
    <3>1. i \in Nat /\ j \in Nat /\ i # Len(p) /\ i + k \in DOMAIN q /\ p[i] = q[i + k]
      BY <2>3, <2>6
    <3>2. CASE j = Len(p)
      <4>1. p[j] = f /\ f \in owed /\ f.session = view.label
        BY <1>3, <1>5, <2>6, <3>2
      <4> QED
        BY <2>7, <3>1, <4>1
    <3>3. CASE j # Len(p)
      <4>1. j + k \in DOMAIN q /\ p[j] = q[j + k] /\ i + k < j + k
        BY <2>6, <3>1, <3>3
      <4> QED
        BY <2>7, <3>1, <4>1 DEF InOrder
    <3> QED
      BY <3>2, <3>3
  <2> QED
    BY <1>2, <1>3, <2>2, <2>4, <2>5 DEF p
<1> QED
  BY <1>4, <1>5

LEMMA BroadcastStep == ASSUME IInv, NEW t \in Tasks, Broadcast(t) PROVE IInv'
<1>1. PICK f \in owed : f.by = t /\ owed' = owed \ {f} /\ Send(f.session, f)
  BY DEF Broadcast
<1>2. UNCHANGED <<log, deltas, current, load, disposer, overlap, view>>
  BY DEF Broadcast, client
<1>3. f \in Frame /\ f.session \in Sessions /\ f # Delta
  BY DeltaNoFrame DEF IInv, Types, Frame
<1>4. /\ conn' \in [Loads -> Conn] /\ \A l \in Loads : Len(conn'[l].queue) <= Cap
      /\ \A l \in Loads : conn'[l].pc = conn[l].pc /\ conn'[l].session = conn[l].session
  BY <1>1, <1>3, SendTypes DEF IInv
<1>5. Types' /\ Owed'
  BY <1>1, <1>2, <1>4 DEF IInv, Types, Owed
<1>6. ASSUME ~overlap PROVE Alone'
  <2>1. OneLoad' /\ Shown'
    BY <1>2, <1>4, <1>6 DEF IInv, Alone, OneLoad, Shown, Loading
  <2>2. \A g \in owed' : g.session = f.session => Before(f, g)
    BY <1>1 DEF IInv, Owed, Before
  <2>3. Connected'
    BY <1>1, <1>2, <1>3, <1>6, <2>2, SendKeeps DEF IInv, Alone, Owed, Types
  <2> QED
    BY <2>1, <2>3 DEF Alone
<1>7. Aimed'
  BY <1>2, <1>4 DEF IInv, Aimed, Loading
<1> QED
  BY <1>2, <1>5, <1>6, <1>7 DEF IInv

LEMMA DeltaStep == ASSUME IInv, NEW s \in Sessions, BroadcastDelta(s) PROVE IInv'
<1>1. /\ deltas < MaxDeltas /\ deltas' = deltas + 1 /\ Send(s, Delta)
      /\ UNCHANGED <<log, owed, current, load, disposer, overlap, view>>
  BY DEF BroadcastDelta, client
<1>2. /\ conn' \in [Loads -> Conn] /\ \A l \in Loads : Len(conn'[l].queue) <= Cap
      /\ \A l \in Loads : conn'[l].pc = conn[l].pc /\ conn'[l].session = conn[l].session
  BY <1>1, SendTypes DEF IInv
<1>3. deltas' \in 0 .. MaxDeltas
  BY <1>1, StreamAssumption DEF IInv, Types, StreamAssumption
<1>4. Types' /\ Owed'
  BY <1>1, <1>2, <1>3 DEF IInv, Types, Owed
<1>5. ASSUME ~overlap PROVE Alone'
  <2>1. OneLoad' /\ Shown'
    BY <1>1, <1>2, <1>5 DEF IInv, Alone, OneLoad, Shown, Loading
  <2>2. Connected'
    BY <1>1, <1>5, SendKeeps DEF IInv, Alone, Types
  <2> QED
    BY <2>1, <2>2 DEF Alone
<1>6. Aimed'
  BY <1>1, <1>2 DEF IInv, Aimed, Loading
<1> QED
  BY <1>1, <1>4, <1>5, <1>6 DEF IInv

\* A change to one connection, which leaves it closed or begins anew.
LEMMA ConnTypes ==
  ASSUME Types, NEW l \in Loads, NEW c \in Conn, Len(c.queue) <= Cap,
         conn' = [conn EXCEPT ![l] = c]
  PROVE  /\ conn' \in [Loads -> Conn] /\ \A k \in Loads : Len(conn'[k].queue) <= Cap
         /\ conn'[l] = c /\ \A k \in Loads : k # l => conn'[k] = conn[k]
  BY DEF Types

LEMMA SubscribeStep == ASSUME IInv, NEW l \in Loads, Subscribe(l) PROVE IInv'
<1>1. /\ conn[l].pc = "connecting" /\ conn[l] \in Conn /\ Len(conn[l].queue) <= Cap
      /\ conn \in [Loads -> Conn] /\ conn[l].session \in Sessions
      /\ UNCHANGED <<log, owed, deltas, current, load, disposer, overlap, view>>
  BY DEF Subscribe, server, client, IInv, Types, Aimed
<1>2. PICK since \in SUBSET Nat :
        conn' = [conn EXCEPT ![l].pc = "open", ![l].since = since]
  <2> DEFINE s == conn[l].session
             late == {f.seq : f \in {g \in owed : g.session = s}}
             since == DOMAIN log[s] \ late
  <2>1. conn' = [conn EXCEPT ![l].pc = "open", ![l].since = since]
    BY DEF Subscribe
  <2>2. since \in SUBSET Nat
    BY <1>1 DEF IInv, Types
  <2> HIDE DEF since
  <2> QED
    BY <2>1, <2>2
<1> DEFINE c == [conn[l] EXCEPT !.pc = "open", !.since = since]
<1>3. /\ c \in Conn /\ c.session = conn[l].session /\ c.queue = conn[l].queue
      /\ c.pc = "open" /\ conn' = [conn EXCEPT ![l] = c]
  BY <1>1, <1>2 DEF Conn
<1> HIDE DEF c
<1>4. /\ conn' \in [Loads -> Conn] /\ \A k \in Loads : Len(conn'[k].queue) <= Cap
      /\ conn'[l] = c /\ \A k \in Loads : k # l => conn'[k] = conn[k]
  BY <1>1, <1>3, ConnTypes DEF IInv
<1>5. /\ \A k \in Loads : /\ conn'[k].session = conn[k].session
                          /\ conn'[k].queue = conn[k].queue
                          /\ conn'[k].pc = "closed" <=> conn[k].pc = "closed"
  BY <1>1, <1>3, <1>4
<1>6. Types' /\ Owed' /\ Aimed'
  BY <1>1, <1>4, <1>5 DEF IInv, Types, Owed, Aimed, Loading
<1>7. ~overlap => Alone'
  BY <1>1, <1>5 DEF IInv, Alone, OneLoad, Shown, Connected, Loading
<1> QED
  BY <1>1, <1>6, <1>7 DEF IInv

-----------------------------------------------------------------------------
\* A session is opened: the stream of the view closes, and no other is there.
LEMMA OpenStep ==
  ASSUME IInv, NEW l \in Loads, NEW s \in Sessions, OpenSession(l, s) PROVE IInv'
<1>1. /\ load[l].pc = "idle" /\ current' = s /\ conn' = Dispose
      /\ load' = [load EXCEPT ![l].pc = "fetching", ![l].asked = s]
      /\ overlap' = (overlap \/ Loading # {})
      /\ UNCHANGED <<log, owed, deltas, disposer, view>>
  BY DEF OpenSession, server
<1> DEFINE new == [load[l] EXCEPT !.pc = "fetching", !.asked = s]
<1>2. new \in LoadState /\ load' = [load EXCEPT ![l] = new]
      /\ new.pc = "fetching" /\ new.asked = s
  BY <1>1 DEF IInv, Types, LoadState
<1> HIDE DEF new
<1>3. /\ load' \in [Loads -> LoadState] /\ load'[l] = new
      /\ \A k \in Loads : k # l => load'[k] = load[k]
  BY <1>2 DEF IInv, Types
<1>4. Loading' = Loading \cup {l}
  BY <1>2, <1>3 DEF Loading
<1>5. /\ conn' \in [Loads -> Conn] /\ \A k \in Loads : Len(conn'[k].queue) <= Cap
      /\ \A k \in Loads : conn'[k] = conn[k] \/ conn'[k].pc = "closed"
      /\ disposer # None => conn'[disposer].pc = "closed"
  <2>1. CASE disposer = None
    BY <1>1, <2>1 DEF IInv, Types, Dispose
  <2>2. CASE disposer # None
    <3>1. disposer \in Loads /\ conn' = [conn EXCEPT ![disposer] = Closed]
          /\ Len(Closed.queue) <= Cap
      BY <1>1, <2>2, ClosedConn, StreamAssumption DEF IInv, Types, Dispose, StreamAssumption
    <3> QED
      BY <3>1, ClosedConn, ConnTypes DEF IInv
  <2> QED
    BY <2>1, <2>2
<1>6. overlap' \in BOOLEAN
  BY <1>1 DEF IInv, Types
<1>7. Types'
  BY <1>1, <1>3, <1>5, <1>6 DEF IInv, Types
<1>8. Owed' /\ Aimed'
  BY <1>1, <1>2, <1>3, <1>4, <1>5 DEF IInv, Owed, Aimed, Loading
<1>9. ASSUME ~overlap' PROVE Alone'
  <2>1. ~overlap /\ Loading = {}
    BY <1>1, <1>9
  <2>2. \A k \in Loads : conn'[k].pc = "closed"
    BY <1>5, <2>1, StreamAssumption DEF IInv, Alone, Connected, StreamAssumption
  <2>3. OneLoad' /\ Connected'
    BY <1>1, <1>2, <1>3, <1>4, <2>1, <2>2 DEF OneLoad, Connected
  <2>4. Shown'
    BY <1>1, <2>1 DEF IInv, Alone, Shown
  <2> QED
    BY <2>3, <2>4 DEF Alone
<1> QED
  BY <1>7, <1>8, <1>9 DEF IInv

\* The events of a load are answered, or it fails.
LEMMA LoadStep ==
  ASSUME IInv, NEW l \in Loads, EventsAnswered(l) \/ LoadFails(l) PROVE IInv'
<1>1. /\ load[l].pc = "fetching" /\ load[l] \in LoadState
      /\ UNCHANGED <<log, owed, deltas, current, conn, disposer, view, overlap>>
  BY DEF EventsAnswered, LoadFails, server, IInv, Types
<1>2. load[l].asked \in Sessions
  BY <1>1 DEF IInv, Aimed, Loading
<1>3. PICK new \in LoadState :
        load' = [load EXCEPT ![l] = new] /\ new.asked = load[l].asked
  <2>1. CASE EventsAnswered(l)
    <3> DEFINE new == [load[l] EXCEPT !.pc = "answered", !.upto = Len(log[load[l].asked])]
    <3>1. Len(log[load[l].asked]) \in Nat
      BY <1>2 DEF IInv, Types
    <3>2. new \in LoadState /\ new.asked = load[l].asked /\ load' = [load EXCEPT ![l] = new]
      BY <1>1, <2>1, <3>1 DEF EventsAnswered, LoadState, IInv, Types
    <3> QED
      BY <3>2
  <2>2. CASE LoadFails(l)
    <3> DEFINE new == [load[l] EXCEPT !.pc = "failed"]
    <3>1. new \in LoadState /\ new.asked = load[l].asked /\ load' = [load EXCEPT ![l] = new]
      BY <1>1, <2>2 DEF LoadFails, LoadState, IInv, Types
    <3> QED
      BY <3>1
  <2> QED
    BY <2>1, <2>2
<1>4. /\ load' \in [Loads -> LoadState] /\ l \in Loading
      /\ \A k \in Loads : load'[k].asked = load[k].asked /\ (k # l => load'[k] = load[k])
  BY <1>1, <1>3 DEF IInv, Types, Loading
<1>5. Loading' \subseteq Loading
  BY <1>4 DEF Loading
<1>6. Types' /\ Owed'
  BY <1>1, <1>4 DEF IInv, Types, Owed
<1>7. Aimed'
  BY <1>1, <1>4, <1>5 DEF IInv, Aimed, Loading
<1>8. ASSUME ~overlap PROVE Alone'
  <2>1. OneLoad'
    BY <1>1, <1>4, <1>5, <1>8 DEF IInv, Alone, OneLoad, Loading
  <2>2. Shown' /\ Connected'
    BY <1>1, <1>8 DEF IInv, Alone, Shown, Connected
  <2> QED
    BY <2>1, <2>2 DEF Alone
<1> QED
  BY <1>1, <1>6, <1>7, <1>8 DEF IInv

\* The events of the session asked for replace what was shown, and the one
\* connection begins.
LEMMA ShowStep == ASSUME IInv, NEW l \in Loads, ShowSession(l) PROVE IInv'
<1>1. /\ load[l].pc = "answered" /\ load[l] \in LoadState
      /\ load' = [load EXCEPT ![l].pc = "shown"]
      /\ view' = [by |-> l, label |-> current, of |-> load[l].asked,
                  upto |-> load[l].upto, live |-> <<>>]
      /\ conn' = [conn EXCEPT ![l] = [Closed EXCEPT !.pc = "connecting", !.session = current]]
      /\ disposer' = l /\ UNCHANGED <<log, owed, deltas, current, overlap>>
  BY DEF ShowSession, server, IInv, Types
<1>2. l \in Loading /\ current \in Sessions
  BY <1>1 DEF Loading, IInv, Aimed
<1> DEFINE new == [load[l] EXCEPT !.pc = "shown"]
           c == [Closed EXCEPT !.pc = "connecting", !.session = current]
<1>3. new \in LoadState /\ new.pc = "shown" /\ load' = [load EXCEPT ![l] = new]
  BY <1>1 DEF IInv, Types, LoadState
<1>4. /\ c \in Conn /\ c.pc = "connecting" /\ c.session = current /\ c.queue = <<>>
      /\ Len(c.queue) <= Cap /\ conn' = [conn EXCEPT ![l] = c]
  <2>1. c \in Conn /\ c.pc = "connecting" /\ c.session = current /\ c.queue = Closed.queue
    BY <1>2, ClosedConn DEF Conn
  <2>2. Closed.queue = <<>> /\ 0 <= Cap
    BY StreamAssumption DEF StreamAssumption, Closed
  <2> QED
    BY <1>1, <2>1, <2>2
<1> HIDE DEF new, c
<1>5. /\ load' \in [Loads -> LoadState] /\ load'[l] = new
      /\ \A k \in Loads : k # l => load'[k] = load[k]
  BY <1>3 DEF IInv, Types
<1>6. /\ conn' \in [Loads -> Conn] /\ \A k \in Loads : Len(conn'[k].queue) <= Cap
      /\ conn'[l] = c /\ \A k \in Loads : k # l => conn'[k] = conn[k]
  BY <1>4, ConnTypes DEF IInv
<1>7. Loading' = Loading \ {l}
  BY <1>3, <1>5 DEF Loading
<1>8. view' \in View /\ view'.live = <<>> /\ view'.label = current /\ view'.of = load[l].asked
  BY <1>1, <1>2 DEF View, LoadState
<1>9. Types' /\ Owed'
  BY <1>1, <1>5, <1>6, <1>8 DEF IInv, Types, Owed
<1>10. Aimed'
  BY <1>1, <1>2, <1>4, <1>5, <1>6, <1>7 DEF IInv, Aimed, Loading
<1>11. ASSUME ~overlap PROVE Alone'
  <2>1. Loading = {l} /\ load[l].asked = current /\ \A k \in Loads : conn[k].pc = "closed"
    BY <1>2, <1>11 DEF IInv, Alone, OneLoad
  <2>2. OneLoad' /\ Shown'
    BY <1>7, <1>8, <2>1 DEF OneLoad, Shown, InOrder
  <2>3. ASSUME NEW k \in Loads, conn'[k].pc # "closed"
        PROVE  k = l /\ conn'[k].queue = <<>> /\ conn'[k].session = current
    BY <1>4, <1>6, <2>1, <2>3
  <2>4. Connected'
    BY <1>1, <1>2, <1>8, <2>3 DEF Connected, InOrder
  <2> QED
    BY <2>2, <2>4 DEF Alone
<1> QED
  BY <1>1, <1>9, <1>10, <1>11 DEF IInv

LEMMA EndStep == ASSUME IInv, NEW l \in Loads, ConnectionEnds(l) PROVE IInv'
<1>1. /\ conn' = [conn EXCEPT ![l] = Closed]
      /\ UNCHANGED <<log, owed, deltas, current, load, disposer, overlap, view>>
  BY DEF ConnectionEnds, server, client
<1>2. Len(Closed.queue) <= Cap
  BY ClosedConn, StreamAssumption DEF StreamAssumption
<1>3. /\ conn' \in [Loads -> Conn] /\ \A k \in Loads : Len(conn'[k].queue) <= Cap
      /\ \A k \in Loads : conn'[k] = conn[k] \/ conn'[k].pc = "closed"
  BY <1>1, <1>2, ClosedConn, ConnTypes DEF IInv
<1>4. Types' /\ Owed' /\ Aimed'
  BY <1>1, <1>3 DEF IInv, Types, Owed, Aimed, Loading
<1>5. ~overlap => Alone'
  BY <1>1, <1>3 DEF IInv, Alone, OneLoad, Shown, Connected, Loading
<1> QED
  BY <1>1, <1>4, <1>5 DEF IInv

\* The oldest frame of the one open stream is shown after all the others.
LEMMA DeliverStep == ASSUME IInv, NEW l \in Loads, Deliver(l) PROVE IInv'
<1> DEFINE q == conn[l].queue  frame == Head(q)
<1>1. /\ conn[l].pc = "open" /\ q # <<>> /\ conn[l] \in Conn /\ Len(q) <= Cap
      /\ q \in Seq(Frame \cup {Delta}) /\ conn \in [Loads -> Conn]
      /\ view' = IF frame = Delta THEN view ELSE [view EXCEPT !.live = Append(@, frame)]
      /\ conn' = [conn EXCEPT ![l].queue = Tail(q)]
      /\ UNCHANGED <<log, owed, deltas, current, load, disposer, overlap>>
  BY DEF Deliver, server, client, IInv, Types, Conn
<1>2. /\ frame = q[1] /\ frame \in Frame \cup {Delta} /\ 1 \in DOMAIN q
      /\ Tail(q) \in Seq(Frame \cup {Delta}) /\ Len(Tail(q)) = Len(q) - 1 /\ Len(q) \in Nat
      /\ \A j \in DOMAIN Tail(q) : j + 1 \in DOMAIN q /\ 1 < j + 1 /\ Tail(q)[j] = q[j + 1]
  BY <1>1
<1> DEFINE c == [conn[l] EXCEPT !.queue = Tail(q)]
<1>3. /\ c \in Conn /\ c.queue = Tail(q) /\ c.pc = "open" /\ c.session = conn[l].session
      /\ conn' = [conn EXCEPT ![l] = c]
  BY <1>1, <1>2 DEF Conn
<1>4. Len(c.queue) <= Cap
  BY <1>1, <1>2, <1>3, StreamAssumption DEF StreamAssumption
<1> HIDE DEF c
<1>5. /\ conn' \in [Loads -> Conn] /\ \A k \in Loads : Len(conn'[k].queue) <= Cap
      /\ conn'[l] = c /\ \A k \in Loads : k # l => conn'[k] = conn[k]
  BY <1>3, <1>4, ConnTypes DEF IInv
<1>6. view.live \in Seq(Frame) /\ view \in View
  BY DEF IInv, Types, View
<1>7. view' \in View /\ view'.label = view.label /\ view'.of = view.of
      /\ view'.live = IF frame = Delta THEN view.live ELSE Append(view.live, frame)
  <2>1. CASE frame = Delta
    BY <1>1, <1>6, <2>1
  <2>2. CASE frame # Delta
    <3> HIDE DEF frame
    <3>1. Append(view.live, frame) \in Seq(Frame)
      BY <1>2, <1>6, <2>2
    <3>2. view' = [view EXCEPT !.live = Append(view.live, frame)]
      BY <1>1, <2>2
    <3> QED
      BY <1>6, <2>2, <3>1, <3>2 DEF View
  <2> QED
    BY <2>1, <2>2
<1>8. Types' /\ Owed' /\ Aimed'
  BY <1>1, <1>3, <1>5, <1>7 DEF IInv, Types, Owed, Aimed, Loading
<1>9. ASSUME ~overlap PROVE Alone'
  <2>1. /\ disposer = l /\ view.label \in Sessions /\ conn[l].session = view.label
        /\ InOrder(q)
        /\ \A j \in DOMAIN q :
             q[j] # Delta =>
               /\ q[j].session = view.label /\ q[j].seq <= Len(log[view.label])
               /\ \A i \in DOMAIN view.live : Before(view.live[i], q[j])
               /\ \A f \in owed : f.session = view.label => Before(q[j], f)
        /\ \A i \in DOMAIN view.live : \A f \in owed :
             f.session = view.label => Before(view.live[i], f)
    BY <1>1, <1>9 DEF IInv, Alone, Connected
  <2>2. \A k \in Loads : conn[k].pc # "closed" => k = l
    BY <1>9, <2>1 DEF IInv, Alone, Connected
  <2> HIDE DEF q, frame
  <2>3. OneLoad'
    BY <1>1, <1>9 DEF IInv, Alone, OneLoad, Loading
  <2>4. ASSUME NEW i \in DOMAIN view'.live
        PROVE  \/ i \in DOMAIN view.live /\ view'.live[i] = view.live[i]
               \/ frame # Delta /\ i = Len(view'.live) /\ view'.live[i] = frame
    BY <1>6, <1>7, <2>4
  <2>5. Shown'
    <3>1. \A i \in DOMAIN view'.live :
            /\ view'.live[i].session = view'.label
            /\ view'.live[i].seq <= Len(log'[view'.label])
      BY <1>1, <1>2, <1>7, <1>9, <2>1, <2>4 DEF IInv, Alone, Shown
    <3>2. InOrder(view'.live)
      <4> SUFFICES ASSUME NEW i \in DOMAIN view'.live, NEW j \in DOMAIN view'.live, i < j,
                          view'.live[i] # Delta, view'.live[j] # Delta
                   PROVE  Before(view'.live[i], view'.live[j])
        BY DEF InOrder
      <4>1. i \in DOMAIN view.live /\ view'.live[i] = view.live[i]
        BY <1>6, <1>7
      <4>2. CASE j \in DOMAIN view.live /\ view'.live[j] = view.live[j]
        BY <1>9, <4>1, <4>2 DEF IInv, Alone, Shown, InOrder
      <4>3. CASE frame # Delta /\ view'.live[j] = frame
        BY <1>2, <2>1, <4>1, <4>3
      <4> QED
        BY <2>4, <4>2, <4>3
    <3>3. view'.label = view'.of
      BY <1>7, <1>9 DEF IInv, Alone, Shown
    <3> QED
      BY <3>1, <3>2, <3>3 DEF Shown
  <2>6. \A j \in DOMAIN Tail(q) : Tail(q)[j] # Delta =>
          /\ Tail(q)[j].session = view.label /\ Tail(q)[j].seq <= Len(log[view.label])
          /\ \A i \in DOMAIN view'.live : Before(view'.live[i], Tail(q)[j])
          /\ \A f \in owed : f.session = view.label => Before(Tail(q)[j], f)
    <3> SUFFICES ASSUME NEW j \in DOMAIN Tail(q), Tail(q)[j] # Delta
                 PROVE  /\ Tail(q)[j].session = view.label
                        /\ Tail(q)[j].seq <= Len(log[view.label])
                        /\ \A i \in DOMAIN view'.live : Before(view'.live[i], Tail(q)[j])
                        /\ \A f \in owed : f.session = view.label => Before(Tail(q)[j], f)
      OBVIOUS
    <3>1. j + 1 \in DOMAIN q /\ 1 < j + 1 /\ Tail(q)[j] = q[j + 1]
      BY <1>2
    <3>2. frame # Delta => Before(frame, q[j + 1])
      BY <1>2, <2>1, <3>1 DEF InOrder
    <3> QED
      BY <2>1, <2>4, <3>1, <3>2
  <2>7. InOrder(Tail(q))
    BY <1>2, <2>1 DEF InOrder
  <2>8. \A i \in DOMAIN view'.live : \A f \in owed :
          f.session = view.label => Before(view'.live[i], f)
    BY <1>2, <2>1, <2>4
  <2>9. Connected'
    <3>1. \A k \in Loads : conn'[k].pc # "closed" => k = l
      BY <1>5, <2>2
    <3> QED
      BY <1>1, <1>3, <1>5, <1>7, <2>1, <2>6, <2>7, <2>8, <3>1 DEF Connected
  <2> QED
    BY <2>3, <2>5, <2>9 DEF Alone
<1> QED
  BY <1>1, <1>8, <1>9 DEF IInv

-----------------------------------------------------------------------------
LEMMA Step == ASSUME IInv, [Next]_vars PROVE IInv'
<1>1. CASE UNCHANGED vars
  BY <1>1 DEF vars, IInv, Types, Owed, Aimed, Alone, OneLoad, Shown, Connected, Loading
<1>2. CASE Next
  BY <1>2, AppendStep, BroadcastStep, DeltaStep, OpenStep, LoadStep, ShowStep,
     SubscribeStep, EndStep, DeliverStep DEF Next
<1> QED
  BY <1>1, <1>2

\* The inductive invariant: as long as no two loads overlap, there is at most
\* one connection, that of the view, and what it has passed on, what it has
\* queued and what is still to be broadcast follow each other.
THEOREM Invariance == Spec => []IInv
  BY Initially, Step, PTL DEF Spec

\* Type correctness; in particular no channel ever keeps more than its capacity
\* (the broadcast channel of a session, api.rs).
THEOREM TypeCorrect == Spec => []TypeOK
<1>1. IInv => TypeOK
  BY DEF IInv, Types, TypeOK, LoadState, Conn, View
<1> QED
  BY <1>1, Invariance, PTL

\* Unless the human opens a session while another loads, the view shows live
\* the events of the session it says it shows, and none of them twice, however
\* appends race and readers lag (append_event, stream, loadSession).
THEOREM OneSessionShown == Spec => []OneSession
<1>1. ASSUME IInv PROVE OneSession
  <2> SUFFICES ASSUME ~overlap
               PROVE  /\ view.label = view.of
                      /\ \A i \in DOMAIN view.live : view.live[i].session = view.label
                      /\ \A i, j \in DOMAIN view.live :
                           i # j => view.live[i].seq # view.live[j].seq
    BY DEF OneSession
  <2>1. Shown
    BY <1>1 DEF IInv, Alone
  <2>2. \A i \in DOMAIN view.live : i \in Nat /\ view.live[i] # Delta
    <3>1. view.live \in Seq(Frame)
      BY <1>1 DEF IInv, Types, View
    <3> QED
      BY <3>1, DeltaNoFrame
  <2>3. \A i, j \in DOMAIN view.live : i # j => i < j \/ j < i
    BY <2>2
  <2> QED
    BY <2>1, <2>2, <2>3 DEF Shown, InOrder, Before
<1> QED
  BY <1>1, Invariance, PTL

\* Over one stream the events of one task arrive in the order of the ledger,
\* although appends that race are broadcast in any order.
THEOREM TaskOrderKept == Spec => []TaskOrder
<1>1. ASSUME IInv PROVE TaskOrder
  <2> SUFFICES ASSUME ~overlap, NEW i \in DOMAIN view.live, NEW j \in DOMAIN view.live,
                      i < j, view.live[i].by = view.live[j].by
               PROVE  view.live[i].seq < view.live[j].seq
    BY DEF TaskOrder
  <2>1. view.live[i] # Delta /\ view.live[j] # Delta
    <3>1. view.live \in Seq(Frame)
      BY <1>1 DEF IInv, Types, View
    <3> QED
      BY <3>1, DeltaNoFrame
  <2> QED
    BY <1>1, <2>1 DEF IInv, Alone, Shown, InOrder, Before
<1> QED
  BY <1>1, Invariance, PTL

=============================================================================
