-------------------------- MODULE DelegationProofs --------------------------
(***************************************************************************)
(* What Delegation says of any number of subagents, requests and turns: a  *)
(* dispatch is whole or has not happened, and what a subagent answers is   *)
(* reported to its parent once.                                            *)
(***************************************************************************)
EXTENDS Delegation, FiniteSetTheorems, TLAPS

Existing == {Root} \cup created

\* Turns are of sessions that exist; who runs as a subagent has a parent.
Known ==
  /\ \A t \in Spawned :
       /\ turn[t].session \in Existing
       /\ turn[t].sub => turn[t].session \in Children /\ parent[turn[t].session] # None
  /\ \A c \in Children :
       parent[c] # None => c \in created /\ parent[c] \in Existing \ {c}

\* The rest of a script, from any of its steps.
DispatchRest ==
  {Dispatch, <<"meta", "dispatch", "append", "spawn">>, <<"dispatch", "append", "spawn">>,
   <<"append", "spawn">>, <<"spawn">>}
WakeRest ==
  {Wake, <<"ifIdle", "ifUnpaused", "spawn">>, <<"ifUnpaused", "spawn">>, <<"spawn">>}

\* The tools and the report that a turn may be in the middle of.
DispatchesOf(t, c) ==
  /\ turn[t].pc = "loop" /\ ~turn[t].sub
  /\ aim[t] = About(c, "message", "orchestrator")
  /\ todo[t] \in DispatchRest

Dispatches(t) == \E c \in created : turn[t].session # c /\ DispatchesOf(t, c)

Steers(t) ==
  /\ turn[t].pc = "loop" /\ ~turn[t].sub
  /\ \E c \in created : aim[t] = About(c, "steer", "orchestrator")
  /\ todo[t] \in WakeRest

Reports(t) ==
  /\ turn[t].pc = "done" /\ turn[t].sub
  /\ aim[t] = About(parent[turn[t].session], "message", turn[t].session)
  /\ todo[t] \in WakeRest

\* What the tasks are at: a request never touches a child's birth, and a turn
\* is in one of its scripts.
AtWork ==
  /\ \A r \in Requests :
       todo[r] # <<>> =>
         /\ \A i \in DOMAIN todo[r] : todo[r][i] \notin {"worktree", "meta", "dispatch"}
         /\ \E s \in Existing, op \in AllOps : aim[r] = About(s, op, "human")
  /\ \A t \in Turns :
       todo[t] # <<>> => t \in Spawned /\ (Dispatches(t) \/ Steers(t) \/ Reports(t))

\* Events are by turns that were spawned, or by the human.
Authored ==
  \A s \in Sessions : \A i \in DOMAIN ledger[s] :
    IF ledger[s][i].by = 0 THEN ledger[s][i].actor = "human"
    ELSE ledger[s][i].by \in Spawned

One(S) == \E i : S = {i}

\* A subagent's turn writes one message to its own ledger when it ends, and one
\* to its parent's when it has taken the first step of the report.
Silent(t) == \A s \in Sessions : MessagesBy(t, s) = {}

AnsweredTo(t, c, p) ==
  /\ One(MessagesBy(t, c))
  /\ IF todo[t] = Wake THEN MessagesBy(t, p) = {} ELSE One(MessagesBy(t, p))

Answered ==
  \A t \in Spawned :
    /\ turn[t].pc = "ready" \/ (turn[t].sub /\ turn[t].pc # "done") => Silent(t)
    /\ turn[t].sub /\ turn[t].pc = "done" =>
         \A c \in Children, p \in Sessions :
           turn[t].session = c /\ parent[c] = p => AnsweredTo(t, c, p)

Bare(c) == parent[c] = None /\ ~Dispatched(c) /\ ~Briefed(c)

Made(c) ==
  /\ parent[c] # None /\ Dispatched(c) /\ Briefed(c)
  /\ \E t \in Spawned : turn[t].session = c

\* What the dispatch of c by t has done so far.
Stage(t, c) ==
  CASE Head(todo[t]) \in {"worktree", "meta"} -> Bare(c)
    [] Head(todo[t]) = "dispatch" -> parent[c] # None
    [] Head(todo[t]) = "append"   -> parent[c] # None /\ Dispatched(c)
    [] Head(todo[t]) = "spawn"    -> parent[c] # None /\ Dispatched(c) /\ Briefed(c)

Birth ==
  \A c \in Children :
    /\ c \notin created => Bare(c)
    /\ \A t, u \in Spawned : DispatchesOf(t, c) /\ DispatchesOf(u, c) => t = u
    /\ \A t \in Spawned : DispatchesOf(t, c) => Stage(t, c)
    /\ (\E t \in Spawned : DispatchesOf(t, c)) \/ Bare(c) \/ Made(c)

Types ==
  /\ ledger \in [Sessions -> Seq(Event)]
  /\ created \subseteq Children
  /\ parent \in [Children -> Sessions \cup {None}]
  /\ paused \in [Sessions -> BOOLEAN]
  /\ slot \in [Sessions -> Spawned \cup {0}]
  /\ turn \in Seq(Turn) /\ Len(turn) <= MaxTurns
  /\ todo \in [Tasks -> Seq(Steps)]
  /\ aim \in [Tasks -> Aim \cup {None}]
  /\ heard \in [Sessions -> SUBSET Nat]
  /\ \A s \in Sessions : heard[s] \subseteq DOMAIN ledger[s]

IInv == Types /\ Known /\ AtWork /\ Authored /\ Answered /\ Birth

-----------------------------------------------------------------------------
(* The frame of a step.                                                    *)

\* No turn is forgotten or changes its session.
Settled ==
  \A t \in Spawned : t \in Spawned' /\ turn'[t].session = turn[t].session

\* Turns keep how they run and where they are.
Still ==
  \A t \in Spawned :
    /\ t \in Spawned' /\ turn'[t].session = turn[t].session
    /\ turn'[t].sub = turn[t].sub /\ turn'[t].pc = turn[t].pc

\* Only turn t changes, to new.
Changed(t, new) ==
  /\ Spawned' = Spawned /\ turn'[t] = new
  /\ \A u \in Spawned \ {t} : turn'[u] = turn[u]

\* Events are never lost or rewritten.
Grown ==
  \A s \in Sessions : \A i \in DOMAIN ledger[s] :
    i \in DOMAIN ledger'[s] /\ ledger'[s][i] = ledger[s][i]

\* Only event e is new, on session s.
Logged(s, e) ==
  /\ DOMAIN ledger'[s] = DOMAIN ledger[s] \cup {Len(ledger[s]) + 1}
  /\ Len(ledger[s]) + 1 \notin DOMAIN ledger[s]
  /\ ledger'[s][Len(ledger[s]) + 1] = e
  /\ \A i \in DOMAIN ledger[s] : ledger'[s][i] = ledger[s][i]
  /\ \A r \in Sessions \ {s} : ledger'[r] = ledger[r]

\* Task x leaves its script as q, and the others theirs as they were.
Leaves(x, q) == todo'[x] = q /\ \A y \in Tasks \ {x} : todo'[y] = todo[y]

\* Task x has taken a step of its script, or given it up, or not even that.
Advances(x, q) ==
  /\ Leaves(x, q)
  /\ q = todo[x] \/ q = <<>> \/ (todo[x] # <<>> /\ q = Tail(todo[x]))

\* Turns are spawned, and begin later.
Fresh == \A t \in Spawned' \ Spawned : turn'[t].pc = "ready"

\* Turns are tasks, and no requests.
LEMMA SpawnedTurns ==
  ASSUME Types
  PROVE  /\ Spawned \subseteq Turns
         /\ \A t \in Spawned : turn[t] \in Turn
<1>1. turn \in Seq(Turn) /\ Len(turn) <= MaxTurns
  BY DEF Types
<1>2. Spawned = 1 .. Len(turn) /\ Len(turn) \in Nat
  BY <1>1 DEF Spawned
<1> QED BY <1>1, <1>2, DelegationAssumption DEF DelegationAssumption, Turns

LEMMA SpawnedNext ==
  ASSUME Types'
  PROVE  /\ Spawned' \subseteq Turns
         /\ \A t \in Spawned' : turn'[t] \in Turn
<1>1. turn' \in Seq(Turn) /\ Len(turn') <= MaxTurns
  BY DEF Types
<1>2. Spawned' = 1 .. Len(turn') /\ Len(turn') \in Nat
  BY <1>1 DEF Spawned
<1> QED BY <1>1, <1>2, DelegationAssumption DEF DelegationAssumption, Turns

LEMMA TasksApart ==
  /\ Requests \cap Turns = {} /\ 0 \notin Turns /\ Turns \subseteq Tasks
  /\ Requests \subseteq Tasks /\ Tasks = Requests \cup Turns
  BY DelegationAssumption DEF DelegationAssumption, Turns, Tasks

LEMMA SessionsApart ==
  /\ None \notin Sessions /\ Children \subseteq Sessions /\ Root \in Sessions
  /\ Root \notin Children
  /\ \A c \in Children : c \notin {"human", "orchestrator", "system"}
  BY DelegationAssumption DEF DelegationAssumption, Sessions

\* An appended event is all that changes on the ledgers.
LEMMA LogStep ==
  ASSUME Types, NEW s \in Sessions, NEW e \in Event,
         ledger' = [ledger EXCEPT ![s] = Append(@, e)]
  PROVE  /\ Logged(s, e) /\ Grown
         /\ ledger' \in [Sessions -> Seq(Event)]
         /\ \A r \in Sessions : DOMAIN ledger[r] \subseteq DOMAIN ledger'[r]
<1>1. ledger \in [Sessions -> Seq(Event)]
  BY DEF Types
<1>2. ledger[s] \in Seq(Event) /\ ledger'[s] = Append(ledger[s], e)
  BY <1>1
<1>3. \A r \in Sessions \ {s} : ledger'[r] = ledger[r]
  BY <1>1
<1>4. /\ DOMAIN ledger[s] = 1 .. Len(ledger[s]) /\ Len(ledger[s]) \in Nat
      /\ DOMAIN ledger'[s] = 1 .. Len(ledger[s]) + 1
      /\ \A i \in DOMAIN ledger[s] : ledger'[s][i] = ledger[s][i]
      /\ ledger'[s][Len(ledger[s]) + 1] = e
      /\ ledger'[s] \in Seq(Event)
  BY <1>2
<1>5. /\ DOMAIN ledger'[s] = DOMAIN ledger[s] \cup {Len(ledger[s]) + 1}
      /\ Len(ledger[s]) + 1 \notin DOMAIN ledger[s]
  BY <1>4
<1>6. Logged(s, e)
  BY <1>3, <1>4, <1>5 DEF Logged
<1>7. Grown /\ \A r \in Sessions : DOMAIN ledger[r] \subseteq DOMAIN ledger'[r]
  BY <1>3, <1>4, <1>5 DEF Grown
<1>8. ledger' \in [Sessions -> Seq(Event)]
  BY <1>1, <1>4
<1> QED BY <1>6, <1>7, <1>8

\* What a logged event adds to the messages of a turn on a session.
LEMMA LoggedMessages ==
  ASSUME NEW s \in Sessions, NEW e \in Event, Logged(s, e), NEW t, NEW r \in Sessions
  PROVE  /\ ~(r = s /\ e.kind = "message" /\ e.by = t) =>
              MessagesBy(t, r)' = MessagesBy(t, r)
         /\ r = s /\ e.kind = "message" /\ e.by = t /\ MessagesBy(t, r) = {} =>
              One(MessagesBy(t, r)')
<1>1. CASE r # s
  BY <1>1 DEF Logged, MessagesBy
<1>2. CASE r = s
  <2> DEFINE n == Len(ledger[s]) + 1
  <2>1. MessagesBy(t, s)' =
          MessagesBy(t, s) \cup (IF e.kind = "message" /\ e.by = t THEN {n} ELSE {})
    BY DEF Logged, MessagesBy
  <2> QED BY <1>2, <2>1 DEF One
<1> QED BY <1>1, <1>2

-----------------------------------------------------------------------------
(* What keeps each conjunct.                                               *)

LEMMA KnownKept ==
  ASSUME Known, Settled, created \subseteq created', parent' = parent,
         \A t \in Spawned : turn'[t].sub = turn[t].sub,
         \A t \in Spawned' \ Spawned : turn'[t].session \in Existing' /\ ~turn'[t].sub
  PROVE  Known'
<1>1. Existing \subseteq Existing'
  BY DEF Existing
<1>2. ASSUME NEW t \in Spawned'
      PROVE  /\ turn'[t].session \in Existing'
             /\ turn'[t].sub => turn'[t].session \in Children
                                /\ parent'[turn'[t].session] # None
  BY <1>1, <1>2 DEF Known, Settled
<1>3. ASSUME NEW c \in Children, parent'[c] # None
      PROVE  c \in created' /\ parent'[c] \in Existing' \ {c}
  BY <1>1, <1>3 DEF Known
<1> QED BY <1>2, <1>3 DEF Known

LEMMA AuthoredKept ==
  ASSUME Authored, Spawned \subseteq Spawned', Spawned' \subseteq Turns,
         \A s \in Sessions : \A i \in DOMAIN ledger'[s] :
           \/ i \in DOMAIN ledger[s] /\ ledger'[s][i] = ledger[s][i]
           \/ ledger'[s][i].by \in Spawned'
           \/ ledger'[s][i].by = 0 /\ ledger'[s][i].actor = "human"
  PROVE  Authored'
<1>1. 0 \notin Spawned'
  BY TasksApart
<1> SUFFICES ASSUME NEW s \in Sessions, NEW i \in DOMAIN ledger'[s]
             PROVE  IF ledger'[s][i].by = 0 THEN ledger'[s][i].actor = "human"
                    ELSE ledger'[s][i].by \in Spawned'
  BY DEF Authored
<1>2. CASE i \in DOMAIN ledger[s] /\ ledger'[s][i] = ledger[s][i]
  BY <1>2 DEF Authored
<1>3. CASE ledger'[s][i].by \in Spawned'
  BY <1>1, <1>3
<1>4. CASE ledger'[s][i].by = 0 /\ ledger'[s][i].actor = "human"
  BY <1>4
<1> QED BY <1>2, <1>3, <1>4

\* An event is a brief when it is logged or never.
LEMMA BriefKept ==
  ASSUME Authored, Grown, Settled, NEW c \in Children, NEW i \in DOMAIN ledger[c]
  PROVE  /\ i \in DOMAIN ledger'[c]
         /\ IsBrief(c, i) => IsBrief(c, i)'
         /\ IsBrief(c, i)' => IsBrief(c, i)
<1>1. c \in Sessions
  BY SessionsApart
<1>2. i \in DOMAIN ledger'[c] /\ ledger'[c][i] = ledger[c][i]
  BY <1>1 DEF Grown
<1>3. ASSUME ledger[c][i].actor = "orchestrator"
      PROVE  turn'[ledger[c][i].by].session = turn[ledger[c][i].by].session
  BY <1>1, <1>3 DEF Authored, Settled
<1> QED BY <1>2, <1>3 DEF IsBrief

LEMMA BornKept ==
  ASSUME Authored, Grown, Settled, NEW c \in Children
  PROVE  /\ Dispatched(c) => Dispatched(c)'
         /\ Briefed(c) => Briefed(c)'
         /\ Made(c) /\ parent'[c] # None => Made(c)'
<1>1. Dispatched(c) => Dispatched(c)'
  BY DEF Dispatched, Grown
<1>2. Briefed(c) => Briefed(c)'
  BY BriefKept DEF Briefed
<1> QED BY <1>1, <1>2 DEF Made, Settled

LEMMA BareKept ==
  ASSUME Authored, Grown, Settled, NEW c \in Children, parent'[c] = parent[c], Bare(c),
         \A r \in Sessions : \A i \in DOMAIN ledger'[r] \ DOMAIN ledger[r] :
           ledger'[r][i].child # c /\ ~(r = c /\ IsBrief(c, i)')
  PROVE  Bare(c)'
<1>1. ~Dispatched(c)'
  BY DEF Bare, Dispatched, Grown
<1>2. ~Briefed(c)'
  BY BriefKept, SessionsApart DEF Bare, Briefed
<1> QED BY <1>1, <1>2 DEF Bare

\* At a step that dispatches no one.
LEMMA BirthKept ==
  ASSUME Birth, created' = created,
         \A c \in Children :
           /\ \A t \in Spawned' : DispatchesOf(t, c)' => t \in Spawned /\ DispatchesOf(t, c)
           /\ \A t \in Spawned : DispatchesOf(t, c) =>
                \/ Bare(c)' \/ Made(c)'
                \/ t \in Spawned' /\ DispatchesOf(t, c)'
           /\ \A t \in Spawned :
                DispatchesOf(t, c) /\ DispatchesOf(t, c)' /\ Stage(t, c) => Stage(t, c)'
           /\ Bare(c) => \/ Bare(c)'
                         \/ c \in created /\ \E t \in Spawned' : DispatchesOf(t, c)'
           /\ Made(c) => Made(c)'
  PROVE  Birth'
  BY DEF Birth

-----------------------------------------------------------------------------
(* Scripts.                                                                *)

LEMMA DispatchScripts ==
  \A q \in DispatchRest :
    /\ q # <<>> /\ q \in Seq(Steps) /\ q # Wake
    /\ Head(q) \in {"worktree", "meta", "dispatch", "append", "spawn"}
    /\ Head(q) = "spawn" => Tail(q) = <<>>
    /\ Head(q) # "spawn" => Tail(q) \in DispatchRest
    /\ Head(q) = "worktree" => Head(Tail(q)) = "meta"
    /\ Head(q) = "meta" => Head(Tail(q)) = "dispatch"
    /\ Head(q) = "dispatch" => Head(Tail(q)) = "append"
    /\ Head(q) = "append" => Head(Tail(q)) = "spawn"
<1> DEFINE a == <<"worktree", "meta", "dispatch", "append", "spawn">>
           b == <<"meta", "dispatch", "append", "spawn">>
           c == <<"dispatch", "append", "spawn">>
           d == <<"append", "spawn">>
           e == <<"spawn">>
<1>1. DispatchRest = {a, b, c, d, e}
  BY DEF DispatchRest, Dispatch
<1>2. a # <<>> /\ a \in Seq(Steps) /\ Head(a) = "worktree" /\ Tail(a) = b
  BY DEF Steps
<1>3. b # <<>> /\ b \in Seq(Steps) /\ Head(b) = "meta" /\ Tail(b) = c
  BY DEF Steps
<1>4. c # <<>> /\ c \in Seq(Steps) /\ Head(c) = "dispatch" /\ Tail(c) = d
  BY DEF Steps
<1>5. d # <<>> /\ d \in Seq(Steps) /\ Head(d) = "append" /\ Tail(d) = e
  BY DEF Steps
<1>6. e # <<>> /\ e \in Seq(Steps) /\ Head(e) = "spawn" /\ Tail(e) = <<>>
  BY DEF Steps
<1>7. Wake \notin {a, b, c, d, e}
  <2>1. Head(Wake) = "append" /\ Len(Wake) = 4 /\ Len(d) = 2
    BY DEF Wake
  <2> QED BY <2>1, <1>2, <1>3, <1>4, <1>5, <1>6
<1> HIDE DEF a, b, c, d, e
<1> QED BY <1>1, <1>2, <1>3, <1>4, <1>5, <1>6, <1>7

LEMMA WakeScripts ==
  \A q \in WakeRest :
    /\ q # <<>> /\ q \in Seq(Steps)
    /\ Head(q) \in {"append", "ifIdle", "ifUnpaused", "spawn"}
    /\ Head(q) = "append" <=> q = Wake
    /\ Head(q) = "spawn" => Tail(q) = <<>>
    /\ Head(q) # "spawn" => Tail(q) \in WakeRest
    /\ Tail(q) # Wake
<1> DEFINE b == <<"ifIdle", "ifUnpaused", "spawn">>
           c == <<"ifUnpaused", "spawn">>
           d == <<"spawn">>
<1>1. WakeRest = {Wake, b, c, d}
  BY DEF WakeRest
<1>2. Wake # <<>> /\ Wake \in Seq(Steps) /\ Head(Wake) = "append" /\ Tail(Wake) = b
  BY DEF Wake, Steps
<1>3. b # <<>> /\ b \in Seq(Steps) /\ Head(b) = "ifIdle" /\ Tail(b) = c /\ c # Wake /\ b # Wake
  <2>1. Head(b) = "ifIdle" /\ Head(c) = "ifUnpaused"
    OBVIOUS
  <2> QED BY <2>1, <1>2 DEF Steps
<1>4. c # <<>> /\ c \in Seq(Steps) /\ Head(c) = "ifUnpaused" /\ Tail(c) = d /\ d # Wake
  <2>1. Head(d) = "spawn"
    OBVIOUS
  <2> QED BY <2>1, <1>2 DEF Steps
<1>5. d # <<>> /\ d \in Seq(Steps) /\ Head(d) = "spawn" /\ Tail(d) = <<>>
  BY DEF Steps
<1>6. <<>> # Wake
  BY <1>2
<1> HIDE DEF b, c, d
<1> QED BY <1>1, <1>2, <1>3, <1>4, <1>5, <1>6

\* The sort of work a turn with steps left is at.
LEMMA TurnAtWork ==
  ASSUME IInv, NEW x \in Turns, todo[x] # <<>>
  PROVE  /\ x \in Spawned /\ turn[x] \in Turn /\ x \notin Requests /\ x # 0
         /\ turn[x].pc \in {"loop", "done"}
         /\ \/ /\ ~turn[x].sub /\ todo[x] \in DispatchRest
               /\ \E c \in created : turn[x].session # c /\ DispatchesOf(x, c)
            \/ /\ ~turn[x].sub /\ todo[x] \in WakeRest /\ turn[x].pc = "loop"
               /\ \E c \in created : aim[x] = About(c, "steer", "orchestrator")
            \/ /\ turn[x].sub /\ todo[x] \in WakeRest /\ turn[x].pc = "done"
               /\ aim[x] = About(parent[turn[x].session], "message", turn[x].session)
<1>1. x \in Spawned /\ (Dispatches(x) \/ Steers(x) \/ Reports(x))
  BY DEF IInv, AtWork
<1>2. turn[x] \in Turn /\ x \notin Requests /\ x # 0
  BY <1>1, SpawnedTurns, TasksApart DEF IInv
<1> QED BY <1>1, <1>2 DEF Dispatches, Steers, Reports, DispatchesOf

LEMMA DispatchFrame ==
  ASSUME NEW t \in Spawned, NEW c, Still, aim'[t] = aim[t], todo'[t] = todo[t]
  PROVE  DispatchesOf(t, c) <=> DispatchesOf(t, c)'
  BY DEF DispatchesOf, Still

\* A turn dispatches one child.
LEMMA OneChild ==
  ASSUME NEW t, NEW c, NEW d, DispatchesOf(t, c), DispatchesOf(t, d)
  PROVE  c = d
<1>1. About(c, "message", "orchestrator").session = About(d, "message", "orchestrator").session
  BY DEF DispatchesOf
<1> QED BY <1>1 DEF About

\* Parents that are known stay.
Adopted ==
  \A c \in Children : parent[c] # None => parent'[c] = parent[c]

\* A task that takes a step of its script, or gives it up.
LEMMA AtWorkKept ==
  ASSUME IInv, Still, Adopted, created' = created, aim' = aim,
         NEW x \in Tasks, NEW q, Advances(x, q)
  PROVE  AtWork'
<1>1. ASSUME NEW r \in Requests, todo'[r] # <<>>
      PROVE  /\ \A i \in DOMAIN todo'[r] : todo'[r][i] \notin {"worktree", "meta", "dispatch"}
             /\ \E s \in Existing', op \in AllOps : aim'[r] = About(s, op, "human")
  <2>1. r \in Tasks /\ todo[r] \in Seq(Steps)
    BY TasksApart DEF IInv, Types
  <2>2. todo'[r] = todo[r] \/ (todo[r] # <<>> /\ todo'[r] = Tail(todo[r]))
    BY <1>1, <2>1 DEF Advances, Leaves
  <2>3. todo[r] # <<>>
    BY <1>1, <2>2
  <2>4. /\ \A i \in DOMAIN todo[r] : todo[r][i] \notin {"worktree", "meta", "dispatch"}
        /\ \E s \in Existing, op \in AllOps : aim[r] = About(s, op, "human")
    BY <2>3 DEF IInv, AtWork
  <2>5. ASSUME NEW i \in DOMAIN todo'[r]
        PROVE  todo'[r][i] \notin {"worktree", "meta", "dispatch"}
    <3>1. CASE todo'[r] = todo[r]
      BY <3>1, <2>4, <2>5
    <3>2. CASE todo'[r] = Tail(todo[r])
      <4>1. i + 1 \in DOMAIN todo[r] /\ todo'[r][i] = todo[r][i + 1]
        BY <3>2, <2>1, <2>3, <2>5
      <4> QED BY <4>1, <2>4
    <3> QED BY <2>2, <3>1, <3>2
  <2> QED BY <2>4, <2>5 DEF Existing
<1>2. ASSUME NEW t \in Turns, todo'[t] # <<>>
      PROVE  t \in Spawned' /\ (Dispatches(t)' \/ Steers(t)' \/ Reports(t)')
  <2>1. todo'[t] = todo[t] \/ (todo[t] # <<>> /\ todo'[t] = Tail(todo[t]))
    BY <1>2, TasksApart DEF Advances, Leaves
  <2>2. todo[t] # <<>>
    BY <1>2, <2>1
  <2>3. /\ t \in Spawned' /\ turn'[t].session = turn[t].session
        /\ turn'[t].sub = turn[t].sub /\ turn'[t].pc = turn[t].pc /\ aim'[t] = aim[t]
    BY <2>2, TurnAtWork DEF Still
  <2>4. CASE /\ ~turn[t].sub /\ todo[t] \in DispatchRest
             /\ \E c \in created : turn[t].session # c /\ DispatchesOf(t, c)
    <3>1. PICK c \in created : turn[t].session # c /\ DispatchesOf(t, c)
      BY <2>4
    <3>2. todo'[t] \in DispatchRest
      BY <2>1, <2>4, <1>2, DispatchScripts
    <3>3. DispatchesOf(t, c)'
      BY <3>1, <3>2, <2>3 DEF DispatchesOf
    <3> QED BY <3>1, <3>3, <2>3 DEF Dispatches
  <2>5. CASE /\ ~turn[t].sub /\ todo[t] \in WakeRest /\ turn[t].pc = "loop"
             /\ \E c \in created : aim[t] = About(c, "steer", "orchestrator")
    <3>1. todo'[t] \in WakeRest
      BY <2>1, <2>5, <1>2, WakeScripts
    <3> QED BY <3>1, <2>3, <2>5 DEF Steers
  <2>6. CASE turn[t].sub
    <3>1. /\ todo[t] \in WakeRest /\ turn[t].pc = "done"
          /\ aim[t] = About(parent[turn[t].session], "message", turn[t].session)
      BY <2>2, <2>6, TurnAtWork
    <3>2. todo'[t] \in WakeRest
      BY <2>1, <3>1, <1>2, WakeScripts
    <3>3. t \in Spawned
      BY <2>2, TurnAtWork
    <3>4. parent'[turn[t].session] = parent[turn[t].session]
      BY <2>6, <3>3 DEF Adopted, IInv, Known
    <3> QED BY <3>1, <3>2, <3>4, <2>3, <2>6 DEF Reports
  <2> QED BY <2>2, <2>3, <2>4, <2>5, <2>6, TurnAtWork
<1> QED BY <1>1, <1>2 DEF AtWork

\* The answers, when no turn moves.
LEMMA AnsweredHub ==
  ASSUME IInv, Still, Fresh, Adopted, Types',
         \A t \in Spawned' :
           /\ Silent(t)
           /\ \/ t \notin Spawned
              \/ turn[t].pc = "ready" \/ (turn[t].sub /\ turn[t].pc # "done")
           => Silent(t)',
         \A t \in Spawned : \A c \in Children, p \in Sessions :
           /\ turn[t].sub /\ turn[t].pc = "done"
           /\ turn[t].session = c /\ parent[c] = p /\ AnsweredTo(t, c, p)
           => AnsweredTo(t, c, p)'
  PROVE  Answered'
<1> SUFFICES ASSUME NEW t \in Spawned'
             PROVE  /\ turn'[t].pc = "ready" \/ (turn'[t].sub /\ turn'[t].pc # "done") =>
                         Silent(t)'
                    /\ turn'[t].sub /\ turn'[t].pc = "done" =>
                         \A c \in Children, p \in Sessions :
                           turn'[t].session = c /\ parent'[c] = p => AnsweredTo(t, c, p)'
  BY DEF Answered
<1>1. CASE t \notin Spawned
  <2>1. t \in Turns /\ t # 0
    BY SpawnedNext, TasksApart
  <2>2. Silent(t)
    BY <2>1, <1>1 DEF Silent, MessagesBy, IInv, Authored
  <2> QED BY <1>1, <2>2 DEF Fresh
<1>2. CASE t \in Spawned
  <2>1. /\ turn'[t].session = turn[t].session /\ turn'[t].sub = turn[t].sub
        /\ turn'[t].pc = turn[t].pc
    BY <1>2 DEF Still
  <2>2. CASE turn[t].pc = "ready" \/ (turn[t].sub /\ turn[t].pc # "done")
    BY <1>2, <2>1, <2>2 DEF IInv, Answered
  <2>3. CASE turn[t].sub /\ turn[t].pc = "done"
    <3> SUFFICES ASSUME NEW c \in Children, NEW p \in Sessions,
                        turn'[t].session = c, parent'[c] = p
                 PROVE  AnsweredTo(t, c, p)'
      BY <2>1, <2>3
    <3>1. parent[c] # None
      BY <1>2, <2>1, <2>3 DEF IInv, Known
    <3>2. parent[c] = p
      BY <3>1 DEF Adopted
    <3>3. AnsweredTo(t, c, p)
      BY <1>2, <2>1, <2>3, <3>2 DEF IInv, Answered
    <3> QED BY <1>2, <2>1, <2>3, <3>2, <3>3
  <2> QED BY <2>1, <2>2, <2>3
<1> QED BY <1>1, <1>2

\* The same, when no subagent reports.
LEMMA AnsweredKept ==
  ASSUME IInv, Still, Fresh, Adopted, Types',
         NEW x \in Tasks, NEW q, Leaves(x, q),
         x \in Requests \/ ~turn[x].sub \/ q = todo[x] \/ (todo[x] # Wake /\ q # Wake),
         \A t \in Spawned' : \A s \in Sessions :
           t \notin Spawned \/ turn[t].pc = "ready" \/ turn[t].sub =>
             MessagesBy(t, s)' = MessagesBy(t, s)
  PROVE  Answered'
<1>1. ASSUME NEW t \in Spawned', Silent(t),
             t \notin Spawned \/ turn[t].pc = "ready" \/ (turn[t].sub /\ turn[t].pc # "done")
      PROVE  Silent(t)'
  BY <1>1 DEF Silent
<1>2. ASSUME NEW t \in Spawned, NEW c \in Children, NEW p \in Sessions,
             turn[t].sub, AnsweredTo(t, c, p)
      PROVE  AnsweredTo(t, c, p)'
  <2>1. MessagesBy(t, c)' = MessagesBy(t, c) /\ MessagesBy(t, p)' = MessagesBy(t, p)
    BY <1>2, SessionsApart DEF Still
  <2>2. todo'[t] = Wake <=> todo[t] = Wake
    BY <1>2, SpawnedTurns, TasksApart DEF Leaves, IInv
  <2> QED BY <1>2, <2>1, <2>2 DEF AnsweredTo
<1> QED BY <1>1, <1>2, AnsweredHub

\* The rest of a turn's script never starts over.
LEMMA NoWakeAgain ==
  ASSUME IInv, NEW x \in Turns, todo[x] # <<>>
  PROVE  Tail(todo[x]) # Wake /\ <<>> # Wake
<1>1. <<>> # Wake
  <2>1. Wake \in WakeRest
    BY DEF WakeRest
  <2> QED BY <2>1, WakeScripts
<1>2. todo[x] \in DispatchRest \/ todo[x] \in WakeRest
  BY TurnAtWork
<1>3. CASE todo[x] \in DispatchRest
  <2>1. Tail(todo[x]) = <<>> \/ Tail(todo[x]) \in DispatchRest
    BY <1>3, DispatchScripts
  <2>2. \A r \in DispatchRest : r # Wake
    BY DispatchScripts
  <2> QED BY <1>1, <2>1, <2>2
<1>4. CASE todo[x] \in WakeRest
  BY <1>1, <1>4, WakeScripts
<1> QED BY <1>1, <1>2, <1>3, <1>4

LEMMA DispatchBack ==
  ASSUME IInv, Still, Fresh, aim' = aim, NEW x \in Tasks, NEW q, Advances(x, q),
         NEW c, NEW t \in Spawned', DispatchesOf(t, c)'
  PROVE  t \in Spawned /\ DispatchesOf(t, c)
<1>1. t \in Spawned
  BY DEF Fresh, DispatchesOf
<1>2. t \in Turns /\ t \in Tasks
  BY <1>1, SpawnedTurns, TasksApart DEF IInv
<1>3. CASE todo'[t] = todo[t]
  BY <1>1, <1>3, DispatchFrame
<1>4. CASE todo'[t] # todo[t]
  <2>1. t = x /\ todo'[t] # <<>>
    BY <1>2, <1>4, DispatchScripts DEF Leaves, Advances, DispatchesOf
  <2>2. todo[t] # <<>>
    BY <1>4, <2>1 DEF Leaves, Advances
  <2>3. /\ turn[t].pc = "loop" /\ ~turn[t].sub
        /\ aim[t] = About(c, "message", "orchestrator")
    BY <1>1 DEF DispatchesOf, Still
  <2>4. \A d : aim[t] # About(d, "steer", "orchestrator")
    BY <2>3 DEF About
  <2>5. \E d \in created : DispatchesOf(t, d)
    BY <1>2, <2>2, <2>3, <2>4, TurnAtWork
  <2> QED BY <1>1, <2>3, <2>5 DEF DispatchesOf
<1> QED BY <1>3, <1>4

LEMMA StageKept ==
  ASSUME Authored, Grown, Settled, NEW c \in Children, NEW t, todo'[t] = todo[t],
         todo[t] \in DispatchRest, Stage(t, c),
         Bare(c) => Bare(c)', parent[c] # None => parent'[c] # None
  PROVE  Stage(t, c)'
<1>1. Head(todo[t]) \in {"worktree", "meta", "dispatch", "append", "spawn"}
  BY DispatchScripts
<1> QED BY <1>1, BornKept DEF Stage

\* Of births, a step of x touches at most the one that x is at.
LEMMA BirthAdvance ==
  ASSUME IInv, Still, Fresh, Grown, Adopted, aim' = aim, created' = created,
         NEW x \in Tasks, NEW q, Advances(x, q),
         \A c \in Children :
           /\ Bare(c) => \/ Bare(c)'
                         \/ x \in Spawned /\ c \in created /\ DispatchesOf(x, c)'
           /\ x \in Spawned /\ DispatchesOf(x, c) /\ Stage(x, c) =>
                \/ DispatchesOf(x, c)' /\ Stage(x, c)'
                \/ todo'[x] = <<>> /\ (Bare(c)' \/ Made(c)')
  PROVE  Birth'
<1> SUFFICES ASSUME NEW c \in Children
             PROVE  /\ \A t \in Spawned' : DispatchesOf(t, c)' =>
                         t \in Spawned /\ DispatchesOf(t, c)
                    /\ \A t \in Spawned : DispatchesOf(t, c) =>
                         \/ Bare(c)' \/ Made(c)'
                         \/ t \in Spawned' /\ DispatchesOf(t, c)'
                    /\ \A t \in Spawned :
                         DispatchesOf(t, c) /\ DispatchesOf(t, c)' /\ Stage(t, c)
                           => Stage(t, c)'
                    /\ Bare(c) => \/ Bare(c)'
                                  \/ c \in created /\ \E t \in Spawned' : DispatchesOf(t, c)'
                    /\ Made(c) => Made(c)'
  BY BirthKept DEF IInv
<1>1. Settled
  BY DEF Settled, Still
<1>2. Made(c) => Made(c)'
  BY <1>1, BornKept DEF IInv, Made, Adopted
<1>3. \A t \in Spawned' : DispatchesOf(t, c)' => t \in Spawned /\ DispatchesOf(t, c)
  BY DispatchBack
<1>4. ASSUME NEW t \in Spawned, DispatchesOf(t, c), t # x
      PROVE  DispatchesOf(t, c)' /\ (Stage(t, c) => Stage(t, c)')
  <2>1. t \in Tasks /\ todo'[t] = todo[t] /\ todo[t] \in DispatchRest
    BY <1>4, SpawnedTurns, TasksApart DEF IInv, Advances, Leaves, DispatchesOf
  <2>2. ~(x \in Spawned /\ DispatchesOf(x, c)')
    BY <1>3, <1>4 DEF IInv, Birth, Still
  <2>3. Bare(c) => Bare(c)'
    BY <2>2
  <2> QED BY <1>1, <1>4, <2>1, <2>3, DispatchFrame, StageKept DEF IInv, Adopted
<1>5. ASSUME x \in Spawned, DispatchesOf(x, c)
      PROVE  /\ Bare(c)' \/ Made(c)' \/ DispatchesOf(x, c)'
             /\ DispatchesOf(x, c)' /\ Stage(x, c) => Stage(x, c)'
  <2>1. Stage(x, c)
    BY <1>5 DEF IInv, Birth
  <2>2. DispatchesOf(x, c)' => todo'[x] # <<>>
    BY DispatchScripts DEF DispatchesOf
  <2> QED BY <1>5, <2>1, <2>2
<1> QED BY <1>2, <1>3, <1>4, <1>5 DEF Still

\* A step that writes no event and makes no child: a flag is raised or cleared,
\* a test passes or fails, a worktree is added or not, a handle comes or goes.
LEMMA QuietStep ==
  ASSUME IInv, Types', ledger' = ledger, created' = created, parent' = parent, aim' = aim,
         Spawned' = Spawned, Still, NEW x \in Tasks, NEW q, Advances(x, q),
         \/ q = todo[x]
         \/ todo[x] # <<>> /\ Head(todo[x]) \notin {"append", "meta", "dispatch", "spawn"}
  PROVE  IInv'
<1>1. Settled /\ Grown /\ Fresh /\ Adopted
  BY DEF Settled, Grown, Fresh, Adopted, Still
<1>2. Known'
  BY <1>1, KnownKept DEF IInv, Still
<1>3. AtWork'
  BY <1>1, AtWorkKept
<1>4. Authored'
  BY AuthoredKept, SpawnedTurns DEF IInv
<1>5. Answered'
  <2>1. \A t, s : MessagesBy(t, s)' = MessagesBy(t, s)
    BY DEF MessagesBy
  <2>2. x \in Requests \/ q = todo[x] \/ (todo[x] # Wake /\ q # Wake)
    <3> SUFFICES ASSUME x \in Turns, q # todo[x]
                 PROVE  todo[x] # Wake /\ q # Wake
      BY TasksApart
    <3>1. todo[x] # <<>> /\ Head(todo[x]) # "append" /\ (q = <<>> \/ q = Tail(todo[x]))
      BY DEF Advances
    <3> QED BY <3>1, NoWakeAgain, WakeScripts DEF WakeRest
  <2> QED BY <1>1, <2>1, <2>2, AnsweredKept DEF Advances
<1>6. Birth'
  <2>1. ASSUME NEW c \in Children
        PROVE  Bare(c) => Bare(c)'
    BY <1>1, BareKept DEF IInv
  <2>2. ASSUME NEW c \in Children, x \in Spawned, DispatchesOf(x, c), Stage(x, c)
        PROVE  \/ DispatchesOf(x, c)' /\ Stage(x, c)'
               \/ todo'[x] = <<>> /\ Bare(c)'
    <3>1. todo[x] \in DispatchRest /\ todo'[x] = q
      BY <2>2 DEF DispatchesOf, Advances, Leaves
    <3>2. CASE q = todo[x]
      BY <1>1, <2>1, <2>2, <3>1, <3>2, DispatchFrame, StageKept DEF IInv
    <3>3. CASE q # todo[x]
      <4>1. Head(todo[x]) = "worktree"
        BY <3>1, <3>3, DispatchScripts
      <4>2. Bare(c)'
        BY <2>1, <2>2, <4>1 DEF Stage
      <4>3. q = <<>> \/ (q \in DispatchRest /\ Head(q) = "meta")
        BY <3>1, <3>3, <4>1, DispatchScripts DEF Advances
      <4>4. CASE q \in DispatchRest /\ Head(q) = "meta"
        BY <2>2, <3>1, <4>2, <4>4 DEF DispatchesOf, Stage, Still
      <4> QED BY <3>1, <4>2, <4>3, <4>4
    <3> QED BY <3>2, <3>3
  <2> QED BY <1>1, <2>1, <2>2, BirthAdvance
<1> QED BY <1>2, <1>3, <1>4, <1>5, <1>6 DEF IInv

LEMMA TurnUpdate ==
  ASSUME Types, NEW t \in Spawned, NEW new \in Turn, turn' = [turn EXCEPT ![t] = new]
  PROVE  turn' \in Seq(Turn) /\ Len(turn') <= MaxTurns /\ Changed(t, new)
<1>1. turn \in Seq(Turn) /\ t \in 1 .. Len(turn) /\ Len(turn) <= MaxTurns
  BY DEF Types, Spawned
<1>2. turn' \in Seq(Turn) /\ Len(turn') = Len(turn)
  BY <1>1
<1>3. \A u \in 1 .. Len(turn) : turn'[u] = IF u = t THEN new ELSE turn[u]
  BY <1>1
<1> QED BY <1>1, <1>2, <1>3 DEF Changed, Spawned

LEMMA TodoUpdate ==
  ASSUME Types, NEW x \in Tasks, NEW q \in Seq(Steps), todo' = [todo EXCEPT ![x] = q]
  PROVE  todo' \in [Tasks -> Seq(Steps)] /\ Leaves(x, q)
  BY DEF Types, Leaves

LEMMA TailTyped ==
  ASSUME Types, NEW x \in Tasks, todo[x] # <<>>
  PROVE  Tail(todo[x]) \in Seq(Steps) /\ <<>> \in Seq(Steps)
<1>1. todo[x] \in Seq(Steps)
  BY DEF Types
<1> QED BY <1>1

LEMMA AimTyped ==
  \A s \in Sessions, k \in AllOps, a \in Actors :
    /\ About(s, k, a) \in Aim /\ About(s, k, a).session = s
    /\ About(s, k, a).kind = k /\ About(s, k, a).actor = a
  BY DEF About, Aim

\* What a task is at, whatever it is.
LEMMA TaskAims ==
  ASSUME IInv, NEW x \in Tasks, todo[x] # <<>>
  PROVE  /\ aim[x].session \in Existing /\ aim[x].session \in Sessions /\ aim[x] \in Aim
         /\ x \in Requests => \E op \in AllOps : aim[x] = About(aim[x].session, op, "human")
<1>1. Existing \subseteq Sessions
  BY SessionsApart DEF IInv, Types, Existing
<1>2. CASE x \in Requests
  <2>1. PICK s \in Existing, op \in AllOps : aim[x] = About(s, op, "human")
    BY <1>2 DEF IInv, AtWork
  <2> QED BY <1>1, <2>1, AimTyped DEF Actors
<1>3. CASE x \in Turns
  <2>1. x \in Spawned /\ x \notin Requests
    BY <1>3, TurnAtWork
  <2>2. \E s \in Existing, k \in AllOps, a \in Actors : aim[x] = About(s, k, a)
    <3>1. CASE \E c \in created : turn[x].session # c /\ DispatchesOf(x, c)
      BY <3>1 DEF DispatchesOf, Existing, AllOps, Actors
    <3>2. CASE \E c \in created : aim[x] = About(c, "steer", "orchestrator")
      BY <3>2 DEF Existing, AllOps, Actors
    <3>3. CASE /\ turn[x].sub
               /\ aim[x] = About(parent[turn[x].session], "message", turn[x].session)
      <4>1. turn[x].session \in Children /\ parent[turn[x].session] \in Existing
        BY <2>1, <3>3 DEF IInv, Known
      <4> QED BY <4>1, <3>3 DEF AllOps, Actors
    <3> QED BY <1>3, <3>1, <3>2, <3>3, TurnAtWork
  <2> QED BY <1>1, <2>1, <2>2, AimTyped
<1> QED BY <1>2, <1>3, TasksApart

\* A step that only a request takes.
LEMMA OnlyRequests ==
  ASSUME IInv, NEW x \in Tasks, todo[x] # <<>>, Head(todo[x]) \in {"raise", "clear", "abort"}
  PROVE  x \in Requests
<1> SUFFICES ASSUME x \in Turns
             PROVE  FALSE
  BY TasksApart
<1>1. todo[x] \in DispatchRest \/ todo[x] \in WakeRest
  BY TurnAtWork
<1> QED BY <1>1, DispatchScripts, WakeScripts

LEMMA FlagStep ==
  ASSUME IInv, NEW x \in Tasks, Raise(x) \/ Clear(x)
  PROVE  IInv'
<1>1. /\ todo[x] # <<>> /\ Head(todo[x]) \in {"raise", "clear"}
      /\ todo' = [todo EXCEPT ![x] = Tail(todo[x])]
      /\ UNCHANGED <<created, aim, heard, ledger, parent, slot, turn>>
  BY DEF Raise, Clear, Do
<1>2. todo' \in [Tasks -> Seq(Steps)] /\ Leaves(x, Tail(todo[x]))
  BY <1>1, TailTyped, TodoUpdate DEF IInv
<1>3. paused' \in [Sessions -> BOOLEAN]
  BY DEF Raise, Clear, IInv, Types
<1>4. Types'
  BY <1>1, <1>2, <1>3 DEF IInv, Types, Spawned
<1>5. Still /\ Spawned' = Spawned /\ Advances(x, Tail(todo[x]))
  BY <1>1, <1>2 DEF Still, Spawned, Advances
<1> QED BY <1>1, <1>4, <1>5, QuietStep

LEMMA AbortStep ==
  ASSUME IInv, NEW x \in Tasks, Abort(x)
  PROVE  IInv'
<1> DEFINE s == aim[x].session
<1>1. /\ todo[x] # <<>> /\ Head(todo[x]) = "abort"
      /\ todo' = [todo EXCEPT ![x] = Tail(todo[x])]
      /\ slot' = [slot EXCEPT ![s] = 0]
      /\ turn' = IF slot[s] = 0 THEN turn ELSE [turn EXCEPT ![slot[s]].aborted = TRUE]
      /\ UNCHANGED <<created, aim, heard, ledger, parent, paused>>
  BY DEF Abort, Do
<1>2. todo' \in [Tasks -> Seq(Steps)] /\ Leaves(x, Tail(todo[x]))
  BY <1>1, TailTyped, TodoUpdate DEF IInv
<1>3. slot[s] \in Spawned \cup {0}
  BY <1>1, TaskAims DEF IInv, Types
<1>4. turn' \in Seq(Turn) /\ Len(turn') <= MaxTurns /\ Still /\ Spawned' = Spawned
  <2>1. CASE slot[s] = 0
    BY <1>1, <2>1 DEF IInv, Types, Still, Spawned
  <2>2. CASE slot[s] # 0
    <3> DEFINE t == slot[s]
               new == [turn[t] EXCEPT !.aborted = TRUE]
    <3>1. t \in Spawned /\ turn[t] \in Turn
      BY <1>3, <2>2, SpawnedTurns DEF IInv
    <3>2. /\ new \in Turn /\ new.session = turn[t].session /\ new.sub = turn[t].sub
          /\ new.pc = turn[t].pc
      BY <3>1 DEF Turn
    <3>3. turn' = [turn EXCEPT ![t] = new]
      BY <1>1, <2>2
    <3> HIDE DEF new
    <3>4. turn' \in Seq(Turn) /\ Len(turn') <= MaxTurns /\ Changed(t, new)
      BY <3>1, <3>2, <3>3, TurnUpdate DEF IInv
    <3> QED BY <3>2, <3>4 DEF Still, Changed
  <2> QED BY <2>1, <2>2
<1>5. slot' \in [Sessions -> Spawned' \cup {0}]
  BY <1>1, <1>4 DEF IInv, Types
<1>6. Types'
  BY <1>1, <1>2, <1>4, <1>5 DEF IInv, Types
<1>7. Advances(x, Tail(todo[x]))
  BY <1>1, <1>2 DEF Advances
<1> QED BY <1>1, <1>4, <1>6, <1>7, QuietStep

LEMMA TestStep ==
  ASSUME IInv, NEW x \in Tasks,
         NEW step \in {"ifIdle", "ifUnpaused", "ifPending", "worktree"},
         NEW passes \in BOOLEAN, Test(x, step, passes)
  PROVE  IInv'
<1> DEFINE q == IF passes THEN Tail(todo[x]) ELSE <<>>
<1>1. /\ todo[x] # <<>> /\ Head(todo[x]) = step /\ todo' = [todo EXCEPT ![x] = q]
      /\ UNCHANGED <<ledger, created, parent, paused, slot, turn, aim, heard>>
  BY DEF Test
<1>2. q \in Seq(Steps)
  BY <1>1, TailTyped DEF IInv
<1>3. Advances(x, q) /\ todo' \in [Tasks -> Seq(Steps)]
  <2>1. q = <<>> \/ q = Tail(todo[x])
    OBVIOUS
  <2> HIDE DEF q
  <2> QED BY <1>1, <1>2, <2>1, TodoUpdate DEF IInv, Advances
<1>4. Types'
  BY <1>1, <1>3 DEF IInv, Types, Spawned
<1>5. Still /\ Spawned' = Spawned
  BY <1>1 DEF Still, Spawned
<1> HIDE DEF q
<1> QED BY <1>1, <1>3, <1>4, <1>5, QuietStep

\* The wrapper stores the handle of its turn and, at the end, clears the slot.
LEMMA WrapperStep ==
  ASSUME IInv, NEW t \in Spawned, Wrapper(t)
  PROVE  IInv'
<1>1. PICK w \in {"waiting", "gone"}, h \in {0, t} :
        /\ turn' = [turn EXCEPT ![t].wrap = w]
        /\ slot' = [slot EXCEPT ![turn[t].session] = h]
        /\ UNCHANGED <<ledger, created, parent, paused, todo, aim, heard>>
  BY DEF Wrapper, StoreHandle, Reap
<1> DEFINE new == [turn[t] EXCEPT !.wrap = w]
<1>2. turn[t] \in Turn /\ t \in Tasks
  BY SpawnedTurns, TasksApart DEF IInv
<1>3. /\ new \in Turn /\ new.session = turn[t].session /\ new.sub = turn[t].sub
      /\ new.pc = turn[t].pc
  BY <1>2 DEF Turn
<1>4. turn' = [turn EXCEPT ![t] = new]
  BY <1>1
<1> HIDE DEF new
<1>5. turn' \in Seq(Turn) /\ Len(turn') <= MaxTurns /\ Changed(t, new)
  BY <1>3, <1>4, TurnUpdate DEF IInv
<1>6. Still /\ Spawned' = Spawned
  BY <1>3, <1>5 DEF Still, Changed
<1>7. slot' \in [Sessions -> Spawned' \cup {0}]
  BY <1>1, <1>6 DEF IInv, Types
<1>8. Types'
  BY <1>1, <1>5, <1>7 DEF IInv, Types
<1>9. Advances(t, todo[t])
  BY <1>1 DEF Advances, Leaves
<1> QED BY <1>1, <1>2, <1>6, <1>8, <1>9, QuietStep

-----------------------------------------------------------------------------
(* The steps that write an event.                                          *)

\* What holds of any of them.
LEMMA ScriptLogs ==
  ASSUME IInv, NEW x \in Tasks, todo[x] # <<>>, NEW s \in Sessions, NEW e \in Event,
         todo' = [todo EXCEPT ![x] = Tail(@)],
         ledger' = [ledger EXCEPT ![s] = Append(@, e)],
         UNCHANGED <<created, parent, paused, slot, turn, aim, heard>>,
         (x \in Spawned /\ e.by = x) \/ (e.by = 0 /\ e.actor = "human")
  PROVE  /\ Types' /\ Known' /\ AtWork' /\ Authored'
         /\ Logged(s, e) /\ Grown /\ Settled /\ Still /\ Fresh /\ Adopted
         /\ Advances(x, Tail(todo[x])) /\ Leaves(x, Tail(todo[x]))
<1>1. /\ Logged(s, e) /\ Grown /\ ledger' \in [Sessions -> Seq(Event)]
      /\ \A r \in Sessions : DOMAIN ledger[r] \subseteq DOMAIN ledger'[r]
  BY LogStep DEF IInv
<1>2. Spawned' = Spawned /\ Settled /\ Still /\ Fresh /\ Adopted
  BY DEF Spawned, Settled, Still, Fresh, Adopted
<1>3. /\ todo' \in [Tasks -> Seq(Steps)] /\ Leaves(x, Tail(todo[x]))
      /\ Advances(x, Tail(todo[x]))
  BY TailTyped, TodoUpdate DEF IInv, Advances
<1>4. Types'
  <2>1. \A r \in Sessions : heard'[r] \subseteq DOMAIN ledger'[r]
    BY <1>1 DEF IInv, Types
  <2> QED BY <1>1, <1>2, <1>3, <2>1 DEF IInv, Types
<1>5. Known'
  BY <1>2, KnownKept DEF IInv
<1>6. AtWork'
  BY <1>2, <1>3, AtWorkKept
<1>7. Authored'
  <2>1. ASSUME NEW r \in Sessions, NEW i \in DOMAIN ledger'[r]
        PROVE  \/ i \in DOMAIN ledger[r] /\ ledger'[r][i] = ledger[r][i]
               \/ ledger'[r][i] = e
    BY <1>1, <2>1 DEF Logged
  <2>2. Spawned' \subseteq Turns
    BY <1>4, SpawnedNext
  <2> QED BY <1>2, <2>1, <2>2, AuthoredKept DEF IInv
<1> QED BY <1>1, <1>2, <1>3, <1>4, <1>5, <1>6, <1>7

\* An event about no child that is no brief leaves the births as they are.
LEMMA BareLogged ==
  ASSUME IInv, Grown, Settled, NEW s \in Sessions, NEW e \in Event, Logged(s, e),
         NEW c \in Children, parent'[c] = parent[c], Bare(c), e.child # c,
         s # c \/ e.kind # "message" \/ e.actor # "orchestrator"
           \/ turn'[e.by].session = c
  PROVE  Bare(c)'
<1>1. \A r \in Sessions : \A i \in DOMAIN ledger'[r] \ DOMAIN ledger[r] :
        r = s /\ ledger'[r][i] = e
  BY DEF Logged
<1>2. \A i \in DOMAIN ledger'[c] \ DOMAIN ledger[c] : ~IsBrief(c, i)'
  BY <1>1, SessionsApart DEF IsBrief
<1> QED BY <1>1, <1>2, BareKept DEF IInv

\* AppendAim of a task that dispatches no one.
LEMMA AppendStep ==
  ASSUME IInv, NEW x \in Tasks, AppendAim(x),
         \A c \in created : x \in Turns => ~DispatchesOf(x, c)
  PROVE  IInv'
<1> DEFINE s == aim[x].session
           e == [kind |-> aim[x].kind, actor |-> aim[x].actor,
                 by |-> IF x \in Turns THEN x ELSE 0, child |-> None]
           q == Tail(todo[x])
<1>1. /\ todo[x] # <<>> /\ Head(todo[x]) = "append"
      /\ todo' = [todo EXCEPT ![x] = Tail(@)]
      /\ ledger' = [ledger EXCEPT ![s] = Append(@, e)]
      /\ UNCHANGED <<created, parent, paused, slot, turn, aim, heard>>
  BY DEF AppendAim, Do, Log, LogAbout
<1>2. s \in Existing /\ s \in Sessions /\ aim[x] \in Aim
  BY <1>1, TaskAims
<1>3. e \in Event
  <2>1. aim[x].kind \in Kinds /\ aim[x].actor \in Actors
    BY <1>2 DEF Aim, Kinds
  <2>2. x \in Turns => x \in Spawned
    BY <1>1, TurnAtWork
  <2>3. (IF x \in Turns THEN x ELSE 0) \in Turns \cup {0}
    OBVIOUS
  <2> QED BY <2>1, <2>3 DEF Event
<1>4. /\ e.kind = aim[x].kind /\ e.actor = aim[x].actor /\ e.child = None
      /\ e.by = IF x \in Turns THEN x ELSE 0
  OBVIOUS
<1>5. (x \in Spawned /\ e.by = x) \/ (e.by = 0 /\ e.actor = "human")
  <2>1. CASE x \in Turns
    BY <1>1, <2>1, TurnAtWork
  <2>2. CASE x \in Requests
    <3>1. PICK op \in AllOps : aim[x] = About(s, op, "human")
      BY <1>1, <2>2, TaskAims
    <3> QED BY <2>2, <3>1, TasksApart DEF About
  <2> QED BY <2>1, <2>2, TasksApart
<1> HIDE DEF e
<1>6. /\ Types' /\ Known' /\ AtWork' /\ Authored'
      /\ Logged(s, e) /\ Grown /\ Settled /\ Still /\ Fresh /\ Adopted
      /\ Advances(x, q) /\ Leaves(x, q)
  BY <1>1, <1>2, <1>3, <1>5, ScriptLogs
<1>7. \/ x \in Requests /\ aim[x].actor = "human"
      \/ x \in Spawned /\ aim[x].kind = "steer" /\ ~turn[x].sub /\ turn[x].pc = "loop"
      \/ /\ x \in Spawned /\ turn[x].sub /\ turn[x].pc = "done" /\ todo[x] = Wake
         /\ aim[x] = About(parent[turn[x].session], "message", turn[x].session)
  <2>1. CASE x \in Requests
    <3>1. PICK op \in AllOps : aim[x] = About(s, op, "human")
      BY <1>1, <2>1, TaskAims
    <3>2. aim[x].actor = "human"
      BY <3>1 DEF About
    <3> QED BY <2>1, <3>2
  <2>2. CASE x \in Turns
    <3>1. ~\E c \in created : turn[x].session # c /\ DispatchesOf(x, c)
      BY <2>2
    <3>2. CASE /\ ~turn[x].sub /\ turn[x].pc = "loop"
               /\ \E c \in created : aim[x] = About(c, "steer", "orchestrator")
      <4>1. aim[x].kind = "steer"
        BY <3>2 DEF About
      <4> QED BY <1>1, <2>2, <3>2, <4>1, TurnAtWork
    <3>3. CASE /\ turn[x].sub /\ todo[x] \in WakeRest /\ turn[x].pc = "done"
               /\ aim[x] = About(parent[turn[x].session], "message", turn[x].session)
      <4>1. todo[x] = Wake
        BY <1>1, <3>3, WakeScripts
      <4> QED BY <1>1, <2>2, <3>3, <4>1, TurnAtWork
    <3> QED BY <1>1, <2>2, <3>1, <3>2, <3>3, TurnAtWork
  <2> QED BY <2>1, <2>2, TasksApart
<1>8. Answered'
  <2>1. CASE x \in Requests \/ (x \in Spawned /\ ~turn[x].sub /\ turn[x].pc = "loop")
    <3>1. ASSUME NEW t \in Spawned', NEW r \in Sessions,
                 t \notin Spawned \/ turn[t].pc = "ready" \/ turn[t].sub
          PROVE  MessagesBy(t, r)' = MessagesBy(t, r)
      <4>1. t \in Spawned /\ t \in Turns /\ t # 0
        BY <1>1, SpawnedTurns, TasksApart DEF IInv, Spawned
      <4>2. e.by # t
        BY <1>1, <1>4, <2>1, <3>1, <4>1, TasksApart DEF Spawned
      <4> QED BY <1>2, <1>3, <1>6, <4>2, LoggedMessages
    <3> QED BY <1>6, <2>1, <3>1, AnsweredKept
  <2>2. CASE /\ x \in Spawned /\ turn[x].sub /\ turn[x].pc = "done" /\ todo[x] = Wake
             /\ aim[x] = About(parent[turn[x].session], "message", turn[x].session)
    <3>1. s = parent[turn[x].session] /\ e.kind = "message" /\ e.by = x
      BY <1>4, <2>2, SpawnedTurns DEF About, IInv
    <3>2. ASSUME NEW t \in Spawned, t # x, NEW r \in Sessions
          PROVE  MessagesBy(t, r)' = MessagesBy(t, r)
      BY <1>2, <1>3, <1>6, <3>1, <3>2, LoggedMessages
    <3>3. ASSUME NEW t \in Spawned', Silent(t),
                 \/ t \notin Spawned
                 \/ turn[t].pc = "ready" \/ (turn[t].sub /\ turn[t].pc # "done")
          PROVE  Silent(t)'
      <4>1. t \in Spawned /\ t # x
        BY <1>1, <2>2, <3>3 DEF Spawned
      <4> QED BY <3>2, <3>3, <4>1 DEF Silent
    <3>4. ASSUME NEW t \in Spawned, NEW c \in Children, NEW p \in Sessions,
                 turn[t].sub, turn[t].pc = "done",
                 turn[t].session = c, parent[c] = p, AnsweredTo(t, c, p)
          PROVE  AnsweredTo(t, c, p)'
      <4>1. CASE t # x
        <5>1. MessagesBy(t, c)' = MessagesBy(t, c) /\ MessagesBy(t, p)' = MessagesBy(t, p)
          BY <3>2, <4>1, SessionsApart
        <5>2. todo'[t] = todo[t]
          BY <4>1, <1>6, SpawnedTurns, TasksApart DEF Leaves, IInv
        <5> QED BY <3>4, <5>1, <5>2 DEF AnsweredTo
      <4>2. CASE t = x
        <5>1. s = p /\ p # c
          BY <3>1, <3>4, <4>2, SessionsApart DEF IInv, Known
        <5>2. MessagesBy(x, c)' = MessagesBy(x, c)
          BY <1>3, <1>2, <1>6, <5>1, LoggedMessages, SessionsApart
        <5>3. MessagesBy(x, p) = {} /\ One(MessagesBy(x, c))
          BY <2>2, <3>4, <4>2 DEF AnsweredTo
        <5>4. One(MessagesBy(x, p)')
          BY <1>3, <1>2, <1>6, <3>1, <5>1, <5>3, LoggedMessages
        <5>5. todo'[x] # Wake
          <6>1. Wake \in WakeRest
            BY DEF WakeRest
          <6> QED BY <1>6, <2>2, <6>1, WakeScripts DEF Leaves
        <5> QED BY <4>2, <5>2, <5>3, <5>4, <5>5 DEF AnsweredTo
      <4> QED BY <4>1, <4>2
    <3> QED BY <1>6, <3>3, <3>4, AnsweredHub
  <2> QED BY <1>7, <2>1, <2>2
<1>9. Birth'
  <2> SUFFICES ASSUME NEW c \in Children
               PROVE  /\ Bare(c) => Bare(c)'
                      /\ ~(x \in Spawned /\ DispatchesOf(x, c))
    BY <1>1, <1>6, BirthAdvance
  <2>1. ~(e.kind = "message" /\ e.actor = "orchestrator")
    <3>1. CASE turn[x].sub /\ x \in Spawned /\ aim[x].actor = turn[x].session
      BY <1>4, <3>1, SessionsApart DEF IInv, Known
    <3> QED BY <1>4, <1>7, <3>1 DEF About
  <2>2. e.child # c
    BY <1>4, SessionsApart
  <2>3. Bare(c) => Bare(c)'
    BY <1>1, <1>2, <1>3, <1>6, <2>1, <2>2, BareLogged
  <2>4. ~(x \in Spawned /\ DispatchesOf(x, c))
    BY <1>4, <2>1 DEF DispatchesOf, About
  <2> QED BY <2>3, <2>4
<1> QED BY <1>6, <1>8, <1>9 DEF IInv

\* Steps that only a dispatch takes.
LEMMA OnlyDispatches ==
  ASSUME IInv, NEW x \in Tasks, todo[x] # <<>>, Head(todo[x]) \in {"meta", "dispatch"}
  PROVE  x \in Spawned /\ \E d \in created : turn[x].session # d /\ DispatchesOf(x, d)
<1>1. CASE x \in Requests
  <2>1. todo[x] \in Seq(Steps)
    BY DEF IInv, Types
  <2>2. 1 \in DOMAIN todo[x] /\ Head(todo[x]) = todo[x][1]
    BY <2>1
  <2> QED BY <1>1, <2>2 DEF IInv, AtWork
<1>2. CASE x \in Turns
  <2>1. todo[x] \notin WakeRest
    BY WakeScripts
  <2> QED BY <1>2, <2>1, TurnAtWork
<1> QED BY <1>1, <1>2, TasksApart

\* An event of a dispatch: the turn has not answered, nor is it a subagent's.
LEMMA DispatchLogs ==
  ASSUME IInv, NEW x \in Spawned, NEW d \in created, DispatchesOf(x, d),
         NEW s \in Sessions, NEW e \in Event, Logged(s, e), e.by = x,
         Types', Still, Fresh, Adopted, Spawned' = Spawned, Leaves(x, Tail(todo[x])),
         x \in Tasks
  PROVE  Answered'
<1>1. ASSUME NEW t \in Spawned', NEW r \in Sessions,
             t \notin Spawned \/ turn[t].pc = "ready" \/ turn[t].sub
      PROVE  MessagesBy(t, r)' = MessagesBy(t, r)
  <2>1. t # x
    BY <1>1 DEF DispatchesOf
  <2> QED BY <2>1, LoggedMessages
<1> QED BY <1>1, AnsweredKept DEF DispatchesOf

\* DispatchEvent
LEMMA EventStep ==
  ASSUME IInv, NEW x \in Tasks, DispatchEvent(x)
  PROVE  IInv'
<1> DEFINE s == turn[x].session
           e == [kind |-> "dispatch", actor |-> "orchestrator",
                 by |-> IF x \in Turns THEN x ELSE 0, child |-> aim[x].session]
           q == Tail(todo[x])
<1>1. /\ todo[x] # <<>> /\ Head(todo[x]) = "dispatch"
      /\ todo' = [todo EXCEPT ![x] = Tail(@)]
      /\ ledger' = [ledger EXCEPT ![s] = Append(@, e)]
      /\ UNCHANGED <<created, parent, paused, slot, turn, aim, heard>>
  BY DEF DispatchEvent, Do, LogAbout
<1>2. /\ x \in Spawned /\ x \in Turns
      /\ \E d \in created : turn[x].session # d /\ DispatchesOf(x, d)
  BY <1>1, OnlyDispatches, SpawnedTurns DEF IInv
<1>3. PICK d \in created : turn[x].session # d /\ DispatchesOf(x, d)
  BY <1>2
<1>4. aim[x].session = d /\ d \in Children /\ s \in Sessions
  BY <1>2, <1>3, SpawnedTurns DEF DispatchesOf, About, IInv, Types, Turn
<1>5. /\ e.kind = "dispatch" /\ e.actor = "orchestrator" /\ e.by = x /\ e.child = d
      /\ e \in Event
  BY <1>2, <1>4 DEF Event, Kinds, Actors
<1> HIDE DEF e
<1>6. /\ Types' /\ Known' /\ AtWork' /\ Authored'
      /\ Logged(s, e) /\ Grown /\ Settled /\ Still /\ Fresh /\ Adopted
      /\ Advances(x, q) /\ Leaves(x, q)
  BY <1>1, <1>2, <1>4, <1>5, ScriptLogs
<1>7. Answered'
  BY <1>1, <1>2, <1>3, <1>4, <1>5, <1>6, DispatchLogs DEF Spawned
<1>8. Birth'
  <2>1. q \in DispatchRest /\ Head(q) = "append"
    BY <1>1, <1>3, DispatchScripts DEF DispatchesOf
  <2>2. DispatchesOf(x, d)'
    BY <1>1, <1>3, <1>6, <2>1 DEF DispatchesOf, Leaves
  <2>3. Dispatched(d)'
    BY <1>4, <1>5, <1>6 DEF Dispatched, Logged
  <2>4. parent[d] # None
    BY <1>1, <1>2, <1>3, <1>4 DEF IInv, Birth, Stage
  <2>5. Stage(x, d)'
    BY <1>1, <1>6, <2>1, <2>3, <2>4 DEF Stage, Leaves
  <2>6. ASSUME NEW c \in Children, c # d
        PROVE  /\ Bare(c) => Bare(c)'
               /\ ~DispatchesOf(x, c)
    <3>1. Bare(c) => Bare(c)'
      BY <1>1, <1>4, <1>5, <1>6, <2>6, BareLogged
    <3> QED BY <1>3, <2>6, <3>1, OneChild
  <2>7. ~Bare(d)
    BY <2>4 DEF Bare
  <2> QED BY <1>1, <1>6, <2>2, <2>5, <2>6, <2>7, BirthAdvance
<1> QED BY <1>6, <1>7, <1>8 DEF IInv

\* AppendAim of a dispatch: the brief.
LEMMA BriefStep ==
  ASSUME IInv, NEW x \in Turns, AppendAim(x), NEW d \in created, DispatchesOf(x, d)
  PROVE  IInv'
<1> DEFINE e == [kind |-> aim[x].kind, actor |-> aim[x].actor,
                 by |-> IF x \in Turns THEN x ELSE 0, child |-> None]
           q == Tail(todo[x])
<1>1. /\ todo[x] # <<>> /\ Head(todo[x]) = "append"
      /\ todo' = [todo EXCEPT ![x] = Tail(@)]
      /\ ledger' = [ledger EXCEPT ![aim[x].session] = Append(@, e)]
      /\ UNCHANGED <<created, parent, paused, slot, turn, aim, heard>>
  BY DEF AppendAim, Do, Log, LogAbout
<1>2. x \in Spawned /\ x \in Tasks /\ turn[x].session # d
  <2>1. x \in Spawned /\ x \in Tasks
    BY <1>1, TurnAtWork, TasksApart
  <2>2. todo[x] # Wake /\ turn[x].pc # "done"
    BY DispatchScripts DEF DispatchesOf
  <2>3. todo[x] \notin WakeRest
    BY <1>1, <2>2, WakeScripts
  <2>4. PICK c \in created : turn[x].session # c /\ DispatchesOf(x, c)
    BY <1>1, <2>3, TurnAtWork
  <2> QED BY <2>1, <2>4, OneChild
<1>3. aim[x].session = d /\ d \in Children /\ d \in Sessions
  BY SessionsApart DEF DispatchesOf, About, IInv, Types
<1>4. /\ e.kind = "message" /\ e.actor = "orchestrator" /\ e.by = x /\ e.child = None
      /\ e \in Event
  BY <1>2 DEF Event, Kinds, AllOps, Actors, DispatchesOf, About
<1> HIDE DEF e
<1>5. /\ Types' /\ Known' /\ AtWork' /\ Authored'
      /\ Logged(d, e) /\ Grown /\ Settled /\ Still /\ Fresh /\ Adopted
      /\ Advances(x, q) /\ Leaves(x, q)
  BY <1>1, <1>2, <1>3, <1>4, ScriptLogs
<1>6. Answered'
  BY <1>1, <1>2, <1>3, <1>4, <1>5, DispatchLogs DEF Spawned
<1>7. Birth'
  <2>1. q \in DispatchRest /\ Head(q) = "spawn"
    BY <1>1, DispatchScripts DEF DispatchesOf
  <2>2. DispatchesOf(x, d)'
    BY <1>1, <1>5, <2>1 DEF DispatchesOf, Leaves
  <2>3. Briefed(d)'
    <3>1. PICK n : n = Len(ledger[d]) + 1
      OBVIOUS
    <3>2. n \in DOMAIN ledger'[d] /\ ledger'[d][n] = e
      BY <1>5, <3>1 DEF Logged
    <3>3. IsBrief(d, n)'
      BY <1>1, <1>2, <1>4, <3>2 DEF IsBrief
    <3> QED BY <3>2, <3>3 DEF Briefed
  <2>4. parent[d] # None /\ Dispatched(d)
    BY <1>1, <1>2, <1>3 DEF IInv, Birth, Stage
  <2>5. Dispatched(d)'
    BY <1>3, <1>5, <2>4, BornKept DEF IInv
  <2>6. Stage(x, d)'
    BY <1>1, <1>5, <2>1, <2>3, <2>4, <2>5 DEF Stage, Leaves
  <2>7. ASSUME NEW c \in Children, c # d
        PROVE  /\ Bare(c) => Bare(c)'
               /\ ~DispatchesOf(x, c)
    <3>1. Bare(c) => Bare(c)'
      BY <1>1, <1>3, <1>4, <1>5, <2>7, SessionsApart, BareLogged
    <3> QED BY <2>7, <3>1, OneChild
  <2>8. ~Bare(d)
    BY <2>4 DEF Bare
  <2> QED BY <1>1, <1>2, <1>5, <2>2, <2>6, <2>7, <2>8, BirthAdvance
<1> QED BY <1>5, <1>6, <1>7 DEF IInv

-----------------------------------------------------------------------------
(* meta.json, and a turn.                                                  *)

LEMMA MetaStep ==
  ASSUME IInv, NEW x \in Tasks, Meta(x)
  PROVE  IInv'
<1> DEFINE q == Tail(todo[x])
<1>1. /\ todo[x] # <<>> /\ Head(todo[x]) = "meta"
      /\ todo' = [todo EXCEPT ![x] = Tail(@)]
      /\ parent' = [parent EXCEPT ![aim[x].session] = turn[x].session]
      /\ UNCHANGED <<created, ledger, paused, slot, turn, aim, heard>>
  BY DEF Meta, Do
<1>2. /\ x \in Spawned /\ x \in Turns
      /\ \E d \in created : turn[x].session # d /\ DispatchesOf(x, d)
  BY <1>1, OnlyDispatches, SpawnedTurns DEF IInv
<1>3. PICK d \in created : turn[x].session # d /\ DispatchesOf(x, d)
  BY <1>2
<1>4. aim[x].session = d /\ d \in Children /\ turn[x].session \in Existing
  BY <1>2, <1>3 DEF DispatchesOf, About, IInv, Types, Known
<1>5. Bare(d) /\ parent[d] = None
  BY <1>1, <1>2, <1>3, <1>4 DEF IInv, Birth, Stage, Bare
<1>6. Existing \subseteq Sessions /\ Existing' = Existing
  BY <1>1, SessionsApart DEF IInv, Types, Existing
<1>7. /\ parent' \in [Children -> Sessions \cup {None}] /\ parent'[d] = turn[x].session
      /\ \A c \in Children \ {d} : parent'[c] = parent[c]
  BY <1>1, <1>4, <1>6 DEF IInv, Types
<1>8. Adopted
  BY <1>5, <1>7 DEF Adopted
<1>9. Spawned' = Spawned /\ Settled /\ Still /\ Fresh /\ Grown
  BY <1>1 DEF Spawned, Settled, Still, Fresh, Grown
<1>10. /\ todo' \in [Tasks -> Seq(Steps)] /\ Leaves(x, q) /\ Advances(x, q)
  BY <1>1, TailTyped, TodoUpdate DEF IInv, Advances
<1>11. Types'
  BY <1>1, <1>7, <1>9, <1>10 DEF IInv, Types
<1>12. Known'
  <2>1. parent'[d] # None
    BY <1>4, <1>6, <1>7, SessionsApart
  <2>2. ASSUME NEW t \in Spawned
        PROVE  /\ turn[t].session \in Existing
               /\ turn[t].sub => turn[t].session \in Children
                                 /\ parent'[turn[t].session] # None
    BY <1>5, <1>7 DEF IInv, Known
  <2>3. ASSUME NEW c \in Children, parent'[c] # None
        PROVE  c \in created /\ parent'[c] \in Existing \ {c}
    BY <1>3, <1>4, <1>7, <2>3 DEF IInv, Known
  <2> QED BY <1>1, <1>6, <1>9, <2>2, <2>3 DEF Known
<1>13. AtWork'
  BY <1>1, <1>8, <1>9, <1>10, AtWorkKept
<1>14. Authored'
  BY <1>1, <1>9, SpawnedTurns, AuthoredKept DEF IInv
<1>15. Answered'
  <2>1. \A t, r : MessagesBy(t, r)' = MessagesBy(t, r)
    BY <1>1 DEF MessagesBy
  <2> QED BY <1>3, <1>8, <1>9, <1>10, <1>11, <2>1, AnsweredKept DEF DispatchesOf
<1>16. Birth'
  <2>1. q \in DispatchRest /\ Head(q) = "dispatch"
    BY <1>1, <1>3, DispatchScripts DEF DispatchesOf
  <2>2. DispatchesOf(x, d)'
    BY <1>1, <1>3, <1>10, <2>1 DEF DispatchesOf, Leaves
  <2>3. parent'[d] # None
    BY <1>4, <1>6, <1>7, SessionsApart
  <2>4. Stage(x, d)'
    BY <1>10, <2>1, <2>3 DEF Stage, Leaves
  <2>5. ASSUME NEW c \in Children, c # d
        PROVE  /\ Bare(c) => Bare(c)'
               /\ ~DispatchesOf(x, c)
    <3>1. Bare(c) => Bare(c)'
      BY <1>1, <1>7, <1>9, <2>5, BareKept DEF IInv
    <3> QED BY <1>3, <2>5, <3>1, OneChild
  <2> QED BY <1>1, <1>2, <1>8, <1>9, <1>10, <2>2, <2>4, <2>5, BirthAdvance
<1> QED BY <1>11, <1>12, <1>13, <1>14, <1>15, <1>16 DEF IInv

\* Any script's last step.
LEMMA SpawnStep ==
  ASSUME IInv, NEW x \in Tasks, Spawn(x)
  PROVE  IInv'
<1> DEFINE q == Tail(todo[x])
           n == Len(turn) + 1
<1>1. /\ todo[x] # <<>> /\ Head(todo[x]) = "spawn"
      /\ todo' = [todo EXCEPT ![x] = Tail(@)]
      /\ Len(turn) < MaxTurns
      /\ turn' = Append(turn, NewTurn(aim[x].session))
      /\ UNCHANGED <<created, ledger, parent, paused, slot, aim, heard>>
  BY DEF Spawn, Do
<1>2. turn \in Seq(Turn) /\ aim[x].session \in Existing /\ aim[x].session \in Sessions
  BY <1>1, TaskAims DEF IInv, Types
<1>3. NewTurn(aim[x].session) \in Turn
  BY <1>2 DEF NewTurn, Turn
<1>4. /\ turn' \in Seq(Turn) /\ Len(turn') = n /\ n <= MaxTurns
      /\ Spawned' = Spawned \cup {n} /\ n \notin Spawned
      /\ turn'[n] = NewTurn(aim[x].session)
      /\ \A t \in Spawned : turn'[t] = turn[t]
  BY <1>1, <1>2, <1>3, DelegationAssumption DEF Spawned, DelegationAssumption
<1>5. /\ turn'[n].session = aim[x].session /\ turn'[n].sub = FALSE
      /\ turn'[n].pc = "ready"
  BY <1>4 DEF NewTurn
<1> HIDE DEF n
<1>6. Settled /\ Still /\ Fresh /\ Grown /\ Adopted
  BY <1>1, <1>4, <1>5 DEF Settled, Still, Fresh, Grown, Adopted
<1>7. /\ todo' \in [Tasks -> Seq(Steps)] /\ Leaves(x, q) /\ Advances(x, q)
  BY <1>1, TailTyped, TodoUpdate DEF IInv, Advances
<1>8. Types'
  <2>1. slot' \in [Sessions -> Spawned' \cup {0}]
    BY <1>1, <1>4 DEF IInv, Types
  <2> QED BY <1>1, <1>4, <1>7, <2>1 DEF IInv, Types
<1>9. Known'
  <2>1. Existing' = Existing
    BY <1>1 DEF Existing
  <2> QED BY <1>1, <1>2, <1>4, <1>5, <1>6, <2>1, KnownKept DEF IInv
<1>10. AtWork'
  BY <1>1, <1>6, <1>7, AtWorkKept
<1>11. Authored'
  BY <1>1, <1>4, <1>8, SpawnedNext, AuthoredKept DEF IInv
<1>12. Answered'
  <2>1. \A t, r : MessagesBy(t, r)' = MessagesBy(t, r)
    BY <1>1 DEF MessagesBy
  <2>2. x \in Requests \/ (todo[x] # Wake /\ q # Wake)
    <3> SUFFICES ASSUME x \in Turns
                 PROVE  todo[x] # Wake /\ q # Wake
      BY TasksApart
    <3>1. Head(Wake) = "append"
      BY DEF Wake
    <3> QED BY <1>1, <3>1, NoWakeAgain
  <2> QED BY <1>6, <1>7, <1>8, <2>1, <2>2, AnsweredKept
<1>13. Birth'
  <2>1. ASSUME NEW c \in Children
        PROVE  Bare(c) => Bare(c)'
    BY <1>1, <1>6, BareKept DEF IInv
  <2>2. ASSUME NEW c \in Children, x \in Spawned, DispatchesOf(x, c), Stage(x, c)
        PROVE  todo'[x] = <<>> /\ Made(c)'
    <3>1. todo'[x] = <<>>
      BY <1>1, <1>7, <2>2, DispatchScripts DEF DispatchesOf, Leaves
    <3>2. parent[c] # None /\ Dispatched(c) /\ Briefed(c)
      BY <1>1, <2>2 DEF Stage
    <3>3. parent'[c] # None /\ Dispatched(c)' /\ Briefed(c)'
      BY <1>1, <1>6, <3>2, BornKept DEF IInv
    <3>4. turn'[n].session = c
      BY <1>5, <2>2 DEF DispatchesOf, About
    <3> QED BY <1>4, <3>1, <3>3, <3>4 DEF Made
  <2> QED BY <1>1, <1>6, <1>7, <2>1, <2>2, BirthAdvance
<1> QED BY <1>8, <1>9, <1>10, <1>11, <1>12, <1>13 DEF IInv

-----------------------------------------------------------------------------
(* The body of a turn, which moves between its scripts.                    *)

LEMMA DispatchMade ==
  ASSUME IInv, NEW t \in Spawned, NEW c, DispatchesOf(t, c)
  PROVE  c \in created /\ turn[t].session # c
<1>1. t \in Turns /\ todo[t] # <<>>
  BY SpawnedTurns, DispatchScripts DEF IInv, DispatchesOf
<1>2. /\ turn[t].pc = "loop" /\ ~turn[t].sub
      /\ aim[t] = About(c, "message", "orchestrator")
  BY DEF DispatchesOf
<1>3. \A d : aim[t] # About(d, "steer", "orchestrator")
  BY <1>2 DEF About
<1>4. PICK d \in created : turn[t].session # d /\ DispatchesOf(t, d)
  BY <1>1, <1>2, <1>3, TurnAtWork
<1> QED BY <1>4, OneChild

\* A turn that is not at work moves on, perhaps into a script.
LEMMA TurnMove ==
  ASSUME IInv, NEW t \in Spawned, todo[t] = <<>>, NEW new, Changed(t, new),
         new.session = turn[t].session,
         new.sub => turn[t].session \in Children /\ parent[turn[t].session] # None,
         parent' = parent, created \subseteq created',
         \A y \in Tasks \ {t} : todo'[y] = todo[y] /\ aim'[y] = aim[y],
         todo'[t] # <<>> => Dispatches(t)' \/ Steers(t)' \/ Reports(t)'
  PROVE  Known' /\ AtWork' /\ Settled
<1>1. Existing \subseteq Existing'
  BY DEF Existing
<1>2. Settled
  BY DEF Settled, Changed
<1>3. Known'
  <2>1. ASSUME NEW u \in Spawned'
        PROVE  /\ turn'[u].session \in Existing'
               /\ turn'[u].sub => turn'[u].session \in Children
                                  /\ parent'[turn'[u].session] # None
    BY <1>1 DEF IInv, Known, Changed
  <2>2. ASSUME NEW c \in Children, parent'[c] # None
        PROVE  c \in created' /\ parent'[c] \in Existing' \ {c}
    BY <1>1, <2>2 DEF IInv, Known
  <2> QED BY <2>1, <2>2 DEF Known
<1>4. ASSUME NEW r \in Requests, todo'[r] # <<>>
      PROVE  /\ \A i \in DOMAIN todo'[r] : todo'[r][i] \notin {"worktree", "meta", "dispatch"}
             /\ \E s \in Existing', op \in AllOps : aim'[r] = About(s, op, "human")
  <2>1. r \in Tasks \ {t}
    BY SpawnedTurns, TasksApart DEF IInv
  <2> QED BY <1>1, <1>4, <2>1 DEF IInv, AtWork
<1>5. ASSUME NEW u \in Turns, todo'[u] # <<>>
      PROVE  u \in Spawned' /\ (Dispatches(u)' \/ Steers(u)' \/ Reports(u)')
  <2>1. CASE u = t
    BY <1>5, <2>1 DEF Changed
  <2>2. CASE u # t
    <3>1. /\ todo'[u] = todo[u] /\ aim'[u] = aim[u] /\ u \in Spawned
          /\ Dispatches(u) \/ Steers(u) \/ Reports(u)
      BY <1>5, <2>2, TasksApart DEF IInv, AtWork
    <3>2. u \in Spawned' /\ turn'[u] = turn[u]
      BY <2>2, <3>1 DEF Changed
    <3>3. CASE Dispatches(u)
      BY <3>1, <3>2, <3>3 DEF Dispatches, DispatchesOf
    <3>4. CASE Steers(u)
      BY <3>1, <3>2, <3>4 DEF Steers
    <3>5. CASE Reports(u)
      BY <3>1, <3>2, <3>5 DEF Reports
    <3> QED BY <3>1, <3>2, <3>3, <3>4, <3>5
  <2> QED BY <2>1, <2>2
<1> QED BY <1>2, <1>3, <1>4, <1>5 DEF AtWork

LEMMA AnsweredMove ==
  ASSUME IInv, NEW t \in Spawned, NEW new, Changed(t, new), parent' = parent,
         \A y \in Tasks \ {t} : todo'[y] = todo[y],
         \A u \in Spawned \ {t} : \A r \in Sessions : MessagesBy(u, r)' = MessagesBy(u, r),
         new.pc = "ready" \/ (new.sub /\ new.pc # "done") => Silent(t)',
         new.sub /\ new.pc = "done" =>
           \A c \in Children, p \in Sessions :
             new.session = c /\ parent[c] = p => AnsweredTo(t, c, p)'
  PROVE  Answered'
<1> SUFFICES ASSUME NEW u \in Spawned'
             PROVE  /\ turn'[u].pc = "ready" \/ (turn'[u].sub /\ turn'[u].pc # "done") =>
                         Silent(u)'
                    /\ turn'[u].sub /\ turn'[u].pc = "done" =>
                         \A c \in Children, p \in Sessions :
                           turn'[u].session = c /\ parent'[c] = p => AnsweredTo(u, c, p)'
  BY DEF Answered
<1>1. CASE u = t
  BY <1>1 DEF Changed
<1>2. CASE u # t
  <2>1. u \in Spawned /\ turn'[u] = turn[u]
    BY <1>2 DEF Changed
  <2>2. todo'[u] = todo[u]
    BY <1>2, <2>1, SpawnedTurns, TasksApart DEF IInv
  <2>3. Silent(u) => Silent(u)'
    BY <1>2, <2>1 DEF Silent
  <2>4. ASSUME NEW c \in Children, NEW p \in Sessions, AnsweredTo(u, c, p)
        PROVE  AnsweredTo(u, c, p)'
    <3>1. MessagesBy(u, c)' = MessagesBy(u, c) /\ MessagesBy(u, p)' = MessagesBy(u, p)
      BY <1>2, <2>1, SessionsApart
    <3> QED BY <2>2, <2>4, <3>1 DEF AnsweredTo
  <2> QED BY <2>1, <2>3, <2>4 DEF IInv, Answered
<1> QED BY <1>1, <1>2

LEMMA BirthMove ==
  ASSUME IInv, Settled, Grown, NEW t \in Spawned, todo[t] = <<>>, NEW new, Changed(t, new),
         parent' = parent, created' = created,
         \A y \in Tasks \ {t} : todo'[y] = todo[y] /\ aim'[y] = aim[y],
         \A c \in Children : ~DispatchesOf(t, c)' /\ (Bare(c) => Bare(c)')
  PROVE  Birth'
<1>1. <<>> \notin DispatchRest
  BY DispatchScripts
<1>2. ASSUME NEW u \in Spawned, NEW c \in Children
      PROVE  /\ u \in Spawned' /\ (DispatchesOf(u, c)' <=> DispatchesOf(u, c))
             /\ DispatchesOf(u, c) => u # t /\ todo'[u] = todo[u] /\ todo[u] \in DispatchRest
  <2>1. CASE u = t
    BY <1>1, <2>1 DEF DispatchesOf, Changed
  <2>2. CASE u # t
    <3>1. u \in Tasks
      BY SpawnedTurns, TasksApart DEF IInv
    <3> QED BY <2>2, <3>1 DEF DispatchesOf, Changed
  <2> QED BY <2>1, <2>2
<1>3. Spawned' = Spawned
  BY DEF Changed
<1>4. \A c \in Children : Made(c) => Made(c)'
  BY BornKept DEF IInv, Made
<1>5. ASSUME NEW u \in Spawned, NEW c \in Children, DispatchesOf(u, c), Stage(u, c)
      PROVE  Stage(u, c)'
  BY <1>2, <1>5, StageKept DEF IInv
<1> QED BY <1>2, <1>3, <1>4, <1>5, BirthKept DEF IInv

\* Cancel, Begin, Iterate, Fail, OtherTool: neither script nor child begins, and
\* no message is written.
LEMMA BodyMove ==
  ASSUME IInv, Types', Authored', Grown, NEW t \in Spawned, todo[t] = <<>>,
         NEW new \in Turn, Changed(t, new), new.session = turn[t].session,
         turn[t].pc # "done" /\ new.pc \notin {"done", "ready"},
         turn[t].pc = "ready" \/ new.sub = turn[t].sub,
         new.sub => turn[t].session \in Children /\ parent[turn[t].session] # None,
         UNCHANGED <<created, parent, todo, aim>>,
         \A u \in Spawned : \A r \in Sessions : MessagesBy(u, r)' = MessagesBy(u, r),
         \A c \in Children : Settled /\ Bare(c) => Bare(c)'
  PROVE  IInv'
<1>1. Known' /\ AtWork' /\ Settled
  BY TurnMove
<1>2. Answered'
  <2>1. new.sub => Silent(t)
    BY DEF IInv, Answered
  <2> QED BY <2>1, AnsweredMove DEF Silent
<1>3. Birth'
  <2>1. <<>> \notin DispatchRest
    BY DispatchScripts
  <2> QED BY <1>1, <2>1, BirthMove DEF DispatchesOf
<1> QED BY <1>1, <1>2, <1>3 DEF IInv

LEMMA Idle ==
  ASSUME IInv, NEW t \in Spawned, turn[t].pc \in {"ready", "call"}
  PROVE  todo[t] = <<>>
  BY TurnAtWork, SpawnedTurns DEF IInv

\* The turn after a call of a tool.
LEMMA Invoked ==
  ASSUME Types, NEW t \in Spawned, Invoke(t)
  PROVE  \E new \in Turn :
           /\ turn' = [turn EXCEPT ![t] = new] /\ new.session = turn[t].session
           /\ new.pc = "loop" /\ new.sub = turn[t].sub
<1> DEFINE k == turn[t].iter + 1
           new == [turn[t] EXCEPT !.pc = "loop", !.iter = k]
<1>1. turn[t] \in Turn
  BY SpawnedTurns
<1>2. k \in Nat
  BY <1>1 DEF Turn
<1>3. turn' = [turn EXCEPT ![t] = new]
  BY DEF Invoke
<1> HIDE DEF k
<1>4. new \in Turn /\ new.session = turn[t].session /\ new.pc = "loop" /\ new.sub = turn[t].sub
  BY <1>1, <1>2 DEF Turn, Ends
<1> HIDE DEF new
<1> QED BY <1>3, <1>4

LEMMA SilentBodyStep ==
  ASSUME IInv, NEW t \in Spawned, Cancel(t) \/ Begin(t) \/ Iterate(t) \/ OtherTool(t)
  PROVE  IInv'
<1> DEFINE s == turn[t].session
<1>1. /\ turn[t] \in Turn /\ s \in Sessions /\ Len(ledger[s]) \in Nat
      /\ ledger[s] \in Seq(Event) /\ heard[s] \subseteq DOMAIN ledger[s]
  BY SpawnedTurns DEF IInv, Types, Turn
<1>2. /\ UNCHANGED <<ledger, created, parent, paused, slot, todo, aim>>
      /\ todo[t] = <<>>
      /\ heard' = heard \/ heard' = [heard EXCEPT ![s] = @ \cup Prompt(t)]
      /\ \E new \in Turn :
           /\ turn' = [turn EXCEPT ![t] = new] /\ new.session = s
           /\ turn[t].pc # "done" /\ new.pc \notin {"done", "ready"}
           /\ turn[t].pc = "ready" \/ new.sub = turn[t].sub
           /\ new.sub => s \in Children /\ parent[s] # None
  <2>1. turn[t].sub => s \in Children /\ parent[s] # None
    BY DEF IInv, Known
  <2>2. CASE Cancel(t)
    <3>1. todo[t] = <<>>
      BY <2>2, Idle DEF Cancel
    <3> DEFINE new == [turn[t] EXCEPT !.pc = "cancelled"]
    <3>2. new \in Turn /\ new.session = s /\ new.pc = "cancelled" /\ new.sub = turn[t].sub
      BY <1>1 DEF Turn, Ends
    <3>3. turn' = [turn EXCEPT ![t] = new]
      BY <2>2 DEF Cancel, Goto
    <3> HIDE DEF new
    <3> QED BY <2>1, <2>2, <3>1, <3>2, <3>3 DEF Cancel, Control
  <2>3. CASE Begin(t)
    <3>1. todo[t] = <<>>
      BY <2>3, Idle DEF Begin, At
    <3> DEFINE b == s \in Children /\ parent[s] # None
               new == [turn[t] EXCEPT !.pc = "loop", !.built = Len(ledger[s]), !.sub = b]
    <3>2. new \in Turn /\ new.session = s /\ new.pc = "loop" /\ new.sub = b
      BY <1>1 DEF Turn, Ends
    <3>3. turn' = [turn EXCEPT ![t] = new]
      BY <2>3 DEF Begin
    <3> HIDE DEF new
    <3> QED BY <2>3, <3>1, <3>2, <3>3 DEF Begin, Control, At
  <2>4. CASE Iterate(t)
    <3> DEFINE pc == IF paused[s] THEN "stopped" ELSE "call"
               new == [turn[t] EXCEPT !.pc = pc]
    <3>1. pc \in {"stopped", "call"}
      OBVIOUS
    <3>2. new \in Turn /\ new.session = s /\ new.pc = pc /\ new.sub = turn[t].sub
      BY <1>1, <3>1 DEF Turn, Ends
    <3>3. turn' = [turn EXCEPT ![t] = new]
      BY <2>4 DEF Iterate, Goto
    <3>4. heard' = heard \/ heard' = [heard EXCEPT ![s] = @ \cup Prompt(t)]
      BY <2>4 DEF Iterate
    <3> HIDE DEF new, pc
    <3> QED BY <2>1, <2>4, <3>1, <3>2, <3>3, <3>4 DEF Iterate, Control, At
  <2>5. CASE OtherTool(t)
    <3>1. Invoke(t) /\ turn[t].pc = "call" /\ UNCHANGED <<created, todo, aim>>
      BY <2>5 DEF OtherTool, Invoke, At
    <3>2. todo[t] = <<>>
      BY <3>1, Idle
    <3> QED BY <2>1, <3>1, <3>2, Invoked DEF Invoke, IInv
  <2> QED BY <2>2, <2>3, <2>4, <2>5
<1>3. PICK new \in Turn :
        /\ turn' = [turn EXCEPT ![t] = new] /\ new.session = s
        /\ turn[t].pc # "done" /\ new.pc \notin {"done", "ready"}
        /\ turn[t].pc = "ready" \/ new.sub = turn[t].sub
        /\ new.sub => s \in Children /\ parent[s] # None
  BY <1>2
<1>4. turn' \in Seq(Turn) /\ Len(turn') <= MaxTurns /\ Changed(t, new)
  BY <1>3, TurnUpdate DEF IInv
<1>5. Spawned' = Spawned /\ Grown
  BY <1>2, <1>4 DEF Changed, Grown
<1>6. Types'
  <2>1. Prompt(t) \subseteq DOMAIN ledger[s] /\ DOMAIN ledger[s] \subseteq Nat
    BY <1>1 DEF Prompt
  <2>2. /\ heard' \in [Sessions -> SUBSET Nat]
        /\ \A r \in Sessions : heard'[r] \subseteq DOMAIN ledger[r]
    BY <1>1, <1>2, <2>1 DEF IInv, Types
  <2> QED BY <1>2, <1>4, <1>5, <2>2 DEF IInv, Types
<1>7. Authored'
  BY <1>2, <1>5, SpawnedTurns, AuthoredKept DEF IInv
<1>8. \A u, r : MessagesBy(u, r)' = MessagesBy(u, r)
  BY <1>2 DEF MessagesBy
<1>9. ASSUME NEW c \in Children, Settled, Bare(c)
      PROVE  Bare(c)'
  BY <1>2, <1>5, <1>9, BareKept DEF IInv
<1> QED BY <1>2, <1>3, <1>4, <1>5, <1>6, <1>7, <1>8, <1>9, BodyMove

LEMMA FailStep ==
  ASSUME IInv, NEW t \in Spawned, Fail(t)
  PROVE  IInv'
<1> DEFINE s == turn[t].session
           e == [kind |-> "error", actor |-> "system",
                 by |-> IF t \in Turns THEN t ELSE 0, child |-> None]
           new == [turn[t] EXCEPT !.pc = "failed"]
<1>1. turn[t] \in Turn /\ s \in Sessions /\ t \in Turns
  BY SpawnedTurns DEF IInv, Turn
<1>2. /\ turn[t].pc \in {"loop", "call"} /\ todo[t] = <<>>
      /\ UNCHANGED <<todo, aim, heard, created, parent, paused, slot>>
      /\ ledger' = [ledger EXCEPT ![s] = Append(@, e)]
      /\ turn' = [turn EXCEPT ![t] = new]
  <2>1. turn[t].pc \in {"loop", "call"} /\ todo[t] = <<>>
    BY Idle DEF Fail, At
  <2> QED BY <2>1 DEF Fail, Log, LogAbout, Goto, Control
<1>3. /\ new \in Turn /\ new.session = s /\ new.pc = "failed" /\ new.sub = turn[t].sub
  BY <1>1 DEF Turn, Ends
<1>4. e \in Event /\ e.kind = "error" /\ e.actor = "system" /\ e.by = t /\ e.child = None
  BY <1>1 DEF Event, Kinds, Actors
<1> HIDE DEF new, e
<1>5. turn' \in Seq(Turn) /\ Len(turn') <= MaxTurns /\ Changed(t, new) /\ Spawned' = Spawned
  BY <1>2, <1>3, TurnUpdate DEF IInv, Changed
<1>6. /\ Logged(s, e) /\ Grown /\ ledger' \in [Sessions -> Seq(Event)]
      /\ \A r \in Sessions : DOMAIN ledger[r] \subseteq DOMAIN ledger'[r]
  BY <1>1, <1>2, <1>4, LogStep DEF IInv
<1>7. Types'
  <2>1. \A r \in Sessions : heard'[r] \subseteq DOMAIN ledger'[r]
    BY <1>2, <1>6 DEF IInv, Types
  <2> QED BY <1>2, <1>5, <1>6, <2>1 DEF IInv, Types
<1>8. Authored'
  <2>1. ASSUME NEW r \in Sessions, NEW i \in DOMAIN ledger'[r]
        PROVE  \/ i \in DOMAIN ledger[r] /\ ledger'[r][i] = ledger[r][i]
               \/ ledger'[r][i] = e
    BY <1>6, <2>1 DEF Logged
  <2> QED BY <1>4, <1>5, <1>7, <2>1, SpawnedNext, AuthoredKept DEF IInv
<1>9. \A u, r : r \in Sessions => MessagesBy(u, r)' = MessagesBy(u, r)
  BY <1>1, <1>4, <1>6, LoggedMessages
<1>10. ASSUME NEW c \in Children, Settled, Bare(c)
       PROVE  Bare(c)'
  BY <1>1, <1>2, <1>4, <1>6, <1>10, SessionsApart, BareLogged
<1>11. turn[t].sub => turn[t].session \in Children /\ parent[turn[t].session] # None
  BY DEF IInv, Known
<1> QED BY <1>2, <1>3, <1>5, <1>6, <1>7, <1>8, <1>9, <1>10, <1>11, BodyMove

\* dispatch_subagent and steer_subagent start their scripts.
LEMMA ToolStep ==
  ASSUME IInv, NEW t \in Spawned, DispatchSubagent(t) \/ SteerSubagent(t)
  PROVE  IInv'
<1>1. /\ Invoke(t) /\ turn[t].pc = "call" /\ ~turn[t].sub
      /\ UNCHANGED <<ledger, parent, paused, slot, heard>>
  BY DEF DispatchSubagent, SteerSubagent, Orchestrate, Invoke, At
<1>2. PICK new \in Turn :
        /\ turn' = [turn EXCEPT ![t] = new] /\ new.session = turn[t].session
        /\ new.pc = "loop" /\ new.sub = turn[t].sub
  BY <1>1, Invoked DEF IInv
<1>3. turn' \in Seq(Turn) /\ Len(turn') <= MaxTurns /\ Changed(t, new) /\ Spawned' = Spawned
  BY <1>2, TurnUpdate DEF IInv, Changed
<1>4. todo[t] = <<>> /\ t \in Tasks /\ turn[t].session \in Existing /\ Grown
  BY <1>1, Idle, SpawnedTurns, TasksApart DEF IInv, Known, Grown
<1>5. PICK c \in Children, k \in {"message", "steer"}, q \in Seq(Steps) :
        /\ todo' = [todo EXCEPT ![t] = q]
        /\ aim' = [aim EXCEPT ![t] = About(c, k, "orchestrator")]
        /\ \/ /\ k = "message" /\ q = Dispatch
              /\ c \notin created /\ created' = created \cup {c}
           \/ k = "steer" /\ q = Wake /\ c \in created /\ created' = created
  <2>1. CASE DispatchSubagent(t)
    <3>1. Dispatch \in Seq(Steps)
      BY DispatchScripts DEF DispatchRest
    <3> QED BY <2>1, <3>1 DEF DispatchSubagent, Orchestrate
  <2>2. CASE SteerSubagent(t)
    <3>1. Wake \in Seq(Steps)
      BY WakeScripts DEF WakeRest
    <3>2. PICK c \in Children :
            /\ parent[c] = turn[t].session
            /\ Orchestrate(t, Wake, About(c, "steer", "orchestrator"))
            /\ UNCHANGED created
      BY <2>2 DEF SteerSubagent
    <3>3. turn[t].session # None
      BY <1>4, SessionsApart DEF Existing, IInv, Types
    <3>4. c \in created
      BY <3>2, <3>3 DEF IInv, Known
    <3> QED BY <3>1, <3>2, <3>4 DEF Orchestrate
  <2> QED BY <2>1, <2>2
<1>6. /\ todo' \in [Tasks -> Seq(Steps)] /\ todo'[t] = q
      /\ aim' \in [Tasks -> Aim \cup {None}] /\ aim'[t] = About(c, k, "orchestrator")
      /\ \A y \in Tasks \ {t} : todo'[y] = todo[y] /\ aim'[y] = aim[y]
  <2>1. About(c, k, "orchestrator") \in Aim
    BY SessionsApart, AimTyped DEF AllOps, Actors
  <2> QED BY <1>4, <1>5, <2>1 DEF IInv, Types
<1>7. c \in created' /\ created \subseteq created' /\ created' \subseteq Children
  BY <1>5 DEF IInv, Types
<1>8. Types'
  BY <1>1, <1>3, <1>6, <1>7 DEF IInv, Types
<1>9. turn[t].session # c \/ k = "steer"
  BY <1>4, <1>5, SessionsApart DEF Existing
<1>10. Dispatches(t)' \/ Steers(t)'
  <2>1. CASE k = "message"
    <3>1. Dispatch \in DispatchRest
      BY DEF DispatchRest
    <3>2. DispatchesOf(t, c)'
      BY <1>1, <1>2, <1>3, <1>5, <1>6, <2>1, <3>1 DEF DispatchesOf, Changed
    <3> QED BY <1>2, <1>3, <1>7, <1>9, <2>1, <3>2 DEF Dispatches, Changed
  <2>2. CASE k = "steer"
    <3>1. Wake \in WakeRest
      BY DEF WakeRest
    <3> QED BY <1>1, <1>2, <1>3, <1>5, <1>6, <1>7, <2>2, <3>1 DEF Steers, Changed
  <2> QED BY <2>1, <2>2
<1>11. Known' /\ AtWork' /\ Settled
  BY <1>1, <1>2, <1>3, <1>4, <1>6, <1>7, <1>10, TurnMove
<1>12. Authored'
  BY <1>1, <1>3, SpawnedTurns, AuthoredKept DEF IInv
<1>13. Answered'
  <2>1. \A u, r : MessagesBy(u, r)' = MessagesBy(u, r)
    BY <1>1 DEF MessagesBy
  <2> QED BY <1>1, <1>2, <1>3, <1>6, <2>1, AnsweredMove
<1>14. \A d \in Children : Bare(d) => Bare(d)'
  BY <1>1, <1>4, <1>11, BareKept DEF IInv
<1>15. Birth'
  <2>1. CASE k = "steer"
    <3>1. \A d \in Children : ~DispatchesOf(t, d)'
      BY <1>6, <2>1 DEF DispatchesOf, About
    <3> QED BY <1>1, <1>3, <1>4, <1>5, <1>6, <1>11, <1>14, <2>1, <3>1, BirthMove
  <2>2. CASE k = "message"
    <3>1. c \notin created /\ created' = created \cup {c} /\ q = Dispatch
      BY <1>5, <2>2
    <3>2. DispatchesOf(t, c)' /\ Stage(t, c)'
      <4>1. Dispatch \in DispatchRest /\ Head(Dispatch) = "worktree"
        BY DEF DispatchRest, Dispatch
      <4>2. DispatchesOf(t, c)'
        BY <1>1, <1>2, <1>3, <1>6, <2>2, <3>1, <4>1 DEF DispatchesOf, Changed
      <4>3. Bare(c)'
        BY <1>14, <3>1 DEF IInv, Birth
      <4> QED BY <1>6, <3>1, <4>1, <4>2, <4>3 DEF Stage
    <3>3. ASSUME NEW u \in Spawned, NEW d \in Children, u # t
          PROVE  /\ DispatchesOf(u, d)' <=> DispatchesOf(u, d)
                 /\ DispatchesOf(u, d) => /\ d \in created /\ todo'[u] = todo[u]
                                          /\ todo[u] \in DispatchRest
      <4>1. u \in Tasks
        BY SpawnedTurns, TasksApart DEF IInv
      <4>2. DispatchesOf(u, d)' <=> DispatchesOf(u, d)
        BY <1>3, <1>6, <3>3, <4>1 DEF DispatchesOf, Changed
      <4> QED BY <1>6, <3>3, <4>1, <4>2, DispatchMade DEF DispatchesOf
    <3>4. \A d \in Children : /\ DispatchesOf(t, d)' => d = c
                              /\ ~DispatchesOf(t, d)
      <4>1. <<>> \notin DispatchRest
        BY DispatchScripts
      <4>2. \A d \in Children : DispatchesOf(t, d)' => d = c
        BY <1>6 DEF DispatchesOf, About
      <4> QED BY <1>4, <4>1, <4>2 DEF DispatchesOf
    <3>5. ASSUME NEW u \in Spawned, NEW d \in Children, DispatchesOf(u, d)'
          PROVE  Stage(u, d)'
      <4>1. CASE u = t
        BY <3>2, <3>4, <3>5, <4>1
      <4>2. CASE u # t
        <5>1. Stage(u, d)
          BY <3>3, <3>5, <4>2 DEF IInv, Birth
        <5> QED BY <1>1, <1>4, <1>11, <1>14, <3>3, <3>5, <4>2, <5>1, StageKept DEF IInv
      <4> QED BY <4>1, <4>2
    <3>6. ASSUME NEW d \in Children, d # c
          PROVE  \/ \E u \in Spawned : DispatchesOf(u, d)'
                 \/ Bare(d)' \/ Made(d)'
      <4>1. Made(d) => Made(d)'
        BY <1>1, <1>4, <1>11, BornKept DEF IInv, Made
      <4>2. (\E u \in Spawned : DispatchesOf(u, d)) => \E u \in Spawned : DispatchesOf(u, d)'
        BY <3>3, <3>4
      <4> QED BY <1>14, <4>1, <4>2 DEF IInv, Birth
    <3>7. ASSUME NEW d \in Children, NEW u \in Spawned, NEW w \in Spawned,
                 DispatchesOf(u, d)', DispatchesOf(w, d)'
          PROVE  u = w
      <4>1. u # t /\ w # t => u = w
        BY <3>3, <3>7 DEF IInv, Birth
      <4>2. u = t => w = t
        BY <3>1, <3>3, <3>4, <3>7
      <4>3. w = t => u = t
        BY <3>1, <3>3, <3>4, <3>7
      <4> QED BY <4>1, <4>2, <4>3
    <3>8. \A d \in Children : d \notin created' => Bare(d)'
      BY <1>14, <3>1 DEF IInv, Birth
    <3> QED BY <1>3, <3>2, <3>5, <3>6, <3>7, <3>8 DEF Birth
  <2> QED BY <2>1, <2>2
<1> QED BY <1>8, <1>11, <1>12, <1>13, <1>15 DEF IInv

\* The final message and, for a subagent, the report that it starts.
LEMMA AnswerStep ==
  ASSUME IInv, NEW t \in Spawned, Answer(t)
  PROVE  IInv'
<1> DEFINE s == turn[t].session
           e == [kind |-> "message", actor |-> AgentOf(t),
                 by |-> IF t \in Turns THEN t ELSE 0, child |-> None]
           new == [turn[t] EXCEPT !.pc = "done"]
<1>1. turn[t] \in Turn /\ s \in Sessions /\ t \in Turns /\ t \in Tasks
  BY SpawnedTurns, TasksApart DEF IInv, Turn
<1>2. turn[t].sub => s \in Children /\ parent[s] # None /\ parent[s] \in Existing \ {s}
  BY DEF IInv, Known
<1>3. /\ turn[t].pc = "call" /\ todo[t] = <<>>
      /\ UNCHANGED <<heard, created, parent, paused, slot>>
      /\ ledger' = [ledger EXCEPT ![s] = Append(@, e)]
      /\ turn' = [turn EXCEPT ![t] = new]
  <2>1. turn[t].pc = "call" /\ todo[t] = <<>>
    BY Idle DEF Answer, At
  <2> QED BY <2>1 DEF Answer, Log, LogAbout, Goto, Control
<1>4. new \in Turn /\ new.session = s /\ new.pc = "done" /\ new.sub = turn[t].sub
  BY <1>1 DEF Turn, Ends
<1>5. /\ e \in Event /\ e.kind = "message" /\ e.by = t /\ e.child = None
      /\ e.actor = IF turn[t].sub THEN s ELSE "orchestrator"
  BY <1>1, <1>2 DEF Event, Kinds, AllOps, Actors, AgentOf
<1> HIDE DEF new, e
<1>6. turn' \in Seq(Turn) /\ Len(turn') <= MaxTurns /\ Changed(t, new) /\ Spawned' = Spawned
  BY <1>3, <1>4, TurnUpdate DEF IInv, Changed
<1>7. /\ Logged(s, e) /\ Grown /\ ledger' \in [Sessions -> Seq(Event)]
      /\ \A r \in Sessions : DOMAIN ledger[r] \subseteq DOMAIN ledger'[r]
  BY <1>1, <1>3, <1>5, LogStep DEF IInv
<1>8. /\ todo' \in [Tasks -> Seq(Steps)] /\ aim' \in [Tasks -> Aim \cup {None}]
      /\ \A y \in Tasks \ {t} : todo'[y] = todo[y] /\ aim'[y] = aim[y]
      /\ ~turn[t].sub => todo'[t] = <<>>
      /\ turn[t].sub => todo'[t] = Wake /\ aim'[t] = About(parent[s], "message", s)
  <2>1. CASE ~turn[t].sub
    BY <1>3, <2>1 DEF Answer, IInv, Types
  <2>2. CASE turn[t].sub
    <3>1. /\ todo' = [todo EXCEPT ![t] = Wake]
          /\ aim' = [aim EXCEPT ![t] = About(parent[s], "message", s)]
      BY <2>2 DEF Answer, AgentOf
    <3>2. Wake \in Seq(Steps)
      BY WakeScripts DEF WakeRest
    <3>3. parent[s] \in Sessions
      BY <1>2, <2>2 DEF IInv, Types
    <3>4. About(parent[s], "message", s) \in Aim
      BY <1>2, <2>2, <3>3, AimTyped DEF AllOps, Actors
    <3> QED BY <1>1, <2>2, <3>1, <3>2, <3>4 DEF IInv, Types
  <2> QED BY <2>1, <2>2
<1>9. Types'
  <2>1. \A r \in Sessions : heard'[r] \subseteq DOMAIN ledger'[r]
    BY <1>3, <1>7 DEF IInv, Types
  <2> QED BY <1>3, <1>6, <1>7, <1>8, <2>1 DEF IInv, Types
<1>10. Known' /\ AtWork' /\ Settled
  <2>1. todo'[t] # <<>> => Reports(t)'
    <3>1. Wake \in WakeRest
      BY DEF WakeRest
    <3> QED BY <1>3, <1>4, <1>6, <1>8, <3>1 DEF Reports, Changed
  <2> QED BY <1>2, <1>3, <1>4, <1>6, <1>8, <2>1, TurnMove
<1>11. Authored'
  <2>1. ASSUME NEW r \in Sessions, NEW i \in DOMAIN ledger'[r]
        PROVE  \/ i \in DOMAIN ledger[r] /\ ledger'[r][i] = ledger[r][i]
               \/ ledger'[r][i] = e
    BY <1>7, <2>1 DEF Logged
  <2> QED BY <1>5, <1>6, <1>9, <2>1, SpawnedNext, AuthoredKept DEF IInv
<1>12. Answered'
  <2>1. \A u \in Spawned \ {t} : \A r \in Sessions : MessagesBy(u, r)' = MessagesBy(u, r)
    BY <1>1, <1>5, <1>7, LoggedMessages
  <2>2. ASSUME new.sub, NEW c \in Children, NEW p \in Sessions, new.session = c, parent[c] = p
        PROVE  AnsweredTo(t, c, p)'
    <3>1. p # c
      BY <1>2, <1>4, <2>2
    <3>2. MessagesBy(t, c) = {} /\ MessagesBy(t, p) = {}
      BY <1>3, <1>4, <2>2, SessionsApart DEF IInv, Answered, Silent
    <3>3. One(MessagesBy(t, c)')
      BY <1>1, <1>4, <1>5, <1>7, <2>2, <3>2, LoggedMessages
    <3>4. MessagesBy(t, p)' = {}
      BY <1>1, <1>4, <1>5, <1>7, <2>2, <3>1, <3>2, LoggedMessages
    <3> QED BY <1>4, <1>8, <2>2, <3>3, <3>4 DEF AnsweredTo
  <2> QED BY <1>3, <1>4, <1>6, <1>8, <2>1, <2>2, AnsweredMove
<1>13. Birth'
  <2>1. ASSUME NEW c \in Children
        PROVE  ~DispatchesOf(t, c)' /\ (Bare(c) => Bare(c)')
    <3>1. ~DispatchesOf(t, c)'
      BY <1>4, <1>6 DEF DispatchesOf, Changed
    <3>2. s # c \/ turn'[e.by].session = c
      BY <1>4, <1>5, <1>6 DEF Changed
    <3>3. Bare(c) => Bare(c)'
      BY <1>1, <1>3, <1>5, <1>7, <1>10, <3>2, SessionsApart, BareLogged
    <3> QED BY <3>1, <3>3
  <2> QED BY <1>3, <1>6, <1>7, <1>8, <1>10, <2>1, BirthMove
<1> QED BY <1>9, <1>10, <1>11, <1>12, <1>13 DEF IInv

\* A request never does what makes a child.
LEMMA Handlers ==
  \A op \in AllOps :
    /\ Handler(op) \in Seq(Steps)
    /\ \A i \in DOMAIN Handler(op) : Handler(op)[i] \notin {"worktree", "meta", "dispatch"}
<1> SUFFICES ASSUME NEW op \in AllOps
             PROVE  /\ Handler(op) \in Seq(Steps)
                    /\ \A i \in DOMAIN Handler(op) :
                         Handler(op)[i] \notin {"worktree", "meta", "dispatch"}
  OBVIOUS
<1>1. CASE op = "message"
  BY <1>1 DEF Handler, Steps
<1>2. CASE op = "steer"
  BY <1>2 DEF Handler, Wake, Steps
<1>3. CASE op = "pause"
  BY <1>3 DEF Handler, Steps
<1>4. CASE op = "resume"
  BY <1>4 DEF Handler, Steps
<1>5. CASE op = "interrupt"
  BY <1>5 DEF Handler, Steps
<1> QED BY <1>1, <1>2, <1>3, <1>4, <1>5 DEF AllOps

LEMMA ReceiveStep ==
  ASSUME IInv, NEW r \in Requests, Receive(r)
  PROVE  IInv'
<1>1. PICK op \in Ops, s \in Existing :
        /\ aim' = [aim EXCEPT ![r] = About(s, op, "human")]
        /\ todo' = [todo EXCEPT ![r] = Handler(op)]
  BY DEF Receive, Existing
<1>2. UNCHANGED <<ledger, created, parent, paused, slot, turn, heard>>
  BY DEF Receive
<1>3. op \in AllOps /\ s \in Sessions /\ r \in Tasks /\ r \notin Turns
  BY SessionsApart, TasksApart, DelegationAssumption
     DEF IInv, Types, Existing, DelegationAssumption
<1>4. Handler(op) \in Seq(Steps) /\ About(s, op, "human") \in Aim
  BY <1>3, Handlers, AimTyped DEF Actors
<1>5. /\ todo' \in [Tasks -> Seq(Steps)] /\ aim' \in [Tasks -> Aim \cup {None}]
      /\ todo'[r] = Handler(op) /\ aim'[r] = About(s, op, "human")
      /\ \A y \in Tasks \ {r} : todo'[y] = todo[y] /\ aim'[y] = aim[y]
  BY <1>1, <1>3, <1>4 DEF IInv, Types
<1>6. Spawned' = Spawned /\ Existing' = Existing
  BY <1>2 DEF Spawned, Existing
<1>7. Types'
  BY <1>2, <1>5, <1>6 DEF IInv, Types
<1>8. Known'
  BY <1>2, <1>6 DEF IInv, Known
<1>9. ASSUME NEW t \in Turns
      PROVE  /\ todo'[t] = todo[t] /\ aim'[t] = aim[t]
             /\ \A c : DispatchesOf(t, c)' <=> DispatchesOf(t, c)
             /\ \A c : Stage(t, c)' <=> Stage(t, c)
             /\ Steers(t)' <=> Steers(t)
             /\ Reports(t)' <=> Reports(t)
  <2>1. todo'[t] = todo[t] /\ aim'[t] = aim[t]
    BY <1>3, <1>5, TasksApart
  <2>2. \A c : DispatchesOf(t, c)' <=> DispatchesOf(t, c)
    BY <1>2, <2>1 DEF DispatchesOf
  <2>3. \A c : Bare(c)' <=> Bare(c)
    BY <1>2 DEF Bare, Dispatched, Briefed, IsBrief
  <2>4. \A c : /\ Dispatched(c)' <=> Dispatched(c)
               /\ Briefed(c)' <=> Briefed(c)
    BY <1>2 DEF Dispatched, Briefed, IsBrief
  <2>5. \A c : Stage(t, c)' <=> Stage(t, c)
    BY <1>2, <2>1, <2>3, <2>4 DEF Stage
  <2>6. Steers(t)' <=> Steers(t)
    BY <1>2, <2>1 DEF Steers
  <2>7. Reports(t)' <=> Reports(t)
    BY <1>2, <2>1 DEF Reports
  <2> QED BY <2>1, <2>2, <2>5, <2>6, <2>7
<1>10. AtWork'
  <2>1. ASSUME NEW x \in Requests, todo'[x] # <<>>
        PROVE  /\ \A i \in DOMAIN todo'[x] :
                    todo'[x][i] \notin {"worktree", "meta", "dispatch"}
               /\ \E u \in Existing, o \in AllOps : aim'[x] = About(u, o, "human")
    <3>1. CASE x = r
      BY <1>3, <1>5, <3>1, Handlers
    <3>2. CASE x # r
      BY <1>5, <2>1, <3>2, TasksApart DEF IInv, AtWork
    <3> QED BY <3>1, <3>2
  <2>2. ASSUME NEW t \in Turns, todo'[t] # <<>>
        PROVE  t \in Spawned /\ (Dispatches(t)' \/ Steers(t)' \/ Reports(t)')
    <3>1. t \in Spawned /\ (Dispatches(t) \/ Steers(t) \/ Reports(t))
      BY <1>9, <2>2 DEF IInv, AtWork
    <3>2. Dispatches(t) => Dispatches(t)'
      BY <1>2, <1>9 DEF Dispatches
    <3> QED BY <1>9, <3>1, <3>2
  <2> QED BY <1>6, <2>1, <2>2 DEF AtWork
<1>11. Authored'
  BY <1>2, <1>6 DEF IInv, Authored
<1>12. Answered'
  <2>1. ASSUME NEW t \in Spawned
        PROVE  /\ Silent(t) => Silent(t)'
               /\ \A c, p : AnsweredTo(t, c, p) => AnsweredTo(t, c, p)'
    <3>1. \A s1 : MessagesBy(t, s1)' = MessagesBy(t, s1)
      BY <1>2 DEF MessagesBy
    <3>2. todo'[t] = todo[t]
      BY <1>9, SpawnedTurns DEF IInv
    <3> QED BY <3>1, <3>2 DEF Silent, AnsweredTo
  <2> QED BY <1>2, <1>6, <2>1 DEF IInv, Answered
<1>13. Birth'
  <2>1. \A c : (Bare(c)' <=> Bare(c)) /\ (Made(c)' <=> Made(c))
    BY <1>2, <1>6 DEF Bare, Made, Dispatched, Briefed, IsBrief
  <2>2. Spawned \subseteq Turns
    BY SpawnedTurns DEF IInv
  <2> QED BY <1>2, <1>6, <1>9, <2>1, <2>2 DEF IInv, Birth
<1> QED BY <1>7, <1>8, <1>10, <1>11, <1>12, <1>13 DEF IInv

-----------------------------------------------------------------------------
LEMMA InitHolds == Init => IInv
<1> SUFFICES ASSUME Init
             PROVE  IInv
  OBVIOUS
<1>1. NewTurn(Root) \in Turn /\ NewTurn(Root).session = Root
      /\ NewTurn(Root).sub = FALSE /\ NewTurn(Root).pc = "ready"
  BY SessionsApart DEF NewTurn, Turn
<1>2. /\ turn \in Seq(Turn) /\ Len(turn) = 1 /\ Spawned = {1} /\ turn[1] = NewTurn(Root)
      /\ 1 <= MaxTurns
  BY <1>1, DelegationAssumption DEF Init, Spawned, DelegationAssumption
<1> DEFINE e == [kind |-> "message", actor |-> "human", by |-> 0, child |-> None]
<1>3. e \in Event /\ e.child = None /\ e.by = 0 /\ e.actor = "human"
  BY DEF Event, Kinds, AllOps, Actors
<1> HIDE DEF e
<1>4. ledger = [s \in Sessions |-> IF s = Root THEN <<e>> ELSE <<>>]
  BY DEF Init, e
<1>5. \A s \in Sessions :
        /\ ledger[s] \in Seq(Event)
        /\ \A i \in DOMAIN ledger[s] : s = Root /\ ledger[s][i] = e
  BY <1>3, <1>4
<1>6. Types
  <2>1. ledger \in [Sessions -> Seq(Event)]
    BY <1>4, <1>5
  <2>2. /\ todo = [x \in Tasks |-> <<>>] /\ aim = [x \in Tasks |-> None]
        /\ heard = [s \in Sessions |-> {}]
    BY DEF Init
  <2>3. todo \in [Tasks -> Seq(Steps)]
    BY <2>2
  <2>4. /\ aim \in [Tasks -> Aim \cup {None}] /\ heard \in [Sessions -> SUBSET Nat]
        /\ \A s \in Sessions : heard[s] \subseteq DOMAIN ledger[s]
    BY <2>2
  <2> QED BY <1>2, <2>1, <2>3, <2>4 DEF Init, Types
<1>7. Known
  BY <1>1, <1>2 DEF Init, Known, Existing
<1>8. AtWork
  <2>1. \A x \in Tasks : todo[x] = <<>>
    BY DEF Init
  <2> QED BY <2>1, TasksApart DEF AtWork
<1>9. Authored
  BY <1>3, <1>5 DEF Authored
<1>10. Answered
  <2>1. Silent(1)
    BY <1>3, <1>5 DEF Silent, MessagesBy
  <2> QED BY <1>1, <1>2, <2>1 DEF Answered
<1>11. Birth
  <2>1. ASSUME NEW c \in Children
        PROVE  Bare(c)
    <3>1. ~Dispatched(c)
      BY <1>3, <1>5, SessionsApart DEF Dispatched
    <3>2. ~Briefed(c)
      BY <1>5, SessionsApart DEF Briefed
    <3> QED BY <3>1, <3>2 DEF Bare, Init
  <2>2. \A t \in Spawned : \A c : ~DispatchesOf(t, c)
    BY <1>1, <1>2 DEF DispatchesOf
  <2> QED BY <2>1, <2>2 DEF Birth
<1> QED BY <1>6, <1>7, <1>8, <1>9, <1>10, <1>11 DEF IInv

LEMMA NextKeeps == IInv /\ [Next]_vars => IInv'
<1> SUFFICES ASSUME IInv, [Next]_vars
             PROVE  IInv'
  OBVIOUS
<1>1. ASSUME NEW r \in Requests, Receive(r)
      PROVE  IInv'
  BY <1>1, ReceiveStep
<1>2. ASSUME NEW x \in Tasks, Step(x)
      PROVE  IInv'
  <2>1. CASE Raise(x) \/ Clear(x)
    BY <2>1, FlagStep
  <2>2. CASE Abort(x)
    BY <2>2, AbortStep
  <2>3. CASE AppendAim(x)
    <3>1. CASE x \in Turns /\ \E d \in created : DispatchesOf(x, d)
      BY <2>3, <3>1, BriefStep
    <3>2. CASE \A d \in created : x \in Turns => ~DispatchesOf(x, d)
      BY <2>3, <3>2, AppendStep
    <3> QED BY <3>1, <3>2
  <2>4. CASE IfIdle(x)
    <3>1. PICK b \in BOOLEAN : b = ~IsRunning(aim[x].session)
      BY DEF IsRunning
    <3> QED BY <2>4, <3>1, TestStep DEF IfIdle
  <2>5. CASE IfUnpaused(x)
    <3>1. PICK b \in BOOLEAN : b = ~paused[aim[x].session]
      OBVIOUS
    <3> QED BY <2>5, <3>1, TestStep DEF IfUnpaused
  <2>6. CASE IfPending(x)
    <3>1. PICK b \in BOOLEAN : b = HasPendingInput(ledger[aim[x].session])
      BY DEF HasPendingInput
    <3> QED BY <2>6, <3>1, TestStep DEF IfPending
  <2>7. CASE Worktree(x)
    BY <2>7, TestStep DEF Worktree
  <2>8. CASE Meta(x)
    BY <2>8, MetaStep
  <2>9. CASE DispatchEvent(x)
    BY <2>9, EventStep
  <2>10. CASE Spawn(x)
    BY <2>10, SpawnStep
  <2> QED BY <1>2, <2>1, <2>2, <2>3, <2>4, <2>5, <2>6, <2>7, <2>8, <2>9, <2>10 DEF Step
<1>3. ASSUME NEW t \in Spawned, Wrapper(t) \/ Body(t)
      PROVE  IInv'
  BY <1>3, WrapperStep, SilentBodyStep, FailStep, ToolStep, AnswerStep DEF Body
<1>4. CASE UNCHANGED vars
  <2>1. UNCHANGED <<ledger, created, parent, paused, slot, turn, todo, aim, heard>>
    BY <1>4 DEF vars
  <2>2. Spawned' = Spawned /\ Still
    BY <2>1 DEF Spawned, Still
  <2>3. Types'
    BY <2>1, <2>2 DEF IInv, Types
  <2>4. 1 \in Tasks
    BY TasksApart, DelegationAssumption DEF Turns, DelegationAssumption
  <2>5. Advances(1, todo[1])
    BY <2>1 DEF Advances, Leaves
  <2> QED BY <2>1, <2>2, <2>3, <2>4, <2>5, QuietStep
<1> QED BY <1>1, <1>2, <1>3, <1>4 DEF Next

\* What holds of an orchestrator and its subagents at every moment, between any
\* two steps of the requests, the turns and their wrappers: who has a parent,
\* what a dispatch has done so far, and which of its messages a turn has written.
THEOREM Invariance == Spec => []IInv
  BY InitHolds, NextKeeps, PTL DEF Spec

\* The variables stay in their types, and no turn is given an event that is not
\* in its ledger.
THEOREM TypeCorrect == Spec => []TypeOK
<1>1. IInv => TypeOK
  BY DEF IInv, Types, TypeOK
<1> QED BY <1>1, Invariance, PTL

\* An answer of a subagent is reported to its parent exactly once, whatever the
\* human stops, steers or resumes meanwhile, and however many turns a child has.
THEOREM Reported == Spec => []ReportedOnce
<1>1. ASSUME IInv
      PROVE  ReportedOnce
  <2> SUFFICES ASSUME NEW t \in Spawned, turn[t].sub, Finished(t)
               PROVE  LET c == turn[t].session
                      IN  Cardinality(MessagesBy(t, parent[c])) = Cardinality(MessagesBy(t, c))
    BY DEF ReportedOnce
  <2> DEFINE c == turn[t].session
  <2>1. /\ c \in Children /\ c \in Sessions /\ parent[c] \in Sessions
    BY <1>1, SessionsApart DEF IInv, Known, Types
  <2>2. turn[t].pc \in Ends /\ todo[t] = <<>>
    BY DEF Finished
  <2>3. CASE turn[t].pc # "done"
    <3>1. Silent(t)
      BY <1>1, <2>3 DEF IInv, Answered
    <3> QED BY <2>1, <3>1 DEF Silent
  <2>4. CASE turn[t].pc = "done"
    <3>1. todo[t] # Wake
      BY <2>2, WakeScripts DEF WakeRest
    <3>2. AnsweredTo(t, c, parent[c])
      BY <1>1, <2>1, <2>4 DEF IInv, Answered
    <3>3. One(MessagesBy(t, c)) /\ One(MessagesBy(t, parent[c]))
      BY <3>1, <3>2 DEF AnsweredTo
    <3>4. \A S : One(S) => Cardinality(S) = 1
      BY FS_Singleton DEF One
    <3> QED BY <3>3, <3>4
  <2> QED BY <2>3, <2>4
<1> QED BY <1>1, Invariance, PTL

\* A dispatch leaves no half-made subagent, for any number of children: its
\* parent, event, brief and turn come with it or, if it is given up, not at all.
THEOREM DispatchedWhole == Spec => []DispatchWhole
<1>1. ASSUME IInv
      PROVE  DispatchWhole
  <2> SUFFICES ASSUME NEW c \in created
               PROVE  \/ Dispatching(c)
                      \/ /\ parent[c] # None /\ Dispatched(c) /\ Briefed(c)
                         /\ \E t \in Spawned : turn[t].session = c
                      \/ parent[c] = None /\ ~Dispatched(c) /\ ~Briefed(c)
    BY DEF DispatchWhole
  <2>1. c \in Children
    BY <1>1 DEF IInv, Types
  <2>2. <<>> \notin DispatchRest
    BY DispatchScripts
  <2>3. ASSUME NEW t \in Spawned, DispatchesOf(t, c)
        PROVE  Dispatching(c)
    BY <2>2, <2>3 DEF DispatchesOf, Dispatching
  <2> QED BY <1>1, <2>1, <2>3 DEF IInv, Birth, Bare, Made
<1> QED BY <1>1, Invariance, PTL

=============================================================================
