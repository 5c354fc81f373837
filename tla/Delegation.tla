----------------------------- MODULE Delegation -----------------------------
(***************************************************************************)
(* An orchestrator session and the subagents it dispatches: how a child    *)
(* session comes to be, how its parent and the human reach it, and how its *)
(* answer comes back as a report that wakes the parent                     *)
(* (daemon/composerd/src/orchestrator.rs and daemon/composerd/src/api.rs). *)
(*                                                                         *)
(* Requests and turns work through scripts of atomic steps, and any two    *)
(* tasks interleave between two steps.  A model reply has at most one tool *)
(* call; calls of other tools, usage, budget and escalation are those of   *)
(* Session and left out, and so are failing writes.                        *)
(***************************************************************************)
EXTENDS Naturals, Sequences, FiniteSets

CONSTANTS
  Root,       \* an orchestrator session of the human
  Children,   \* the sessions that dispatches may create
  None,       \* no meta.json, no parent, no request yet
  Requests,   \* the human's control requests
  Ops,        \* which kinds of request arrive
  MaxTurns,   \* bound of the model: turns spawned in all
  MaxIter     \* MAX_ITERATIONS

AllOps == {"message", "steer", "pause", "resume", "interrupt"}

ASSUME DelegationAssumption ==
  /\ Root \notin Children /\ None \notin Children \cup {Root}
  /\ Ops \subseteq AllOps
  /\ MaxTurns \in Nat \ {0} /\ MaxIter \in Nat \ {0}
  /\ Requests \cap (1 .. MaxTurns) = {}
  /\ Children \cap {"human", "orchestrator", "system"} = {}  \* an actor is sub:c

VARIABLES
  ledger,   \* per session: its events
  created,  \* the children that have a directory: the API lists and serves them
  parent,   \* per child: the parent in its meta.json, None before it is written
  paused, slot, \* per session: its SessionControl; slot 0 holds no handle
  turn,     \* the turns spawned so far, in that order
  todo, aim,    \* per task: the steps it has left, and what they are about
  heard     \* per session: the events its model calls were given (history)

vars == <<ledger, created, parent, paused, slot, turn, todo, aim, heard>>

Sessions == {Root} \cup Children
Turns    == 1 .. MaxTurns
Tasks    == Requests \cup Turns

Kinds  == AllOps \cup {"dispatch", "error"}
Actors == {"human", "orchestrator", "system"} \cup Children   \* child c is sub:c
Event  == [kind : Kinds, actor : Actors, by : Turns \cup {0}, child : Children \cup {None}]

Steps == {"raise", "clear", "abort", "append", "ifIdle", "ifUnpaused", "ifPending",
          "spawn", "worktree", "meta", "dispatch"}
Aim   == [session : Sessions, kind : AllOps, actor : Actors]
Ends  == {"done", "stopped", "failed", "cancelled"}
Turn  == [session : Sessions, wrap : {"spawned", "waiting", "gone"},
          pc : {"ready", "loop", "call"} \cup Ends,
          sub : BOOLEAN, built : Nat, iter : Nat, aborted : BOOLEAN]

-----------------------------------------------------------------------------
Spawned      == DOMAIN turn
Finished(t)  == turn[t].pc \in Ends /\ todo[t] = <<>>
IsRunning(s) == slot[s] # 0 /\ ~Finished(slot[s])

IsInput(e) == e.kind = "steer" \/ (e.kind = "message" /\ e.actor = "human")

\* has_pending_input: every message that is not the human's counts as the reply.
HasPendingInput(evs) ==
  \E i \in DOMAIN evs :
    /\ IsInput(evs[i])
    /\ \A j \in i .. Len(evs) : evs[j].kind = "message" => evs[j].actor = "human"

\* The actor of turn t on its ledger.
AgentOf(t) == IF turn[t].sub THEN turn[t].session ELSE "orchestrator"

\* What a model call of turn t is given: the history its prompt was built from
\* and, of what came later, the steers and the human's messages it folded.
Prompt(t) ==
  LET evs == ledger[turn[t].session] IN
  {i \in DOMAIN evs : i <= turn[t].built \/ IsInput(evs[i])}

LogAbout(s, kind, actor, x, child) ==
  ledger' = [ledger EXCEPT ![s] =
    Append(@, [kind |-> kind, actor |-> actor,
               by |-> IF x \in Turns THEN x ELSE 0, child |-> child])]

Log(s, kind, actor, x) == LogAbout(s, kind, actor, x, None)

NewTurn(s) == [session |-> s, wrap |-> "spawned", pc |-> "ready", sub |-> FALSE,
               built |-> 0, iter |-> 0, aborted |-> FALSE]

-----------------------------------------------------------------------------
(* Scripts.  A test that fails ends the script it is in.                   *)

\* steer, steer_subagent and the report: wake a session that is idle.
Wake == <<"append", "ifIdle", "ifUnpaused", "spawn">>

Handler(op) ==
  CASE op = "message"   -> <<"append", "ifUnpaused", "spawn">>
    [] op = "steer"     -> Wake
    [] op = "pause"     -> <<"raise", "append">>
    [] op = "resume"    -> <<"clear", "append", "ifIdle", "ifPending", "spawn">>
    [] op = "interrupt" -> <<"abort", "append">>

\* A dispatch that leaves the brief to a turn the child already has.
DispatchIfIdle == <<"worktree", "meta", "dispatch", "append", "ifIdle", "spawn">>

\* dispatch_subagent after create_session; what it appends is the brief.
Dispatch == <<"worktree", "meta", "dispatch", "append", "spawn">>

About(s, kind, actor) == [session |-> s, kind |-> kind, actor |-> actor]

\* The human has posted a first message to an idle session.
Init ==
  /\ ledger = [s \in Sessions |->
                 IF s = Root
                 THEN <<[kind |-> "message", actor |-> "human", by |-> 0, child |-> None]>>
                 ELSE <<>>]
  /\ created = {} /\ parent = [c \in Children |-> None]
  /\ paused = [s \in Sessions |-> FALSE] /\ slot = [s \in Sessions |-> 0]
  /\ turn = <<NewTurn(Root)>>
  /\ todo = [x \in Tasks |-> <<>>] /\ aim = [x \in Tasks |-> None]
  /\ heard = [s \in Sessions |-> {}]

\* A request arrives for a session that exists, a child's included from the
\* moment it has a directory.
Receive(r) ==
  /\ aim[r] = None
  /\ \E op \in Ops, s \in {Root} \cup created :
       /\ aim' = [aim EXCEPT ![r] = About(s, op, "human")]
       /\ todo' = [todo EXCEPT ![r] = Handler(op)]
  /\ UNCHANGED <<ledger, created, parent, paused, slot, turn, heard>>

-----------------------------------------------------------------------------
(* The steps.                                                              *)

Do(x, step) ==
  /\ todo[x] # <<>> /\ Head(todo[x]) = step
  /\ todo' = [todo EXCEPT ![x] = Tail(@)]
  /\ UNCHANGED <<created, aim, heard>>

Raise(x) ==
  /\ Do(x, "raise")
  /\ paused' = [paused EXCEPT ![aim[x].session] = TRUE]
  /\ UNCHANGED <<ledger, parent, slot, turn>>

Clear(x) ==
  /\ Do(x, "clear")
  /\ paused' = [paused EXCEPT ![aim[x].session] = FALSE]
  /\ UNCHANGED <<ledger, parent, slot, turn>>

Abort(x) ==
  /\ Do(x, "abort")
  /\ LET s == aim[x].session IN
       /\ slot' = [slot EXCEPT ![s] = 0]
       /\ turn' = IF slot[s] = 0 THEN turn ELSE [turn EXCEPT ![slot[s]].aborted = TRUE]
  /\ UNCHANGED <<ledger, parent, paused>>

AppendAim(x) ==
  /\ Do(x, "append")
  /\ Log(aim[x].session, aim[x].kind, aim[x].actor, x)
  /\ UNCHANGED <<parent, paused, slot, turn>>

Test(x, step, passes) ==
  /\ todo[x] # <<>> /\ Head(todo[x]) = step
  /\ todo' = [todo EXCEPT ![x] = IF passes THEN Tail(@) ELSE <<>>]
  /\ UNCHANGED <<ledger, created, parent, paused, slot, turn, aim, heard>>

IfIdle(x)     == Test(x, "ifIdle", ~IsRunning(aim[x].session))
IfUnpaused(x) == Test(x, "ifUnpaused", ~paused[aim[x].session])
IfPending(x)  == Test(x, "ifPending", HasPendingInput(ledger[aim[x].session]))

\* git worktree add; a failure ends the dispatch and leaves the directory.
Worktree(x) == \E added \in BOOLEAN : Test(x, "worktree", added)

Meta(x) ==
  /\ Do(x, "meta")
  /\ parent' = [parent EXCEPT ![aim[x].session] = turn[x].session]
  /\ UNCHANGED <<ledger, paused, slot, turn>>

DispatchEvent(x) ==
  /\ Do(x, "dispatch")
  /\ LogAbout(turn[x].session, "dispatch", "orchestrator", x, aim[x].session)
  /\ UNCHANGED <<parent, paused, slot, turn>>

\* run_turn's wrapper spawns the body.
Spawn(x) ==
  /\ Do(x, "spawn")
  /\ Len(turn) < MaxTurns
  /\ turn' = Append(turn, NewTurn(aim[x].session))
  /\ UNCHANGED <<ledger, parent, paused, slot>>

Step(x) ==
  \/ Raise(x) \/ Clear(x) \/ Abort(x) \/ AppendAim(x) \/ IfIdle(x) \/ IfUnpaused(x)
  \/ IfPending(x) \/ Worktree(x) \/ Meta(x) \/ DispatchEvent(x) \/ Spawn(x)

-----------------------------------------------------------------------------
(* The wrapper and the body of a turn.                                     *)

StoreHandle(t) ==
  /\ turn[t].wrap = "spawned"
  /\ turn' = [turn EXCEPT ![t].wrap = "waiting"]
  /\ slot' = [slot EXCEPT ![turn[t].session] = t]
  /\ UNCHANGED <<ledger, created, parent, paused, todo, aim, heard>>

Reap(t) ==
  /\ turn[t].wrap = "waiting" /\ Finished(t)
  /\ turn' = [turn EXCEPT ![t].wrap = "gone"]
  /\ slot' = [slot EXCEPT ![turn[t].session] = 0]
  /\ UNCHANGED <<ledger, created, parent, paused, todo, aim, heard>>

At(t, pc) == turn[t].pc = pc
Goto(t, pc) == turn' = [turn EXCEPT ![t].pc = pc]
Control == <<created, parent, paused, slot>>

\* An abort that also takes effect between the steps of a tool or a report, as
\* it would if these were awaits.
CancelAnywhere(t) ==
  /\ turn[t].aborted /\ (turn[t].pc \in {"ready", "call"} \/ todo[t] # <<>>)
  /\ Goto(t, "cancelled")
  /\ todo' = [todo EXCEPT ![t] = <<>>]
  /\ UNCHANGED <<ledger, aim, heard, Control>>

\* An aborted body goes no further than the await it is in or reaches next:
\* dispatch, steer_subagent and the report have none.
Cancel(t) ==
  /\ turn[t].aborted /\ turn[t].pc \in {"ready", "call"}
  /\ Goto(t, "cancelled")
  /\ UNCHANGED <<ledger, todo, aim, heard, Control>>

\* Every turn of a child runs as a subagent's, whatever its meta.json says.
BeginAssumed(t) ==
  /\ At(t, "ready") /\ ~turn[t].aborted
  /\ LET s == turn[t].session IN
     turn' = [turn EXCEPT ![t].pc = "loop", ![t].built = Len(ledger[s]),
                          ![t].sub = s \in Children]
  /\ UNCHANGED <<ledger, todo, aim, heard, Control>>

\* The prompt is built and meta.json is read: without one, a child's turn runs
\* as an orchestrator's.
Begin(t) ==
  /\ At(t, "ready") /\ ~turn[t].aborted
  /\ LET s == turn[t].session IN
     turn' = [turn EXCEPT ![t].pc = "loop", ![t].built = Len(ledger[s]),
                          ![t].sub = s \in Children /\ parent[s] # None]
  /\ UNCHANGED <<ledger, todo, aim, heard, Control>>

\* An iteration, once the last tool has ended: the fold, the soft-stop and the
\* start of the model call (Session has them apart).
Iterate(t) ==
  /\ At(t, "loop") /\ todo[t] = <<>> /\ turn[t].iter < MaxIter
  /\ LET s == turn[t].session IN
       /\ Goto(t, IF paused[s] THEN "stopped" ELSE "call")
       /\ heard' = IF paused[s] THEN heard ELSE [heard EXCEPT ![s] = @ \cup Prompt(t)]
  /\ UNCHANGED <<ledger, todo, aim, Control>>

\* No iteration is left, or the gateway failed.
Fail(t) ==
  /\ \/ At(t, "loop") /\ todo[t] = <<>> /\ turn[t].iter = MaxIter
     \/ At(t, "call") /\ ~turn[t].aborted
  /\ Log(turn[t].session, "error", "system", t)
  /\ Goto(t, "failed")
  /\ UNCHANGED <<todo, aim, heard, Control>>

\* The model calls a tool.
Invoke(t) ==
  /\ At(t, "call") /\ ~turn[t].aborted
  /\ turn' = [turn EXCEPT ![t].pc = "loop", ![t].iter = @ + 1]
  /\ UNCHANGED <<ledger, parent, paused, slot, heard>>

Orchestrate(t, script, about) ==
  /\ Invoke(t) /\ ~turn[t].sub
  /\ todo' = [todo EXCEPT ![t] = script]
  /\ aim' = [aim EXCEPT ![t] = about]

OtherTool(t) == Invoke(t) /\ UNCHANGED <<created, todo, aim>>

\* Only orchestrators dispatch and steer; the child's directory comes first.
DispatchSubagent(t) ==
  \E c \in Children \ created :
    /\ Orchestrate(t, Dispatch, About(c, "message", "orchestrator"))
    /\ created' = created \cup {c}

SteerSubagent(t) ==
  \E c \in Children :
    /\ parent[c] = turn[t].session
    /\ Orchestrate(t, Wake, About(c, "steer", "orchestrator"))
    /\ UNCHANGED created

\* The final message, which a subagent then reports to its parent.
Answer(t) ==
  /\ At(t, "call") /\ ~turn[t].aborted
  /\ Log(turn[t].session, "message", AgentOf(t), t)
  /\ Goto(t, "done")
  /\ IF turn[t].sub
     THEN /\ todo' = [todo EXCEPT ![t] = Wake]
          /\ aim' = [aim EXCEPT ![t] = About(parent[turn[t].session], "message", AgentOf(t))]
     ELSE UNCHANGED <<todo, aim>>
  /\ UNCHANGED <<heard, Control>>

Wrapper(t) == StoreHandle(t) \/ Reap(t)

Body(t) ==
  \/ Cancel(t) \/ Begin(t) \/ Iterate(t) \/ Fail(t) \/ OtherTool(t)
  \/ DispatchSubagent(t) \/ SteerSubagent(t) \/ Answer(t)

Next ==
  \/ \E r \in Requests : Receive(r)
  \/ \E x \in Tasks : Step(x)
  \/ \E t \in Spawned : Wrapper(t) \/ Body(t)

Spec == Init /\ [][Next]_vars

\* The runtime runs every ready task and a provider answers or fails.
FairSpec ==
  /\ Spec
  /\ \A x \in Tasks : WF_vars(Step(x))
  /\ \A t \in Turns : WF_vars(t \in Spawned /\ (Wrapper(t) \/ Body(t)))

-----------------------------------------------------------------------------
TypeOK ==
  /\ ledger \in [Sessions -> Seq(Event)]
  /\ created \subseteq Children
  /\ parent \in [Children -> Sessions \cup {None}]
  /\ paused \in [Sessions -> BOOLEAN]
  /\ slot \in [Sessions -> Spawned \cup {0}]
  /\ turn \in Seq(Turn) /\ Len(turn) <= MaxTurns
  /\ todo \in [Tasks -> Seq(Steps)]
  /\ aim \in [Tasks -> Aim \cup {None}]
  /\ \A s \in Sessions : heard[s] \subseteq DOMAIN ledger[s]

MessagesBy(t, s) ==
  {i \in DOMAIN ledger[s] : ledger[s][i].kind = "message" /\ ledger[s][i].by = t}

\* An answer of a subagent is reported to its parent exactly once, interrupts
\* of either session, pauses and concurrent turns of the child notwithstanding.
ReportedOnce ==
  \A t \in Spawned :
    turn[t].sub /\ Finished(t) =>
      LET c == turn[t].session IN
      Cardinality(MessagesBy(t, parent[c])) = Cardinality(MessagesBy(t, c))

\* The brief is the message on a child of an orchestrator other than the child.
IsBrief(c, i) ==
  /\ ledger[c][i].kind = "message" /\ ledger[c][i].actor = "orchestrator"
  /\ turn[ledger[c][i].by].session # c

Briefed(c)    == \E i \in DOMAIN ledger[c] : IsBrief(c, i)
Dispatched(c) == \E s \in Sessions : \E i \in DOMAIN ledger[s] : ledger[s][i].child = c

Dispatching(c) ==
  \E t \in Spawned : todo[t] # <<>> /\ aim[t] = About(c, "message", "orchestrator")

\* A dispatch leaves no half-made subagent: once it is over, the child has its
\* parent, its dispatch event, its brief and a turn, or none of these but
\* perhaps a turn of the human's, whatever aborts its parent meanwhile.
DispatchWhole ==
  \A c \in created :
    \/ Dispatching(c)
    \/ /\ parent[c] # None /\ Dispatched(c) /\ Briefed(c)
       /\ \E t \in Spawned : turn[t].session = c
    \/ parent[c] = None /\ ~Dispatched(c) /\ ~Briefed(c)

GivenBrief(c) == \E i \in heard[c] : IsBrief(c, i)

\* The bound of the model keeps a turn of c from being spawned.
OutOfTurns(c) ==
  /\ Len(turn) = MaxTurns
  /\ \E x \in Tasks : todo[x] # <<>> /\ Head(todo[x]) = "spawn" /\ aim[x].session = c

\* A brief reaches a model call of the child, unless a turn of the child is
\* stopped, aborted or given up: although the human may have set the child to
\* work before, in a turn that will not fold the orchestrator's messages.
BriefHeard ==
  \A c \in Children :
    Briefed(c) ~> \/ GivenBrief(c)
                  \/ \E t \in Spawned :
                       turn[t].session = c /\ turn[t].pc \in Ends \ {"done"}
                  \/ OutOfTurns(c)

-----------------------------------------------------------------------------
IsOwnReply(s, e) ==
  e.kind = "message" /\ e.actor = IF s = Root THEN "orchestrator" ELSE s

\* "True iff a `message` (from human) or `steer` event is newer than the last
\* agent reply - i.e. there is input the agent has not yet answered."
UnansweredIsPending ==
  \A s \in Sessions :
    (\E i \in DOMAIN ledger[s] :
       /\ IsInput(ledger[s][i])
       /\ \A j \in i .. Len(ledger[s]) : ~IsOwnReply(s, ledger[s][j]))
    => HasPendingInput(ledger[s])

=============================================================================
