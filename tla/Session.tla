------------------------------ MODULE Session -------------------------------
(***************************************************************************)
(* One session of the daemon: its ledger, its SessionControl (the paused   *)
(* flag and the abort-handle slot), the turns run_turn spawns on it        *)
(* (daemon/composerd/src/orchestrator.rs) and the control requests of the  *)
(* HTTP API that run beside them (daemon/composerd/src/api.rs).            *)
(*                                                                         *)
(* Every atomic operation of the code is a step: an append, a ledger read, *)
(* an access to the flag, to the slot or to the budget override.  Tasks    *)
(* interleave between them.  A request spawns at most one turn, so a turn  *)
(* is named by the request that spawned it.  Appends do not fail here (see *)
(* Ledger), a model call costs 1 and its usage is always reported; an      *)
(* approval wait is part of the tool that yields (see Approvals).          *)
(***************************************************************************)
EXTENDS Naturals, Sequences, FiniteSets

CONSTANTS
  Requests,     \* the control requests of a run, and the turns they spawn
  NoTurn,       \* the abort slot is empty
  Ops,          \* which kinds of request arrive
  MaxIter,      \* MAX_ITERATIONS
  MaxCalls,     \* bound of the model: tool calls in one model reply
  Tiers,        \* length of the escalation chain
  GatewayFails, \* whether a gateway call may fail
  TurnFails,    \* whether a turn may fail at a ledger read or in its setup
  NoLimit, BaseLimit,  \* cfg.budgets.session_usd, NoLimit when it is not set
  Raises        \* the limits a budget request may set

AllOps ==
  {"message", "steer", "inject", "pause", "resume", "budget", "interrupt"}

ASSUME SessionAssumption ==
  /\ NoTurn \notin Requests
  /\ Ops \subseteq AllOps
  /\ MaxIter \in Nat \ {0} /\ MaxCalls \in Nat /\ Tiers \in Nat \ {0}
  /\ GatewayFails \in BOOLEAN /\ TurnFails \in BOOLEAN
  /\ NoLimit \notin Nat
  /\ BaseLimit \in Nat \cup {NoLimit}
  /\ Raises \subseteq Nat \ {0}

VARIABLES
  ledger,   \* the session's events, in seq order
  paused,   \* ctl.paused
  slot,     \* ctl.abort: the turn whose handle is stored
  limit,    \* the budget override, or else the configured cap
  turn,     \* per turn: its wrapper (run_turn) and its body (run_turn_inner)
  op, todo, \* per request: its kind, and the steps its handler has left
  heard     \* the longest ledger prefix any model call was given (history)

vars == <<ledger, paused, slot, limit, turn, op, todo, heard>>

Kinds == {"message", "steer", "inject", "pause", "resume", "budget", "interrupt",
          "tool_call", "tool_result", "usage", "error"}
Event == [kind : Kinds, actor : {"human", "agent", "system"}, by : Requests, cost : Nat]

Wraps == {"none", "new", "spawned", "waiting", "gone"}
Pcs   == {"none", "ready", "fold", "gate", "budget", "brake", "setpaused", "stop",
          "call", "answer", "invoke", "sync", "async", "result", "exhausted",
          "done", "cancelled"}
Turn  == [wrap : Wraps, pc : Pcs, seen : Nat, iter : Nat, left : Nat,
          spend : Nat, tier : Nat \ {0}, aborted : BOOLEAN, overrun : Nat]

Steps == {"append", "setPaused", "clearPaused", "setLimit", "abort",
          "ifIdle", "ifUnpaused", "ifPending"}

-----------------------------------------------------------------------------
(* The handlers: the atomic steps of each, in order.  An if-step that      *)
(* fails ends the handler; one that ends it successfully spawns a turn.    *)

\* post_message as steer does it: no second turn beside a running one.
PostMessageIfIdle == <<"append", "ifIdle", "ifUnpaused">>

\* steer as inject: the turn it finds idle stays so.
SteerAsInject == <<"append">>

PostMessage  == <<"append", "ifUnpaused">>
Pause        == <<"setPaused", "append">>
Resume       == <<"clearPaused", "append", "ifIdle", "ifPending">>
Steer        == <<"append", "ifIdle", "ifUnpaused">>
Inject       == <<"append">>
Interrupt    == <<"abort", "append">>
RaiseBudget  == <<"setLimit", "append", "clearPaused", "ifIdle", "ifPending">>

HandlerOf(o) ==
  CASE o = "message"   -> PostMessage
    [] o = "pause"     -> Pause
    [] o = "resume"    -> Resume
    [] o = "steer"     -> Steer
    [] o = "inject"    -> Inject
    [] o = "interrupt" -> Interrupt
    [] o = "budget"    -> RaiseBudget

-----------------------------------------------------------------------------
Finished(t) == turn[t].pc \in {"done", "cancelled"}

\* AppState::is_running: a handle is stored and its task is not finished.
IsRunning == slot # NoTurn /\ ~Finished(slot)

IsInput(e) == e.actor = "human" /\ e.kind \in {"message", "steer"}
IsReply(e) == e.kind = "message" /\ e.actor # "human"

\* has_pending_input: a human message or a steer newer than the last reply.
HasPendingInput(evs) ==
  \E i \in DOMAIN evs :
    /\ IsInput(evs[i])
    /\ \A j \in DOMAIN evs : IsReply(evs[j]) => j < i

Log(kind, actor, by, cost) ==
  ledger' = Append(ledger, [kind |-> kind, actor |-> actor, by |-> by, cost |-> cost])

\* session_spend: the cost of the usage events.
SessionSpend(evs) ==
  LET f[i \in 0 .. Len(evs)] ==
        IF i = 0 THEN 0
        ELSE f[i - 1] + (IF evs[i].kind = "usage" THEN evs[i].cost ELSE 0)
  IN  f[Len(evs)]

NewTurn == [wrap |-> "none", pc |-> "none", seen |-> 0, iter |-> 0, left |-> 0,
            spend |-> 0, tier |-> 1, aborted |-> FALSE, overrun |-> 0]

Init ==
  /\ ledger = <<>> /\ paused = FALSE /\ slot = NoTurn /\ limit = BaseLimit
  /\ turn = [t \in Requests |-> NewTurn]
  /\ op = [r \in Requests |-> "none"] /\ todo = [r \in Requests |-> <<>>]
  /\ heard = 0

-----------------------------------------------------------------------------
(* Request handlers.                                                       *)

Receive(r) ==
  /\ op[r] = "none"
  /\ \E o \in Ops : /\ op' = [op EXCEPT ![r] = o]
                    /\ todo' = [todo EXCEPT ![r] = HandlerOf(o)]
  /\ UNCHANGED <<ledger, paused, slot, limit, turn, heard>>

Do(r, step) ==
  /\ todo[r] # <<>>
  /\ Head(todo[r]) = step
  /\ todo' = [todo EXCEPT ![r] = Tail(@)]
  /\ UNCHANGED <<op, heard>>

AppendRequest(r) ==
  /\ Do(r, "append")
  /\ Log(op[r], "human", r, 0)
  /\ UNCHANGED <<paused, slot, limit, turn>>

\* The flag goes up.  Each turn's history of overrun begins with the tiers it
\* has behind it, and the calls it starts from now on are added to them.
RaisePaused ==
  /\ paused' = TRUE
  /\ turn' = IF paused THEN turn
             ELSE [t \in Requests |-> [turn[t] EXCEPT !.overrun = turn[t].tier - 1]]

SetPaused(r) ==
  /\ Do(r, "setPaused")
  /\ RaisePaused
  /\ UNCHANGED <<ledger, slot, limit>>

ClearPaused(r) ==
  /\ Do(r, "clearPaused")
  /\ paused' = FALSE
  /\ UNCHANGED <<ledger, slot, limit, turn>>

SetLimit(r) ==
  /\ Do(r, "setLimit")
  /\ limit' \in Raises
  /\ UNCHANGED <<ledger, paused, slot, turn>>

\* interrupt takes the handle under the slot's lock and aborts its task.
Abort(r) ==
  /\ Do(r, "abort")
  /\ slot' = NoTurn
  /\ turn' = IF slot = NoTurn THEN turn ELSE [turn EXCEPT ![slot].aborted = TRUE]
  /\ UNCHANGED <<ledger, paused, limit>>

\* A test that the handler passes lets it go on, and its last one spawns the
\* turn; a test it fails ends it.
Test(r, step, passes) ==
  /\ todo[r] # <<>> /\ Head(todo[r]) = step
  /\ todo' = [todo EXCEPT ![r] = IF passes THEN Tail(@) ELSE <<>>]
  /\ turn' = IF passes /\ Len(todo[r]) = 1
             THEN [turn EXCEPT ![r].wrap = "new"]
             ELSE turn
  /\ UNCHANGED <<ledger, paused, slot, limit, op, heard>>

IfIdle(r)     == Test(r, "ifIdle", ~IsRunning)
IfUnpaused(r) == Test(r, "ifUnpaused", ~paused)
IfPending(r)  == Test(r, "ifPending", HasPendingInput(ledger))

Handle(r) ==
  \/ AppendRequest(r) \/ SetPaused(r) \/ ClearPaused(r) \/ SetLimit(r) \/ Abort(r)
  \/ IfIdle(r) \/ IfUnpaused(r) \/ IfPending(r)

-----------------------------------------------------------------------------
(* run_turn: the wrapper task spawns the body, stores its abort handle,    *)
(* awaits it and empties the slot.                                         *)

SpawnBody(t) ==
  /\ turn[t].wrap = "new"
  /\ turn' = [turn EXCEPT ![t].wrap = "spawned", ![t].pc = "ready"]
  /\ UNCHANGED <<ledger, paused, slot, limit, op, todo, heard>>

StoreHandle(t) ==
  /\ turn[t].wrap = "spawned"
  /\ turn' = [turn EXCEPT ![t].wrap = "waiting"]
  /\ slot' = t
  /\ UNCHANGED <<ledger, paused, limit, op, todo, heard>>

\* The handle left in the slot, for is_running to find it finished.
ReapKeeping(t) ==
  /\ turn[t].wrap = "waiting" /\ Finished(t)
  /\ turn' = [turn EXCEPT ![t].wrap = "gone"]
  /\ UNCHANGED <<ledger, paused, slot, limit, op, todo, heard>>

\* The wrapper never hears of the end of a cancelled body.
ReapNever(t) ==
  /\ turn[t].wrap = "waiting" /\ turn[t].pc = "done"
  /\ turn' = [turn EXCEPT ![t].wrap = "gone"]
  /\ slot' = NoTurn
  /\ UNCHANGED <<ledger, paused, limit, op, todo, heard>>

\* The slot is emptied whichever turn's handle it holds.
Reap(t) ==
  /\ turn[t].wrap = "waiting" /\ Finished(t)
  /\ turn' = [turn EXCEPT ![t].wrap = "gone"]
  /\ slot' = NoTurn
  /\ UNCHANGED <<ledger, paused, limit, op, todo, heard>>

-----------------------------------------------------------------------------
(* run_turn_inner.                                                         *)

At(t, pc) == turn[t].pc = pc
Control == <<paused, slot, limit, op, todo>>

\* An aborted body goes no further than the await it is in or reaches next.
Cancel(t) ==
  /\ turn[t].aborted
  /\ turn[t].pc \in {"ready", "call", "async"}
  /\ turn' = [turn EXCEPT ![t].pc = "cancelled"]
  /\ UNCHANGED <<ledger, heard, Control>>

\* The first read of the ledger builds the prompt.
Begin(t) ==
  /\ At(t, "ready") /\ ~turn[t].aborted
  /\ turn' = [turn EXCEPT ![t].pc = "fold", ![t].seen = Len(ledger)]
  /\ UNCHANGED <<ledger, heard, Control>>

\* A `?` returns early: the ledger does not read, or the session's meta, role
\* chain, workspace or shadow repository is not to be had.  The task ledgers it.
FailTurn(t) ==
  /\ TurnFails
  /\ \/ At(t, "ready") /\ ~turn[t].aborted
     \/ At(t, "fold")
     \/ At(t, "budget") /\ limit # NoLimit
  /\ Log("error", "system", t, 0)
  /\ turn' = [turn EXCEPT ![t].pc = "done"]
  /\ UNCHANGED <<heard, Control>>

\* A cursor one past the last event read.
FoldAhead(t) ==
  /\ At(t, "fold")
  /\ turn' = [turn EXCEPT ![t].pc = "gate", ![t].seen = Len(ledger) + 1]
  /\ UNCHANGED <<ledger, heard, Control>>

\* Each iteration first folds what was appended since (last_seen_seq).
Fold(t) ==
  /\ At(t, "fold")
  /\ turn' = [turn EXCEPT ![t].pc = "gate", ![t].seen = Len(ledger)]
  /\ UNCHANGED <<ledger, heard, Control>>

\* The paused flag read once, in the first iteration.
GateOnce(t) ==
  /\ At(t, "gate")
  /\ turn' = [turn EXCEPT ![t].pc = IF paused /\ turn[t].iter = 0 THEN "stop" ELSE "budget"]
  /\ UNCHANGED <<ledger, heard, Control>>

\* Soft-stop.
Gate(t) ==
  /\ At(t, "gate")
  /\ turn' = [turn EXCEPT ![t].pc = IF paused THEN "stop" ELSE "budget"]
  /\ UNCHANGED <<ledger, heard, Control>>

\* Hard budget: the session's ledgered spend and the turn's own so far.
OverBudget(t) == limit # NoLimit /\ SessionSpend(ledger) + turn[t].spend >= limit

BudgetCheck(t) ==
  /\ At(t, "budget")
  /\ IF OverBudget(t)
     THEN /\ turn' = [turn EXCEPT ![t].pc = "brake"]
          /\ UNCHANGED heard
     ELSE /\ turn' = [turn EXCEPT ![t].pc = "call",
                                  ![t].overrun = IF paused THEN @ + 1 ELSE @]
          /\ heard' = IF turn[t].seen > heard THEN turn[t].seen ELSE heard
  /\ UNCHANGED <<ledger, Control>>

BudgetPaused(t) ==
  /\ At(t, "brake")
  /\ Log("budget", "system", t, 0)
  /\ turn' = [turn EXCEPT ![t].pc = "setpaused"]
  /\ UNCHANGED <<heard, Control>>

BudgetSetPaused(t) ==
  /\ At(t, "setpaused")
  /\ paused' = TRUE
  /\ turn' = [u \in Requests |->
                [turn[u] EXCEPT !.pc = IF u = t THEN "stop" ELSE @,
                                !.overrun = IF paused THEN @ ELSE turn[u].tier - 1]]
  /\ UNCHANGED <<ledger, heard, slot, limit, op, todo>>

\* The model answers, with some tool calls or with none.
Reply(t) ==
  /\ At(t, "call") /\ ~turn[t].aborted
  /\ \E n \in 0 .. MaxCalls :
       turn' = [turn EXCEPT ![t].pc = IF n = 0 THEN "answer" ELSE "invoke",
                            ![t].left = n, ![t].spend = @ + 1]
  /\ UNCHANGED <<ledger, heard, Control>>

\* The chain begins again when it has come to its end.
GatewayErrorWraps(t) ==
  /\ GatewayFails
  /\ At(t, "call") /\ ~turn[t].aborted
  /\ Log("error", "system", t, 0)
  /\ turn' = [turn EXCEPT ![t].tier = IF @ < Tiers THEN @ + 1 ELSE 1,
                          ![t].overrun = IF paused THEN @ + 1 ELSE @]
  /\ UNCHANGED <<heard, Control>>

\* A failed call is followed by one to the next tier, whatever the flag says,
\* and with no tier left it ends the turn.
GatewayError(t) ==
  /\ GatewayFails
  /\ At(t, "call") /\ ~turn[t].aborted
  /\ Log("error", "system", t, 0)
  /\ turn' = IF turn[t].tier < Tiers
             THEN [turn EXCEPT ![t].tier = @ + 1,
                               ![t].overrun = IF paused THEN @ + 1 ELSE @]
             ELSE [turn EXCEPT ![t].pc = "done"]
  /\ UNCHANGED <<heard, Control>>

\* An answered turn that returns before it emits its usage.
AnswerUnmetered(t) ==
  /\ At(t, "answer")
  /\ Log("message", "agent", t, 0)
  /\ turn' = [turn EXCEPT ![t].pc = "done"]
  /\ UNCHANGED <<heard, Control>>

Answer(t) ==
  /\ At(t, "answer")
  /\ Log("message", "agent", t, 0)
  /\ turn' = [turn EXCEPT ![t].pc = "stop"]
  /\ UNCHANGED <<heard, Control>>

\* emit_usage, on every way out but an error.
EmitUsage(t) ==
  /\ At(t, "stop")
  /\ Log("usage", "agent", t, turn[t].spend)
  /\ turn' = [turn EXCEPT ![t].pc = "done"]
  /\ UNCHANGED <<heard, Control>>

\* A denied call is answered to the model but not on the ledger.
ToolCallDenied(t) ==
  /\ At(t, "invoke")
  /\ Log("tool_call", "agent", t, 0)
  /\ \E p \in {"sync", "async", "invoke"} :
       turn' = [turn EXCEPT ![t].pc = p]
  /\ UNCHANGED <<heard, Control>>

\* The call is ledgered; its tool either runs to the end or yields (terminal,
\* run_gate, an approval wait).
ToolCall(t) ==
  /\ At(t, "invoke")
  /\ Log("tool_call", "agent", t, 0)
  /\ \E p \in {"sync", "async"} : turn' = [turn EXCEPT ![t].pc = p]
  /\ UNCHANGED <<heard, Control>>

RunTool(t) ==
  /\ \/ At(t, "sync")
     \/ At(t, "async") /\ ~turn[t].aborted
  /\ turn' = [turn EXCEPT ![t].pc = "result"]
  /\ UNCHANGED <<ledger, heard, Control>>

\* After the last call of a reply comes the next iteration, if there is one.
ToolResult(t) ==
  /\ At(t, "result")
  /\ Log("tool_result", "system", t, 0)
  /\ turn' = IF turn[t].left > 1
             THEN [turn EXCEPT ![t].left = @ - 1, ![t].pc = "invoke"]
             ELSE [turn EXCEPT ![t].left = 0, ![t].iter = @ + 1,
                               ![t].pc = IF turn[t].iter + 1 < MaxIter
                                         THEN "fold" ELSE "exhausted"]
  /\ UNCHANGED <<heard, Control>>

LoopExhausted(t) ==
  /\ At(t, "exhausted")
  /\ Log("error", "system", t, 0)
  /\ turn' = [turn EXCEPT ![t].pc = "done"]
  /\ UNCHANGED <<heard, Control>>

Body(t) ==
  \/ Cancel(t) \/ Begin(t) \/ FailTurn(t) \/ Fold(t) \/ Gate(t) \/ BudgetCheck(t)
  \/ BudgetPaused(t) \/ BudgetSetPaused(t) \/ Reply(t) \/ GatewayError(t)
  \/ Answer(t) \/ EmitUsage(t) \/ ToolCall(t) \/ RunTool(t) \/ ToolResult(t)
  \/ LoopExhausted(t)

Wrapper(t) == SpawnBody(t) \/ StoreHandle(t) \/ Reap(t)

Next == \E r \in Requests : Receive(r) \/ Handle(r) \/ Wrapper(r) \/ Body(r)

Spec == Init /\ [][Next]_vars

\* The runtime runs every ready task, a tool or its timeout ends, and a
\* provider answers or fails.  Nobody has to send a request.
FairSpec ==
  /\ Spec
  /\ \A r \in Requests : WF_vars(Handle(r)) /\ WF_vars(Wrapper(r)) /\ WF_vars(Body(r))

-----------------------------------------------------------------------------
TypeOK ==
  /\ ledger \in Seq(Event)
  /\ paused \in BOOLEAN
  /\ slot \in Requests \cup {NoTurn}
  /\ limit \in Nat \cup {NoLimit}
  /\ turn \in [Requests -> Turn]
  /\ op \in [Requests -> AllOps \cup {"none"}]
  /\ todo \in [Requests -> Seq(Steps)]
  /\ heard \in 0 .. Len(ledger)

\* A stored handle is that of a turn whose wrapper still waits for it, however
\* turns overwrite and empty the slot: interrupt never aborts into the void of
\* a turn already reaped, and a turn aborted was really registered.
SlotLive ==
  /\ slot # NoTurn => turn[slot].wrap = "waiting"
  /\ \A t \in Requests : turn[t].aborted => turn[t].wrap \in {"waiting", "gone"}

\* Soft-stop: a turn that the raised flag finds past the gate, or in a model
\* call, walks what is left of its chain of tiers at most once.  While the flag
\* stays up it asks no tier a second time, so that it starts no further
\* iteration, other turns, escalations and repeated pauses notwithstanding.
\* (Escalations read no flag: the bound is one call per tier, not one call.)
PauseOverrun == paused => \A t \in Requests : turn[t].overrun <= turn[t].tier

Events(t, kind) == {i \in DOMAIN ledger : ledger[i].kind = kind /\ ledger[i].by = t}

\* A tool call without its result is that of a running tool or of an
\* interrupted turn: the other ways out of a turn leave none behind for the
\* next turn's prompt (rebuild_one).
CallsAnswered ==
  \A t \in Requests :
    turn[t].pc \notin {"sync", "async", "result", "cancelled"} =>
      Cardinality(Events(t, "tool_call")) = Cardinality(Events(t, "tool_result"))

\* A turn is billed at most once, for all the calls it made and after the last;
\* and one that ends without a bill ends with an error, the last event it
\* ledgers.  An escalation is such an event too, but no way out of the turn.
BilledOnce ==
  \A t \in Requests :
    /\ \A i, j \in Events(t, "usage") : i = j /\ ledger[i].cost = turn[t].spend
    /\ turn[t].pc = "done" /\ Events(t, "usage") = {} =>
         \E i \in Events(t, "error") : \A j \in DOMAIN ledger : ledger[j].by = t => j <= i

\* Nothing is under way.
Quiescent ==
  /\ \A r \in Requests : todo[r] = <<>>
  /\ \A t \in Requests : turn[t].wrap \in {"none", "gone"}

\* Everything is over, no pause, budget or interrupt came in between and no turn
\* failed at the ledger or in its setup.
Undisturbed ==
  /\ Quiescent /\ ~TurnFails
  /\ \A t \in Requests : ~turn[t].aborted
  /\ \A i \in DOMAIN ledger : ledger[i].kind \notin {"pause", "budget"}

\* A message that comes while turns run, end or are given up by every provider
\* reaches the model.
MessagesHeard ==
  Undisturbed =>
    \A i \in DOMAIN ledger :
      ledger[i].kind = "message" /\ ledger[i].actor = "human" => i <= heard

\* A steer that reaches no model call came when a turn was past its last fold:
\* the end of that turn follows it on the ledger.
SteersHeard ==
  Undisturbed =>
    \A i \in DOMAIN ledger :
      ledger[i].kind = "steer" =>
        \/ i <= heard
        \/ \E j \in i + 1 .. Len(ledger) :
             ledger[j].kind \in {"usage", "error"} /\ turn[ledger[j].by].seen < i

\* Every turn ends and is reaped: the iterations are bounded, the chain of
\* tiers is walked once, and an aborted body is joined.
TurnsEnd == \A t \in Requests : turn[t].wrap = "new" ~> turn[t].wrap = "gone"

-----------------------------------------------------------------------------
(* What the plan of the milestone says of the control requests.            *)

\* "has_pending_input prevents both missed wakes (message-while-paused) and
\* spurious model calls on resume": an idle unpaused session has none pending.
NoMissedWake == Quiescent /\ ~paused => ~HasPendingInput(ledger)

=============================================================================
