------------------------ MODULE SessionLedgerProofs -------------------------
(***************************************************************************)
(* What a session's ledger says of its turns, for any requests, limits and *)
(* budgets: each is billed once and ends on the record, tool calls have    *)
(* their results, what the human says reaches the model, and the prompts   *)
(* rebuilt from it pair calls with their results, wherever they are cut.   *)
(***************************************************************************)
EXTENDS SessionProofs, Prompt, FiniteSetTheorems, SequenceTheorems, WellFoundedInduction

\* A body exists once its wrapper has spawned it, and only a finished one is
\* reaped; only an aborted one is cancelled.
Wrapped ==
  \A t \in Requests :
    /\ turn[t].wrap \in {"none", "new"} <=> turn[t].pc = "none"
    /\ turn[t].wrap = "gone" => turn[t].pc \in {"done", "cancelled"}
    /\ turn[t].pc = "cancelled" => turn[t].aborted

\* A turn's results are as many as its calls, but for the call it is at or was
\* aborted in.
Calls(t)   == Cardinality(Events(t, "tool_call"))
Results(t) == Cardinality(Events(t, "tool_result"))

Paired ==
  \A t \in Requests :
    /\ turn[t].pc \in {"sync", "async", "result"} => Calls(t) = Results(t) + 1
    /\ turn[t].pc \notin {"sync", "async", "result", "cancelled"} => Calls(t) = Results(t)

\* The last event of a turn is an error.
EndsInError(t) ==
  \E i \in Events(t, "error") : \A j \in DOMAIN ledger : ledger[j].by = t => j <= i

\* The usage of a turn is its last event, and a turn that has ended has one or
\* ended in an error.
Billed ==
  \A t \in Requests :
    /\ turn[t].pc # "done" => Events(t, "usage") = {}
    /\ turn[t].pc = "done" => Events(t, "usage") # {} \/ EndsInError(t)
    /\ \A i, j \in Events(t, "usage") : i = j /\ ledger[i].cost = turn[t].spend

\* What is left of those handlers after their first steps.
LastTest   == <<"ifUnpaused">>
IdleTest   == <<"ifIdle", "ifUnpaused">>
LastAppend == <<"append">>

\* Where the handlers are whose events and whose pauses the rest is about.
Handling ==
  /\ \A r \in Requests :
       /\ op[r] = "message" => todo[r] \in {PostMessage, LastTest, <<>>}
       /\ op[r] = "steer" => todo[r] \in {Steer, IdleTest, LastTest, <<>>}
       /\ op[r] = "pause" => todo[r] \in {Pause, LastAppend, <<>>}
       /\ op[r] # "pause" => \A i \in DOMAIN todo[r] : todo[r][i] # "setPaused"
  /\ \A i \in DOMAIN ledger :
       /\ ledger[i].kind = "message" /\ ledger[i].actor = "human" =>
            op[ledger[i].by] = "message" /\ todo[ledger[i].by] # PostMessage
       /\ ledger[i].kind = "steer" => op[ledger[i].by] = "steer" /\ todo[ledger[i].by] # Steer

\* A turn about to raise the flag has ledgered its budget.
Braked ==
  \A t \in Requests :
    turn[t].pc = "setpaused" => \E i \in DOMAIN ledger : ledger[i].kind = "budget"

\* A pause or a budget is on the ledger or on its way, or an abort has been.
Disturbed ==
  \/ TurnFails
  \/ \E t \in Requests : turn[t].aborted \/ turn[t].pc = "brake"
  \/ \E i \in DOMAIN ledger : ledger[i].kind \in {"pause", "budget"}
  \/ \E r \in Requests : op[r] = "pause" /\ todo[r] = LastAppend

\* Turn t will give event i to a model call.
WillHear(t, i) ==
  \/ turn[t].wrap = "new" \/ turn[t].pc \in {"ready", "fold"}
  \/ turn[t].pc \in {"gate", "budget"} /\ i <= turn[t].seen

\* Turn t did not read event i and is at or past the iteration it could have
\* been its last to read it in.
Missed(t, i) ==
  /\ turn[t].seen < i
  /\ \/ turn[t].pc \in {"gate", "budget", "call", "answer", "invoke", "sync", "async",
                        "result", "exhausted", "stop"}
     \/ \E j \in DOMAIN ledger :
          i < j /\ ledger[j].kind \in {"usage", "error"} /\ ledger[j].by = t

Heard ==
  ~Disturbed =>
    /\ ~paused
    /\ \A t \in Requests :
         turn[t].pc \in {"call", "answer", "invoke", "sync", "async", "result",
                         "exhausted", "stop"} => turn[t].seen <= heard
    /\ \A i \in DOMAIN ledger :
         LET r == ledger[i].by
         IN  /\ ledger[i].kind = "message" /\ ledger[i].actor = "human" =>
                  i <= heard \/ todo[r] # <<>> \/ WillHear(r, i)
             /\ ledger[i].kind = "steer" =>
                  \/ i <= heard \/ todo[r] # <<>>
                  \/ \E t \in Requests : WillHear(t, i) \/ Missed(t, i)

Recorded == Wrapped /\ Paired /\ Billed /\ Handling /\ Braked /\ Heard

-----------------------------------------------------------------------------
(* What a step of a body does to the record and to its turn.               *)

Kept(u) ==
  /\ turn'[u].wrap = turn[u].wrap /\ turn'[u].pc = turn[u].pc
  /\ turn'[u].seen = turn[u].seen /\ turn'[u].spend = turn[u].spend
  /\ turn'[u].aborted = turn[u].aborted

Moves(t, from, to) == turn[t].pc \in from /\ turn'[t].pc \in to

\* The steps that leave the ledger alone.
Silent(t) ==
  /\ ledger' = ledger
  /\ \/ /\ Moves(t, {"ready", "call", "async"}, {"cancelled"}) /\ turn[t].aborted
        /\ turn'[t].seen = turn[t].seen /\ UNCHANGED <<paused, heard>>
     \/ /\ Moves(t, {"ready"}, {"fold"}) \/ Moves(t, {"fold"}, {"gate"})
        /\ turn'[t].seen = Len(ledger) /\ UNCHANGED <<paused, heard>>
     \/ /\ \/ Moves(t, {"gate"}, {"budget"}) \/ Moves(t, {"budget"}, {"brake"})
           \/ Moves(t, {"gate"}, {"stop"}) /\ paused
           \/ Moves(t, {"call"}, {"answer", "invoke"})
           \/ Moves(t, {"sync", "async"}, {"result"})
        /\ turn'[t].seen = turn[t].seen /\ UNCHANGED <<paused, heard>>
     \/ /\ Moves(t, {"budget"}, {"call"}) /\ turn'[t].seen = turn[t].seen
        /\ heard <= heard' /\ turn[t].seen <= heard' /\ UNCHANGED paused
     \/ /\ Moves(t, {"setpaused"}, {"stop"})
        /\ turn'[t].seen = turn[t].seen /\ UNCHANGED heard

\* The steps that ledger an event.
Ledgers(t, kind, cost) ==
  /\ turn'[t].seen = turn[t].seen /\ turn'[t].spend = turn[t].spend /\ UNCHANGED <<paused, heard>>
  /\ \/ kind = "error" /\ Moves(t, {"call"}, {"call", "done"})
     \/ kind = "error" /\ Moves(t, {"exhausted"}, {"done"})
     \/ kind = "error" /\ Moves(t, {"ready", "fold", "budget"}, {"done"}) /\ TurnFails
     \/ kind = "message" /\ Moves(t, {"answer"}, {"stop"})
     \/ kind = "budget" /\ Moves(t, {"brake"}, {"setpaused"})
     \/ kind = "usage" /\ Moves(t, {"stop"}, {"done"}) /\ cost = turn[t].spend
     \/ kind = "tool_call" /\ Moves(t, {"invoke"}, {"sync", "async"})
     \/ kind = "tool_result" /\ Moves(t, {"result"}, {"invoke", "fold", "exhausted"})

\* Every step of a body is one of these, on its own turn only.
LEMMA BodyFacts ==
  ASSUME IInv, NEW t \in Requests, Body(t)
  PROVE  /\ \A u \in Requests : u # t => Kept(u)
         /\ turn'[t].wrap = turn[t].wrap /\ turn'[t].aborted = turn[t].aborted
         /\ UNCHANGED <<slot, op, todo>>
         /\ \/ Silent(t)
            \/ \E kind \in Kinds, actor \in {"agent", "system"}, cost \in Nat :
                 Log(kind, actor, t, cost) /\ Ledgers(t, kind, cost)
<1>0. turn \in [Requests -> Turn] /\ turn[t] \in Turn /\ turn[t].spend \in Nat
  BY DEF IInv, TypeOK, Turn
<1>1. CASE Cancel(t)
  BY <1>0, <1>1 DEF Cancel, Kept, Silent, Moves, Control, Turn
<1>2. CASE Begin(t)
  BY <1>0, <1>2 DEF Begin, At, Kept, Silent, Moves, Control, Turn
<1>3. CASE Fold(t)
  BY <1>0, <1>3 DEF Fold, At, Kept, Silent, Moves, Control, Turn
<1>4. CASE Gate(t)
  BY <1>0, <1>4 DEF Gate, At, Kept, Silent, Moves, Control, Turn
<1>5. CASE BudgetCheck(t)
  <2>1. turn[t].seen \in Nat /\ heard \in Nat /\ turn[t].pc = "budget"
    BY <1>5 DEF IInv, TypeOK, Turn, BudgetCheck, At
  <2>2. CASE OverBudget(t)
    BY <1>0, <1>5, <2>2 DEF BudgetCheck, At, Kept, Silent, Moves, Control, Turn
  <2>3. CASE ~OverBudget(t)
    <3> DEFINE b == [turn[t] EXCEPT !.pc = "call", !.overrun = IF paused THEN @ + 1 ELSE @]
    <3>1. turn' = [turn EXCEPT ![t] = b]
      BY <1>0, <1>5, <2>3 DEF BudgetCheck, IInv, TypeOK
    <3>2. b.pc = "call" /\ b.seen = turn[t].seen /\ b.wrap = turn[t].wrap /\ b.aborted = turn[t].aborted
      BY <1>0 DEF Turn
    <3>3. turn'[t] = b /\ \A u \in Requests : u # t => turn'[u] = turn[u]
      BY <1>0, <3>1
    <3>4. heard <= heard' /\ turn[t].seen <= heard' /\ UNCHANGED <<ledger, Control>>
      BY <1>5, <2>1, <2>3 DEF BudgetCheck
    <3> HIDE DEF b
    <3> QED
      BY <2>1, <3>2, <3>3, <3>4 DEF Kept, Silent, Moves, Control
  <2> QED
    BY <2>2, <2>3
<1>6. CASE BudgetPaused(t)
  BY <1>0, <1>6 DEF BudgetPaused, At, Kept, Ledgers, Moves, Control, Turn, Kinds
<1>7. CASE BudgetSetPaused(t)
  <2>1. \A u \in Requests : /\ u # t => Kept(u)
                            /\ u = t => /\ turn'[u].wrap = turn[u].wrap
                                        /\ turn'[u].aborted = turn[u].aborted
                                        /\ turn'[u].seen = turn[u].seen
                                        /\ turn'[u].pc = "stop"
    BY <1>0, <1>7 DEF BudgetSetPaused, Kept, Turn
  <2> QED
    BY <1>7, <2>1 DEF BudgetSetPaused, At, Silent, Moves
<1>8. CASE Reply(t)
  <2>1. PICK n \in 0 .. MaxCalls :
          turn' = [turn EXCEPT ![t].pc = IF n = 0 THEN "answer" ELSE "invoke",
                               ![t].left = n, ![t].spend = @ + 1]
    BY <1>8 DEF Reply
  <2> DEFINE b == [turn[t] EXCEPT !.pc = IF n = 0 THEN "answer" ELSE "invoke",
                                  !.left = n, !.spend = @ + 1]
  <2>2. turn' = [turn EXCEPT ![t] = b]
    BY <1>0, <2>1 DEF IInv, TypeOK
  <2>3. b.pc \in {"answer", "invoke"} /\ b.seen = turn[t].seen /\ b.wrap = turn[t].wrap
        /\ b.aborted = turn[t].aborted
    BY <1>0 DEF Turn
  <2>4. turn'[t] = b /\ \A u \in Requests : u # t => turn'[u] = turn[u]
    BY <1>0, <2>2
  <2>5. turn[t].pc = "call" /\ UNCHANGED <<ledger, heard, Control>>
    BY <1>8 DEF Reply, At
  <2> HIDE DEF b
  <2> QED
    BY <2>3, <2>4, <2>5 DEF Kept, Silent, Moves, Control
<1>9. CASE GatewayError(t)
  <2> DEFINE b == IF turn[t].tier < Tiers
                  THEN [turn[t] EXCEPT !.tier = @ + 1,
                                       !.overrun = IF paused THEN @ + 1 ELSE @]
                  ELSE [turn[t] EXCEPT !.pc = "done"]
  <2>1. turn' = [turn EXCEPT ![t] = b]
    BY <1>0, <1>9 DEF GatewayError
  <2>2. /\ turn[t].pc = "call" /\ Log("error", "system", t, 0) /\ UNCHANGED <<heard, Control>>
        /\ "error" \in Kinds
    BY <1>9 DEF GatewayError, At, Kinds
  <2>3. b.pc \in {"call", "done"} /\ b.seen = turn[t].seen /\ b.wrap = turn[t].wrap
        /\ b.aborted = turn[t].aborted /\ b.spend = turn[t].spend
    BY <1>0, <2>2 DEF Turn
  <2>4. turn'[t] = b /\ \A u \in Requests : u # t => turn'[u] = turn[u]
    BY <1>0, <2>1
  <2> HIDE DEF b
  <2> QED
    BY <2>2, <2>3, <2>4 DEF Kept, Ledgers, Moves, Control
<1>10. CASE Answer(t)
  BY <1>0, <1>10 DEF Answer, At, Kept, Ledgers, Moves, Control, Turn, Kinds
<1>11. CASE EmitUsage(t)
  BY <1>0, <1>11 DEF EmitUsage, At, Kept, Ledgers, Moves, Control, Turn, Kinds
<1>12. CASE ToolCall(t)
  BY <1>0, <1>12 DEF ToolCall, At, Kept, Ledgers, Moves, Control, Turn, Kinds
<1>13. CASE RunTool(t)
  BY <1>0, <1>13 DEF RunTool, At, Kept, Silent, Moves, Control, Turn
<1>14. CASE ToolResult(t)
  <2> DEFINE b == IF turn[t].left > 1
                  THEN [turn[t] EXCEPT !.left = @ - 1, !.pc = "invoke"]
                  ELSE [turn[t] EXCEPT !.left = 0, !.iter = @ + 1,
                          !.pc = IF turn[t].iter + 1 < MaxIter THEN "fold" ELSE "exhausted"]
  <2>1. turn' = [turn EXCEPT ![t] = b]
    BY <1>0, <1>14 DEF ToolResult
  <2>2. b.pc \in {"invoke", "fold", "exhausted"} /\ b.seen = turn[t].seen /\ b.wrap = turn[t].wrap
        /\ b.aborted = turn[t].aborted /\ b.spend = turn[t].spend
    BY <1>0 DEF Turn
  <2>3. turn'[t] = b /\ \A u \in Requests : u # t => turn'[u] = turn[u]
    BY <1>0, <2>1
  <2>4. /\ turn[t].pc = "result" /\ Log("tool_result", "system", t, 0) /\ UNCHANGED <<heard, Control>>
        /\ "tool_result" \in Kinds
    BY <1>14 DEF ToolResult, At, Kinds
  <2> HIDE DEF b
  <2> QED
    BY <2>2, <2>3, <2>4 DEF Kept, Ledgers, Moves, Control
<1>15. CASE LoopExhausted(t)
  BY <1>0, <1>15 DEF LoopExhausted, At, Kept, Ledgers, Moves, Control, Turn, Kinds
<1>16. CASE FailTurn(t)
  BY <1>0, <1>16 DEF FailTurn, At, Kept, Ledgers, Moves, Control, Turn, Kinds
<1> QED
  BY <1>1, <1>2, <1>3, <1>4, <1>5, <1>6, <1>7, <1>8, <1>9, <1>10, <1>11, <1>12, <1>13,
     <1>14, <1>15, <1>16 DEF Body

-----------------------------------------------------------------------------
\* An append adds one event at the end.
LEMMA LogAdds ==
  ASSUME TypeOK, NEW kind, NEW actor, NEW by, NEW cost, Log(kind, actor, by, cost)
  PROVE  /\ Len(ledger) \in Nat /\ DOMAIN ledger = 1 .. Len(ledger)
         /\ Len(ledger') = Len(ledger) + 1 /\ DOMAIN ledger' = 1 .. Len(ledger) + 1
         /\ \A i \in DOMAIN ledger : ledger'[i] = ledger[i]
         /\ ledger'[Len(ledger) + 1] =
              [kind |-> kind, actor |-> actor, by |-> by, cost |-> cost]
         /\ ledger'[Len(ledger) + 1].kind = kind /\ ledger'[Len(ledger) + 1].actor = actor
         /\ ledger'[Len(ledger) + 1].by = by /\ ledger'[Len(ledger) + 1].cost = cost
         /\ DOMAIN ledger \subseteq DOMAIN ledger' /\ Len(ledger) + 1 \in DOMAIN ledger'
<1> DEFINE e == [kind |-> kind, actor |-> actor, by |-> by, cost |-> cost]
<1>0. e.kind = kind /\ e.actor = actor /\ e.by = by /\ e.cost = cost
  OBVIOUS
<1>1. ledger' = Append(ledger, e) /\ ledger \in Seq(Event)
  BY DEF Log, TypeOK
<1> HIDE DEF e
<1>2. /\ Len(ledger) \in Nat /\ DOMAIN ledger = 1 .. Len(ledger)
      /\ Len(ledger') = Len(ledger) + 1 /\ DOMAIN ledger' = 1 .. Len(ledger) + 1
      /\ \A i \in DOMAIN ledger : ledger'[i] = ledger[i]
      /\ ledger'[Len(ledger) + 1] = e
  BY <1>1
<1>3. DOMAIN ledger \subseteq DOMAIN ledger' /\ Len(ledger) + 1 \in DOMAIN ledger'
  BY <1>2
<1> QED
  BY <1>0, <1>2, <1>3 DEF e

\* The events of a kind of a turn are finitely many, and an append adds to those
\* of its own kind and turn alone.
LEMMA EventsGrow ==
  ASSUME TypeOK, NEW kind, NEW actor, NEW by, NEW cost, Log(kind, actor, by, cost),
         NEW t \in Requests, NEW k
  PROVE  /\ IsFiniteSet(Events(t, k)) /\ Len(ledger) + 1 \notin Events(t, k)
         /\ Events(t, k)' = IF k = kind /\ t = by THEN Events(t, k) \cup {Len(ledger) + 1}
                            ELSE Events(t, k)
         /\ Cardinality(Events(t, k)) \in Nat
         /\ Cardinality(Events(t, k))' = IF k = kind /\ t = by
                                         THEN Cardinality(Events(t, k)) + 1
                                         ELSE Cardinality(Events(t, k))
<1> DEFINE e == [kind |-> kind, actor |-> actor, by |-> by, cost |-> cost]
<1>1. /\ Len(ledger) \in Nat /\ DOMAIN ledger = 1 .. Len(ledger)
      /\ DOMAIN ledger' = 1 .. Len(ledger) + 1
      /\ \A i \in DOMAIN ledger : ledger'[i] = ledger[i]
      /\ ledger'[Len(ledger) + 1] = e
  BY LogAdds
<1>2. e.kind = kind /\ e.by = by
  OBVIOUS
<1> HIDE DEF e
<1>3. IsFiniteSet(Events(t, k)) /\ Len(ledger) + 1 \notin Events(t, k)
  <2>1. IsFiniteSet(1 .. Len(ledger)) /\ Events(t, k) \subseteq 1 .. Len(ledger)
    BY <1>1, FS_Interval DEF Events
  <2> QED
    BY <1>1, <2>1, FS_Subset
<1>4. Events(t, k)' = IF k = kind /\ t = by THEN Events(t, k) \cup {Len(ledger) + 1}
                      ELSE Events(t, k)
  BY <1>1, <1>2 DEF Events
<1>5. /\ Cardinality(Events(t, k)) \in Nat
      /\ Cardinality(Events(t, k) \cup {Len(ledger) + 1}) = Cardinality(Events(t, k)) + 1
  BY <1>3, FS_CardinalityType, FS_AddElement
<1> QED
  BY <1>3, <1>4, <1>5

\* A request ledgers an event of its own kind, of none that turns ledger of
\* themselves.
LEMMA RequestLogs ==
  ASSUME IInv, NEW r \in Requests, AppendRequest(r)
  PROVE  /\ op[r] \in AllOps /\ Log(op[r], "human", r, 0)
         /\ todo[r] # <<>> /\ Head(todo[r]) = "append" /\ todo' = [todo EXCEPT ![r] = Tail(@)]
         /\ UNCHANGED <<paused, slot, limit, turn, op, heard>> /\ turn[r].wrap = "none"
BY DEF AppendRequest, Do, IInv, TypeOK, SpawnedLast

\* The steps of a request and of a wrapper leave the events of turns alone, and
\* the state of a body that has been spawned.
Aside ==
  /\ \/ ledger' = ledger
     \/ \E kind \in AllOps, r \in Requests :
          turn[r].wrap = "none" /\ Log(kind, "human", r, 0)
  /\ heard' = heard
  /\ \A t \in Requests : /\ turn'[t].seen = turn[t].seen /\ turn'[t].spend = turn[t].spend
                         /\ turn[t].aborted => turn'[t].aborted
                         /\ \/ turn'[t].pc = turn[t].pc
                            \/ turn[t].pc = "none" /\ turn'[t].pc = "ready"

LEMMA RequestFacts ==
  ASSUME IInv, NEW r \in Requests, Receive(r) \/ Handle(r)
  PROVE  /\ Aside /\ \A t \in Requests : turn'[t].pc = turn[t].pc
         /\ \A t \in Requests : \/ turn'[t].wrap = turn[t].wrap
                                \/ turn[t].wrap = "none" /\ turn'[t].wrap = "new"
<1>0. turn \in [Requests -> Turn] /\ \A t \in Requests : turn[t] \in Turn
  BY DEF IInv, TypeOK
<1>1. CASE Receive(r)
  BY <1>1 DEF Receive, Aside
<1>2. CASE AppendRequest(r)
  BY <1>2, RequestLogs DEF Aside
<1>3. CASE SetPaused(r)
  BY <1>0, <1>3 DEF SetPaused, Do, RaisePaused, Aside, Turn
<1>4. CASE ClearPaused(r) \/ SetLimit(r)
  BY <1>4 DEF ClearPaused, SetLimit, Do, Aside
<1>5. CASE Abort(r)
  BY <1>0, <1>5 DEF Abort, Do, Aside, Turn
<1>6. ASSUME NEW step, NEW passes, Test(r, step, passes)
      PROVE  /\ Aside /\ \A t \in Requests : turn'[t].pc = turn[t].pc
             /\ \A t \in Requests : \/ turn'[t].wrap = turn[t].wrap
                                    \/ turn[t].wrap = "none" /\ turn'[t].wrap = "new"
  <2>1. turn[r].wrap = "none"
    BY <1>0, <1>6 DEF Test, IInv, SpawnedLast, Turn
  <2> QED
    BY <1>0, <1>6, <2>1 DEF Test, Aside, Turn
<1> QED
  BY <1>1, <1>2, <1>3, <1>4, <1>5, <1>6 DEF Handle, IfIdle, IfUnpaused, IfPending

LEMMA WrapperFacts ==
  ASSUME IInv, Wrapped, NEW t \in Requests, Wrapper(t)
  PROVE  /\ Aside /\ UNCHANGED <<ledger, paused, op, todo>>
         /\ \A u \in Requests : u # t => Kept(u)
         /\ \/ turn[t].wrap = "new" /\ turn'[t].wrap = "spawned" /\ turn'[t].pc = "ready"
            \/ turn[t].wrap = "spawned" /\ turn'[t].wrap = "waiting" /\ turn'[t].pc = turn[t].pc
            \/ /\ turn[t].wrap = "waiting" /\ turn'[t].wrap = "gone" /\ Finished(t)
               /\ turn'[t].pc = turn[t].pc
<1>0. turn \in [Requests -> Turn] /\ \A u \in Requests : turn[u] \in Turn
  BY DEF IInv, TypeOK
<1>1. CASE SpawnBody(t)
  <2>1. turn[t].pc = "none"
    BY <1>1 DEF SpawnBody, Wrapped
  <2> QED
    BY <1>0, <1>1, <2>1 DEF SpawnBody, Aside, Kept, Turn
<1>2. CASE StoreHandle(t)
  BY <1>0, <1>2 DEF StoreHandle, Aside, Kept, Turn
<1>3. CASE Reap(t)
  BY <1>0, <1>3 DEF Reap, Aside, Kept, Turn
<1> QED
  BY <1>1, <1>2, <1>3 DEF Wrapper

-----------------------------------------------------------------------------
(* The turns' own events.                                                  *)

LEMMA WrappedKept == IInv /\ Wrapped /\ [Next]_vars => Wrapped'
<1> SUFFICES ASSUME IInv, Wrapped, [Next]_vars PROVE Wrapped'
  OBVIOUS
<1>1. ASSUME NEW r \in Requests, Receive(r) \/ Handle(r) PROVE Wrapped'
  <2>1. \A t \in Requests : /\ turn'[t].pc = turn[t].pc
                            /\ turn[t].aborted => turn'[t].aborted
                            /\ \/ turn'[t].wrap = turn[t].wrap
                               \/ turn[t].wrap = "none" /\ turn'[t].wrap = "new"
    BY <1>1, RequestFacts DEF Aside
  <2> QED
    BY <2>1 DEF Wrapped
<1>2. ASSUME NEW t \in Requests, Wrapper(t) PROVE Wrapped'
  <2>1. \A u \in Requests : /\ u # t => Kept(u)
                            /\ turn[u].aborted => turn'[u].aborted
    BY <1>2, WrapperFacts DEF Aside
  <2>2. \/ turn[t].wrap = "new" /\ turn'[t].wrap = "spawned" /\ turn'[t].pc = "ready"
        \/ turn[t].wrap = "spawned" /\ turn'[t].wrap = "waiting" /\ turn'[t].pc = turn[t].pc
        \/ /\ turn[t].wrap = "waiting" /\ turn'[t].wrap = "gone" /\ Finished(t)
           /\ turn'[t].pc = turn[t].pc
    BY <1>2, WrapperFacts
  <2> QED
    BY <2>1, <2>2 DEF Wrapped, Kept, Finished
<1>3. ASSUME NEW t \in Requests, Body(t) PROVE Wrapped'
  <2>1. /\ \A u \in Requests : u # t => Kept(u)
        /\ turn'[t].wrap = turn[t].wrap /\ turn'[t].aborted = turn[t].aborted
    BY <1>3, BodyFacts
  <2>2. /\ turn[t].pc \notin {"none", "done", "cancelled"} /\ turn'[t].pc # "none"
        /\ turn'[t].pc = "cancelled" => turn[t].aborted
    BY <1>3, BodyFacts DEF Silent, Ledgers, Moves
  <2> QED
    BY <2>1, <2>2 DEF Wrapped, Kept
<1>4. CASE UNCHANGED vars
  BY <1>4 DEF vars, Wrapped
<1> QED
  BY <1>1, <1>2, <1>3, <1>4 DEF Next

\* An error just ledgered is the last event of its turn, and stays so as long as
\* others ledger.
LEMMA ErrorEnds ==
  ASSUME TypeOK, NEW t \in Requests, NEW actor, NEW cost, Log("error", actor, t, cost)
  PROVE  EndsInError(t)'
<1>1. /\ Len(ledger) \in Nat /\ DOMAIN ledger' = 1 .. Len(ledger) + 1
      /\ Len(ledger) + 1 \in DOMAIN ledger'
      /\ ledger'[Len(ledger) + 1].kind = "error" /\ ledger'[Len(ledger) + 1].by = t
  BY LogAdds
<1>2. \A j \in DOMAIN ledger' : j <= Len(ledger) + 1
  BY <1>1
<1> QED
  BY <1>1, <1>2 DEF EndsInError, Events

LEMMA ErrorStaysLast ==
  ASSUME TypeOK, NEW t \in Requests, EndsInError(t),
         NEW kind, NEW actor, NEW by, NEW cost, Log(kind, actor, by, cost), by # t
  PROVE  EndsInError(t)'
<1>1. /\ Len(ledger) \in Nat /\ DOMAIN ledger = 1 .. Len(ledger)
      /\ DOMAIN ledger' = 1 .. Len(ledger) + 1 /\ DOMAIN ledger \subseteq DOMAIN ledger'
      /\ \A i \in DOMAIN ledger : ledger'[i] = ledger[i]
      /\ ledger'[Len(ledger) + 1].by = by
  BY LogAdds
<1>2. PICK i \in Events(t, "error") : \A j \in DOMAIN ledger : ledger[j].by = t => j <= i
  BY DEF EndsInError
<1>3. i \in Events(t, "error")'
  BY <1>1, <1>2 DEF Events
<1>4. ASSUME NEW j \in DOMAIN ledger', ledger'[j].by = t PROVE j <= i
  <2>1. j \in DOMAIN ledger
    BY <1>1, <1>4
  <2> QED
    BY <1>1, <1>2, <1>4, <2>1
<1> QED
  BY <1>3, <1>4 DEF EndsInError

\* What goes on beside the bodies leaves their pairs and their bills alone.
LEMMA AsideKeeps ==
  ASSUME IInv, Wrapped, Aside
  PROVE  (Paired => Paired') /\ (Billed => Billed')
<1>1. \A t \in Requests, k \in {"tool_call", "tool_result", "usage"} :
        /\ Events(t, k)' = Events(t, k)
        /\ Cardinality(Events(t, k))' = Cardinality(Events(t, k))
  <2>1. CASE ledger' = ledger
    BY <2>1 DEF Events
  <2>2. ASSUME NEW kind \in AllOps, NEW r \in Requests, Log(kind, "human", r, 0)
        PROVE  \A t \in Requests, k \in {"tool_call", "tool_result", "usage"} :
                 /\ Events(t, k)' = Events(t, k)
                 /\ Cardinality(Events(t, k))' = Cardinality(Events(t, k))
    <3> SUFFICES ASSUME NEW t \in Requests, NEW k \in {"tool_call", "tool_result", "usage"}
                 PROVE  /\ Events(t, k)' = Events(t, k)
                        /\ Cardinality(Events(t, k))' = Cardinality(Events(t, k))
      OBVIOUS
    <3>1. k # kind
      BY DEF AllOps
    <3> QED
      BY <2>2, <3>1, EventsGrow DEF IInv
  <2> QED
    BY <2>1, <2>2 DEF Aside
<1>2. /\ \A t \in Requests : Events(t, "error") \subseteq Events(t, "error")'
      /\ \A i \in DOMAIN ledger : ledger'[i] = ledger[i]
  <2>1. CASE ledger' = ledger
    BY <2>1 DEF Events
  <2>2. ASSUME NEW kind \in AllOps, NEW r \in Requests, Log(kind, "human", r, 0)
        PROVE  /\ \A t \in Requests : Events(t, "error") \subseteq Events(t, "error")'
               /\ \A i \in DOMAIN ledger : ledger'[i] = ledger[i]
    BY <2>2, EventsGrow, LogAdds DEF IInv
  <2> QED
    BY <2>1, <2>2 DEF Aside
<1>3. \A t \in Requests : /\ turn'[t].spend = turn[t].spend
                          /\ \/ turn'[t].pc = turn[t].pc
                             \/ turn[t].pc = "none" /\ turn'[t].pc = "ready"
  BY DEF Aside
<1>4. ASSUME Paired PROVE Paired'
  <2>1. \A t \in Requests : Calls(t)' = Calls(t) /\ Results(t)' = Results(t)
    BY <1>1 DEF Calls, Results
  <2> QED
    BY <1>3, <1>4, <2>1 DEF Paired
<1>5. ASSUME Billed PROVE Billed'
  <2> SUFFICES ASSUME NEW t \in Requests
               PROVE  /\ turn'[t].pc # "done" => Events(t, "usage")' = {}
                      /\ turn'[t].pc = "done" => Events(t, "usage")' # {} \/ EndsInError(t)'
                      /\ \A i, j \in Events(t, "usage")' : i = j /\ ledger'[i].cost = turn'[t].spend
    BY DEF Billed
  <2>1. Events(t, "usage")' = Events(t, "usage") /\ Events(t, "usage") \subseteq DOMAIN ledger
    BY <1>1 DEF Events
  <2>2. turn[t].pc = "done" /\ EndsInError(t) => EndsInError(t)'
    <3>1. CASE ledger' = ledger
      BY <3>1 DEF EndsInError, Events
    <3>2. ASSUME NEW kind \in AllOps, NEW r \in Requests, turn[r].wrap = "none",
                 Log(kind, "human", r, 0), turn[t].pc = "done", EndsInError(t)
          PROVE  EndsInError(t)'
      <4>1. r # t
        BY <3>2 DEF Wrapped
      <4> QED
        BY <3>2, <4>1, ErrorStaysLast DEF IInv
    <3> QED
      BY <3>1, <3>2 DEF Aside
  <2> QED
    BY <1>2, <1>3, <1>5, <2>1, <2>2 DEF Billed
<1> QED
  BY <1>4, <1>5

LEMMA PairedKept == IInv /\ Wrapped /\ Paired /\ [Next]_vars => Paired'
<1> SUFFICES ASSUME IInv, Wrapped, Paired, [Next]_vars PROVE Paired'
  OBVIOUS
<1>1. ASSUME NEW r \in Requests, Receive(r) \/ Handle(r) PROVE Paired'
  BY <1>1, RequestFacts, AsideKeeps
<1>2. ASSUME NEW t \in Requests, Wrapper(t) PROVE Paired'
  BY <1>2, WrapperFacts, AsideKeeps
<1>3. ASSUME NEW t \in Requests, Body(t) PROVE Paired'
  <2>1. \A u \in Requests : u # t => turn'[u].pc = turn[u].pc
    BY <1>3, BodyFacts DEF Kept
  <2>2. CASE Silent(t)
    <3>1. \A u \in Requests : Calls(u)' = Calls(u) /\ Results(u)' = Results(u)
      BY <2>2 DEF Silent, Calls, Results, Events
    <3>2. /\ turn[t].pc \in {"sync", "async", "result"} =>
               turn'[t].pc \in {"sync", "async", "result", "cancelled"}
          /\ turn[t].pc \notin {"sync", "async", "result", "cancelled"} =>
               turn'[t].pc \notin {"sync", "async", "result"}
          /\ turn[t].pc # "cancelled"
      BY <2>2 DEF Silent, Moves
    <3> QED
      BY <2>1, <3>1, <3>2 DEF Paired
  <2>3. ASSUME NEW kind \in Kinds, NEW actor, NEW cost, Log(kind, actor, t, cost),
               Ledgers(t, kind, cost)
        PROVE  Paired'
    <3>1. \A u \in Requests :
            /\ Calls(u) \in Nat /\ Results(u) \in Nat
            /\ Calls(u)' = IF kind = "tool_call" /\ u = t THEN Calls(u) + 1 ELSE Calls(u)
            /\ Results(u)' = IF kind = "tool_result" /\ u = t THEN Results(u) + 1 ELSE Results(u)
      BY <2>3, EventsGrow DEF IInv, Calls, Results
    <3>2. /\ kind = "tool_call" => /\ turn[t].pc = "invoke"
                                   /\ turn'[t].pc \in {"sync", "async"}
          /\ kind = "tool_result" => /\ turn[t].pc = "result"
                                     /\ turn'[t].pc \in {"invoke", "fold", "exhausted"}
          /\ kind \notin {"tool_call", "tool_result"} =>
               /\ turn[t].pc \notin {"sync", "async", "result", "cancelled"}
               /\ turn'[t].pc \notin {"sync", "async", "result", "cancelled"}
      BY <2>3 DEF Ledgers, Moves
    <3> HIDE DEF Calls, Results
    <3> QED
      BY <2>1, <3>1, <3>2 DEF Paired
  <2> QED
    BY <1>3, <2>2, <2>3, BodyFacts
<1>4. CASE UNCHANGED vars
  BY <1>4 DEF vars, Paired, Calls, Results, Events
<1> QED
  BY <1>1, <1>2, <1>3, <1>4 DEF Next

LEMMA BilledKept == IInv /\ Wrapped /\ Billed /\ [Next]_vars => Billed'
<1> SUFFICES ASSUME IInv, Wrapped, Billed, [Next]_vars PROVE Billed'
  OBVIOUS
<1>1. ASSUME NEW r \in Requests, Receive(r) \/ Handle(r) PROVE Billed'
  BY <1>1, RequestFacts, AsideKeeps
<1>2. ASSUME NEW t \in Requests, Wrapper(t) PROVE Billed'
  BY <1>2, WrapperFacts, AsideKeeps
<1>3. ASSUME NEW t \in Requests, Body(t) PROVE Billed'
  <2>1. \A u \in Requests : u # t => turn'[u].pc = turn[u].pc /\ turn'[u].spend = turn[u].spend
    BY <1>3, BodyFacts DEF Kept
  <2>2. CASE Silent(t)
    <3>1. turn[t].pc # "done" /\ turn'[t].pc # "done" /\ ledger' = ledger
      BY <2>2 DEF Silent, Moves
    <3>2. \A u \in Requests : /\ Events(u, "usage")' = Events(u, "usage")
                              /\ EndsInError(u)' = EndsInError(u)
      BY <3>1 DEF Events, EndsInError
    <3> QED
      BY <2>1, <3>1, <3>2 DEF Billed
  <2>3. ASSUME NEW kind \in Kinds, NEW actor, NEW cost, Log(kind, actor, t, cost),
               Ledgers(t, kind, cost)
        PROVE  Billed'
    <3>1. \A u \in Requests :
            /\ Events(u, "usage")' = IF kind = "usage" /\ u = t
                                     THEN Events(u, "usage") \cup {Len(ledger) + 1}
                                     ELSE Events(u, "usage")
            /\ u # t /\ EndsInError(u) => EndsInError(u)'
            /\ u = t /\ kind = "error" => EndsInError(u)'
      <4> SUFFICES ASSUME NEW u \in Requests
                   PROVE  /\ Events(u, "usage")' = IF kind = "usage" /\ u = t
                                     THEN Events(u, "usage") \cup {Len(ledger) + 1}
                                     ELSE Events(u, "usage")
                          /\ u # t /\ EndsInError(u) => EndsInError(u)'
                          /\ u = t /\ kind = "error" => EndsInError(u)'
        OBVIOUS
      <4>1. Events(u, "usage")' = IF kind = "usage" /\ u = t
                                  THEN Events(u, "usage") \cup {Len(ledger) + 1}
                                  ELSE Events(u, "usage")
        BY <2>3, EventsGrow DEF IInv
      <4>2. u # t /\ EndsInError(u) => EndsInError(u)'
        BY <2>3, ErrorStaysLast DEF IInv
      <4>3. kind = "error" => EndsInError(t)'
        BY <2>3, ErrorEnds DEF IInv
      <4> QED
        BY <4>1, <4>2, <4>3
    <3>2. /\ turn[t].pc # "done" /\ turn'[t].spend = turn[t].spend
          /\ kind = "usage" => turn'[t].pc = "done" /\ cost = turn[t].spend
          /\ turn'[t].pc = "done" => kind \in {"usage", "error"}
      BY <2>3 DEF Ledgers, Moves
    <3>3. /\ \A i \in DOMAIN ledger : ledger'[i] = ledger[i]
          /\ ledger'[Len(ledger) + 1].cost = cost
      <4>1. /\ \A i \in DOMAIN ledger : ledger'[i] = ledger[i]
            /\ ledger'[Len(ledger) + 1] = [kind |-> kind, actor |-> actor, by |-> t, cost |-> cost]
        BY <2>3, LogAdds DEF IInv
      <4> QED
        BY <4>1
    <3>4. \A u \in Requests : Events(u, "usage") \subseteq DOMAIN ledger
      BY DEF Events
    <3> SUFFICES ASSUME NEW u \in Requests
                 PROVE  /\ turn'[u].pc # "done" => Events(u, "usage")' = {}
                        /\ turn'[u].pc = "done" => Events(u, "usage")' # {} \/ EndsInError(u)'
                        /\ \A i, j \in Events(u, "usage")' : i = j /\ ledger'[i].cost = turn'[u].spend
      BY DEF Billed
    <3>5. CASE u # t
      BY <2>1, <3>1, <3>3, <3>4, <3>5 DEF Billed
    <3>6. CASE u = t
      BY <3>1, <3>2, <3>3, <3>6 DEF Billed
    <3> QED
      BY <3>5, <3>6
  <2> QED
    BY <1>3, <2>2, <2>3, BodyFacts
<1>4. CASE UNCHANGED vars
  BY <1>4 DEF vars, Billed, Events, EndsInError
<1> QED
  BY <1>1, <1>2, <1>3, <1>4 DEF Next

-----------------------------------------------------------------------------
(* The handlers, and what has happened for good.                           *)

\* The handlers that this is about, step by step.
LEMMA Scripts ==
  /\ PostMessage # <<>> /\ Head(PostMessage) = "append" /\ Tail(PostMessage) = LastTest
  /\ Steer # <<>> /\ Head(Steer) = "append" /\ Tail(Steer) = IdleTest
  /\ Pause # <<>> /\ Head(Pause) = "setPaused" /\ Tail(Pause) = LastAppend
  /\ LastAppend # <<>> /\ Head(LastAppend) = "append" /\ Tail(LastAppend) = <<>>
  /\ LastTest # <<>> /\ Head(LastTest) = "ifUnpaused" /\ Tail(LastTest) = <<>> /\ Len(LastTest) = 1
  /\ IdleTest # <<>> /\ Head(IdleTest) = "ifIdle" /\ Tail(IdleTest) = LastTest /\ Len(IdleTest) = 2
BY DEF PostMessage, Steer, Pause, LastAppend, LastTest, IdleTest

\* Only Pause raises the flag.
LEMMA OnlyPauseRaises ==
  ASSUME NEW o \in AllOps, o # "pause"
  PROVE  \A i \in DOMAIN HandlerOf(o) : HandlerOf(o)[i] # "setPaused"
<1>1. /\ \A i \in DOMAIN PostMessage : PostMessage[i] # "setPaused"
      /\ \A i \in DOMAIN Resume : Resume[i] # "setPaused"
      /\ \A i \in DOMAIN Steer : Steer[i] # "setPaused"
      /\ \A i \in DOMAIN Inject : Inject[i] # "setPaused"
      /\ \A i \in DOMAIN Interrupt : Interrupt[i] # "setPaused"
      /\ \A i \in DOMAIN RaiseBudget : RaiseBudget[i] # "setPaused"
  BY DEF PostMessage, Resume, Steer, Inject, Interrupt, RaiseBudget
<1> QED
  BY <1>1 DEF HandlerOf, AllOps

\* How the handler of one request moves.
Proceeds(r) ==
  /\ op' = op
  /\ todo[r] # <<>> /\ todo[r] \in Seq(Steps)
  /\ todo' = [todo EXCEPT ![r] = todo'[r]] /\ todo'[r] \in {Tail(todo[r]), <<>>}

LEMMA HandleProceeds ==
  ASSUME IInv, NEW r \in Requests, Handle(r)
  PROVE  Proceeds(r) /\ (todo'[r] = Tail(todo[r]) \/ IfIdle(r) \/ IfUnpaused(r) \/ IfPending(r))
<1>1. todo \in [Requests -> Seq(Steps)]
  BY DEF IInv, TypeOK
<1> QED
  BY <1>1 DEF Proceeds, Handle, AppendRequest, SetPaused, ClearPaused, SetLimit, Abort, Do,
     IfIdle, IfUnpaused, IfPending, Test

\* The part of Handling about one request, and the part about the ledger.
HandlerAt(r) ==
  /\ op[r] = "message" => todo[r] \in {PostMessage, LastTest, <<>>}
  /\ op[r] = "steer" => todo[r] \in {Steer, IdleTest, LastTest, <<>>}
  /\ op[r] = "pause" => todo[r] \in {Pause, LastAppend, <<>>}
  /\ op[r] # "pause" => \A i \in DOMAIN todo[r] : todo[r][i] # "setPaused"

Sourced(i) ==
  /\ ledger[i].kind = "message" /\ ledger[i].actor = "human" =>
       op[ledger[i].by] = "message" /\ todo[ledger[i].by] # PostMessage
  /\ ledger[i].kind = "steer" => op[ledger[i].by] = "steer" /\ todo[ledger[i].by] # Steer

LEMMA HandlingParts ==
  Handling <=> (\A r \in Requests : HandlerAt(r)) /\ (\A i \in DOMAIN ledger : Sourced(i))
BY DEF Handling, HandlerAt, Sourced

LEMMA HandlingKept == IInv /\ Handling /\ [Next]_vars => Handling'
<1> SUFFICES ASSUME IInv, Handling, [Next]_vars PROVE Handling'
  OBVIOUS
<1>0. /\ op \in [Requests -> AllOps \cup {"none"}] /\ todo \in [Requests -> Seq(Steps)]
      /\ \A i \in DOMAIN ledger : ledger[i].by \in Requests
      /\ ledger \in Seq(Event)
  <2>1. ledger \in Seq(Event) /\ \A i \in DOMAIN ledger : ledger[i] \in Event
    BY DEF IInv, TypeOK
  <2> QED
    BY <2>1 DEF IInv, TypeOK, Event
<1>1. ASSUME NEW r \in Requests, Receive(r) PROVE Handling'
  <2>1. PICK o \in AllOps : /\ op' = [op EXCEPT ![r] = o]
                            /\ todo' = [todo EXCEPT ![r] = HandlerOf(o)]
    BY <1>1, SessionAssumption DEF Receive, SessionAssumption
  <2>2. op[r] = "none" /\ ledger' = ledger
    BY <1>1 DEF Receive
  <2>3. /\ o = "message" => HandlerOf(o) = PostMessage
        /\ o = "steer" => HandlerOf(o) = Steer
        /\ o = "pause" => HandlerOf(o) = Pause
    BY DEF HandlerOf
  <2>4. o # "pause" => \A i \in DOMAIN HandlerOf(o) : HandlerOf(o)[i] # "setPaused"
    BY OnlyPauseRaises
  <2>5. \A q \in Requests : HandlerAt(q)'
    BY <1>0, <2>1, <2>3, <2>4 DEF Handling, HandlerAt
  <2>6. \A i \in DOMAIN ledger : Sourced(i)'
    BY <1>0, <2>1, <2>2 DEF Handling, Sourced
  <2> QED
    BY <2>2, <2>5, <2>6 DEF Handling, HandlerAt, Sourced
<1>2. ASSUME NEW r \in Requests, Handle(r) PROVE Handling'
  <2>1. Proceeds(r)
    BY <1>2, HandleProceeds
  <2>2. \A q \in Requests : q # r => todo'[q] = todo[q]
    BY <1>0, <2>1 DEF Proceeds
  <2>3. HandlerAt(r)'
    <3>1. /\ op[r] = "message" => todo'[r] \in {LastTest, <<>>}
          /\ op[r] = "steer" => todo'[r] \in {IdleTest, LastTest, <<>>}
          /\ op[r] = "pause" => todo'[r] \in {LastAppend, <<>>}
      BY <2>1, Scripts DEF Proceeds, Handling
    <3>2. op[r] # "pause" => \A i \in DOMAIN todo'[r] : todo'[r][i] # "setPaused"
      <4>1. CASE todo'[r] = <<>>
        BY <4>1
      <4>2. CASE todo'[r] = Tail(todo[r])
        <5>1. \A i \in DOMAIN Tail(todo[r]) : i + 1 \in DOMAIN todo[r] /\ Tail(todo[r])[i] = todo[r][i + 1]
          BY <2>1 DEF Proceeds
        <5> QED
          BY <4>2, <5>1 DEF Handling
      <4> QED
        BY <2>1, <4>1, <4>2 DEF Proceeds
    <3> QED
      BY <2>1, <3>1, <3>2 DEF Proceeds, HandlerAt
  <2>4. \A q \in Requests : HandlerAt(q)'
    BY <2>1, <2>2, <2>3 DEF Handling, HandlerAt, Proceeds
  <2>5. \A i \in DOMAIN ledger : /\ ledger[i].kind = "message" /\ ledger[i].actor = "human" =>
                                      op'[ledger[i].by] = "message" /\ todo'[ledger[i].by] # PostMessage
                                 /\ ledger[i].kind = "steer" =>
                                      op'[ledger[i].by] = "steer" /\ todo'[ledger[i].by] # Steer
    <3>1. /\ op[r] = "message" => todo'[r] # PostMessage
          /\ op[r] = "steer" => todo'[r] # Steer
      <4>1. PostMessage \notin {LastTest, <<>>} /\ Steer \notin {IdleTest, LastTest, <<>>}
        <5>1. Head(PostMessage) # Head(LastTest) /\ Head(Steer) # Head(IdleTest)
              /\ Head(Steer) # Head(LastTest)
          BY Scripts
        <5> QED
          BY <5>1, Scripts
      <4> QED
        BY <2>1, <4>1, Scripts DEF Proceeds, Handling
    <3> QED
      BY <1>0, <2>1, <2>2, <3>1 DEF Handling, Proceeds
  <2>6. CASE AppendRequest(r)
    <3>1. /\ DOMAIN ledger' = 1 .. Len(ledger) + 1 /\ DOMAIN ledger = 1 .. Len(ledger)
          /\ Len(ledger) \in Nat
          /\ \A i \in DOMAIN ledger : ledger'[i] = ledger[i]
          /\ ledger'[Len(ledger) + 1] = [kind |-> op[r], actor |-> "human", by |-> r, cost |-> 0]
      BY <2>6, RequestLogs, LogAdds DEF IInv
    <3>2. /\ op[r] = "message" => todo'[r] # PostMessage
          /\ op[r] = "steer" => todo'[r] # Steer
      BY <2>1, Scripts DEF Proceeds, Handling
    <3>3. ASSUME NEW i \in DOMAIN ledger' PROVE Sourced(i)'
      <4>1. CASE i \in DOMAIN ledger
        <5>1. ledger'[i] = ledger[i]
          BY <3>1, <4>1
        <5> QED
          BY <2>5, <4>1, <5>1 DEF Sourced
      <4>2. CASE i = Len(ledger) + 1
        <5>1. ledger'[i].kind = op[r] /\ ledger'[i].by = r
          BY <3>1, <4>2
        <5> QED
          BY <2>1, <3>2, <5>1 DEF Sourced, Proceeds
      <4> QED
        BY <3>1, <4>1, <4>2
    <3> QED
      BY <2>4, <3>3 DEF Handling, HandlerAt, Sourced
  <2>7. CASE ~AppendRequest(r)
    <3>1. ledger' = ledger
      BY <1>2, <2>7 DEF Handle, SetPaused, ClearPaused, SetLimit, Abort, IfIdle, IfUnpaused,
         IfPending, Test
    <3> QED
      BY <2>4, <2>5, <3>1 DEF Handling, HandlerAt
  <2> QED
    BY <2>6, <2>7
<1>3. ASSUME NEW t \in Requests, Wrapper(t) PROVE Handling'
  BY <1>3 DEF Wrapper, SpawnBody, StoreHandle, Reap, Handling
<1>4. ASSUME NEW t \in Requests, Body(t) PROVE Handling'
  <2>1. op' = op /\ todo' = todo
    BY <1>4, BodyFacts
  <2>2. CASE Silent(t)
    BY <2>1, <2>2 DEF Silent, Handling
  <2>3. ASSUME NEW kind \in Kinds, NEW actor \in {"agent", "system"}, NEW cost \in Nat,
               Log(kind, actor, t, cost), Ledgers(t, kind, cost)
        PROVE  Handling'
    <3>1. /\ DOMAIN ledger' = 1 .. Len(ledger) + 1 /\ DOMAIN ledger = 1 .. Len(ledger)
          /\ \A i \in DOMAIN ledger : ledger'[i] = ledger[i]
          /\ ledger'[Len(ledger) + 1] = [kind |-> kind, actor |-> actor, by |-> t, cost |-> cost]
          /\ Len(ledger) \in Nat
      BY <2>3, LogAdds DEF IInv
    <3>2. kind # "steer" /\ actor # "human"
      BY <2>3 DEF Ledgers
    <3>3. \A i \in DOMAIN ledger' : \/ i \in DOMAIN ledger /\ ledger'[i] = ledger[i]
                                    \/ ledger'[i].kind # "steer" /\ ledger'[i].actor # "human"
      BY <3>1, <3>2
    <3> QED
      BY <2>1, <3>3 DEF Handling
  <2> QED
    BY <1>4, <2>2, <2>3, BodyFacts
<1>5. CASE UNCHANGED vars
  BY <1>5 DEF vars, Handling
<1> QED
  BY <1>1, <1>2, <1>3, <1>4, <1>5 DEF Next

\* A body ledgers its budget before it raises the flag, and the ledger forgets
\* nothing.
LEMMA BrakedKept == IInv /\ Wrapped /\ Braked /\ [Next]_vars => Braked'
<1> SUFFICES ASSUME IInv, Wrapped, Braked, [Next]_vars PROVE Braked'
  OBVIOUS
<1>1. ASSUME Aside PROVE Braked'
  <2>1. /\ DOMAIN ledger \subseteq DOMAIN ledger'
        /\ \A i \in DOMAIN ledger : ledger'[i] = ledger[i]
    <3>1. CASE ledger' = ledger
      BY <3>1
    <3>2. ASSUME NEW kind \in AllOps, NEW r \in Requests, Log(kind, "human", r, 0)
          PROVE  /\ DOMAIN ledger \subseteq DOMAIN ledger'
                 /\ \A i \in DOMAIN ledger : ledger'[i] = ledger[i]
      BY <3>2, LogAdds DEF IInv
    <3> QED
      BY <1>1, <3>1, <3>2 DEF Aside
  <2>2. \A t \in Requests : turn'[t].pc = "setpaused" => turn[t].pc = "setpaused"
    BY <1>1 DEF Aside
  <2> QED
    BY <2>1, <2>2 DEF Braked
<1>2. ASSUME NEW t \in Requests, Body(t) PROVE Braked'
  <2>1. \A u \in Requests : u # t => turn'[u].pc = turn[u].pc
    BY <1>2, BodyFacts DEF Kept
  <2>2. CASE Silent(t)
    BY <2>1, <2>2 DEF Silent, Moves, Braked
  <2>3. ASSUME NEW kind \in Kinds, NEW actor \in {"agent", "system"}, NEW cost \in Nat,
               Log(kind, actor, t, cost), Ledgers(t, kind, cost)
        PROVE  Braked'
    <3>1. /\ DOMAIN ledger' = 1 .. Len(ledger) + 1 /\ DOMAIN ledger = 1 .. Len(ledger)
          /\ Len(ledger) \in Nat
          /\ \A i \in DOMAIN ledger : ledger'[i] = ledger[i]
          /\ ledger'[Len(ledger) + 1] = [kind |-> kind, actor |-> actor, by |-> t, cost |-> cost]
      BY <2>3, LogAdds DEF IInv
    <3>2. turn'[t].pc = "setpaused" => kind = "budget"
      BY <2>3 DEF Ledgers, Moves
    <3>3. /\ DOMAIN ledger \subseteq DOMAIN ledger' /\ Len(ledger) + 1 \in DOMAIN ledger'
          /\ ledger'[Len(ledger) + 1].kind = kind
      BY <3>1
    <3> QED
      BY <2>1, <3>1, <3>2, <3>3 DEF Braked
  <2> QED
    BY <1>2, <2>2, <2>3, BodyFacts
<1>3. CASE UNCHANGED vars
  BY <1>3 DEF vars, Braked
<1> QED
  BY <1>1, <1>2, <1>3, RequestFacts, WrapperFacts DEF Next

\* The ledger only ever grows, and a step adds at most one event.
LEMMA LedgerGrows ==
  ASSUME IInv, Wrapped, [Next]_vars
  PROVE  /\ Len(ledger) \in Nat /\ DOMAIN ledger = 1 .. Len(ledger)
         /\ DOMAIN ledger \subseteq DOMAIN ledger'
         /\ \A i \in DOMAIN ledger : ledger'[i] = ledger[i]
<1>1. ASSUME NEW kind, NEW actor, NEW by, NEW cost, Log(kind, actor, by, cost)
      PROVE  /\ DOMAIN ledger \subseteq DOMAIN ledger'
             /\ \A i \in DOMAIN ledger : ledger'[i] = ledger[i]
  BY <1>1, LogAdds DEF IInv
<1>2. Len(ledger) \in Nat /\ DOMAIN ledger = 1 .. Len(ledger)
  BY DEF IInv, TypeOK
<1>3. ledger' = ledger \/ \E kind, actor, by, cost : Log(kind, actor, by, cost)
  <2>1. CASE Aside
    BY <2>1 DEF Aside
  <2>2. ASSUME NEW t \in Requests, Body(t)
        PROVE  ledger' = ledger \/ \E kind, actor, by, cost : Log(kind, actor, by, cost)
    BY <2>2, BodyFacts DEF Silent
  <2>3. CASE UNCHANGED vars
    BY <2>3 DEF vars
  <2> QED
    BY <2>1, <2>2, <2>3, RequestFacts, WrapperFacts DEF Next
<1> QED
  BY <1>1, <1>2, <1>3

\* What disturbs a session has happened for good.
LEMMA StaysDisturbed ==
  ASSUME IInv, Wrapped, Handling, Braked, [Next]_vars, Disturbed
  PROVE  Disturbed'
<1>1. /\ DOMAIN ledger \subseteq DOMAIN ledger'
      /\ \A i \in DOMAIN ledger : ledger'[i] = ledger[i]
  BY LedgerGrows
<1>2. CASE TurnFails \/ \E i \in DOMAIN ledger : ledger[i].kind \in {"pause", "budget"}
  BY <1>1, <1>2 DEF Disturbed
<1>3. ASSUME NEW t \in Requests, turn[t].aborted PROVE Disturbed'
  <2>1. turn'[t].aborted
    <3>1. CASE Aside
      BY <1>3, <3>1 DEF Aside
    <3>2. ASSUME NEW u \in Requests, Body(u) PROVE turn'[t].aborted
      BY <1>3, <3>2, BodyFacts DEF Kept
    <3>3. CASE UNCHANGED vars
      BY <1>3, <3>3 DEF vars
    <3> QED
      BY <3>1, <3>2, <3>3, RequestFacts, WrapperFacts DEF Next
  <2> QED
    BY <2>1 DEF Disturbed
<1>4. ASSUME NEW t \in Requests, turn[t].pc = "brake" PROVE Disturbed'
  <2>1. CASE turn'[t].pc = "brake"
    BY <2>1 DEF Disturbed
  <2>2. CASE turn'[t].pc # "brake"
    <3>1. ~Aside /\ ~UNCHANGED vars
      BY <1>4, <2>2 DEF Aside, vars
    <3>2. PICK u \in Requests : Body(u)
      BY <3>1, RequestFacts, WrapperFacts DEF Next
    <3>3. u = t
      BY <1>4, <2>2, <3>2, BodyFacts DEF Kept
    <3>4. ~Silent(t)
      BY <1>4 DEF Silent, Moves
    <3>5. PICK kind \in Kinds, actor \in {"agent", "system"}, cost \in Nat :
            Log(kind, actor, t, cost) /\ Ledgers(t, kind, cost)
      BY <3>2, <3>3, <3>4, BodyFacts
    <3>6. kind = "budget"
      BY <1>4, <3>5 DEF Ledgers, Moves
    <3>7. Len(ledger) + 1 \in DOMAIN ledger' /\ ledger'[Len(ledger) + 1].kind = "budget"
      BY <3>5, <3>6, LogAdds DEF IInv
    <3> QED
      BY <3>7 DEF Disturbed
  <2> QED
    BY <2>1, <2>2
<1>5. ASSUME NEW r \in Requests, op[r] = "pause", todo[r] = LastAppend PROVE Disturbed'
  <2>1. CASE op'[r] = "pause" /\ todo'[r] = LastAppend
    BY <2>1 DEF Disturbed
  <2>2. CASE ~(op'[r] = "pause" /\ todo'[r] = LastAppend)
    <3>1. ASSUME NEW q \in Requests, Receive(q) PROVE FALSE
      <4>1. q # r
        BY <1>5, <3>1 DEF Receive
      <4> QED
        BY <1>5, <2>2, <3>1, <4>1 DEF Receive, IInv, TypeOK
    <3>2. ASSUME NEW q \in Requests, Wrapper(q) \/ Body(q) PROVE FALSE
      BY <1>5, <2>2, <3>2, BodyFacts, WrapperFacts
    <3>3. PICK q \in Requests : Handle(q)
      BY <1>5, <2>2, <3>1, <3>2 DEF Next, vars
    <3>4. q = r
      BY <1>5, <2>2, <3>3, HandleProceeds DEF Proceeds, IInv, TypeOK
    <3>5. AppendRequest(r)
      BY <1>5, <3>3, <3>4, Scripts DEF Handle, SetPaused, ClearPaused, SetLimit, Abort,
         IfIdle, IfUnpaused, IfPending, Do, Test
    <3>6. Len(ledger) + 1 \in DOMAIN ledger' /\ ledger'[Len(ledger) + 1].kind = "pause"
      BY <1>5, <3>5, RequestLogs, LogAdds DEF IInv
    <3> QED
      BY <3>6 DEF Disturbed
  <2> QED
    BY <2>1, <2>2
<1> QED
  BY <1>2, <1>3, <1>4, <1>5 DEF Disturbed

-----------------------------------------------------------------------------
(* What reaches the model.                                                 *)

\* No turn of an undisturbed session is at a brake, aborted or cancelled.
LEMMA Calm ==
  ASSUME Wrapped, Braked, ~Disturbed
  PROVE  /\ ~TurnFails
         /\ \A t \in Requests : /\ ~turn[t].aborted
                                /\ turn[t].pc \notin {"brake", "setpaused", "cancelled"}
BY DEF Wrapped, Braked, Disturbed

\* A calm step of a body takes what it will give a call towards the call, and
\* picks up what it missed in its next iteration or leaves its end behind it.
LEMMA BodyHears ==
  ASSUME IInv, Wrapped, Wrapped', Braked, Braked', ~Disturbed, ~Disturbed', ~paused,
         NEW t \in Requests, Body(t), NEW i \in DOMAIN ledger
  PROVE  /\ heard <= heard'
         /\ WillHear(t, i) => i <= heard' \/ WillHear(t, i)'
         /\ Missed(t, i) => WillHear(t, i)' \/ Missed(t, i)'
         /\ \A u \in Requests : u # t => /\ WillHear(u, i) => WillHear(u, i)'
                                         /\ Missed(u, i) => Missed(u, i)'
<1>1. /\ Len(ledger) \in Nat /\ DOMAIN ledger = 1 .. Len(ledger) /\ heard \in Nat
      /\ i \in Nat /\ i <= Len(ledger) /\ turn[t].seen \in Nat
  <2>1. ledger \in Seq(Event) /\ heard \in 0 .. Len(ledger) /\ turn[t] \in Turn
    BY DEF IInv, TypeOK
  <2> QED
    BY <2>1 DEF Turn
<1>2. /\ DOMAIN ledger \subseteq DOMAIN ledger'
      /\ \A j \in DOMAIN ledger : ledger'[j] = ledger[j]
  BY LedgerGrows DEF Next
<1>3. /\ ~TurnFails /\ turn[t].pc \notin {"brake", "setpaused", "cancelled"}
      /\ turn'[t].pc \notin {"brake", "setpaused", "cancelled"}
  BY Calm DEF Wrapped, Braked, Disturbed
<1>4. turn'[t].wrap = turn[t].wrap /\ turn[t].wrap # "new"
  BY BodyFacts DEF Wrapped, Silent, Ledgers, Moves
<1>5. \A u \in Requests : u # t => /\ WillHear(u, i) => WillHear(u, i)'
                                   /\ Missed(u, i) => Missed(u, i)'
  BY <1>2, BodyFacts DEF Kept, WillHear, Missed
<1>6. CASE Silent(t)
  <2>1. heard <= heard'
    BY <1>1, <1>6 DEF Silent
  <2>2. WillHear(t, i) => i <= heard' \/ WillHear(t, i)'
    <3>1. CASE turn[t].pc \in {"ready", "fold"}
      BY <1>1, <1>3, <1>6, <3>1 DEF Silent, Moves, WillHear
    <3>2. CASE turn[t].pc \in {"gate", "budget"} /\ i <= turn[t].seen
      <4>1. CASE turn'[t].pc = "call"
        <5>1. turn[t].seen <= heard'
          BY <1>3, <1>6, <3>2, <4>1 DEF Silent, Moves
        <5>2. heard' \in Nat
          BY Preservation DEF Next, IInv, TypeOK
        <5> QED
          BY <1>1, <3>2, <5>1, <5>2
      <4>2. CASE turn'[t].pc # "call"
        <5>1. turn'[t].pc = "budget" /\ turn'[t].seen = turn[t].seen
          BY <1>3, <1>6, <3>2, <4>2 DEF Silent, Moves
        <5> QED
          BY <3>2, <5>1 DEF WillHear
      <4> QED
        BY <4>1, <4>2
    <3> QED
      BY <1>4, <3>1, <3>2 DEF WillHear
  <2>3. Missed(t, i) => WillHear(t, i)' \/ Missed(t, i)'
    <3>1. CASE turn[t].pc \in {"ready", "fold"}
      BY <1>1, <1>3, <1>6, <3>1 DEF Silent, Moves, WillHear
    <3>2. CASE turn[t].pc \notin {"ready", "fold"}
      <4>1. /\ turn'[t].seen = turn[t].seen
            /\ turn'[t].pc \in {"gate", "budget", "call", "answer", "invoke", "sync", "async",
                                "result", "exhausted", "stop"}
        BY <1>3, <1>6, <3>2 DEF Silent, Moves
      <4> QED
        BY <4>1 DEF Missed
    <3> QED
      BY <3>1, <3>2
  <2> QED
    BY <1>5, <2>1, <2>2, <2>3
<1>7. ASSUME NEW kind \in Kinds, NEW actor \in {"agent", "system"}, NEW cost \in Nat,
             Log(kind, actor, t, cost), Ledgers(t, kind, cost)
      PROVE  /\ heard <= heard'
             /\ WillHear(t, i) => i <= heard' \/ WillHear(t, i)'
             /\ Missed(t, i) => WillHear(t, i)' \/ Missed(t, i)'
  <2>1. heard <= heard' /\ turn'[t].seen = turn[t].seen
    BY <1>1, <1>7 DEF Ledgers
  <2>2. ~WillHear(t, i)
    BY <1>3, <1>4, <1>7 DEF Ledgers, Moves, WillHear
  <2>3. \/ turn'[t].pc = "fold"
        \/ turn'[t].pc \in {"call", "invoke", "sync", "async", "exhausted", "stop"}
        \/ turn'[t].pc = "done" /\ kind \in {"usage", "error"}
    BY <1>3, <1>7 DEF Ledgers, Moves
  <2>4. Missed(t, i) => WillHear(t, i)' \/ Missed(t, i)'
    <3>1. CASE turn'[t].pc = "done" /\ kind \in {"usage", "error"}
      <4>1. /\ Len(ledger) + 1 \in DOMAIN ledger' /\ ledger'[Len(ledger) + 1].kind = kind
            /\ ledger'[Len(ledger) + 1].by = t
        BY <1>7, LogAdds DEF IInv
      <4>2. i < Len(ledger) + 1
        BY <1>1
      <4> QED
        BY <2>1, <3>1, <4>1, <4>2 DEF Missed
    <3>2. CASE ~(turn'[t].pc = "done" /\ kind \in {"usage", "error"})
      BY <2>1, <2>3, <3>2 DEF Missed, WillHear
    <3> QED
      BY <3>1, <3>2
  <2> QED
    BY <2>1, <2>2, <2>4
<1> QED
  BY <1>5, <1>6, <1>7, BodyFacts

\* A request keeps what turns will hear and what they missed.
LEMMA RequestHears ==
  ASSUME IInv, Wrapped, NEW r \in Requests, Receive(r) \/ Handle(r),
         NEW t \in Requests, NEW i \in DOMAIN ledger
  PROVE  heard' = heard /\ (WillHear(t, i) => WillHear(t, i)') /\ (Missed(t, i) => Missed(t, i)')
<1>1. /\ DOMAIN ledger \subseteq DOMAIN ledger'
      /\ \A j \in DOMAIN ledger : ledger'[j] = ledger[j]
  BY LedgerGrows DEF Next
<1>2. /\ heard' = heard /\ turn'[t].pc = turn[t].pc /\ turn'[t].seen = turn[t].seen
      /\ turn[t].wrap = "new" => turn'[t].wrap = "new"
  BY RequestFacts DEF Aside
<1> QED
  BY <1>1, <1>2 DEF WillHear, Missed

\* So does a wrapper.
LEMMA WrapperHears ==
  ASSUME IInv, Wrapped, NEW u \in Requests, Wrapper(u),
         NEW t \in Requests, NEW i \in DOMAIN ledger
  PROVE  heard' = heard /\ (WillHear(t, i) => WillHear(t, i)') /\ (Missed(t, i) => Missed(t, i)')
<1>1. /\ heard' = heard /\ ledger' = ledger /\ turn'[t].seen = turn[t].seen
      /\ \/ turn'[t].pc = turn[t].pc /\ turn'[t].wrap = turn[t].wrap
         \/ turn[t].wrap = "new" /\ turn'[t].pc = "ready" /\ turn[t].pc = "none"
         \/ turn[t].wrap # "new" /\ turn'[t].pc = turn[t].pc
  BY WrapperFacts DEF Aside, Kept, Wrapped
<1> QED
  BY <1>1 DEF WillHear, Missed

\* Heard, in parts.
SeenHeard ==
  \A t \in Requests :
    turn[t].pc \in {"call", "answer", "invoke", "sync", "async", "result",
                    "exhausted", "stop"} => turn[t].seen <= heard

MessageKept(i) ==
  ledger[i].kind = "message" /\ ledger[i].actor = "human" =>
    i <= heard \/ todo[ledger[i].by] # <<>> \/ WillHear(ledger[i].by, i)

SteerKept(i) ==
  ledger[i].kind = "steer" =>
    \/ i <= heard \/ todo[ledger[i].by] # <<>>
    \/ \E t \in Requests : WillHear(t, i) \/ Missed(t, i)

LEMMA HeardParts ==
  Heard <=> (~Disturbed => /\ ~paused /\ SeenHeard
                           /\ \A i \in DOMAIN ledger : MessageKept(i) /\ SteerKept(i))
BY DEF Heard, SeenHeard, MessageKept, SteerKept

\* The flag stays down: a pause on its way is a disturbance already.
LEMMA FlagKept ==
  ASSUME IInv, Wrapped, Handling, Braked, ~Disturbed, ~Disturbed', ~paused, [Next]_vars
  PROVE  ~paused'
<1>1. ASSUME NEW r \in Requests, Receive(r) \/ Handle(r) PROVE ~paused'
  <2>1. CASE SetPaused(r)
    <3>1. todo[r] # <<>> /\ Head(todo[r]) = "setPaused" /\ todo' = [todo EXCEPT ![r] = Tail(@)]
          /\ op' = op /\ todo[r] \in Seq(Steps) /\ todo \in [Requests -> Seq(Steps)]
      BY <2>1 DEF SetPaused, Do, IInv, TypeOK
    <3>2. 1 \in DOMAIN todo[r] /\ todo[r][1] = "setPaused"
      BY <3>1
    <3>3. op[r] = "pause"
      BY <3>2 DEF Handling
    <3>4. todo[r] = Pause
      BY <3>1, <3>3, Scripts DEF Handling
    <3>5. op'[r] = "pause" /\ todo'[r] = LastAppend
      BY <3>1, <3>3, <3>4, Scripts
    <3> QED
      BY <3>5 DEF Disturbed
  <2>2. CASE ~SetPaused(r)
    BY <1>1, <2>2 DEF Receive, Handle, AppendRequest, ClearPaused, SetLimit, Abort, IfIdle,
       IfUnpaused, IfPending, Test
  <2> QED
    BY <2>1, <2>2
<1>2. ASSUME NEW t \in Requests, Wrapper(t) PROVE ~paused'
  BY <1>2, WrapperFacts
<1>3. ASSUME NEW t \in Requests, Body(t) PROVE ~paused'
  <2>1. turn[t].pc # "setpaused"
    BY Calm
  <2> QED
    BY <1>3, <2>1, BodyFacts DEF Silent, Ledgers, Moves
<1>4. CASE UNCHANGED vars
  BY <1>4 DEF vars
<1> QED
  BY <1>1, <1>2, <1>3, <1>4 DEF Next

\* What a turn past its budget check has seen, a call was given.
LEMMA SeenHeardKept ==
  ASSUME IInv, Wrapped, Braked, ~Disturbed, ~paused, SeenHeard, [Next]_vars
  PROVE  SeenHeard'
<1>0. heard \in Nat /\ \A t \in Requests : turn[t].seen \in Nat
  BY DEF IInv, TypeOK, Turn
<1>1. CASE Aside
  BY <1>1 DEF Aside, SeenHeard
<1>2. ASSUME NEW t \in Requests, Body(t) PROVE SeenHeard'
  <2>1. heard' \in Nat
    BY Preservation DEF IInv, TypeOK
  <2>2. heard <= heard'
    BY <1>0, <1>2, BodyFacts DEF Silent, Ledgers
  <2>3. \A u \in Requests : u # t => turn'[u].pc = turn[u].pc /\ turn'[u].seen = turn[u].seen
    BY <1>2, BodyFacts DEF Kept
  <2>4. turn[t].pc # "setpaused"
    BY Calm
  <2>5. turn'[t].pc \in {"call", "answer", "invoke", "sync", "async", "result", "exhausted", "stop"}
          => /\ turn'[t].seen = turn[t].seen
             /\ turn[t].seen <= heard' \/ turn[t].seen <= heard
    <3>1. CASE Silent(t)
      BY <2>4, <3>1 DEF Silent, Moves, SeenHeard
    <3>2. CASE ~Silent(t)
      BY <1>2, <3>2, BodyFacts DEF Ledgers, Moves, SeenHeard
    <3> QED
      BY <3>1, <3>2
  <2> QED
    BY <1>0, <2>1, <2>2, <2>3, <2>5 DEF SeenHeard
<1>3. CASE UNCHANGED vars
  BY <1>3 DEF vars, SeenHeard
<1> QED
  BY <1>1, <1>2, <1>3, RequestFacts, WrapperFacts DEF Next

\* The last step of a handler of a message or a steer spawns a turn that will
\* hear it, or leaves it to the turn that runs.
LEMMA LastStep ==
  ASSUME IInv, Wrapped, Handling, Braked, ~Disturbed, ~paused, SeenHeard,
         NEW r \in Requests, Handle(r), todo'[r] = <<>>, NEW i \in DOMAIN ledger,
         ledger[i].by = r
  PROVE  /\ ledger[i].kind = "message" /\ ledger[i].actor = "human" => WillHear(r, i)'
         /\ ledger[i].kind = "steer" =>
              i <= heard \/ \E t \in Requests : WillHear(t, i)' \/ Missed(t, i)'
<1>0. turn \in [Requests -> Turn] /\ todo[r] # <<>>
  BY HandleProceeds DEF Proceeds, IInv, TypeOK
<1>1. ASSUME todo[r] = LastTest PROVE WillHear(r, i)'
  <2>1. IfUnpaused(r)
    BY <1>1, Scripts DEF Handle, AppendRequest, SetPaused, ClearPaused, SetLimit, Abort, Do,
       IfIdle, IfUnpaused, IfPending, Test
  <2>2. turn' = [turn EXCEPT ![r].wrap = "new"]
    BY <1>1, <2>1, Scripts DEF IfUnpaused, Test
  <2>3. turn'[r].wrap = "new"
    BY <1>0, <2>2 DEF Turn
  <2> QED
    BY <2>3 DEF WillHear
<1>2. ASSUME todo[r] = IdleTest
      PROVE  i <= heard \/ \E t \in Requests : WillHear(t, i)' \/ Missed(t, i)'
  <2>1. IfIdle(r)
    BY <1>2, Scripts DEF Handle, AppendRequest, SetPaused, ClearPaused, SetLimit, Abort, Do,
       IfIdle, IfUnpaused, IfPending, Test
  <2>2. IsRunning
    <3>1. LastTest # <<>> /\ Tail(todo[r]) = LastTest
      BY <1>2, Scripts
    <3>2. ~IsRunning => todo'[r] = LastTest
      BY <1>0, <2>1, <3>1 DEF IfIdle, Test, IInv, TypeOK
    <3> QED
      BY <3>1, <3>2
  <2>3. PICK t \in Requests : t = slot /\ turn[t].wrap = "waiting" /\ ~Finished(t)
    BY <2>2 DEF IsRunning, IInv, TypeOK, SlotLive
  <2>4. turn[t].pc \in {"ready", "fold", "gate", "budget", "call", "answer", "invoke", "sync",
                        "async", "result", "exhausted", "stop"}
    <3>1. turn[t].pc \in Pcs /\ turn[t].pc # "none"
      BY <1>0, <2>3 DEF Wrapped, Turn
    <3>2. turn[t].pc \notin {"brake", "setpaused", "cancelled", "done"}
      BY <2>3, Calm DEF Finished
    <3> QED
      BY <3>1, <3>2 DEF Pcs
  <2>5. i \in Nat /\ heard \in Nat /\ turn[t].seen \in Nat
    <3>1. ledger \in Seq(Event) /\ turn[t] \in Turn /\ heard \in Nat
      BY <1>0 DEF IInv, TypeOK
    <3> QED
      BY <3>1 DEF Turn
  <2>6. i <= heard \/ WillHear(t, i) \/ Missed(t, i)
    <3>1. CASE i <= turn[t].seen
      BY <2>4, <2>5, <3>1 DEF WillHear, SeenHeard
    <3>2. CASE turn[t].seen < i
      BY <2>4, <3>2 DEF WillHear, Missed
    <3> QED
      BY <2>5, <3>1, <3>2
  <2> QED
    BY <2>6, RequestHears
<1>3. ASSUME ledger[i].kind = "message", ledger[i].actor = "human" PROVE todo[r] = LastTest
  BY <1>0, <1>3 DEF Handling
<1>4. ASSUME ledger[i].kind = "steer" PROVE todo[r] \in {IdleTest, LastTest}
  BY <1>0, <1>4 DEF Handling
<1> QED
  BY <1>1, <1>2, <1>3, <1>4

LEMMA HeardKept ==
  IInv /\ Wrapped /\ Handling /\ Braked /\ Heard /\ [Next]_vars => Heard'
<1> SUFFICES ASSUME IInv, Wrapped, Handling, Braked, Heard, [Next]_vars, ~Disturbed'
             PROVE  /\ ~paused' /\ SeenHeard'
                    /\ \A i \in DOMAIN ledger' : MessageKept(i)' /\ SteerKept(i)'
  BY HeardParts DEF Heard, SeenHeard, MessageKept, SteerKept
<1>1. ~Disturbed
  BY StaysDisturbed
<1>2. ~paused /\ SeenHeard /\ \A i \in DOMAIN ledger : MessageKept(i) /\ SteerKept(i)
  BY <1>1, HeardParts
<1>3. ~paused' /\ SeenHeard'
  BY <1>1, <1>2, FlagKept, SeenHeardKept
<1>4. Wrapped' /\ Braked' /\ Handling' /\ IInv'
  BY WrappedKept, BrakedKept, HandlingKept, Preservation
<1>5. /\ Len(ledger) \in Nat /\ DOMAIN ledger = 1 .. Len(ledger)
      /\ DOMAIN ledger \subseteq DOMAIN ledger'
      /\ \A i \in DOMAIN ledger : /\ ledger'[i] = ledger[i] /\ ledger[i].by \in Requests
                                  /\ i \in Nat
      /\ heard \in Nat /\ heard' \in Nat
  <2>1. ledger \in Seq(Event) /\ \A i \in DOMAIN ledger : ledger[i] \in Event
    BY DEF IInv, TypeOK
  <2>2. heard \in Nat /\ heard' \in Nat
    BY <1>4 DEF IInv, TypeOK
  <2> QED
    BY <2>1, <2>2, LedgerGrows DEF Event
<1>6. ASSUME NEW i \in DOMAIN ledger PROVE MessageKept(i)' /\ SteerKept(i)'
  <2>0. MessageKept(i) /\ SteerKept(i) /\ ledger'[i] = ledger[i] /\ ledger[i].by \in Requests
        /\ i \in Nat
    BY <1>2, <1>5
  <2>1. ASSUME NEW r \in Requests, Receive(r) PROVE MessageKept(i)' /\ SteerKept(i)'
    <3>1. op[r] = "none" /\ \A q \in Requests : q # r => todo'[q] = todo[q]
      BY <2>1 DEF Receive, IInv, TypeOK
    <3>2. /\ heard' = heard
          /\ \A t \in Requests : (WillHear(t, i) => WillHear(t, i)') /\ (Missed(t, i) => Missed(t, i)')
      BY <2>1, RequestHears
    <3>3. ASSUME \/ ledger[i].kind = "message" /\ ledger[i].actor = "human"
                 \/ ledger[i].kind = "steer"
          PROVE  todo'[ledger[i].by] = todo[ledger[i].by]
      BY <2>0, <3>1, <3>3 DEF Handling
    <3> QED
      BY <2>0, <3>2, <3>3 DEF MessageKept, SteerKept, WillHear
  <2>2. ASSUME NEW r \in Requests, Handle(r) PROVE MessageKept(i)' /\ SteerKept(i)'
    <3>1. \A q \in Requests : q # r => todo'[q] = todo[q]
      BY <2>2, HandleProceeds DEF Proceeds, IInv, TypeOK
    <3>2. /\ heard' = heard
          /\ \A t \in Requests : (WillHear(t, i) => WillHear(t, i)') /\ (Missed(t, i) => Missed(t, i)')
      BY <2>2, RequestHears
    <3>3. CASE ledger[i].by # r \/ todo'[r] # <<>>
      BY <2>0, <3>1, <3>2, <3>3 DEF MessageKept, SteerKept, WillHear
    <3>4. CASE ledger[i].by = r /\ todo'[r] = <<>>
      <4>1. /\ ledger[i].kind = "message" /\ ledger[i].actor = "human" => WillHear(r, i)'
            /\ ledger[i].kind = "steer" =>
                 i <= heard \/ \E t \in Requests : WillHear(t, i)' \/ Missed(t, i)'
        BY <1>1, <1>2, <2>2, <3>4, LastStep
      <4> QED
        BY <2>0, <3>2, <3>4, <4>1 DEF MessageKept, SteerKept, WillHear
    <3> QED
      BY <3>3, <3>4
  <2>3. ASSUME NEW u \in Requests, Wrapper(u) PROVE MessageKept(i)' /\ SteerKept(i)'
    <3>1. todo' = todo
      BY <2>3, WrapperFacts
    <3>2. /\ heard' = heard
          /\ \A t \in Requests : (WillHear(t, i) => WillHear(t, i)') /\ (Missed(t, i) => Missed(t, i)')
      BY <2>3, WrapperHears
    <3> QED
      BY <2>0, <3>1, <3>2 DEF MessageKept, SteerKept, WillHear
  <2>4. ASSUME NEW u \in Requests, Body(u) PROVE MessageKept(i)' /\ SteerKept(i)'
    <3>1. todo' = todo
      BY <2>4, BodyFacts
    <3>2. heard <= heard'
      BY <1>1, <1>2, <1>4, <2>4, BodyHears
    <3>3. \A t \in Requests : /\ WillHear(t, i) => i <= heard' \/ WillHear(t, i)'
                              /\ Missed(t, i) => WillHear(t, i)' \/ Missed(t, i)'
      BY <1>1, <1>2, <1>4, <2>4, BodyHears
    <3>4. i <= heard => i <= heard'
      BY <1>5, <2>0, <3>2
    <3> QED
      BY <2>0, <3>1, <3>3, <3>4 DEF MessageKept, SteerKept, WillHear
  <2>5. CASE UNCHANGED vars
    BY <2>0, <2>5 DEF vars, MessageKept, SteerKept, WillHear, Missed
  <2> QED
    BY <2>1, <2>2, <2>3, <2>4, <2>5 DEF Next
<1>7. ASSUME NEW i \in DOMAIN ledger', i \notin DOMAIN ledger PROVE MessageKept(i)' /\ SteerKept(i)'
  <2>1. ASSUME NEW r \in Requests, AppendRequest(r) PROVE MessageKept(i)' /\ SteerKept(i)'
    <3>1. ledger'[i].kind = op[r] /\ ledger'[i].by = r
      <4>1. Log(op[r], "human", r, 0)
        BY <2>1, RequestLogs
      <4>2. DOMAIN ledger' = 1 .. Len(ledger) + 1
        BY <4>1, LogAdds DEF IInv
      <4>3. i = Len(ledger) + 1
        BY <1>5, <1>7, <4>2
      <4> QED
        BY <4>1, <4>3, LogAdds DEF IInv
    <3>2. todo'[r] = Tail(todo[r]) /\ Head(todo[r]) = "append" /\ todo[r] # <<>>
      BY <2>1, RequestLogs DEF IInv, TypeOK
    <3>3. op[r] \in {"message", "steer"} => todo'[r] # <<>>
      BY <3>2, Scripts DEF Handling
    <3> QED
      BY <3>1, <3>3 DEF MessageKept, SteerKept
  <2>2. ASSUME NEW u \in Requests, Body(u) PROVE MessageKept(i)' /\ SteerKept(i)'
    <3>1. ~Silent(u)
      BY <1>7 DEF Silent
    <3>2. PICK kind \in Kinds, actor \in {"agent", "system"}, cost \in Nat :
            Log(kind, actor, u, cost) /\ Ledgers(u, kind, cost)
      BY <2>2, <3>1, BodyFacts
    <3>3. ledger'[i].kind = kind /\ ledger'[i].actor = actor
      <4>1. DOMAIN ledger' = 1 .. Len(ledger) + 1
        BY <3>2, LogAdds DEF IInv
      <4>2. i = Len(ledger) + 1
        BY <1>5, <1>7, <4>1
      <4> QED
        BY <3>2, <4>2, LogAdds DEF IInv
    <3>4. kind # "steer" /\ actor # "human"
      BY <3>2 DEF Ledgers
    <3> QED
      BY <3>3, <3>4 DEF MessageKept, SteerKept
  <2>3. ASSUME NEW r \in Requests, Receive(r) \/ Wrapper(r) PROVE FALSE
    BY <1>7, <2>3, WrapperFacts DEF Receive
  <2>4. ASSUME NEW r \in Requests, Handle(r), ~AppendRequest(r) PROVE FALSE
    BY <1>7, <2>4 DEF Handle, SetPaused, ClearPaused, SetLimit, Abort, IfIdle, IfUnpaused,
       IfPending, Test
  <2>5. CASE UNCHANGED vars
    BY <1>7, <2>5 DEF vars
  <2> QED
    BY <2>1, <2>2, <2>3, <2>4, <2>5 DEF Next
<1> QED
  BY <1>3, <1>6, <1>7

-----------------------------------------------------------------------------
LEMMA RecordedAtFirst == Init => Recorded
<1> SUFFICES ASSUME Init PROVE Recorded
  OBVIOUS
<1>1. /\ ledger = <<>> /\ paused = FALSE /\ \A t \in Requests : turn[t] = NewTurn
      /\ op = [r \in Requests |-> "none"] /\ todo = [r \in Requests |-> <<>>]
  BY DEF Init
<1>2. DOMAIN ledger = {} /\ \A t \in Requests : \A k : Events(t, k) = {}
  BY <1>1 DEF Events
<1>3. \A t \in Requests : Calls(t) = 0 /\ Results(t) = 0
  BY <1>2, FS_EmptySet DEF Calls, Results
<1>4. Wrapped /\ Paired
  BY <1>1, <1>3 DEF Wrapped, Paired, NewTurn
<1>5. Billed /\ Braked
  BY <1>1, <1>2 DEF Billed, Braked, NewTurn
<1>6. Handling
  BY <1>1, <1>2 DEF Handling
<1>7. Heard
  BY <1>1, <1>2 DEF Heard, NewTurn
<1> QED
  BY <1>4, <1>5, <1>6, <1>7 DEF Recorded

\* The ledger of a session is a faithful record of its turns, in every behaviour.
THEOREM RecordKept == Spec => []Recorded
<1>1. Init => Recorded
  BY RecordedAtFirst
<1>2. IInv /\ Recorded /\ [Next]_vars => Recorded'
  BY WrappedKept, PairedKept, BilledKept, HandlingKept, BrakedKept, HeardKept DEF Recorded
<1> QED
  BY <1>1, <1>2, Invariance, PTL DEF Spec

\* Every tool call of a turn that was not interrupted in it has its result.
THEOREM CallsGetResults == Spec => []CallsAnswered
<1>1. Recorded => CallsAnswered
  BY DEF Recorded, Paired, CallsAnswered, Calls, Results
<1> QED
  BY <1>1, RecordKept, PTL

\* A turn is billed once, after its last call and for all of them, unless it ends
\* in an error.
THEOREM EveryTurnBilledOnce == Spec => []BilledOnce
<1>1. Recorded => BilledOnce
  BY DEF Recorded, Billed, BilledOnce, EndsInError
<1> QED
  BY <1>1, RecordKept, PTL

\* When everything is over there is nothing left to disturb a session or to hear.
LEMMA OverAtRest ==
  ASSUME Wrapped, Undisturbed
  PROVE  /\ ~Disturbed /\ \A r \in Requests : todo[r] = <<>>
         /\ \A t \in Requests : \A i : ~WillHear(t, i)
<1>1. \A r \in Requests : todo[r] = <<>> /\ todo[r] # LastAppend
  BY Scripts DEF Undisturbed, Quiescent
<1>2. \A t \in Requests : turn[t].pc \in {"none", "done", "cancelled"} /\ turn[t].wrap # "new"
  BY DEF Undisturbed, Quiescent, Wrapped
<1> QED
  BY <1>1, <1>2 DEF Undisturbed, Disturbed, WillHear

\* A message that comes while turns run, end or are given up by every provider is
\* given to a model call.
THEOREM EveryMessageHeard == Spec => []MessagesHeard
<1>1. TypeOK /\ Recorded => MessagesHeard
  <2> SUFFICES ASSUME TypeOK, Recorded, Undisturbed, NEW i \in DOMAIN ledger,
                      ledger[i].kind = "message" /\ ledger[i].actor = "human"
               PROVE  i <= heard
    BY DEF MessagesHeard
  <2>1. ledger[i].by \in Requests
    <3>1. ledger \in Seq(Event) /\ ledger[i] \in Event
      BY DEF TypeOK
    <3> QED
      BY <3>1 DEF Event
  <2>2. i <= heard \/ todo[ledger[i].by] # <<>> \/ WillHear(ledger[i].by, i)
    BY OverAtRest DEF Recorded, Heard
  <2> QED
    BY <2>1, <2>2, OverAtRest DEF Recorded
<1> QED
  BY <1>1, RecordKept, TypeCorrect, PTL

\* A steer is given to a model call, or a turn that had read the ledger for the last
\* time when it came ends after it.
THEOREM EverySteerHeard == Spec => []SteersHeard
<1>1. TypeOK /\ Recorded => SteersHeard
  <2> SUFFICES ASSUME TypeOK, Recorded, Undisturbed, NEW i \in DOMAIN ledger,
                      ledger[i].kind = "steer"
               PROVE  \/ i <= heard
                      \/ \E j \in i + 1 .. Len(ledger) :
                           /\ ledger[j].kind \in {"usage", "error"}
                           /\ turn[ledger[j].by].seen < i
    BY DEF SteersHeard
  <2>1. ledger \in Seq(Event) /\ ledger[i].by \in Requests /\ i \in Nat
    <3>1. ledger \in Seq(Event) /\ ledger[i] \in Event
      BY DEF TypeOK
    <3> QED
      BY <3>1 DEF Event
  <2>2. \/ i <= heard \/ todo[ledger[i].by] # <<>>
        \/ \E t \in Requests : WillHear(t, i) \/ Missed(t, i)
    BY OverAtRest DEF Recorded, Heard
  <2>3. i <= heard \/ \E t \in Requests : Missed(t, i)
    BY <2>1, <2>2, OverAtRest DEF Recorded
  <2>4. ASSUME NEW t \in Requests, Missed(t, i)
        PROVE  \E j \in i + 1 .. Len(ledger) :
                 ledger[j].kind \in {"usage", "error"} /\ turn[ledger[j].by].seen < i
    <3>1. turn[t].pc \in {"none", "done", "cancelled"}
      BY DEF Undisturbed, Quiescent, Wrapped, Recorded
    <3>2. PICK j \in DOMAIN ledger : i < j /\ ledger[j].kind \in {"usage", "error"}
                                     /\ ledger[j].by = t /\ turn[t].seen < i
      BY <2>4, <3>1 DEF Missed
    <3>3. j \in i + 1 .. Len(ledger)
      BY <2>1, <3>2
    <3> QED
      BY <3>2, <3>3
  <2> QED
    BY <2>3, <2>4
<1> QED
  BY <1>1, RecordKept, TypeCorrect, PTL

-----------------------------------------------------------------------------
(* The prompts rebuilt from the ledger.                                    *)

ToolEvents(t) == Events(t, "tool_call") \cup Events(t, "tool_result")

\* No event of S lies between i and j.
Adjacent(S, i, j) == i < j /\ \A k \in S : k <= i \/ j <= k

IsLast(S, i) == \A k \in S : k <= i

\* The calls and results of a turn alternate, a call first; and which of them is
\* the last goes with where the turn is.
Alternating ==
  \A t \in Requests :
    /\ \A i, j \in ToolEvents(t) : Adjacent(ToolEvents(t), i, j) => ledger[i].kind # ledger[j].kind
    /\ \A i \in Events(t, "tool_result") : \E j \in ToolEvents(t) : j < i
    /\ turn[t].pc \in {"sync", "async", "result"} => ToolEvents(t) # {}
    /\ \A i \in ToolEvents(t) : IsLast(ToolEvents(t), i) =>
         /\ turn[t].pc \in {"sync", "async", "result"} => ledger[i].kind = "tool_call"
         /\ turn[t].pc \notin {"sync", "async", "result", "cancelled"} =>
              ledger[i].kind = "tool_result"

\* Other events than these leave them alone.
LEMMA ToolEventsStay ==
  ASSUME IInv, Aside
  PROVE  \A t \in Requests :
           /\ ToolEvents(t)' = ToolEvents(t)
           /\ Events(t, "tool_result")' = Events(t, "tool_result")
           /\ \A i \in ToolEvents(t) : ledger'[i] = ledger[i]
<1> SUFFICES ASSUME NEW t \in Requests
             PROVE  /\ ToolEvents(t)' = ToolEvents(t)
                    /\ Events(t, "tool_result")' = Events(t, "tool_result")
                    /\ \A i \in ToolEvents(t) : ledger'[i] = ledger[i]
  OBVIOUS
<1>1. CASE ledger' = ledger
  BY <1>1 DEF ToolEvents, Events
<1>2. ASSUME NEW kind \in AllOps, NEW r \in Requests, Log(kind, "human", r, 0)
      PROVE  /\ ToolEvents(t)' = ToolEvents(t)
             /\ Events(t, "tool_result")' = Events(t, "tool_result")
             /\ \A i \in ToolEvents(t) : ledger'[i] = ledger[i]
  <2>1. kind \notin {"tool_call", "tool_result"}
    BY DEF AllOps
  <2>2. /\ Events(t, "tool_result")' = Events(t, "tool_result")
        /\ Events(t, "tool_call")' = Events(t, "tool_call")
    BY <1>2, <2>1, EventsGrow DEF IInv
  <2>3. \A i \in DOMAIN ledger : ledger'[i] = ledger[i]
    BY <1>2, LogAdds DEF IInv
  <2>4. ToolEvents(t) \subseteq DOMAIN ledger
    BY DEF ToolEvents, Events
  <2> QED
    BY <2>2, <2>3, <2>4 DEF ToolEvents
<1> QED
  BY <1>1, <1>2 DEF Aside

LEMMA AlternatingStays ==
  ASSUME Alternating,
         \A t \in Requests :
           /\ ToolEvents(t)' = ToolEvents(t)
           /\ Events(t, "tool_result")' = Events(t, "tool_result")
           /\ \A i \in ToolEvents(t) : ledger'[i] = ledger[i]
           /\ turn'[t].pc \in {"sync", "async", "result"} =>
                turn[t].pc \in {"sync", "async", "result"}
           /\ turn[t].pc \in {"sync", "async", "result", "cancelled"} =>
                turn'[t].pc \in {"sync", "async", "result", "cancelled"}
  PROVE  Alternating'
<1> SUFFICES ASSUME NEW t \in Requests
             PROVE  Alternating!(t)'
  BY DEF Alternating
<1> QED
  BY DEF Alternating, Adjacent, IsLast

\* A tool event put at the end alternates with the one before it.
LEMMA AlternatingGrows ==
  ASSUME IInv, Alternating, NEW t \in Requests, NEW kind \in {"tool_call", "tool_result"},
         NEW actor, NEW cost, Log(kind, actor, t, cost),
         \A u \in Requests : u # t => turn'[u].pc = turn[u].pc,
         \/ /\ kind = "tool_call" /\ turn[t].pc = "invoke"
            /\ turn'[t].pc \in {"sync", "async"}
         \/ /\ kind = "tool_result" /\ turn[t].pc = "result"
            /\ turn'[t].pc \in {"invoke", "fold", "exhausted"}
  PROVE  Alternating'
<1> DEFINE n == Len(ledger) + 1
<1>1. /\ Len(ledger) \in Nat /\ DOMAIN ledger = 1 .. Len(ledger)
      /\ \A i \in DOMAIN ledger : ledger'[i] = ledger[i]
      /\ ledger'[n].kind = kind
  BY LogAdds DEF IInv
<1>2. \A u \in Requests :
        /\ Events(u, "tool_call")' = IF kind = "tool_call" /\ u = t
                                     THEN Events(u, "tool_call") \cup {n} ELSE Events(u, "tool_call")
        /\ Events(u, "tool_result")' = IF kind = "tool_result" /\ u = t
                                       THEN Events(u, "tool_result") \cup {n}
                                       ELSE Events(u, "tool_result")
  BY EventsGrow DEF IInv
<1>3. \A u \in Requests : ToolEvents(u) \subseteq DOMAIN ledger
  BY DEF ToolEvents, Events
<1>4. ToolEvents(t)' = ToolEvents(t) \cup {n}
  BY <1>2 DEF ToolEvents
<1>5. \A i \in ToolEvents(t) : i < n /\ i \in Nat /\ ledger'[i] = ledger[i]
  BY <1>1, <1>3
<1>6. n \in Nat
  BY <1>1
<1> HIDE DEF n
<1>7. ASSUME NEW u \in Requests, u # t PROVE Alternating!(u)'
  <2>1. /\ ToolEvents(u)' = ToolEvents(u)
        /\ Events(u, "tool_result")' = Events(u, "tool_result")
        /\ turn'[u].pc = turn[u].pc
        /\ \A i \in ToolEvents(u) : ledger'[i] = ledger[i]
    BY <1>1, <1>2, <1>3, <1>7 DEF ToolEvents
  <2> QED
    BY <2>1 DEF Alternating, Adjacent, IsLast
<1>8. Alternating!(t)'
  <2> DEFINE S == ToolEvents(t)
  <2>1. ASSUME NEW i \in S \cup {n}, NEW j \in S \cup {n}, Adjacent(S \cup {n}, i, j)
        PROVE  ledger'[i].kind # ledger'[j].kind
    <3>1. i < j /\ \A k \in S : k <= i \/ j <= k
      BY <2>1 DEF Adjacent
    <3>2. CASE j \in S
      <4>1. i \in S
        BY <1>5, <1>6, <3>1, <3>2
      <4>2. Adjacent(S, i, j)
        BY <3>1 DEF Adjacent
      <4> QED
        BY <1>5, <3>2, <4>1, <4>2 DEF Alternating
    <3>3. CASE j = n
      <4>1. i \in S
        BY <1>6, <3>1, <3>3
      <4>2. IsLast(S, i)
        BY <1>5, <1>6, <3>1, <3>3, <4>1 DEF IsLast
      <4>3. /\ turn[t].pc \in {"sync", "async", "result"} => ledger[i].kind = "tool_call"
            /\ turn[t].pc \notin {"sync", "async", "result", "cancelled"} =>
                 ledger[i].kind = "tool_result"
        BY <4>1, <4>2 DEF Alternating
      <4> QED
        BY <1>1, <1>5, <3>3, <4>1, <4>3
    <3> QED
      BY <3>2, <3>3
  <2>2. \A i \in Events(t, "tool_result")' : \E j \in S \cup {n} : j < i
    <3> SUFFICES ASSUME NEW i \in Events(t, "tool_result")' PROVE \E j \in S \cup {n} : j < i
      OBVIOUS
    <3>1. CASE i \in Events(t, "tool_result")
      BY <3>1 DEF Alternating
    <3>2. CASE i \notin Events(t, "tool_result")
      <4>1. i = n /\ kind = "tool_result"
        BY <1>2, <3>2
      <4>2. S # {}
        BY <4>1 DEF Alternating
      <4> QED
        BY <1>5, <4>1, <4>2
    <3> QED
      BY <3>1, <3>2
  <2>3. \A i \in S \cup {n} : IsLast(S \cup {n}, i) => i = n
    BY <1>5, <1>6 DEF IsLast
  <2>4. S \cup {n} # {}
    OBVIOUS
  <2> HIDE DEF S
  <2>5. ToolEvents(t)' = S \cup {n}
    BY <1>4 DEF S
  <2> QED
    BY <1>1, <2>1, <2>2, <2>3, <2>4, <2>5
<1> QED
  BY <1>7, <1>8 DEF Alternating

LEMMA AlternatingKept == IInv /\ Wrapped /\ Alternating /\ [Next]_vars => Alternating'
<1> SUFFICES ASSUME IInv, Wrapped, Alternating, [Next]_vars PROVE Alternating'
  OBVIOUS
<1>1. ASSUME Aside PROVE Alternating'
  <2>1. \A t \in Requests : \/ turn'[t].pc = turn[t].pc
                            \/ turn[t].pc = "none" /\ turn'[t].pc = "ready"
    BY <1>1 DEF Aside
  <2> QED
    BY <1>1, <2>1, ToolEventsStay, AlternatingStays
<1>2. ASSUME NEW r \in Requests, Receive(r) \/ Handle(r) PROVE Alternating'
  BY <1>1, <1>2, RequestFacts
<1>3. ASSUME NEW t \in Requests, Wrapper(t) PROVE Alternating'
  BY <1>1, <1>3, WrapperFacts
<1>4. ASSUME NEW t \in Requests, Body(t) PROVE Alternating'
  <2>1. \A u \in Requests : u # t => turn'[u].pc = turn[u].pc
    BY <1>4, BodyFacts DEF Kept
  <2>2. CASE Silent(t)
    <3>1. \A u \in Requests :
            /\ ToolEvents(u)' = ToolEvents(u)
            /\ Events(u, "tool_result")' = Events(u, "tool_result")
            /\ \A i \in ToolEvents(u) : ledger'[i] = ledger[i]
      BY <2>2 DEF Silent, ToolEvents, Events
    <3>2. /\ turn'[t].pc \in {"sync", "async", "result"} =>
               turn[t].pc \in {"sync", "async", "result"}
          /\ turn[t].pc \in {"sync", "async", "result", "cancelled"} =>
               turn'[t].pc \in {"sync", "async", "result", "cancelled"}
      BY <2>2 DEF Silent, Moves
    <3> QED
      BY <2>1, <3>1, <3>2, AlternatingStays
  <2>3. ASSUME NEW kind \in Kinds, NEW actor, NEW cost, Log(kind, actor, t, cost),
               Ledgers(t, kind, cost)
        PROVE  Alternating'
    <3>1. CASE kind \in {"tool_call", "tool_result"}
      <4>1. \/ /\ kind = "tool_call" /\ turn[t].pc = "invoke"
               /\ turn'[t].pc \in {"sync", "async"}
            \/ /\ kind = "tool_result" /\ turn[t].pc = "result"
               /\ turn'[t].pc \in {"invoke", "fold", "exhausted"}
        BY <2>3, <3>1 DEF Ledgers, Moves
      <4> QED
        BY <2>1, <2>3, <3>1, <4>1, AlternatingGrows
    <3>2. CASE kind \notin {"tool_call", "tool_result"}
      <4>1. \A u \in Requests : /\ Events(u, "tool_call")' = Events(u, "tool_call")
                                /\ Events(u, "tool_result")' = Events(u, "tool_result")
        BY <2>3, <3>2, EventsGrow DEF IInv
      <4>2. \A i \in DOMAIN ledger : ledger'[i] = ledger[i]
        BY <2>3, LogAdds DEF IInv
      <4>3. \A u \in Requests :
              /\ ToolEvents(u)' = ToolEvents(u)
              /\ \A i \in ToolEvents(u) : ledger'[i] = ledger[i]
        BY <4>1, <4>2 DEF ToolEvents, Events
      <4>4. /\ turn'[t].pc \notin {"sync", "async", "result", "cancelled"}
            /\ turn[t].pc \notin {"sync", "async", "result", "cancelled"}
        BY <2>3, <3>2 DEF Ledgers, Moves
      <4> QED
        BY <2>1, <4>1, <4>3, <4>4, AlternatingStays
    <3> QED
      BY <3>1, <3>2
  <2> QED
    BY <1>4, <2>2, <2>3, BodyFacts
<1>5. CASE UNCHANGED vars
  BY <1>5, AlternatingStays DEF vars, ToolEvents, Events
<1> QED
  BY <1>2, <1>3, <1>4, <1>5 DEF Next

\* At any time the calls and results of each turn alternate, a call first.
THEOREM ToolEventsAlternate == Spec => []Alternating
<1>1. Init => Alternating
  <2> SUFFICES ASSUME Init PROVE Alternating
    OBVIOUS
  <2>1. ledger = <<>> /\ \A t \in Requests : turn[t].pc = "none"
    BY DEF Init, NewTurn
  <2>2. \A t \in Requests : \A k : Events(t, k) = {}
    BY <2>1 DEF Events
  <2> QED
    BY <2>1, <2>2 DEF Alternating, ToolEvents
<1>2. IInv /\ Wrapped /\ Alternating /\ [Next]_vars => Alternating'
  BY AlternatingKept
<1>3. Recorded => Wrapped
  BY DEF Recorded
<1> QED
  BY <1>1, <1>2, <1>3, Invariance, RecordKept, PTL DEF Spec

LEMMA BelowWellFounded ==
  \E R : IsWellFoundedOn(R, Nat) /\ \A x, y \in Nat : x < y => <<x, y>> \in R
<1>1. IsWellFoundedOn(OpToRel(<, Nat), Nat)
  BY NatLessThanWellFounded
<1>2. \A x, y \in Nat : x < y => <<x, y>> \in OpToRel(<, Nat)
  BY DEF OpToRel
<1> QED
  BY <1>1, <1>2, Zenon

LEMMA MinimalElement ==
  \A R, S, T : IsWellFoundedOn(R, S) /\ T \subseteq S /\ T # {} =>
    \E x \in T : \A y \in T : ~(<<y, x>> \in R)
BY WFMin

LEMMA LeastNumber ==
  \A T : T \subseteq Nat /\ T # {} => \E x \in T : \A y \in T : x <= y
<1>1. PICK R : IsWellFoundedOn(R, Nat) /\ \A x, y \in Nat : x < y => <<x, y>> \in R
  BY BelowWellFounded, Zenon
<1> SUFFICES ASSUME NEW T, T \subseteq Nat, T # {}
             PROVE  \E x \in T : \A y \in T : x <= y
  OBVIOUS
<1>2. PICK x \in T : \A y \in T : ~(<<y, x>> \in R)
  BY <1>1, MinimalElement
<1>3. ASSUME NEW y \in T PROVE x <= y
  <2>1. x \in Nat /\ y \in Nat /\ ~(<<y, x>> \in R)
    BY <1>2
  <2>2. ~(y < x)
    BY <1>1, <2>1
  <2> QED
    BY <2>1, <2>2
<1> QED
  BY <1>3

\* A set of naturals that contains 0 and the successor of each member is Nat.
LEMMA Induction ==
  \A T : T \subseteq Nat /\ 0 \in T /\ (\A n \in T : n + 1 \in T) => T = Nat
<1> SUFFICES ASSUME NEW T, T \subseteq Nat, 0 \in T, \A n \in T : n + 1 \in T, T # Nat
             PROVE  FALSE
  OBVIOUS
<1> DEFINE Others == Nat \ T
<1>1. Others \subseteq Nat /\ Others # {}
  OBVIOUS
<1>2. PICK x \in Others : \A y \in Others : x <= y
  BY <1>1, LeastNumber
<1>3. x \in Nat /\ x # 0 /\ x - 1 \in Nat /\ x = (x - 1) + 1
  BY <1>2
<1>4. x - 1 \in T
  BY <1>2, <1>3
<1> QED
  BY <1>2, <1>3, <1>4


LEMMA FoldableRecursion ==
  ASSUME NEW evs \in Seq(Event)
  PROVE  \E out :
           /\ Foldable(evs) = out[Len(evs)]
           /\ out[0] = <<>>
           /\ \A i \in 1 .. Len(evs) :
                out[i] = IF evs[i].kind \in FoldableKinds
                         THEN Append(out[i - 1], evs[i]) ELSE out[i - 1]
<1> DEFINE Pass(i, s) == IF evs[i].kind \in FoldableKinds THEN Append(s, evs[i]) ELSE s
           Good(out, n) == out = [i \in 0 .. n |-> IF i = 0 THEN <<>> ELSE Pass(i, out[i - 1])]
           T == {n \in Nat : \E out : Good(out, n)}
<1>0. Foldable(evs) = LET out == CHOOSE out : Good(out, Len(evs)) IN out[Len(evs)]
  BY DEF Foldable
<1> HIDE DEF Pass
<1>1. 0 \in T
  <2>1. Good([i \in 0 .. 0 |-> <<>>], 0)
    OBVIOUS
  <2> QED
    BY <2>1
<1>2. ASSUME NEW n \in T PROVE n + 1 \in T
  <2>1. PICK out : Good(out, n)
    OBVIOUS
  <2> DEFINE on == [i \in 0 .. n + 1 |-> IF i = n + 1 THEN Pass(i, out[n]) ELSE out[i]]
  <2>2. Good(on, n + 1)
    <3>1. n \in Nat
      OBVIOUS
    <3>2. ASSUME NEW i \in 0 .. n + 1
          PROVE  on[i] = IF i = 0 THEN <<>> ELSE Pass(i, on[i - 1])
      <4>1. CASE i = n + 1
        BY <3>1, <4>1
      <4>2. CASE i # n + 1
        BY <2>1, <3>1, <4>2
      <4> QED
        BY <4>1, <4>2
    <3> QED
      BY <3>1, <3>2
  <2>3. n + 1 \in Nat
    OBVIOUS
  <2> HIDE DEF on, Good
  <2> QED
    BY <2>2, <2>3
<1>3. T = Nat
  <2>1. T \subseteq Nat
    OBVIOUS
  <2> HIDE DEF T
  <2> QED
    BY <1>1, <1>2, <2>1, Induction
<1>4. Len(evs) \in Nat /\ \E out : Good(out, Len(evs))
  BY <1>3
<1>5. PICK out : Foldable(evs) = out[Len(evs)] /\ Good(out, Len(evs))
  BY <1>0, <1>4
<1>6. out[0] = <<>>
  BY <1>4, <1>5
<1>7. \A i \in 1 .. Len(evs) : out[i] = Pass(i, out[i - 1])
  BY <1>4, <1>5
<1> QED
  BY <1>5, <1>6, <1>7 DEF Pass

\* s is what is foldable in the first n events, and pos where it was there.
Picks(s, pos, evs, n) ==
  /\ s \in Seq(Event)
  /\ pos \in [1 .. Len(s) -> 1 .. n]
  /\ \A k \in 1 .. Len(s) : s[k] = evs[pos[k]]
  /\ \A k, l \in 1 .. Len(s) : k < l => pos[k] < pos[l]
  /\ \A j \in 1 .. n : evs[j].kind \in FoldableKinds <=> \E k \in 1 .. Len(s) : pos[k] = j

LEMMA PicksStay ==
  ASSUME NEW evs, NEW n \in Nat, NEW s, NEW pos, Picks(s, pos, evs, n),
         evs[n + 1].kind \notin FoldableKinds
  PROVE  Picks(s, pos, evs, n + 1)
<1>1. pos \in [1 .. Len(s) -> 1 .. n + 1]
  BY DEF Picks
<1>2. ASSUME NEW j \in 1 .. n + 1
      PROVE  evs[j].kind \in FoldableKinds <=> \E k \in 1 .. Len(s) : pos[k] = j
  <2>1. CASE j = n + 1
    <3>1. \A k \in 1 .. Len(s) : pos[k] \in 1 .. n
      BY DEF Picks
    <3> QED
      BY <2>1, <3>1
  <2>2. CASE j # n + 1
    BY <2>2 DEF Picks
  <2> QED
    BY <2>1, <2>2
<1> QED
  BY <1>1, <1>2 DEF Picks

LEMMA PicksGrow ==
  ASSUME NEW evs, NEW n \in Nat, NEW s, NEW pos, Picks(s, pos, evs, n),
         evs[n + 1] \in Event, evs[n + 1].kind \in FoldableKinds
  PROVE  \E on : Picks(Append(s, evs[n + 1]), on, evs, n + 1)
<1> DEFINE m  == Len(s)
           e  == evs[n + 1]
           on == [k \in 1 .. m + 1 |-> IF k = m + 1 THEN n + 1 ELSE pos[k]]
<1>1. /\ s \in Seq(Event) /\ m \in Nat /\ pos \in [1 .. m -> 1 .. n]
      /\ \A k \in 1 .. m : s[k] = evs[pos[k]]
      /\ \A k, l \in 1 .. m : k < l => pos[k] < pos[l]
      /\ \A j \in 1 .. n : evs[j].kind \in FoldableKinds <=> \E k \in 1 .. m : pos[k] = j
  BY DEF Picks
<1>2. /\ Append(s, e) \in Seq(Event) /\ Len(Append(s, e)) = m + 1
      /\ \A k \in 1 .. m + 1 : Append(s, e)[k] = IF k = m + 1 THEN e ELSE s[k]
  BY <1>1
<1> HIDE DEF m
<1>3. on \in [1 .. m + 1 -> 1 .. n + 1]
  BY <1>1
<1>4. on[m + 1] = n + 1 /\ \A k \in 1 .. m : on[k] = pos[k] /\ on[k] \in 1 .. n /\ k # m + 1
  BY <1>1
<1> HIDE DEF on
<1>5. \A k \in 1 .. m + 1 : k = m + 1 \/ k \in 1 .. m
  BY <1>1
<1>6. \A k \in 1 .. m + 1 : Append(s, e)[k] = evs[on[k]]
  BY <1>1, <1>2, <1>4, <1>5
<1>7. \A k, l \in 1 .. m + 1 : k < l => on[k] < on[l]
  BY <1>1, <1>4, <1>5
<1>8. ASSUME NEW j \in 1 .. n + 1
      PROVE  evs[j].kind \in FoldableKinds <=> \E k \in 1 .. m + 1 : on[k] = j
  <2>1. CASE j = n + 1
    BY <1>1, <1>4, <2>1
  <2>2. CASE j # n + 1
    <3>1. j \in 1 .. n
      BY <2>2
    <3>2. (\E k \in 1 .. m : pos[k] = j) <=> \E k \in 1 .. m + 1 : on[k] = j
      <4>1. ASSUME NEW k \in 1 .. m, pos[k] = j PROVE \E l \in 1 .. m + 1 : on[l] = j
        <5>1. k \in 1 .. m + 1
          BY <1>1
        <5> QED
          BY <1>4, <4>1, <5>1
      <4>2. ASSUME NEW k \in 1 .. m + 1, on[k] = j PROVE \E l \in 1 .. m : pos[l] = j
        <5>1. k \in 1 .. m
          BY <1>4, <1>5, <2>2, <4>2
        <5> QED
          BY <1>4, <4>2, <5>1
      <4> QED
        BY <4>1, <4>2
    <3> QED
      BY <1>1, <3>1, <3>2
  <2> QED
    BY <2>1, <2>2
<1>9. Picks(Append(s, e), on, evs, n + 1)
  BY <1>2, <1>3, <1>6, <1>7, <1>8 DEF Picks
<1> QED
  BY <1>9

\* Folding drops the other kinds and nothing else, and keeps the order.
LEMMA FoldablePicks ==
  ASSUME NEW evs \in Seq(Event)
  PROVE  \E pos : Picks(Foldable(evs), pos, evs, Len(evs))
<1>1. PICK out :
        /\ Foldable(evs) = out[Len(evs)]
        /\ out[0] = <<>>
        /\ \A i \in 1 .. Len(evs) :
             out[i] = IF evs[i].kind \in FoldableKinds
                      THEN Append(out[i - 1], evs[i]) ELSE out[i - 1]
  BY FoldableRecursion
<1> DEFINE T == {n \in Nat : n <= Len(evs) => \E pos : Picks(out[n], pos, evs, n)}
<1>2. 0 \in T
  <2>1. Picks(<<>>, [k \in 1 .. 0 |-> 0], evs, 0)
    BY DEF Picks
  <2> QED
    BY <1>1, <2>1
<1>3. ASSUME NEW n \in T PROVE n + 1 \in T
  <2> SUFFICES ASSUME n + 1 <= Len(evs) PROVE \E pos : Picks(out[n + 1], pos, evs, n + 1)
    OBVIOUS
  <2>1. n \in Nat /\ n + 1 \in 1 .. Len(evs) /\ (n + 1) - 1 = n /\ evs[n + 1] \in Event
    OBVIOUS
  <2>2. PICK pos : Picks(out[n], pos, evs, n)
    BY <2>1
  <2>3. out[n + 1] = IF evs[n + 1].kind \in FoldableKinds
                     THEN Append(out[n], evs[n + 1]) ELSE out[n]
    BY <1>1, <2>1
  <2> HIDE DEF T
  <2>4. CASE evs[n + 1].kind \in FoldableKinds
    BY <2>1, <2>2, <2>3, <2>4, PicksGrow
  <2>5. CASE evs[n + 1].kind \notin FoldableKinds
    BY <2>1, <2>2, <2>3, <2>5, PicksStay
  <2> QED
    BY <2>4, <2>5
<1>4. T = Nat
  <2>1. T \subseteq Nat
    OBVIOUS
  <2> HIDE DEF T
  <2> QED
    BY <1>2, <1>3, <2>1, Induction
<1>5. Len(evs) \in Nat
  OBVIOUS
<1> QED
  BY <1>1, <1>4, <1>5

\* Where the messages of a prompt come from: the marker from nowhere, the others
\* from events in their order, the newest of those that are foldable; without a
\* marker from all of them.
Sources(prompt, at, evs) ==
  /\ \A i \in DOMAIN prompt :
       /\ i \in Nat \ {0} /\ at[i] \in Nat
       /\ at[i] = 0 => i = 1 /\ prompt[i].role = "system" /\ prompt[i].dropped > 0
       /\ at[i] # 0 => at[i] \in DOMAIN evs /\ prompt[i] = RebuildOne(evs[at[i]])
                         /\ evs[at[i]].kind \in FoldableKinds
  /\ \A i, j \in DOMAIN prompt : i < j => at[i] < at[j]
  /\ \A j \in DOMAIN evs :
       evs[j].kind \in FoldableKinds =>
         \/ \E k \in DOMAIN prompt : at[k] = j
         \/ /\ 1 \in DOMAIN prompt /\ at[1] = 0
            /\ \A i \in DOMAIN prompt : at[i] # 0 => j < at[i]

\* A fold that is not cut has a message for each event, and one that is cut for each
\* of the newest below its marker.
LEMMA PromptSources ==
  ASSUME NEW evs \in Seq(Event)
  PROVE  \E at : Sources(Rebuild(evs), at, evs)
<1> DEFINE f == Foldable(evs)
           d == IF Len(f) > MaxFoldEvents THEN Len(f) - MaxFoldEvents ELSE 0
           newest == SubSeq(f, d + 1, Len(f))
           tail == [i \in DOMAIN newest |-> RebuildOne(newest[i])]
           n == Len(f)
           m == IF d > 0 THEN 1 ELSE 0
           prompt == Rebuild(evs)
<1>1. PICK pos : Picks(f, pos, evs, Len(evs))
  BY FoldablePicks
<1>2. /\ f \in Seq(Event) /\ n \in Nat
      /\ pos \in [1 .. n -> 1 .. Len(evs)]
      /\ \A k \in 1 .. n : f[k] = evs[pos[k]]
      /\ \A k, l \in 1 .. n : k < l => pos[k] < pos[l]
      /\ \A j \in 1 .. Len(evs) : evs[j].kind \in FoldableKinds <=> \E k \in 1 .. n : pos[k] = j
  BY <1>1 DEF Picks
<1>3. DOMAIN evs = 1 .. Len(evs) /\ Len(evs) \in Nat
  OBVIOUS
<1> HIDE DEF f
<1>4. d \in 0 .. n /\ d \in Nat /\ n - d \in Nat
  BY <1>2, PromptAssumption
<1>5. prompt = (IF d > 0 THEN Marker(d) ELSE <<>>) \o tail
  BY DEF Rebuild, f
<1> HIDE DEF d, n
<1>6. newest = [i \in 1 .. n - d |-> f[d + i]]
  BY <1>2, <1>4 DEF n
<1>7. tail = [i \in 1 .. n - d |-> RebuildOne(evs[pos[d + i]])]
  <2>1. DOMAIN newest = 1 .. n - d /\ \A i \in 1 .. n - d : newest[i] = f[d + i]
    BY <1>6
  <2>2. \A i \in 1 .. n - d : d + i \in 1 .. n
    BY <1>2, <1>4
  <2>3. \A i \in 1 .. n - d : newest[i] = evs[pos[d + i]]
    BY <1>2, <2>1, <2>2
  <2> HIDE DEF newest
  <2> QED
    BY <2>1, <2>3
<1> HIDE DEF tail
<1>8. /\ DOMAIN prompt = 1 .. n - d + m
      /\ \A i \in 1 .. n - d + m :
           /\ i = 1 /\ m = 1 => prompt[i] = Marker(d)[1]
           /\ ~(i = 1 /\ m = 1) => prompt[i] = RebuildOne(evs[pos[i - m + d]])
  <2> HIDE DEF prompt
  <2>1. /\ DOMAIN tail = 1 .. n - d /\ Len(tail) = n - d
        /\ \A i \in 1 .. n - d : tail[i] = RebuildOne(evs[pos[d + i]])
    BY <1>4, <1>7
  <2> DEFINE M == {RebuildOne(evs[pos[d + i]]) : i \in 1 .. n - d} \cup {Marker(d)[1]}
  <2>2. tail \in [1 .. n - d -> M]
    BY <1>7
  <2>3. Marker(d) \in [1 .. 1 -> M] /\ <<>> \in [1 .. 0 -> M]
    BY DEF Marker
  <2> HIDE DEF M
  <2>4. tail \in Seq(M) /\ Marker(d) \in Seq(M) /\ <<>> \in Seq(M)
    <3>1. \A k \in Nat : \A f1 \in [1 .. k -> M] : f1 \in Seq(M)
      OBVIOUS
    <3>2. 0 \in Nat /\ 1 \in Nat
      OBVIOUS
    <3> QED
      BY <1>4, <2>2, <2>3, <3>1, <3>2
  <2>5. CASE d > 0
    <3>1. prompt = Marker(d) \o tail /\ m = 1 /\ Len(Marker(d)) = 1
      BY <1>5, <2>5 DEF Marker
    <3>2. /\ prompt \in Seq(M) /\ Len(prompt) = 1 + (n - d)
          /\ \A i \in 1 .. 1 + (n - d) :
               prompt[i] = IF i <= 1 THEN Marker(d)[i] ELSE tail[i - 1]
      <4>1. \A s1, s2 \in Seq(M) :
              /\ s1 \o s2 \in Seq(M) /\ Len(s1 \o s2) = Len(s1) + Len(s2)
              /\ \A i \in 1 .. Len(s1) + Len(s2) :
                   (s1 \o s2)[i] = IF i <= Len(s1) THEN s1[i] ELSE s2[i - Len(s1)]
        BY ConcatProperties, Zenon
      <4>2. /\ prompt \in Seq(M) /\ Len(prompt) = Len(Marker(d)) + Len(tail)
            /\ \A i \in 1 .. Len(Marker(d)) + Len(tail) :
                 prompt[i] = IF i <= Len(Marker(d)) THEN Marker(d)[i] ELSE tail[i - Len(Marker(d))]
        BY <2>4, <3>1, <4>1, Zenon
      <4>3. Len(Marker(d)) = 1 /\ Len(tail) = n - d
        BY <2>1, <3>1
      <4> QED
        BY <4>2, <4>3, Zenon
    <3>3. ASSUME NEW i \in 1 .. n - d + 1, i # 1
          PROVE  prompt[i] = RebuildOne(evs[pos[i - 1 + d]])
      <4>1. i - 1 \in 1 .. n - d /\ d + (i - 1) = i - 1 + d /\ ~(i <= 1) /\ i \in 1 .. 1 + (n - d)
        BY <1>4, <3>3
      <4>2. prompt[i] = tail[i - 1]
        BY <3>2, <4>1
      <4> QED
        BY <2>1, <4>1, <4>2
    <3>4. DOMAIN prompt = 1 .. n - d + 1 /\ prompt[1] = Marker(d)[1]
      <4>1. 1 \in 1 .. 1 + (n - d) /\ 1 + (n - d) = n - d + 1
        BY <1>4
      <4>2. DOMAIN prompt = 1 .. 1 + (n - d)
        BY <3>2, LenProperties
      <4> QED
        BY <3>2, <4>1, <4>2
    <3> QED
      BY <3>1, <3>3, <3>4
  <2>6. CASE ~(d > 0)
    <3>1. prompt = <<>> \o tail /\ m = 0
      BY <1>5, <2>6
    <3>2. prompt = tail
      BY <2>4, <3>1
    <3>3. ASSUME NEW i \in 1 .. n - d
          PROVE  prompt[i] = RebuildOne(evs[pos[i - 0 + d]])
      <4>1. d + i = i - 0 + d
        BY <1>4
      <4> QED
        BY <2>1, <3>2, <4>1
    <3>4. DOMAIN prompt = 1 .. n - d + 0
      BY <1>4, <2>1, <3>2
    <3> QED
      BY <1>4, <3>1, <3>3, <3>4
  <2> QED
    BY <2>5, <2>6
<1> HIDE DEF prompt
<1>9. Marker(d)[1].role = "system" /\ Marker(d)[1].dropped = d
  BY DEF Marker
<1>10. m \in {0, 1} /\ (m = 1 => d > 0) /\ (m = 0 => d = 0)
  BY <1>4
<1> HIDE DEF m
<1> DEFINE at == [i \in 1 .. n - d + m |-> IF i = 1 /\ m = 1 THEN 0 ELSE pos[i - m + d]]
<1>11. ASSUME NEW i \in 1 .. n - d + m, ~(i = 1 /\ m = 1)
       PROVE  i - m + d \in 1 .. n /\ i - m + d > d /\ pos[i - m + d] \in 1 .. Len(evs)
  <2>1. i - m + d \in 1 .. n /\ i - m + d > d
    BY <1>4, <1>2, <1>10, <1>11
  <2> QED
    BY <1>2, <2>1
<1>12. \A i \in DOMAIN prompt :
         /\ i \in Nat \ {0} /\ at[i] \in Nat
         /\ at[i] = 0 => i = 1 /\ prompt[i].role = "system" /\ prompt[i].dropped > 0
         /\ at[i] # 0 => at[i] \in DOMAIN evs /\ prompt[i] = RebuildOne(evs[at[i]])
                           /\ evs[at[i]].kind \in FoldableKinds
  <2> SUFFICES ASSUME NEW i \in 1 .. n - d + m
               PROVE  /\ at[i] \in Nat
                      /\ at[i] = 0 => i = 1 /\ prompt[i].role = "system" /\ prompt[i].dropped > 0
                      /\ at[i] # 0 => at[i] \in DOMAIN evs /\ prompt[i] = RebuildOne(evs[at[i]])
                                        /\ evs[at[i]].kind \in FoldableKinds
    BY <1>8
  <2>1. CASE i = 1 /\ m = 1
    BY <1>8, <1>9, <1>10, <2>1
  <2>2. CASE ~(i = 1 /\ m = 1)
    <3>1. at[i] = pos[i - m + d] /\ prompt[i] = RebuildOne(evs[pos[i - m + d]])
      BY <1>8, <2>2
    <3>2. i - m + d \in 1 .. n /\ pos[i - m + d] \in 1 .. Len(evs)
      BY <1>11, <2>2
    <3>3. evs[pos[i - m + d]].kind \in FoldableKinds
      BY <1>2, <3>2
    <3> HIDE DEF at
    <3>4. at[i] \in 1 .. Len(evs)
      BY <3>1, <3>2
    <3> QED
      BY <1>3, <3>1, <3>3, <3>4
  <2> QED
    BY <2>1, <2>2
<1>13. ASSUME NEW i \in 1 .. n - d + m, NEW j \in 1 .. n - d + m, i < j PROVE at[i] < at[j]
  <2>1. ~(j = 1 /\ m = 1) /\ at[j] = pos[j - m + d]
    BY <1>13
  <2>2. pos[j - m + d] \in 1 .. Len(evs) /\ j - m + d \in 1 .. n
    BY <1>11, <2>1
  <2>3. CASE i = 1 /\ m = 1
    BY <1>3, <2>1, <2>2, <2>3
  <2>4. CASE ~(i = 1 /\ m = 1)
    <3>1. at[i] = pos[i - m + d] /\ i - m + d \in 1 .. n
      BY <1>11, <2>4
    <3>2. i - m + d < j - m + d
      BY <1>4, <1>10, <1>13
    <3> QED
      BY <1>2, <2>1, <2>2, <3>1, <3>2
  <2> QED
    BY <2>3, <2>4
<1>14. ASSUME NEW j \in DOMAIN evs, evs[j].kind \in FoldableKinds
       PROVE  \/ \E k \in DOMAIN prompt : at[k] = j
              \/ /\ 1 \in DOMAIN prompt /\ at[1] = 0
                 /\ \A i \in DOMAIN prompt : at[i] # 0 => j < at[i]
  <2>1. PICK k \in 1 .. n : pos[k] = j
    BY <1>2, <1>3, <1>14
  <2>2. CASE k > d
    <3>1. k - d + m \in 1 .. n - d + m /\ ~(k - d + m = 1 /\ m = 1) /\ (k - d + m) - m + d = k
      BY <1>2, <1>4, <1>10, <2>2
    <3>2. at[k - d + m] = j
      BY <2>1, <3>1
    <3> HIDE DEF at
    <3> QED
      BY <1>8, <3>1, <3>2
  <2>3. CASE ~(k > d)
    <3>1. m = 1 /\ 1 \in 1 .. n - d + m
      BY <1>2, <1>4, <1>10, <2>3
    <3>2. at[1] = 0
      BY <3>1
    <3>3. ASSUME NEW i \in 1 .. n - d + m, at[i] # 0 PROVE j < at[i]
      <4>1. ~(i = 1 /\ m = 1) /\ at[i] = pos[i - m + d]
        BY <3>3
      <4>2. i - m + d \in 1 .. n /\ k < i - m + d
        <5>1. i - m + d \in 1 .. n /\ i - m + d > d
          BY <1>11, <4>1
        <5> QED
          BY <1>4, <2>3, <5>1
      <4> HIDE DEF at
      <4> QED
        BY <1>2, <2>1, <4>1, <4>2
    <3> HIDE DEF at
    <3> QED
      BY <1>8, <3>1, <3>2, <3>3
  <2> QED
    BY <2>2, <2>3
<1> HIDE DEF at
<1>15. Sources(prompt, at, evs)
  BY <1>8, <1>12, <1>13, <1>14 DEF Sources
<1> QED
  BY <1>15 DEF prompt

\* Whatever requests and turns have written in between, and wherever the history is
\* cut, the calls and results of a turn alternate in the prompts rebuilt from the
\* ledger, a result below its call but for one whose call was cut.
THEOREM PromptsPaired == Spec => []PromptPaired
<1>1. TypeOK /\ Alternating => PromptPaired
  <2> SUFFICES ASSUME TypeOK, Alternating PROVE PromptPaired
    OBVIOUS
  <2> DEFINE prompt == Rebuild(ledger)
             Own(t) == {i \in DOMAIN prompt : IsTool(prompt[i]) /\ prompt[i].of = t}
  <2>1. ledger \in Seq(Event) /\ DOMAIN ledger \subseteq Nat \ {0}
    <3>1. ledger \in Seq(Event)
      BY DEF TypeOK
    <3> QED
      BY <3>1
  <2>2. PICK at : Sources(prompt, at, ledger)
    BY <2>1, PromptSources
  <2>3. \A i \in DOMAIN prompt :
          /\ i \in Nat \ {0} /\ at[i] \in Nat
          /\ at[i] = 0 => i = 1 /\ prompt[i].role = "system" /\ prompt[i].dropped > 0
          /\ at[i] # 0 => at[i] \in DOMAIN ledger /\ prompt[i] = RebuildOne(ledger[at[i]])
                            /\ ledger[at[i]].kind \in FoldableKinds
    BY <2>2 DEF Sources
  <2>4. \A i, j \in DOMAIN prompt : i < j => at[i] < at[j]
    BY <2>2 DEF Sources
  <2>5. \A j \in DOMAIN ledger :
          ledger[j].kind \in FoldableKinds =>
            \/ \E k \in DOMAIN prompt : at[k] = j
            \/ /\ 1 \in DOMAIN prompt /\ at[1] = 0
               /\ \A i \in DOMAIN prompt : at[i] # 0 => j < at[i]
    BY <2>2 DEF Sources
  <2> HIDE DEF prompt
  <2>6. ASSUME NEW t \in Requests, NEW i \in Own(t)
        PROVE  /\ i \in DOMAIN prompt /\ at[i] # 0 /\ at[i] \in ToolEvents(t)
               /\ prompt[i].role = "assistant call" <=> ledger[at[i]].kind = "tool_call"
               /\ prompt[i].role = "tool" <=> ledger[at[i]].kind = "tool_result"
    <3>1. i \in DOMAIN prompt /\ prompt[i].role \in {"assistant call", "tool"} /\ prompt[i].of = t
      BY DEF IsTool
    <3>2. at[i] # 0
      BY <2>3, <3>1
    <3>3. /\ at[i] \in DOMAIN ledger /\ ledger[at[i]].kind \in FoldableKinds
          /\ prompt[i].role = Role(ledger[at[i]]) /\ prompt[i].of = ledger[at[i]].by
      <4>1. /\ at[i] \in DOMAIN ledger /\ ledger[at[i]].kind \in FoldableKinds
            /\ prompt[i] = RebuildOne(ledger[at[i]])
        BY <2>3, <3>1, <3>2
      <4> QED
        BY <4>1 DEF RebuildOne
    <3>4. /\ Role(ledger[at[i]]) = "assistant call" <=> ledger[at[i]].kind = "tool_call"
          /\ Role(ledger[at[i]]) = "tool" <=> ledger[at[i]].kind = "tool_result"
      BY <3>3 DEF Role, FoldableKinds
    <3> QED
      BY <3>1, <3>2, <3>3, <3>4 DEF ToolEvents, Events
  <2>7. ASSUME NEW t \in Requests, NEW k \in DOMAIN prompt, at[k] \in ToolEvents(t)
        PROVE  k \in Own(t)
    <3>1. /\ at[k] \in DOMAIN ledger /\ ledger[at[k]].by = t
          /\ ledger[at[k]].kind \in {"tool_call", "tool_result"}
      BY <2>7 DEF ToolEvents, Events
    <3>2. at[k] # 0
      BY <2>1, <3>1
    <3>3. prompt[k].role = Role(ledger[at[k]]) /\ prompt[k].of = t
      BY <2>3, <3>1, <3>2 DEF RebuildOne
    <3> QED
      BY <3>1, <3>3 DEF Role, IsTool
  <2>8. \A t \in Requests : \A j \in ToolEvents(t) :
          j \in DOMAIN ledger /\ ledger[j].kind \in FoldableKinds
    BY DEF ToolEvents, Events, FoldableKinds
  <2> HIDE DEF Own
  <2>9. ASSUME NEW t \in Requests, NEW i \in Own(t), NEW j \in Own(t), i < j,
               \A k \in Own(t) : k <= i \/ j <= k
        PROVE  prompt[i].role # prompt[j].role
    <3>1. i \in DOMAIN prompt /\ j \in DOMAIN prompt /\ at[i] < at[j]
      BY <2>4, <2>6, <2>9
    <3>2. ASSUME NEW e \in ToolEvents(t), ~(e <= at[i]), ~(at[j] <= e)
          PROVE  FALSE
      <4>1. e \in Nat /\ at[i] \in Nat /\ at[j] \in Nat /\ at[i] < e /\ e < at[j]
        BY <2>1, <2>3, <2>8, <3>1, <3>2
      <4>2. PICK k \in DOMAIN prompt : at[k] = e
        <5>1. at[i] # 0 /\ ~(e < at[i])
          <6>1. at[i] # 0
            BY <2>6
          <6> QED
            BY <4>1, <6>1
        <5>2. e \in DOMAIN ledger /\ ledger[e].kind \in FoldableKinds
          BY <2>8
        <5> QED
          BY <2>5, <3>1, <5>1, <5>2, Zenon
      <4>3. k \in Own(t)
        BY <2>7, <4>2
      <4>4. i \in Nat /\ j \in Nat /\ k \in Nat
        BY <2>3, <3>1
      <4>5. CASE k <= i
        BY <2>4, <3>1, <4>1, <4>2, <4>4, <4>5
      <4>6. CASE j <= k
        BY <2>4, <3>1, <4>1, <4>2, <4>4, <4>6
      <4> QED
        BY <2>9, <4>3, <4>5, <4>6
    <3>3. at[i] \in ToolEvents(t) /\ at[j] \in ToolEvents(t)
      BY <2>6
    <3>4. Adjacent(ToolEvents(t), at[i], at[j])
      BY <3>1, <3>2 DEF Adjacent
    <3>5. ledger[at[i]].kind # ledger[at[j]].kind
      BY <3>3, <3>4 DEF Alternating
    <3>6. ledger[at[i]].kind \in {"tool_call", "tool_result"}
          /\ ledger[at[j]].kind \in {"tool_call", "tool_result"}
      BY <3>3 DEF ToolEvents, Events
    <3> QED
      BY <2>6, <3>5, <3>6
  <2>10. ASSUME NEW t \in Requests, NEW i \in Own(t), prompt[i].role = "tool",
                \A k \in Own(t) : i <= k
         PROVE  prompt[1].role = "system" /\ prompt[1].dropped > 0
    <3>1. i \in DOMAIN prompt /\ at[i] \in Events(t, "tool_result")
      BY <2>6, <2>10 DEF ToolEvents, Events
    <3>2. PICK e \in ToolEvents(t) : e < at[i]
      BY <3>1 DEF Alternating
    <3>3. e \in Nat /\ at[i] \in Nat /\ i \in Nat
      BY <2>1, <2>3, <2>8, <3>1
    <3>4. ASSUME NEW k \in DOMAIN prompt, at[k] = e PROVE FALSE
      <4>1. i <= k /\ k \in Nat
        BY <2>3, <2>7, <2>10, <3>4
      <4> QED
        BY <2>4, <3>1, <3>2, <3>3, <3>4, <4>1
    <3>5. 1 \in DOMAIN prompt /\ at[1] = 0
      BY <2>5, <2>8, <3>4
    <3> QED
      BY <2>3, <3>5
  <2> QED
    BY <2>9, <2>10 DEF PromptPaired, prompt, Own
<1> QED
  BY <1>1, TypeCorrect, ToolEventsAlternate, PTL

=============================================================================
