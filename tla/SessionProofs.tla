--------------------------- MODULE SessionProofs ----------------------------
(***************************************************************************)
(* What Session says of any number of requests and turns, any iteration    *)
(* and escalation limits and any budgets: the abort slot only ever holds   *)
(* the handle of a turn that is still awaited, and under a raised pause    *)
(* flag no turn asks a tier of its chain twice.                            *)
(***************************************************************************)
EXTENDS Session, TLAPS

\* A request spawns its turn with the last step of its handler.
SpawnedLast ==
  \A r \in Requests :
    /\ op[r] = "none" => todo[r] = <<>>
    /\ turn[r].wrap # "none" => todo[r] = <<>> /\ op[r] # "none"

SeenInLedger == \A t \in Requests : turn[t].seen <= Len(ledger)

\* The calls a turn starts under the flag keep behind its tier: one that is yet
\* to start its iteration's call, past the gate, has not asked its tier, and one
\* that has asked it meets the gate, or goes on to the next tier.
OverrunOnce ==
  paused => \A t \in Requests :
    turn[t].overrun <= turn[t].tier /\ (turn[t].pc = "budget" => turn[t].overrun < turn[t].tier)

IInv == TypeOK /\ SlotLive /\ SpawnedLast /\ SeenInLedger /\ OverrunOnce

-----------------------------------------------------------------------------
\* Every handler is a sequence of known steps.
LEMMA HandlerSteps ==
  ASSUME NEW o \in AllOps
  PROVE  HandlerOf(o) \in Seq(Steps)
<1>1. /\ PostMessage \in Seq(Steps) /\ Pause \in Seq(Steps) /\ Resume \in Seq(Steps)
      /\ Steer \in Seq(Steps) /\ Inject \in Seq(Steps) /\ Interrupt \in Seq(Steps)
      /\ RaiseBudget \in Seq(Steps)
  BY DEF PostMessage, Pause, Resume, Steer, Inject, Interrupt, RaiseBudget, Steps
<1> QED
  BY <1>1 DEF HandlerOf, AllOps

\* An append makes the ledger longer.
LEMMA Appended ==
  ASSUME TypeOK, NEW kind \in Kinds, NEW actor \in {"human", "agent", "system"},
         NEW by \in Requests, NEW cost \in Nat, Log(kind, actor, by, cost)
  PROVE  /\ ledger' \in Seq(Event) /\ Len(ledger) \in Nat /\ Len(ledger') = Len(ledger) + 1
         /\ heard \in 0 .. Len(ledger')
<1>1. [kind |-> kind, actor |-> actor, by |-> by, cost |-> cost] \in Event
  BY DEF Event
<1> QED
  BY <1>1 DEF Log, TypeOK

\* The tiers a turn has behind it.
LEMMA TiersBehind == ASSUME NEW b \in Turn PROVE b.tier - 1 \in Nat
<1>1. b.tier \in Nat \ {0}
  BY DEF Turn
<1> QED
  BY <1>1

\* A step that starts a call goes one tier on.
Paced(t, b) ==
  \/ b.overrun = turn[t].overrun /\ b.tier = turn[t].tier
  \/ b.overrun \in {turn[t].overrun, turn[t].overrun + 1} /\ b.tier = turn[t].tier + 1

\* A step of a turn's body on the ledger and its own state, which no pause flag
\* stops from keeping IInv as long as it stays away from the budget check.
LEMMA BodyStep ==
  ASSUME IInv, NEW t \in Requests, NEW b \in Turn, turn' = [turn EXCEPT ![t] = b],
         b.wrap = turn[t].wrap, b.aborted = turn[t].aborted, Paced(t, b),
         paused => b.pc # "budget", b.seen <= Len(ledger'),
         ledger' \in Seq(Event), Len(ledger) <= Len(ledger'),
         UNCHANGED <<heard, Control>>
  PROVE  IInv'
<1>1. /\ turn' \in [Requests -> Turn] /\ turn'[t] = b
      /\ \A u \in Requests : u # t => turn'[u] = turn[u]
      /\ UNCHANGED <<heard, paused, slot, limit, op, todo>>
  BY DEF IInv, TypeOK, Control
<1>2. Len(ledger) \in Nat /\ Len(ledger') \in Nat
  BY DEF IInv, TypeOK
<1>3. TypeOK'
  BY <1>1, <1>2 DEF IInv, TypeOK
<1>4. SlotLive' /\ SpawnedLast'
  BY <1>1 DEF IInv, SlotLive, SpawnedLast
<1>5. SeenInLedger'
  <2> SUFFICES ASSUME NEW u \in Requests PROVE turn'[u].seen <= Len(ledger')
    BY DEF SeenInLedger
  <2>1. CASE u = t
    BY <1>1, <2>1
  <2>2. CASE u # t
    <3>1. turn'[u].seen = turn[u].seen /\ turn[u].seen \in Nat /\ turn[u].seen <= Len(ledger)
      BY <1>1, <2>2 DEF IInv, TypeOK, Turn, SeenInLedger
    <3> QED
      BY <1>2, <3>1
  <2> QED
    BY <2>1, <2>2
<1>6. OverrunOnce'
  <2> SUFFICES ASSUME paused', NEW u \in Requests
               PROVE  /\ turn'[u].overrun <= turn'[u].tier
                      /\ turn'[u].pc = "budget" => turn'[u].overrun < turn'[u].tier
    BY DEF OverrunOnce
  <2>1. turn[u].overrun \in Nat /\ turn[u].tier \in Nat /\ turn[u].overrun <= turn[u].tier
    BY <1>1 DEF IInv, TypeOK, Turn, OverrunOnce
  <2>2. CASE u = t
    BY <1>1, <2>1, <2>2 DEF Paced
  <2>3. CASE u # t
    BY <1>1, <2>3 DEF IInv, OverrunOnce
  <2> QED
    BY <2>2, <2>3
<1> QED
  BY <1>3, <1>4, <1>5, <1>6 DEF IInv

\* A step of a request's handler that spawns no turn and leaves the slot alone.
LEMMA HandlerStep ==
  ASSUME IInv, NEW r \in Requests, todo[r] # <<>>,
         todo' = [todo EXCEPT ![r] = Tail(@)],
         UNCHANGED <<op, heard, slot, turn>>, paused' \in BOOLEAN, paused' => paused,
         limit' \in Nat \cup {NoLimit},
         ledger' \in Seq(Event), Len(ledger) <= Len(ledger')
  PROVE  IInv'
<1>1. /\ todo' \in [Requests -> Seq(Steps)]
      /\ \A u \in Requests : todo[u] = <<>> => todo'[u] = <<>>
  BY DEF IInv, TypeOK
<1>2. Len(ledger) \in Nat /\ Len(ledger') \in Nat
  BY DEF IInv, TypeOK
<1>3. TypeOK'
  BY <1>1, <1>2 DEF IInv, TypeOK
<1>4. SlotLive' /\ SpawnedLast'
  BY <1>1 DEF IInv, SlotLive, SpawnedLast
<1>5. SeenInLedger'
  BY <1>2 DEF IInv, SeenInLedger, TypeOK, Turn
<1>6. OverrunOnce'
  BY DEF IInv, OverrunOnce
<1> QED
  BY <1>3, <1>4, <1>5, <1>6 DEF IInv

\* IInv is inductive.
LEMMA Preservation == IInv /\ [Next]_vars => IInv'
<1> SUFFICES ASSUME IInv, [Next]_vars PROVE IInv'
  OBVIOUS
<1>1. ASSUME NEW r \in Requests, Receive(r) PROVE IInv'
  <2>1. PICK o \in Ops : /\ op' = [op EXCEPT ![r] = o]
                         /\ todo' = [todo EXCEPT ![r] = HandlerOf(o)]
    BY <1>1 DEF Receive
  <2>2. op[r] = "none" /\ UNCHANGED <<ledger, paused, slot, limit, turn, heard>>
    BY <1>1 DEF Receive
  <2>3. HandlerOf(o) \in Seq(Steps) /\ o \in AllOps /\ o # "none"
    BY SessionAssumption, HandlerSteps DEF SessionAssumption, AllOps
  <2>4. TypeOK' /\ SlotLive' /\ SeenInLedger' /\ OverrunOnce'
    BY <2>1, <2>2, <2>3 DEF IInv, TypeOK, SlotLive, SeenInLedger, OverrunOnce
  <2>5. SpawnedLast'
    BY <2>1, <2>2, <2>3 DEF IInv, TypeOK, SpawnedLast
  <2> QED
    BY <2>4, <2>5 DEF IInv
<1>2. ASSUME NEW r \in Requests, AppendRequest(r) PROVE IInv'
  <2>1. /\ todo[r] # <<>> /\ todo' = [todo EXCEPT ![r] = Tail(@)]
        /\ Log(op[r], "human", r, 0)
        /\ UNCHANGED <<paused, slot, limit, turn, op, heard>>
    BY <1>2 DEF AppendRequest, Do
  <2>2. op[r] \in Kinds
    BY <2>1 DEF IInv, SpawnedLast, TypeOK, AllOps, Kinds
  <2>3. ledger' \in Seq(Event) /\ Len(ledger) <= Len(ledger')
    BY <2>1, <2>2, Appended DEF IInv
  <2> QED
    BY <2>1, <2>3, HandlerStep DEF IInv, TypeOK
<1>3. ASSUME NEW r \in Requests, ClearPaused(r) PROVE IInv'
  <2>1. ledger \in Seq(Event) /\ Len(ledger) <= Len(ledger)
    BY DEF IInv, TypeOK
  <2> QED
    BY <1>3, <2>1, HandlerStep DEF ClearPaused, Do, IInv, TypeOK
<1>4. ASSUME NEW r \in Requests, SetLimit(r) PROVE IInv'
  <2>1. ledger \in Seq(Event) /\ Len(ledger) <= Len(ledger)
    BY DEF IInv, TypeOK
  <2>2. limit' \in Nat
    BY <1>4, SessionAssumption DEF SetLimit, SessionAssumption
  <2> QED
    BY <1>4, <2>1, <2>2, HandlerStep DEF SetLimit, Do, IInv, TypeOK
<1>5. ASSUME NEW r \in Requests, SetPaused(r) PROVE IInv'
  <2>1. /\ todo[r] # <<>> /\ todo' = [todo EXCEPT ![r] = Tail(@)]
        /\ UNCHANGED <<ledger, slot, limit, op, heard>> /\ RaisePaused
    BY <1>5 DEF SetPaused, Do
  <2>2. /\ paused' = TRUE /\ turn' \in [Requests -> Turn]
        /\ \A t \in Requests : /\ turn'[t].wrap = turn[t].wrap
                               /\ turn'[t].aborted = turn[t].aborted
                               /\ turn'[t].seen = turn[t].seen
                               /\ turn'[t].pc = turn[t].pc
                               /\ turn'[t].tier = turn[t].tier
                               /\ turn'[t].overrun = IF paused THEN turn[t].overrun
                                                     ELSE turn[t].tier - 1
    <3>1. \A t \in Requests : turn[t] \in Turn /\ turn[t].tier - 1 \in Nat
      BY TiersBehind DEF IInv, TypeOK
    <3>2. turn \in [Requests -> Turn]
      BY DEF IInv, TypeOK
    <3>3. CASE paused
      BY <2>1, <3>2, <3>3 DEF RaisePaused
    <3>4. CASE ~paused
      <4> DEFINE b(t) == [turn[t] EXCEPT !.overrun = turn[t].tier - 1]
      <4>1. turn' = [t \in Requests |-> b(t)] /\ \A t \in Requests : b(t) \in Turn
        BY <2>1, <3>1, <3>4 DEF RaisePaused, Turn
      <4>2. \A t \in Requests :
              /\ b(t).wrap = turn[t].wrap /\ b(t).aborted = turn[t].aborted
              /\ b(t).seen = turn[t].seen /\ b(t).pc = turn[t].pc /\ b(t).tier = turn[t].tier
              /\ b(t).overrun = turn[t].tier - 1
        BY <3>1 DEF Turn
      <4>3. \A t \in Requests : turn'[t] = b(t)
        BY <4>1
      <4> HIDE DEF b
      <4> QED
        BY <2>1, <3>4, <4>1, <4>2, <4>3 DEF RaisePaused
    <3> QED
      BY <3>3, <3>4
  <2>3. /\ todo' \in [Requests -> Seq(Steps)]
        /\ \A u \in Requests : todo[u] = <<>> => todo'[u] = <<>>
    BY <2>1 DEF IInv, TypeOK
  <2>4. TypeOK' /\ SeenInLedger'
    BY <2>1, <2>2, <2>3 DEF IInv, TypeOK, SeenInLedger
  <2>6. OverrunOnce'
    <3>1. \A t \in Requests : turn[t].tier \in Nat
      BY DEF IInv, TypeOK, Turn
    <3> QED
      BY <2>2, <3>1 DEF IInv, OverrunOnce
  <2>5. SlotLive' /\ SpawnedLast'
    BY <2>1, <2>2, <2>3 DEF IInv, TypeOK, SlotLive, SpawnedLast
  <2> QED
    BY <2>4, <2>5, <2>6 DEF IInv
<1>6. ASSUME NEW r \in Requests, Abort(r) PROVE IInv'
  <2>1. /\ todo[r] # <<>> /\ todo' = [todo EXCEPT ![r] = Tail(@)] /\ slot' = NoTurn
        /\ UNCHANGED <<ledger, paused, limit, op, heard>>
        /\ turn' = IF slot = NoTurn THEN turn ELSE [turn EXCEPT ![slot].aborted = TRUE]
    BY <1>6 DEF Abort, Do
  <2>2. /\ turn' \in [Requests -> Turn]
        /\ \A t \in Requests : /\ turn'[t].wrap = turn[t].wrap
                               /\ turn'[t].aborted => turn[t].aborted \/ t = slot
                               /\ turn'[t].seen = turn[t].seen
                               /\ turn'[t].pc = turn[t].pc
                               /\ turn'[t].overrun = turn[t].overrun
                               /\ turn'[t].tier = turn[t].tier
    BY <2>1 DEF IInv, TypeOK, Turn
  <2>3. /\ todo' \in [Requests -> Seq(Steps)]
        /\ \A u \in Requests : todo[u] = <<>> => todo'[u] = <<>>
    BY <2>1 DEF IInv, TypeOK
  <2>4. TypeOK' /\ SeenInLedger' /\ OverrunOnce'
    BY <2>1, <2>2, <2>3 DEF IInv, TypeOK, SeenInLedger, OverrunOnce
  <2>5. SlotLive'
    BY <2>1, <2>2, SessionAssumption DEF IInv, SlotLive, SessionAssumption
  <2>6. SpawnedLast'
    BY <2>1, <2>2, <2>3 DEF IInv, SpawnedLast
  <2> QED
    BY <2>4, <2>5, <2>6 DEF IInv
<1>7. ASSUME NEW r \in Requests, NEW step, NEW passes, Test(r, step, passes) PROVE IInv'
  <2>1. /\ todo[r] # <<>> /\ UNCHANGED <<ledger, paused, slot, limit, op, heard>>
        /\ todo' = [todo EXCEPT ![r] = IF passes THEN Tail(@) ELSE <<>>]
        /\ turn' = IF passes /\ Len(todo[r]) = 1
                   THEN [turn EXCEPT ![r].wrap = "new"] ELSE turn
    BY <1>7 DEF Test
  <2>2. turn[r].wrap = "none" /\ op[r] # "none" /\ ~turn[r].aborted /\ slot # r
    BY <2>1, SessionAssumption DEF IInv, SpawnedLast, SlotLive, SessionAssumption, TypeOK
  <2>3. todo[r] \in Seq(Steps) /\ todo' \in [Requests -> Seq(Steps)]
    BY <2>1 DEF IInv, TypeOK
  <2>4. /\ turn' \in [Requests -> Turn]
        /\ \A t \in Requests : t # r => turn'[t] = turn[t] /\ todo'[t] = todo[t]
        /\ turn'[r].aborted = turn[r].aborted /\ turn'[r].seen = turn[r].seen
        /\ turn'[r].pc = turn[r].pc /\ turn'[r].overrun = turn[r].overrun
        /\ turn'[r].tier = turn[r].tier
        /\ turn'[r].wrap # "none" => todo'[r] = <<>>
    <3>1. turn[r] \in Turn /\ turn \in [Requests -> Turn] /\ todo \in [Requests -> Seq(Steps)]
      BY DEF IInv, TypeOK
    <3>2. CASE passes /\ Len(todo[r]) = 1
      <4> DEFINE b == [turn[r] EXCEPT !.wrap = "new"]
      <4>1. b \in Turn /\ turn' = [turn EXCEPT ![r] = b]
        BY <2>1, <3>1, <3>2 DEF Turn, Wraps
      <4>2. todo' = [todo EXCEPT ![r] = Tail(@)] /\ Tail(todo[r]) = <<>>
        BY <2>1, <2>3, <3>2
      <4> QED
        BY <3>1, <4>1, <4>2 DEF Turn
    <3>3. CASE ~(passes /\ Len(todo[r]) = 1)
      BY <2>1, <2>2, <3>1, <3>3
    <3> QED
      BY <3>2, <3>3
  <2>5. TypeOK' /\ SeenInLedger' /\ OverrunOnce'
    BY <2>1, <2>3, <2>4 DEF IInv, TypeOK, SeenInLedger, OverrunOnce
  <2>6. SlotLive'
    BY <2>1, <2>2, <2>4 DEF IInv, SlotLive, TypeOK
  <2>7. SpawnedLast'
    BY <2>1, <2>2, <2>4 DEF IInv, SpawnedLast
  <2> QED
    BY <2>5, <2>6, <2>7 DEF IInv
<1>8. ASSUME NEW t \in Requests, Wrapper(t) PROVE IInv'
  <2>1. /\ turn[t].wrap \in {"new", "spawned", "waiting"}
        /\ UNCHANGED <<ledger, paused, limit, op, todo, heard>>
    BY <1>8 DEF Wrapper, SpawnBody, StoreHandle, Reap
  <2>2. PICK b \in Turn :
          /\ turn' = [turn EXCEPT ![t] = b] /\ b.wrap \in {"spawned", "waiting", "gone"}
          /\ b.aborted = turn[t].aborted /\ b.seen = turn[t].seen
          /\ b.overrun = turn[t].overrun /\ b.tier = turn[t].tier
          /\ (b.pc = turn[t].pc \/ b.pc = "ready")
          /\ \/ b.wrap = "spawned" /\ turn[t].wrap = "new" /\ slot' = slot
             \/ b.wrap = "waiting" /\ turn[t].wrap = "spawned" /\ slot' = t
             \/ b.wrap = "gone" /\ slot' = NoTurn
    <3>1. turn[t] \in Turn
      BY DEF IInv, TypeOK
    <3>2. CASE SpawnBody(t)
      <4> DEFINE b == [turn[t] EXCEPT !.wrap = "spawned", !.pc = "ready"]
      <4>1. b \in Turn /\ turn' = [turn EXCEPT ![t] = b]
        BY <3>1, <3>2 DEF SpawnBody, Turn, Wraps, Pcs, IInv, TypeOK
      <4> QED
        BY <3>1, <3>2, <4>1 DEF SpawnBody, Turn
    <3>3. CASE StoreHandle(t)
      <4> DEFINE b == [turn[t] EXCEPT !.wrap = "waiting"]
      <4>1. b \in Turn /\ turn' = [turn EXCEPT ![t] = b]
        BY <3>1, <3>3 DEF StoreHandle, Turn, Wraps, IInv, TypeOK
      <4> QED
        BY <3>1, <3>3, <4>1 DEF StoreHandle, Turn
    <3>4. CASE Reap(t)
      <4> DEFINE b == [turn[t] EXCEPT !.wrap = "gone"]
      <4>1. b \in Turn /\ turn' = [turn EXCEPT ![t] = b]
        BY <3>1, <3>4 DEF Reap, Turn, Wraps, IInv, TypeOK
      <4> QED
        BY <3>1, <3>4, <4>1 DEF Reap, Turn
    <3> QED
      BY <1>8, <3>2, <3>3, <3>4 DEF Wrapper
  <2>3. turn' \in [Requests -> Turn] /\ turn'[t] = b
        /\ \A u \in Requests : u # t => turn'[u] = turn[u]
    BY <2>2 DEF IInv, TypeOK
  <2>4. TypeOK' /\ SeenInLedger'
    BY <2>1, <2>2, <2>3 DEF IInv, TypeOK, SeenInLedger
  <2>5. OverrunOnce' /\ SpawnedLast'
    BY <2>1, <2>2, <2>3 DEF IInv, OverrunOnce, SpawnedLast
  <2>6. SlotLive'
    <3>1. slot = t => turn[t].wrap = "waiting"
      BY SessionAssumption DEF IInv, SlotLive, SessionAssumption
    <3>2. turn[t].aborted => turn[t].wrap \in {"waiting", "gone"}
      BY DEF IInv, SlotLive
    <3> QED
      BY <2>1, <2>2, <2>3, <3>1, <3>2 DEF IInv, SlotLive
  <2> QED
    BY <2>4, <2>5, <2>6 DEF IInv
<1>9. ASSUME NEW t \in Requests, Cancel(t) PROVE IInv'
  <2>1. turn[t] \in Turn /\ ledger \in Seq(Event) /\ turn[t].seen <= Len(ledger)
    BY DEF IInv, TypeOK, SeenInLedger
  <2> DEFINE b == [turn[t] EXCEPT !.pc = "cancelled"]
  <2>2. ledger' \in Seq(Event) /\ Len(ledger) <= Len(ledger')
    BY <1>9, <2>1 DEF Cancel
  <2>4. turn' = [turn EXCEPT ![t] = b]
    BY <1>9, <2>1 DEF Cancel, IInv, TypeOK
  <2>5. b \in Turn
    BY <2>1 DEF Turn, Pcs
  <2>6. /\ b.wrap = turn[t].wrap /\ b.aborted = turn[t].aborted
        /\ Paced(t, b) /\ b.seen <= Len(ledger')
        /\ paused => b.pc # "budget"
    BY <1>9, <2>1, <2>2 DEF Cancel, At, Turn, Paced
  <2>7. UNCHANGED <<heard, Control>>
    BY <1>9 DEF Cancel
  <2> HIDE DEF b
  <2> QED
    BY <2>2, <2>4, <2>5, <2>6, <2>7, BodyStep
<1>10. ASSUME NEW t \in Requests, Begin(t) PROVE IInv'
  <2>1. turn[t] \in Turn /\ ledger \in Seq(Event) /\ turn[t].seen <= Len(ledger)
    BY DEF IInv, TypeOK, SeenInLedger
  <2> DEFINE b == [turn[t] EXCEPT !.pc = "fold", !.seen = Len(ledger)]
  <2>2. ledger' \in Seq(Event) /\ Len(ledger) <= Len(ledger')
    BY <1>10, <2>1 DEF Begin
  <2>4. turn' = [turn EXCEPT ![t] = b]
    BY <1>10, <2>1 DEF Begin, IInv, TypeOK
  <2>5. b \in Turn
    <3>1. Len(ledger) \in Nat
      BY <2>1 DEF Turn
    <3> QED
      BY <2>1, <3>1 DEF Turn, Pcs
  <2>6. /\ b.wrap = turn[t].wrap /\ b.aborted = turn[t].aborted
        /\ Paced(t, b) /\ b.seen <= Len(ledger')
        /\ paused => b.pc # "budget"
    BY <1>10, <2>1, <2>2 DEF Begin, At, Turn, Paced
  <2>7. UNCHANGED <<heard, Control>>
    BY <1>10 DEF Begin
  <2> HIDE DEF b
  <2> QED
    BY <2>2, <2>4, <2>5, <2>6, <2>7, BodyStep
<1>11. ASSUME NEW t \in Requests, Fold(t) PROVE IInv'
  <2>1. turn[t] \in Turn /\ ledger \in Seq(Event) /\ turn[t].seen <= Len(ledger)
    BY DEF IInv, TypeOK, SeenInLedger
  <2> DEFINE b == [turn[t] EXCEPT !.pc = "gate", !.seen = Len(ledger)]
  <2>2. ledger' \in Seq(Event) /\ Len(ledger) <= Len(ledger')
    BY <1>11, <2>1 DEF Fold
  <2>4. turn' = [turn EXCEPT ![t] = b]
    BY <1>11, <2>1 DEF Fold, IInv, TypeOK
  <2>5. b \in Turn
    <3>1. Len(ledger) \in Nat
      BY <2>1 DEF Turn
    <3> QED
      BY <2>1, <3>1 DEF Turn, Pcs
  <2>6. /\ b.wrap = turn[t].wrap /\ b.aborted = turn[t].aborted
        /\ Paced(t, b) /\ b.seen <= Len(ledger')
        /\ paused => b.pc # "budget"
    BY <1>11, <2>1, <2>2 DEF Fold, At, Turn, Paced
  <2>7. UNCHANGED <<heard, Control>>
    BY <1>11 DEF Fold
  <2> HIDE DEF b
  <2> QED
    BY <2>2, <2>4, <2>5, <2>6, <2>7, BodyStep
<1>12. ASSUME NEW t \in Requests, Gate(t) PROVE IInv'
  <2>1. turn[t] \in Turn /\ ledger \in Seq(Event) /\ turn[t].seen <= Len(ledger)
    BY DEF IInv, TypeOK, SeenInLedger
  <2> DEFINE b == [turn[t] EXCEPT !.pc = IF paused THEN "stop" ELSE "budget"]
  <2>2. ledger' \in Seq(Event) /\ Len(ledger) <= Len(ledger')
    BY <1>12, <2>1 DEF Gate
  <2>4. turn' = [turn EXCEPT ![t] = b]
    BY <1>12, <2>1 DEF Gate, IInv, TypeOK
  <2>5. b \in Turn
    BY <2>1 DEF Turn, Pcs
  <2>6. /\ b.wrap = turn[t].wrap /\ b.aborted = turn[t].aborted
        /\ Paced(t, b) /\ b.seen <= Len(ledger')
        /\ paused => b.pc # "budget"
    BY <1>12, <2>1, <2>2 DEF Gate, At, Turn, Paced
  <2>7. UNCHANGED <<heard, Control>>
    BY <1>12 DEF Gate
  <2> HIDE DEF b
  <2> QED
    BY <2>2, <2>4, <2>5, <2>6, <2>7, BodyStep
<1>13. ASSUME NEW t \in Requests, BudgetPaused(t) PROVE IInv'
  <2>1. turn[t] \in Turn /\ ledger \in Seq(Event) /\ turn[t].seen <= Len(ledger)
    BY DEF IInv, TypeOK, SeenInLedger
  <2> DEFINE b == [turn[t] EXCEPT !.pc = "setpaused"]
  <2>2. ledger' \in Seq(Event) /\ Len(ledger) <= Len(ledger')
    BY <1>13, <2>1, Appended DEF BudgetPaused, IInv, Kinds, Turn
  <2>4. turn' = [turn EXCEPT ![t] = b]
    BY <1>13, <2>1 DEF BudgetPaused, IInv, TypeOK
  <2>5. b \in Turn
    BY <2>1 DEF Turn, Pcs
  <2>6. /\ b.wrap = turn[t].wrap /\ b.aborted = turn[t].aborted
        /\ Paced(t, b) /\ b.seen <= Len(ledger')
        /\ paused => b.pc # "budget"
    BY <1>13, <2>1, <2>2 DEF BudgetPaused, At, Turn, Paced
  <2>7. UNCHANGED <<heard, Control>>
    BY <1>13 DEF BudgetPaused
  <2> HIDE DEF b
  <2> QED
    BY <2>2, <2>4, <2>5, <2>6, <2>7, BodyStep
<1>14. ASSUME NEW t \in Requests, Reply(t) PROVE IInv'
  <2>1. turn[t] \in Turn /\ ledger \in Seq(Event) /\ turn[t].seen <= Len(ledger)
    BY DEF IInv, TypeOK, SeenInLedger
  <2>3. PICK k \in 0 .. MaxCalls :
          turn' = [turn EXCEPT ![t].pc = IF k = 0 THEN "answer" ELSE "invoke",
                               ![t].left = k, ![t].spend = @ + 1]
    BY <1>14 DEF Reply
  <2> DEFINE b == [turn[t] EXCEPT !.pc = IF k = 0 THEN "answer" ELSE "invoke", !.left = k, !.spend = @ + 1]
  <2>2. ledger' \in Seq(Event) /\ Len(ledger) <= Len(ledger')
    BY <1>14, <2>1 DEF Reply
  <2>4. turn' = [turn EXCEPT ![t] = b]
    BY <1>14, <2>1, <2>3 DEF Reply, IInv, TypeOK
  <2>5. b \in Turn
    <3>1. k \in Nat /\ turn[t].spend + 1 \in Nat
      BY <2>1, <2>3, SessionAssumption DEF Turn, SessionAssumption
    <3> QED
      BY <2>1, <2>3, <3>1 DEF Turn, Pcs
  <2>6. /\ b.wrap = turn[t].wrap /\ b.aborted = turn[t].aborted
        /\ Paced(t, b) /\ b.seen <= Len(ledger')
        /\ paused => b.pc # "budget"
    BY <1>14, <2>1, <2>2, <2>3 DEF Reply, At, Turn, Paced
  <2>7. UNCHANGED <<heard, Control>>
    BY <1>14 DEF Reply
  <2> HIDE DEF b
  <2> QED
    BY <2>2, <2>4, <2>5, <2>6, <2>7, BodyStep
<1>15. ASSUME NEW t \in Requests, GatewayError(t) PROVE IInv'
  <2>1. turn[t] \in Turn /\ ledger \in Seq(Event) /\ turn[t].seen <= Len(ledger)
    BY DEF IInv, TypeOK, SeenInLedger
  <2> DEFINE b == IF turn[t].tier < Tiers
                  THEN [turn[t] EXCEPT !.tier = @ + 1,
                                       !.overrun = IF paused THEN @ + 1 ELSE @]
                  ELSE [turn[t] EXCEPT !.pc = "done"]
  <2>2. ledger' \in Seq(Event) /\ Len(ledger) <= Len(ledger')
    BY <1>15, <2>1, Appended DEF GatewayError, IInv, Kinds, Turn
  <2>4. turn' = [turn EXCEPT ![t] = b]
    BY <1>15, <2>1 DEF GatewayError, IInv, TypeOK
  <2>5. b \in Turn
    <3>1. turn[t].tier + 1 \in Nat \ {0} /\ turn[t].overrun + 1 \in Nat
      BY <2>1 DEF Turn
    <3> QED
      BY <2>1, <3>1 DEF Turn, Pcs
  <2>6. /\ b.wrap = turn[t].wrap /\ b.aborted = turn[t].aborted
        /\ Paced(t, b) /\ b.seen <= Len(ledger')
        /\ paused => b.pc # "budget"
    BY <1>15, <2>1, <2>2 DEF GatewayError, At, Turn, Paced
  <2>7. UNCHANGED <<heard, Control>>
    BY <1>15 DEF GatewayError
  <2> HIDE DEF b
  <2> QED
    BY <2>2, <2>4, <2>5, <2>6, <2>7, BodyStep
<1>16. ASSUME NEW t \in Requests, Answer(t) PROVE IInv'
  <2>1. turn[t] \in Turn /\ ledger \in Seq(Event) /\ turn[t].seen <= Len(ledger)
    BY DEF IInv, TypeOK, SeenInLedger
  <2> DEFINE b == [turn[t] EXCEPT !.pc = "stop"]
  <2>2. ledger' \in Seq(Event) /\ Len(ledger) <= Len(ledger')
    BY <1>16, <2>1, Appended DEF Answer, IInv, Kinds, Turn
  <2>4. turn' = [turn EXCEPT ![t] = b]
    BY <1>16, <2>1 DEF Answer, IInv, TypeOK
  <2>5. b \in Turn
    BY <2>1 DEF Turn, Pcs
  <2>6. /\ b.wrap = turn[t].wrap /\ b.aborted = turn[t].aborted
        /\ Paced(t, b) /\ b.seen <= Len(ledger')
        /\ paused => b.pc # "budget"
    BY <1>16, <2>1, <2>2 DEF Answer, At, Turn, Paced
  <2>7. UNCHANGED <<heard, Control>>
    BY <1>16 DEF Answer
  <2> HIDE DEF b
  <2> QED
    BY <2>2, <2>4, <2>5, <2>6, <2>7, BodyStep
<1>17. ASSUME NEW t \in Requests, EmitUsage(t) PROVE IInv'
  <2>1. turn[t] \in Turn /\ ledger \in Seq(Event) /\ turn[t].seen <= Len(ledger)
    BY DEF IInv, TypeOK, SeenInLedger
  <2> DEFINE b == [turn[t] EXCEPT !.pc = "done"]
  <2>2. ledger' \in Seq(Event) /\ Len(ledger) <= Len(ledger')
    BY <1>17, <2>1, Appended DEF EmitUsage, IInv, Kinds, Turn
  <2>4. turn' = [turn EXCEPT ![t] = b]
    BY <1>17, <2>1 DEF EmitUsage, IInv, TypeOK
  <2>5. b \in Turn
    BY <2>1 DEF Turn, Pcs
  <2>6. /\ b.wrap = turn[t].wrap /\ b.aborted = turn[t].aborted
        /\ Paced(t, b) /\ b.seen <= Len(ledger')
        /\ paused => b.pc # "budget"
    BY <1>17, <2>1, <2>2 DEF EmitUsage, At, Turn, Paced
  <2>7. UNCHANGED <<heard, Control>>
    BY <1>17 DEF EmitUsage
  <2> HIDE DEF b
  <2> QED
    BY <2>2, <2>4, <2>5, <2>6, <2>7, BodyStep
<1>18. ASSUME NEW t \in Requests, ToolCall(t) PROVE IInv'
  <2>1. turn[t] \in Turn /\ ledger \in Seq(Event) /\ turn[t].seen <= Len(ledger)
    BY DEF IInv, TypeOK, SeenInLedger
  <2>3. PICK p \in {"sync", "async"} : turn' = [turn EXCEPT ![t].pc = p]
    BY <1>18 DEF ToolCall
  <2> DEFINE b == [turn[t] EXCEPT !.pc = p]
  <2>2. ledger' \in Seq(Event) /\ Len(ledger) <= Len(ledger')
    BY <1>18, <2>1, Appended DEF ToolCall, IInv, Kinds, Turn
  <2>4. turn' = [turn EXCEPT ![t] = b]
    BY <1>18, <2>1, <2>3 DEF ToolCall, IInv, TypeOK
  <2>5. b \in Turn
    BY <2>1, <2>3 DEF Turn, Pcs
  <2>6. /\ b.wrap = turn[t].wrap /\ b.aborted = turn[t].aborted
        /\ Paced(t, b) /\ b.seen <= Len(ledger')
        /\ paused => b.pc # "budget"
    BY <1>18, <2>1, <2>2, <2>3 DEF ToolCall, At, Turn, Paced
  <2>7. UNCHANGED <<heard, Control>>
    BY <1>18 DEF ToolCall
  <2> HIDE DEF b
  <2> QED
    BY <2>2, <2>4, <2>5, <2>6, <2>7, BodyStep
<1>19. ASSUME NEW t \in Requests, RunTool(t) PROVE IInv'
  <2>1. turn[t] \in Turn /\ ledger \in Seq(Event) /\ turn[t].seen <= Len(ledger)
    BY DEF IInv, TypeOK, SeenInLedger
  <2> DEFINE b == [turn[t] EXCEPT !.pc = "result"]
  <2>2. ledger' \in Seq(Event) /\ Len(ledger) <= Len(ledger')
    BY <1>19, <2>1 DEF RunTool
  <2>4. turn' = [turn EXCEPT ![t] = b]
    BY <1>19, <2>1 DEF RunTool, IInv, TypeOK
  <2>5. b \in Turn
    BY <2>1 DEF Turn, Pcs
  <2>6. /\ b.wrap = turn[t].wrap /\ b.aborted = turn[t].aborted
        /\ Paced(t, b) /\ b.seen <= Len(ledger')
        /\ paused => b.pc # "budget"
    BY <1>19, <2>1, <2>2 DEF RunTool, At, Turn, Paced
  <2>7. UNCHANGED <<heard, Control>>
    BY <1>19 DEF RunTool
  <2> HIDE DEF b
  <2> QED
    BY <2>2, <2>4, <2>5, <2>6, <2>7, BodyStep
<1>20. ASSUME NEW t \in Requests, ToolResult(t) PROVE IInv'
  <2>1. turn[t] \in Turn /\ ledger \in Seq(Event) /\ turn[t].seen <= Len(ledger)
    BY DEF IInv, TypeOK, SeenInLedger
  <2> DEFINE b == IF turn[t].left > 1
                  THEN [turn[t] EXCEPT !.left = @ - 1, !.pc = "invoke"]
                  ELSE [turn[t] EXCEPT !.left = 0, !.iter = @ + 1,
                          !.pc = IF turn[t].iter + 1 < MaxIter THEN "fold" ELSE "exhausted"]
  <2>2. ledger' \in Seq(Event) /\ Len(ledger) <= Len(ledger')
    BY <1>20, <2>1, Appended DEF ToolResult, IInv, Kinds, Turn
  <2>4. turn' = [turn EXCEPT ![t] = b]
    BY <1>20, <2>1 DEF ToolResult, IInv, TypeOK
  <2>5. b \in Turn
    <3>1. turn[t].iter + 1 \in Nat /\ (turn[t].left > 1 => turn[t].left - 1 \in Nat)
      BY <2>1 DEF Turn
    <3> QED
      BY <2>1, <3>1 DEF Turn, Pcs
  <2>6. /\ b.wrap = turn[t].wrap /\ b.aborted = turn[t].aborted
        /\ Paced(t, b) /\ b.seen <= Len(ledger')
        /\ paused => b.pc # "budget"
    BY <1>20, <2>1, <2>2 DEF ToolResult, At, Turn, Paced
  <2>7. UNCHANGED <<heard, Control>>
    BY <1>20 DEF ToolResult
  <2> HIDE DEF b
  <2> QED
    BY <2>2, <2>4, <2>5, <2>6, <2>7, BodyStep
<1>21. ASSUME NEW t \in Requests, LoopExhausted(t) PROVE IInv'
  <2>1. turn[t] \in Turn /\ ledger \in Seq(Event) /\ turn[t].seen <= Len(ledger)
    BY DEF IInv, TypeOK, SeenInLedger
  <2> DEFINE b == [turn[t] EXCEPT !.pc = "done"]
  <2>2. ledger' \in Seq(Event) /\ Len(ledger) <= Len(ledger')
    BY <1>21, <2>1, Appended DEF LoopExhausted, IInv, Kinds, Turn
  <2>4. turn' = [turn EXCEPT ![t] = b]
    BY <1>21, <2>1 DEF LoopExhausted, IInv, TypeOK
  <2>5. b \in Turn
    BY <2>1 DEF Turn, Pcs
  <2>6. /\ b.wrap = turn[t].wrap /\ b.aborted = turn[t].aborted
        /\ Paced(t, b) /\ b.seen <= Len(ledger')
        /\ paused => b.pc # "budget"
    BY <1>21, <2>1, <2>2 DEF LoopExhausted, At, Turn, Paced
  <2>7. UNCHANGED <<heard, Control>>
    BY <1>21 DEF LoopExhausted
  <2> HIDE DEF b
  <2> QED
    BY <2>2, <2>4, <2>5, <2>6, <2>7, BodyStep
<1>22. ASSUME NEW t \in Requests, FailTurn(t) PROVE IInv'
  <2>1. turn[t] \in Turn /\ ledger \in Seq(Event) /\ turn[t].seen <= Len(ledger)
    BY DEF IInv, TypeOK, SeenInLedger
  <2> DEFINE b == [turn[t] EXCEPT !.pc = "done"]
  <2>2. ledger' \in Seq(Event) /\ Len(ledger) <= Len(ledger')
    BY <1>22, <2>1, Appended DEF FailTurn, IInv, Kinds, Turn
  <2>4. turn' = [turn EXCEPT ![t] = b]
    BY <1>22, <2>1 DEF FailTurn, IInv, TypeOK
  <2>5. b \in Turn
    BY <2>1 DEF Turn, Pcs
  <2>6. /\ b.wrap = turn[t].wrap /\ b.aborted = turn[t].aborted
        /\ Paced(t, b) /\ b.seen <= Len(ledger')
        /\ paused => b.pc # "budget"
    BY <1>22, <2>1, <2>2 DEF FailTurn, At, Turn, Paced
  <2>7. UNCHANGED <<heard, Control>>
    BY <1>22 DEF FailTurn
  <2> HIDE DEF b
  <2> QED
    BY <2>2, <2>4, <2>5, <2>6, <2>7, BodyStep
<1>23. ASSUME NEW t \in Requests, BudgetCheck(t) PROVE IInv'
  <2>1. /\ turn[t] \in Turn /\ turn[t].seen \in 0 .. Len(ledger) /\ heard \in 0 .. Len(ledger)
        /\ turn[t].pc = "budget" /\ UNCHANGED <<ledger, paused, slot, limit, op, todo>>
    BY <1>23 DEF BudgetCheck, At, Control, IInv, TypeOK, SeenInLedger, Turn
  <2>2. PICK b \in Turn :
          /\ turn' = [turn EXCEPT ![t] = b] /\ b.wrap = turn[t].wrap
          /\ b.aborted = turn[t].aborted /\ b.seen = turn[t].seen
          /\ b.tier = turn[t].tier
          /\ b.pc \in {"brake", "call"} /\ b.overrun \in {turn[t].overrun, turn[t].overrun + 1}
    <3>1. CASE OverBudget(t)
      <4> DEFINE b == [turn[t] EXCEPT !.pc = "brake"]
      <4>1. b \in Turn /\ turn' = [turn EXCEPT ![t] = b]
        BY <1>23, <2>1, <3>1 DEF BudgetCheck, Turn, Pcs, IInv, TypeOK
      <4> QED
        BY <2>1, <4>1 DEF Turn
    <3>2. CASE ~OverBudget(t)
      <4> DEFINE b == [turn[t] EXCEPT !.pc = "call", !.overrun = IF paused THEN @ + 1 ELSE @]
      <4>1. turn' = [turn EXCEPT ![t] = b]
        BY <1>23, <2>1, <3>2 DEF BudgetCheck, IInv, TypeOK
      <4>2. turn[t].overrun + 1 \in Nat
        BY <2>1 DEF Turn
      <4>3. b \in Turn
        BY <2>1, <4>2 DEF Turn, Pcs
      <4> QED
        BY <2>1, <4>1, <4>3 DEF Turn
    <3> QED
      BY <3>1, <3>2
  <2>3. /\ turn' \in [Requests -> Turn] /\ turn'[t] = b
        /\ \A u \in Requests : u # t => turn'[u] = turn[u]
    BY <2>2 DEF IInv, TypeOK
  <2>4. heard' \in 0 .. Len(ledger)
    BY <1>23, <2>1 DEF BudgetCheck
  <2>5. TypeOK' /\ SeenInLedger'
    BY <2>1, <2>2, <2>3, <2>4 DEF IInv, TypeOK, SeenInLedger
  <2>6. SlotLive' /\ SpawnedLast'
    BY <2>1, <2>2, <2>3 DEF IInv, SlotLive, SpawnedLast
  <2>7. OverrunOnce'
    <3>1. /\ turn[t].overrun \in Nat /\ turn[t].tier \in Nat
          /\ paused => turn[t].overrun < turn[t].tier
      BY <2>1 DEF IInv, OverrunOnce, Turn
    <3> QED
      BY <2>1, <2>2, <2>3, <3>1 DEF IInv, OverrunOnce
  <2> QED
    BY <2>5, <2>6, <2>7 DEF IInv
<1>24. ASSUME NEW t \in Requests, BudgetSetPaused(t) PROVE IInv'
  <2>1. UNCHANGED <<ledger, heard, slot, limit, op, todo>> /\ paused' = TRUE
    BY <1>24 DEF BudgetSetPaused
  <2>2. /\ turn' \in [Requests -> Turn]
        /\ \A u \in Requests : /\ turn'[u].wrap = turn[u].wrap
                               /\ turn'[u].aborted = turn[u].aborted
                               /\ turn'[u].seen = turn[u].seen
                               /\ turn'[u].pc \in {turn[u].pc, "stop"}
                               /\ turn'[u].tier = turn[u].tier
                               /\ turn'[u].overrun = IF paused THEN turn[u].overrun
                                                     ELSE turn[u].tier - 1
    <3> DEFINE b(u) == [turn[u] EXCEPT !.pc = IF u = t THEN "stop" ELSE @,
                                       !.overrun = IF paused THEN @ ELSE turn[u].tier - 1]
    <3>1. turn' = [u \in Requests |-> b(u)] /\ \A u \in Requests : turn[u] \in Turn
      BY <1>24 DEF BudgetSetPaused, IInv, TypeOK
    <3>2. \A u \in Requests : turn[u].tier - 1 \in Nat
      BY <3>1, TiersBehind
    <3>3. \A u \in Requests : b(u) \in Turn
      BY <3>1, <3>2 DEF Turn, Pcs
    <3> QED
      BY <3>1, <3>3 DEF Turn
  <2>3. TypeOK' /\ SeenInLedger'
    BY <2>1, <2>2 DEF IInv, TypeOK, SeenInLedger
  <2>4. SlotLive' /\ SpawnedLast'
    BY <2>1, <2>2 DEF IInv, TypeOK, SlotLive, SpawnedLast
  <2>5. OverrunOnce'
    <3>1. \A u \in Requests : turn[u].tier \in Nat
      BY DEF IInv, TypeOK, Turn
    <3> QED
      BY <2>2, <3>1 DEF IInv, OverrunOnce
  <2> QED
    BY <2>3, <2>4, <2>5 DEF IInv
<1>25. CASE UNCHANGED vars
  BY <1>25 DEF vars, IInv, TypeOK, SlotLive, SpawnedLast, SeenInLedger, OverrunOnce
<1>26. ASSUME NEW r \in Requests, Handle(r) PROVE IInv'
  <2>1. CASE IfIdle(r)
    BY <1>7, <2>1 DEF IfIdle
  <2>2. CASE IfUnpaused(r)
    BY <1>7, <2>2 DEF IfUnpaused
  <2>3. CASE IfPending(r)
    BY <1>7, <2>3 DEF IfPending
  <2> QED
    BY <1>2, <1>3, <1>4, <1>5, <1>6, <1>26, <2>1, <2>2, <2>3 DEF Handle
<1>27. ASSUME NEW t \in Requests, Body(t) PROVE IInv'
  BY <1>27, <1>9, <1>10, <1>11, <1>12, <1>13, <1>14, <1>15, <1>16,
     <1>17, <1>18, <1>19, <1>20, <1>21, <1>23, <1>24, <1>22 DEF Body
<1> QED
  BY <1>1, <1>8, <1>25, <1>26, <1>27 DEF Next

\* IInv holds at first: no request has arrived and no turn was spawned.
LEMMA Initial == Init => IInv
<1> SUFFICES ASSUME Init PROVE IInv
  OBVIOUS
<1>1. /\ ledger = <<>> /\ paused = FALSE /\ slot = NoTurn /\ heard = 0 /\ limit = BaseLimit
      /\ op = [r \in Requests |-> "none"] /\ todo = [r \in Requests |-> <<>>]
      /\ \A t \in Requests : turn[t] = NewTurn
  BY DEF Init
<1>2. NewTurn \in Turn /\ turn \in [Requests -> Turn]
  BY DEF Init, NewTurn, Turn, Wraps, Pcs
<1>3. TypeOK
  <2>1. limit \in Nat \cup {NoLimit}
    BY <1>1, SessionAssumption DEF SessionAssumption
  <2>2. ledger \in Seq(Event) /\ heard \in 0 .. Len(ledger)
    BY <1>1
  <2>3. op \in [Requests -> AllOps \cup {"none"}] /\ todo \in [Requests -> Seq(Steps)]
    BY <1>1
  <2> QED
    BY <1>1, <1>2, <2>1, <2>2, <2>3 DEF TypeOK
<1> QED
  BY <1>1, <1>3 DEF IInv, SlotLive, SpawnedLast, SeenInLedger, OverrunOnce, NewTurn

\* IInv holds in every behaviour.
THEOREM Invariance == Spec => []IInv
<1>1. Init => IInv
  BY Initial
<1>2. IInv /\ [Next]_vars => IInv'
  BY Preservation
<1> QED
  BY <1>1, <1>2, PTL DEF Spec

\* Type correctness: in particular no model call is given more than the ledger has.
THEOREM TypeCorrect == Spec => []TypeOK
<1>1. IInv => TypeOK
  BY DEF IInv
<1> QED
  BY <1>1, Invariance, PTL

\* The abort slot never holds the handle of a turn its wrapper no longer awaits,
\* and only turns registered there are ever aborted.
THEOREM SlotStaysLive == Spec => []SlotLive
<1>1. IInv => SlotLive
  BY DEF IInv
<1> QED
  BY <1>1, Invariance, PTL

\* Once the pause flag is up, by a request or by a budget, each turn walks what is
\* left of its chain at most once: the calls it starts under the flag, those of
\* its escalations included, are never two to the same tier.
THEOREM PauseBoundsOverrun == Spec => []PauseOverrun
<1>1. IInv => PauseOverrun
  BY DEF IInv, OverrunOnce, PauseOverrun
<1> QED
  BY <1>1, Invariance, PTL

=============================================================================
