------------------------------- MODULE Prompt --------------------------------
(***************************************************************************)
(* The prompt that a turn rebuilds from its session's ledger when it       *)
(* starts (run_turn_inner, rebuild_one): the newest foldable events, one   *)
(* message each, below a marker for those that were cut.  Session says     *)
(* which ledgers there are.                                                *)
(***************************************************************************)
EXTENDS Session

CONSTANT MaxFoldEvents   \* cfg.context.max_fold_events

ASSUME PromptAssumption == MaxFoldEvents \in Nat

\* Results are kept, the calls they answer are not.
FoldableWithoutCalls(evs) ==
  LET kept[i \in 0 .. Len(evs)] ==
        IF i = 0 THEN <<>>
        ELSE IF evs[i].kind \in {"steer", "inject", "message", "tool_result"}
             THEN Append(kept[i - 1], evs[i]) ELSE kept[i - 1]
  IN  kept[Len(evs)]

FoldableKinds == {"steer", "inject", "message", "tool_call", "tool_result"}

Foldable(evs) ==
  LET kept[i \in 0 .. Len(evs)] ==
        IF i = 0 THEN <<>>
        ELSE IF evs[i].kind \in FoldableKinds
             THEN Append(kept[i - 1], evs[i]) ELSE kept[i - 1]
  IN  kept[Len(evs)]

\* A call is a message of its own; so is its result.
Role(e) ==
  CASE e.kind = "tool_call"   -> "assistant call"
    [] e.kind = "tool_result" -> "tool"
    [] e.kind \in {"steer", "inject"} -> "user"
    [] e.kind = "message" -> IF e.actor = "human" THEN "user" ELSE "assistant"

RebuildOne(e) == [role |-> Role(e), of |-> e.by, dropped |-> 0]

Marker(n) == <<[role |-> "system", of |-> NoTurn, dropped |-> n]>>

Rebuild(evs) ==
  LET foldable == Foldable(evs)
      dropped  == IF Len(foldable) > MaxFoldEvents THEN Len(foldable) - MaxFoldEvents ELSE 0
      newest   == SubSeq(foldable, dropped + 1, Len(foldable))
  IN  (IF dropped > 0 THEN Marker(dropped) ELSE <<>>)
        \o [i \in DOMAIN newest |-> RebuildOne(newest[i])]

-----------------------------------------------------------------------------
IsTool(m) == m.role \in {"assistant call", "tool"}

\* Whatever requests and turns have written into the ledger in between, and
\* wherever the history is cut, the calls and results of a turn alternate in
\* every prompt rebuilt from it: a result has its call before it, but for one
\* per turn whose call was cut; and a call without a result is a turn's last.
PromptPaired ==
  LET prompt == Rebuild(ledger)
      Own(t) == {i \in DOMAIN prompt : IsTool(prompt[i]) /\ prompt[i].of = t}
  IN  \A t \in Requests : \A i \in Own(t) :
        /\ \A j \in Own(t) :
             i < j /\ (\A k \in Own(t) : k <= i \/ j <= k) => prompt[i].role # prompt[j].role
        /\ prompt[i].role = "tool" /\ (\A k \in Own(t) : i <= k) =>
             prompt[1].role = "system" /\ prompt[1].dropped > 0

=============================================================================
