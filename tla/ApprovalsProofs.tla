-------------------------- MODULE ApprovalsProofs ---------------------------
(***************************************************************************)
(* What Approvals says of any number of turns, sessions and approve        *)
(* requests: no tool runs uncleared, no request is decided twice, denials  *)
(* hold and results are true.  The id of a call is a token that is in the  *)
(* map, or with one approve request, or decided, never two of these, and   *)
(* that nobody has before its request is on the ledger.                    *)
(***************************************************************************)
EXTENDS Approvals, TLAPS

\* Call m of task t is still to come, or now at one of pcs.
Upto(t, m, pcs) ==
  m > task[t].n \/ (m = task[t].n /\ task[t].pc \in pcs)

\* Where a turn has not yet asked about, put in the map, started or answered
\* the call it is at.
NotAsked    == {"call", "verdict", "request"}
NotTaken    == NotAsked \cup {"insert"}
NotRun      == NotTaken \cup {"wait", "run", "denied"}
NotAnswered == TaskPcs \ {"done"}

Decided(id, ok) == \E i \in Decisions(id) : log[i].ok = ok

Holds(a, id) == approve[a].pc = "append" /\ approve[a].id = id

Cleared(id) ==
  verdict[id] = "Auto" \/ (verdict[id] = "Ask" /\ Decided(id, TRUE))

\* Nobody has the sender of a call before it is in the map.
Free(id) ==
  /\ id \notin approvals
  /\ answer[id] = "none"
  /\ Decisions(id) = {}
  /\ \A a \in Approvers : approve[a].pc \in {"append", "send"} => approve[a].id # id

Untaken ==
  \A t \in Tasks : \A m \in 1 .. MaxCalls :
    Upto(t, m, NotTaken) => Free(<<t, m>>)

\* Nor is a call asked about, run or answered before its time.
Unasked ==
  \A t \in Tasks : \A m \in 1 .. MaxCalls :
    Upto(t, m, NotAsked) => ~Has("approval_request", <<t, m>>)

Unrun ==
  \A t \in Tasks : \A m \in 1 .. MaxCalls :
    Upto(t, m, NotRun) =>
      <<t, m>> \notin ran

Unanswered ==
  \A t \in Tasks : \A m \in 1 .. MaxCalls :
    Upto(t, m, NotAnswered) => ~Has("tool_result", <<t, m>>)

\* What a turn knows of the call it is at.
Knows(t) ==
  /\ task[t].pc \notin {"call", "done", "cancelled"} => Has("tool_call", Call(t))
  /\ task[t].pc \in {"request", "insert", "wait"} => verdict[Call(t)] = "Ask"
  /\ task[t].pc = "run" => Cleared(Call(t))
  /\ task[t].pc \in {"running", "result"} => Call(t) \in ran

AtCall == \A t \in Tasks : Knows(t)

Asked == \A id \in Ids : Has("approval_request", id) => verdict[id] = "Ask"

\* The sender is in the map, or with one approve request, until it is decided.
Token ==
  \A id \in Ids :
    /\ id \in approvals => Decisions(id) = {} /\ \A a \in Approvers : ~Holds(a, id)
    /\ \A a \in Approvers : Holds(a, id) =>
         Decisions(id) = {} /\ \A b \in Approvers : Holds(b, id) => a = b

\* What an approve request knows of the id it answers.
AtAnswer ==
  \A a \in Approvers :
    /\ approve[a].pc \in {"append", "send"} => Has("approval_request", approve[a].id)
    /\ approve[a].pc = "send" => Decided(approve[a].id, approve[a].approved)

RanCleared == \A id \in ran : Cleared(id)

YesDecided == \A id \in Ids : answer[id] = "yes" => Decided(id, TRUE)

\* The first half of DenialHolds.
RequestFirst ==
  \A i \in DOMAIN log : log[i].kind = "approval_decision" =>
    \E j \in 1 .. i : log[j].kind = "approval_request" /\ log[j].id = log[i].id

\* Of a step: no turn goes back, and the log only says more.
Forward ==
  \A t \in Tasks : \A m \in 1 .. MaxCalls :
    \A pcs \in {NotAsked, NotTaken, NotRun, NotAnswered} :
      Upto(t, m, pcs)' => Upto(t, m, pcs)

LogGrows ==
  /\ \A kind, id : Has(kind, id) => Has(kind, id)'
  /\ \A id, ok : Decided(id, ok) => Decided(id, ok)'

IInv ==
  /\ TypeOK /\ Untaken /\ Unasked /\ Unrun /\ Unanswered /\ AtCall /\ Asked
  /\ Token /\ AtAnswer /\ YesDecided /\ RequestFirst
  /\ RanCleared /\ DecidedOnce /\ ResultsTrue

-----------------------------------------------------------------------------
\* What an append adds to the questions asked of the log.
LEMMA Appended ==
  ASSUME log \in Seq(Event), NEW e \in Event, log' = Append(log, e)
  PROVE  /\ log' \in Seq(Event) /\ Len(log) \in Nat
         /\ DOMAIN log = 1 .. Len(log) /\ DOMAIN log' = 1 .. Len(log) + 1
         /\ log'[Len(log) + 1] = e /\ \A i \in 1 .. Len(log) : log'[i] = log[i]
         /\ \A kind, id : Has(kind, id)' <=> Has(kind, id) \/ (e.kind = kind /\ e.id = id)
         /\ \A id : ~(e.kind = "approval_decision" /\ e.id = id) =>
              /\ Decisions(id)' = Decisions(id)
              /\ \A ok : Decided(id, ok)' <=> Decided(id, ok)
         /\ e.kind = "approval_decision" =>
              /\ Decisions(e.id)' = Decisions(e.id) \cup {Len(log) + 1}
              /\ Decided(e.id, e.ok)'
<1>1. log' \in Seq(Event) /\ Len(log) \in Nat
  OBVIOUS
<1>2. DOMAIN log = 1 .. Len(log) /\ DOMAIN log' = 1 .. Len(log) + 1
  OBVIOUS
<1>3. log'[Len(log) + 1] = e /\ \A i \in 1 .. Len(log) : log'[i] = log[i]
  OBVIOUS
<1>4. DOMAIN log' = DOMAIN log \cup {Len(log) + 1}
  BY <1>1, <1>2
<1>5. \A kind, id : Has(kind, id)' <=> Has(kind, id) \/ (e.kind = kind /\ e.id = id)
  BY <1>2, <1>3, <1>4 DEF Has
<1>6. ASSUME NEW id, ~(e.kind = "approval_decision" /\ e.id = id)
      PROVE  Decisions(id)' = Decisions(id)
  BY <1>2, <1>3, <1>4, <1>6 DEF Decisions
<1>7. e.kind = "approval_decision" =>
        Decisions(e.id)' = Decisions(e.id) \cup {Len(log) + 1}
  BY <1>2, <1>3, <1>4 DEF Decisions
<1>8. \A id : Decisions(id) \subseteq 1 .. Len(log)
  BY <1>2 DEF Decisions
<1>9. ASSUME NEW id, ~(e.kind = "approval_decision" /\ e.id = id), NEW ok
      PROVE  Decided(id, ok)' <=> Decided(id, ok)
  BY <1>3, <1>6, <1>8, <1>9 DEF Decided
<1>10. e.kind = "approval_decision" => Decided(e.id, e.ok)'
  BY <1>3, <1>7 DEF Decided
<1> QED
  BY <1>1, <1>2, <1>3, <1>5, <1>6, <1>7, <1>9, <1>10

\* A step that logs nothing.
LEMMA SameLog ==
  ASSUME UNCHANGED log
  PROVE  /\ \A kind, id : Has(kind, id)' <=> Has(kind, id)
         /\ \A id : Decisions(id)' = Decisions(id)
         /\ \A id, ok : Decided(id, ok)' <=> Decided(id, ok)
BY DEF Has, Decisions, Decided

\* The call a turn is at.
LEMMA CallInIds ==
  ASSUME TypeOK, NEW t \in Tasks, task[t].pc # "done"
  PROVE  task[t].n \in 1 .. MaxCalls /\ Call(t) \in Ids
BY DEF TypeOK, Ids, Call

\* A turn goes on to p, later in the same call.
LEMMA TaskStep ==
  ASSUME TypeOK, NEW t \in Tasks, NEW p \in TaskPcs, task[t].pc # "done",
         task' = [task EXCEPT ![t].pc = p],
         \A pcs \in {NotAsked, NotTaken, NotRun} : p \in pcs => task[t].pc \in pcs
  PROVE  /\ task' \in [Tasks -> Task]
         /\ \A u \in Tasks : task'[u].pc # "done" => task'[u].n \in 1 .. MaxCalls
         /\ task'[t].pc = p
         /\ \A u \in Tasks : u # t => task'[u].pc = task[u].pc
         /\ \A u \in Tasks : task'[u].n = task[u].n /\ Call(u)' = Call(u)
         /\ Forward
<1>1. task[t] \in Task /\ task'[t] = [task[t] EXCEPT !.pc = p]
      /\ \A u \in Tasks : u # t => task'[u] = task[u]
  BY DEF TypeOK
<1>2. task'[t] \in Task /\ task'[t].pc = p /\ task'[t].n = task[t].n
  BY <1>1 DEF Task
<1>3. task' \in [Tasks -> Task]
  BY <1>1, <1>2 DEF TypeOK
<1>4. \A u \in Tasks : task'[u].n = task[u].n
  BY <1>1, <1>2
<1>5. task[t].pc \in NotAnswered
  BY <1>1 DEF NotAnswered, Task
<1>6. ASSUME NEW u \in Tasks, NEW m \in 1 .. MaxCalls,
             NEW pcs \in {NotAsked, NotTaken, NotRun, NotAnswered}, Upto(u, m, pcs)'
      PROVE  Upto(u, m, pcs)
  BY <1>1, <1>2, <1>5, <1>6 DEF Upto
<1> QED
  BY <1>1, <1>2, <1>3, <1>4, <1>6 DEF TypeOK, Call, Forward

\* An approve request goes on to p with the answer it carries.
LEMMA ApproveStep ==
  ASSUME TypeOK, NEW a \in Approvers, NEW p \in ApprovePcs,
         approve' = [approve EXCEPT ![a].pc = p]
  PROVE  /\ approve' \in [Approvers -> Approve]
         /\ approve'[a].pc = p
         /\ \A b \in Approvers :
              approve'[b].id = approve[b].id /\ approve'[b].approved = approve[b].approved
         /\ \A b \in Approvers : b # a => approve'[b].pc = approve[b].pc
<1>1. approve[a] \in Approve /\ approve'[a] = [approve[a] EXCEPT !.pc = p]
      /\ \A b \in Approvers : b # a => approve'[b] = approve[b]
  BY DEF TypeOK
<1>2. approve'[a] \in Approve /\ approve'[a].pc = p /\ approve'[a].id = approve[a].id
      /\ approve'[a].approved = approve[a].approved
  BY <1>1 DEF Approve
<1> QED
  BY <1>1, <1>2 DEF TypeOK

\* What a turn knows of its call stays true while the turn stays where it is.
LEMMA KnowsStays ==
  ASSUME NEW u \in Tasks, Knows(u), LogGrows, ran \subseteq ran',
         task'[u].pc = task[u].pc, Call(u)' = Call(u), verdict'[Call(u)] = verdict[Call(u)]
  PROVE  Knows(u)'
BY DEF Knows, Cleared, LogGrows

\* A step that leaves the map, the answers, the approve requests and the
\* decisions alone leaves the token of each call where it is.
LEMMA TokenFrame ==
  ASSUME IInv, Forward, LogGrows, UNCHANGED <<approvals, answer, approve>>,
         \A id : Decisions(id)' = Decisions(id)
  PROVE  Untaken' /\ Token' /\ AtAnswer' /\ YesDecided' /\ DecidedOnce'
<1>1. Untaken'
  <2> SUFFICES ASSUME NEW u \in Tasks, NEW m \in 1 .. MaxCalls, Upto(u, m, NotTaken)'
               PROVE  Free(<<u, m>>)'
    BY DEF Untaken
  <2>1. Free(<<u, m>>)
    BY DEF Forward, IInv, Untaken
  <2> QED
    BY <2>1 DEF Free
<1>2. Token'
  BY DEF IInv, Token, Holds
<1>3. AtAnswer' /\ YesDecided'
  BY DEF IInv, AtAnswer, YesDecided, LogGrows
<1>4. DecidedOnce'
  BY DEF IInv, DecidedOnce
<1> QED
  BY <1>1, <1>2, <1>3, <1>4

\* A step that logs nothing.
LEMMA LogFrame ==
  ASSUME IInv, Forward, UNCHANGED log
  PROVE  /\ Unasked' /\ Unanswered' /\ RequestFirst' /\ LogGrows
         /\ \A kind, id : Has(kind, id)' <=> Has(kind, id)
         /\ \A id : Decisions(id)' = Decisions(id)
<1>1. /\ \A kind, id : Has(kind, id)' <=> Has(kind, id)
      /\ \A id : Decisions(id)' = Decisions(id)
      /\ LogGrows
  BY SameLog DEF LogGrows
<1>2. Unasked'
  BY <1>1 DEF Forward, IInv, Unasked
<1>3. Unanswered'
  BY <1>1 DEF Forward, IInv, Unanswered
<1>4. RequestFirst'
  BY DEF IInv, RequestFirst
<1> QED
  BY <1>1, <1>2, <1>3, <1>4

\* A step that judges no call and starts none.
LEMMA HistoryFrame ==
  ASSUME IInv, Forward, LogGrows, UNCHANGED <<verdict, ran>>
  PROVE  Unrun' /\ RanCleared'
<1>1. Unrun'
  BY DEF Forward, IInv, Unrun
<1>2. RanCleared'
  BY DEF IInv, RanCleared, Cleared, LogGrows
<1> QED
  BY <1>1, <1>2

\* A step in which a turn only moves on.
LEMMA QuietStep ==
  ASSUME IInv, TypeOK', Forward,
         UNCHANGED <<log, approvals, answer, approve, verdict, ran>>, AtCall'
  PROVE  IInv'
<1>1. /\ Unasked' /\ Unanswered' /\ RequestFirst' /\ LogGrows
      /\ \A kind, id : Has(kind, id)' <=> Has(kind, id)
      /\ \A id : Decisions(id)' = Decisions(id)
  BY LogFrame
<1>2. Untaken' /\ Token' /\ AtAnswer' /\ YesDecided' /\ DecidedOnce'
  BY <1>1, TokenFrame
<1>3. Unrun' /\ RanCleared'
  BY <1>1, HistoryFrame
<1>4. Asked' /\ ResultsTrue'
  BY <1>1 DEF IInv, Asked, ResultsTrue
<1> QED
  BY <1>1, <1>2, <1>3, <1>4 DEF IInv

\* IInv is inductive.
LEMMA Preservation == IInv /\ [Next]_vars => IInv'
<1> SUFFICES ASSUME IInv, [Next]_vars PROVE IInv'
  OBVIOUS
<1>1. ASSUME NEW t \in Tasks, ToolCall(t) PROVE IInv'
  <2>1. task[t].pc = "call" /\ UNCHANGED <<approvals, answer, home, approve, verdict, ran>>
    BY <1>1 DEF ToolCall, Goto
  <2>2. /\ task' \in [Tasks -> Task]
        /\ \A u \in Tasks : task'[u].pc # "done" => task'[u].n \in 1 .. MaxCalls
        /\ task'[t].pc = "verdict"
        /\ \A u \in Tasks : u # t => task'[u].pc = task[u].pc
        /\ \A u \in Tasks : task'[u].n = task[u].n /\ Call(u)' = Call(u)
        /\ Forward
    <3>1. \A pcs \in {NotAsked, NotTaken, NotRun} : "verdict" \in pcs => task[t].pc \in pcs
      BY <2>1 DEF NotAsked, NotTaken, NotRun
    <3> QED
      BY <1>1, <2>1, <3>1, TaskStep DEF IInv, TaskPcs, ToolCall, Goto
  <2>3. task[t].n \in 1 .. MaxCalls /\ Call(t) \in Ids
    BY <2>1, CallInIds DEF IInv
  <2>4. PICK e \in Event : /\ e.kind = "tool_call" /\ e.id = Call(t)
                          /\ e.ok = TRUE /\ log' = Append(log, e)
    <3> DEFINE f == [kind |-> "tool_call", session |-> home[t], id |-> Call(t),
                     ok |-> TRUE]
    <3>1. f \in Event /\ log' = Append(log, f)
      BY <1>1, <2>1, CallInIds DEF ToolCall, Goto, Log, IInv, TypeOK, Event, Kinds, Approve
    <3> QED
      BY <3>1
  <2>5. /\ \A kind, id : Has(kind, id)' <=> Has(kind, id) \/ (e.kind = kind /\ e.id = id)
        /\ \A id : Decisions(id)' = Decisions(id)
        /\ \A id, ok : Decided(id, ok)' <=> Decided(id, ok)
        /\ LogGrows
    BY <2>4, Appended DEF IInv, TypeOK, LogGrows
  <2>6. /\ log' \in Seq(Event) /\ Len(log) \in Nat
        /\ DOMAIN log = 1 .. Len(log) /\ DOMAIN log' = 1 .. Len(log) + 1
        /\ log'[Len(log) + 1] = e /\ \A i \in 1 .. Len(log) : log'[i] = log[i]
    BY <2>4, Appended DEF IInv, TypeOK
  <2>7. TypeOK'
    BY <2>1, <2>2, <2>6 DEF IInv, TypeOK
  <2>8. Untaken' /\ Token' /\ AtAnswer' /\ YesDecided' /\ DecidedOnce'
    BY <2>1, <2>2, <2>3, <2>5, TokenFrame
  <2>9. Unrun' /\ RanCleared'
    BY <2>1, <2>2, <2>3, <2>5, HistoryFrame
  <2>10. Unasked'
    <3> SUFFICES ASSUME NEW u \in Tasks, NEW m \in 1 .. MaxCalls, Upto(u, m, NotAsked)'
                 PROVE  (~Has("approval_request", <<u, m>>))'
      BY DEF Unasked
    <3>1. Upto(u, m, NotAsked) /\ ~Has("approval_request", <<u, m>>) /\ <<u, m>> \in Ids
      BY <2>1, <2>2, <2>3, <2>4, <2>5 DEF Forward, IInv, Unasked, Ids
    <3> QED
      BY <2>1, <2>2, <2>3, <2>4, <2>5, <3>1 DEF Upto, Call, NotAsked, NotAsked, NotTaken
  <2>11. Unanswered'
    <3> SUFFICES ASSUME NEW u \in Tasks, NEW m \in 1 .. MaxCalls, Upto(u, m, NotAnswered)'
                 PROVE  (~Has("tool_result", <<u, m>>))'
      BY DEF Unanswered
    <3>1. Upto(u, m, NotAnswered) /\ ~Has("tool_result", <<u, m>>) /\ <<u, m>> \in Ids
      BY <2>1, <2>2, <2>3, <2>4, <2>5 DEF Forward, IInv, Unanswered, Ids
    <3> QED
      BY <2>1, <2>2, <2>3, <2>4, <2>5, <3>1 DEF Upto, Call, NotAnswered, NotAsked, NotTaken
  <2>12. AtCall'
    <3>1. \A u \in Tasks : u # t => Knows(u)'
      BY <2>1, <2>2, <2>5, KnowsStays DEF IInv, AtCall
    <3>2. Knows(t)'
      BY <2>1, <2>2, <2>3, <2>4, <2>5 DEF Knows
    <3> QED
      BY <3>1, <3>2 DEF AtCall
  <2>13. Asked'
    BY <2>1, <2>4, <2>5 DEF IInv, Asked
  <2>14. RequestFirst'
    BY <2>4, <2>6 DEF IInv, RequestFirst
  <2>15. ResultsTrue'
    BY <2>1, <2>4, <2>6 DEF IInv, ResultsTrue
  <2> QED
    BY <2>7, <2>8, <2>9, <2>10, <2>11, <2>12, <2>13, <2>14, <2>15 DEF IInv
<1>2. ASSUME NEW t \in Tasks, ApprovalRequest(t) PROVE IInv'
  <2>1. task[t].pc = "request" /\ UNCHANGED <<approvals, answer, home, approve, verdict, ran>>
    BY <1>2 DEF ApprovalRequest, Goto
  <2>2. /\ task' \in [Tasks -> Task]
        /\ \A u \in Tasks : task'[u].pc # "done" => task'[u].n \in 1 .. MaxCalls
        /\ task'[t].pc = "insert"
        /\ \A u \in Tasks : u # t => task'[u].pc = task[u].pc
        /\ \A u \in Tasks : task'[u].n = task[u].n /\ Call(u)' = Call(u)
        /\ Forward
    <3>1. \A pcs \in {NotAsked, NotTaken, NotRun} : "insert" \in pcs => task[t].pc \in pcs
      BY <2>1 DEF NotAsked, NotTaken, NotRun
    <3> QED
      BY <1>2, <2>1, <3>1, TaskStep DEF IInv, TaskPcs, ApprovalRequest, Goto
  <2>3. task[t].n \in 1 .. MaxCalls /\ Call(t) \in Ids
    BY <2>1, CallInIds DEF IInv
  <2>4. PICK e \in Event : /\ e.kind = "approval_request" /\ e.id = Call(t)
                          /\ e.ok = TRUE /\ log' = Append(log, e)
    <3> DEFINE f == [kind |-> "approval_request", session |-> home[t], id |-> Call(t),
                     ok |-> TRUE]
    <3>1. f \in Event /\ log' = Append(log, f)
      BY <1>2, <2>1, CallInIds DEF ApprovalRequest, Goto, Log, IInv, TypeOK, Event, Kinds, Approve
    <3> QED
      BY <3>1
  <2>5. /\ \A kind, id : Has(kind, id)' <=> Has(kind, id) \/ (e.kind = kind /\ e.id = id)
        /\ \A id : Decisions(id)' = Decisions(id)
        /\ \A id, ok : Decided(id, ok)' <=> Decided(id, ok)
        /\ LogGrows
    BY <2>4, Appended DEF IInv, TypeOK, LogGrows
  <2>6. /\ log' \in Seq(Event) /\ Len(log) \in Nat
        /\ DOMAIN log = 1 .. Len(log) /\ DOMAIN log' = 1 .. Len(log) + 1
        /\ log'[Len(log) + 1] = e /\ \A i \in 1 .. Len(log) : log'[i] = log[i]
    BY <2>4, Appended DEF IInv, TypeOK
  <2>7. TypeOK'
    BY <2>1, <2>2, <2>6 DEF IInv, TypeOK
  <2>8. Untaken' /\ Token' /\ AtAnswer' /\ YesDecided' /\ DecidedOnce'
    BY <2>1, <2>2, <2>3, <2>5, TokenFrame
  <2>9. Unrun' /\ RanCleared'
    BY <2>1, <2>2, <2>3, <2>5, HistoryFrame
  <2>10. Unasked'
    <3> SUFFICES ASSUME NEW u \in Tasks, NEW m \in 1 .. MaxCalls, Upto(u, m, NotAsked)'
                 PROVE  (~Has("approval_request", <<u, m>>))'
      BY DEF Unasked
    <3>1. Upto(u, m, NotAsked) /\ ~Has("approval_request", <<u, m>>) /\ <<u, m>> \in Ids
      BY <2>1, <2>2, <2>3, <2>4, <2>5 DEF Forward, IInv, Unasked, Ids
    <3> QED
      BY <2>1, <2>2, <2>3, <2>4, <2>5, <3>1 DEF Upto, Call, NotAsked, NotAsked, NotTaken
  <2>11. Unanswered'
    <3> SUFFICES ASSUME NEW u \in Tasks, NEW m \in 1 .. MaxCalls, Upto(u, m, NotAnswered)'
                 PROVE  (~Has("tool_result", <<u, m>>))'
      BY DEF Unanswered
    <3>1. Upto(u, m, NotAnswered) /\ ~Has("tool_result", <<u, m>>) /\ <<u, m>> \in Ids
      BY <2>1, <2>2, <2>3, <2>4, <2>5 DEF Forward, IInv, Unanswered, Ids
    <3> QED
      BY <2>1, <2>2, <2>3, <2>4, <2>5, <3>1 DEF Upto, Call, NotAnswered, NotAsked, NotTaken
  <2>12. AtCall'
    <3>1. \A u \in Tasks : u # t => Knows(u)'
      BY <2>1, <2>2, <2>5, KnowsStays DEF IInv, AtCall
    <3>2. Knows(t)'
      BY <2>1, <2>2, <2>3, <2>4, <2>5 DEF IInv, AtCall, Knows, LogGrows
    <3> QED
      BY <3>1, <3>2 DEF AtCall
  <2>13. Asked'
    <3>1. verdict[Call(t)] = "Ask"
      BY <2>1 DEF IInv, AtCall, Knows
    <3> QED
      BY <2>1, <2>4, <2>5, <3>1 DEF IInv, Asked
  <2>14. RequestFirst'
    BY <2>4, <2>6 DEF IInv, RequestFirst
  <2>15. ResultsTrue'
    BY <2>1, <2>4, <2>6 DEF IInv, ResultsTrue
  <2> QED
    BY <2>7, <2>8, <2>9, <2>10, <2>11, <2>12, <2>13, <2>14, <2>15 DEF IInv
<1>3. ASSUME NEW t \in Tasks, ToolResult(t) PROVE IInv'
  <2>1. task[t].pc \in {"result", "denied"} /\ UNCHANGED <<approvals, answer, home, approve, verdict, ran>>
    BY <1>3 DEF ToolResult
  <2>2. /\ task' \in [Tasks -> Task]
        /\ \A u \in Tasks : task'[u].pc # "done" => task'[u].n \in 1 .. MaxCalls
        /\ \/ task'[t].n = task[t].n + 1 /\ task'[t].pc = "call"
           \/ task'[t].n = task[t].n /\ task'[t].pc = "done"
        /\ task[t].n \in 1 .. MaxCalls /\ Call(t) \in Ids
        /\ \A u \in Tasks : u # t => task'[u] = task[u] /\ Call(u)' = Call(u)
    BY <1>3, <2>1, CallInIds DEF ToolResult, NextCall, IInv, TypeOK, Task, TaskPcs, Call
  <2>3. Forward
    <3> SUFFICES ASSUME NEW u \in Tasks, NEW m \in 1 .. MaxCalls,
                        NEW pcs \in {NotAsked, NotTaken, NotRun, NotAnswered},
                        Upto(u, m, pcs)'
                 PROVE  Upto(u, m, pcs)
      BY DEF Forward
    <3>1. "done" \notin pcs
      BY DEF NotAsked, NotTaken, NotRun, NotAnswered
    <3> QED
      BY <2>2, <3>1 DEF Upto
  <2>4. PICK e \in Event : /\ e.kind = "tool_result" /\ e.id = Call(t)
                          /\ e.ok = (task[t].pc = "result") /\ log' = Append(log, e)
    <3> DEFINE f == [kind |-> "tool_result", session |-> home[t], id |-> Call(t),
                     ok |-> (task[t].pc = "result")]
    <3>1. f \in Event /\ log' = Append(log, f)
      BY <1>3, <2>1, CallInIds DEF ToolResult, Log, IInv, TypeOK, Event, Kinds, Approve
    <3> QED
      BY <3>1
  <2>5. /\ \A kind, id : Has(kind, id)' <=> Has(kind, id) \/ (e.kind = kind /\ e.id = id)
        /\ \A id : Decisions(id)' = Decisions(id)
        /\ \A id, ok : Decided(id, ok)' <=> Decided(id, ok)
        /\ LogGrows
    BY <2>4, Appended DEF IInv, TypeOK, LogGrows
  <2>6. /\ log' \in Seq(Event) /\ Len(log) \in Nat
        /\ DOMAIN log = 1 .. Len(log) /\ DOMAIN log' = 1 .. Len(log) + 1
        /\ log'[Len(log) + 1] = e /\ \A i \in 1 .. Len(log) : log'[i] = log[i]
    BY <2>4, Appended DEF IInv, TypeOK
  <2>7. TypeOK'
    BY <2>1, <2>2, <2>6 DEF IInv, TypeOK
  <2>8. Untaken' /\ Token' /\ AtAnswer' /\ YesDecided' /\ DecidedOnce'
    BY <2>1, <2>2, <2>3, <2>5, TokenFrame
  <2>9. Unrun' /\ RanCleared'
    BY <2>1, <2>2, <2>3, <2>5, HistoryFrame
  <2>10. Unasked'
    <3> SUFFICES ASSUME NEW u \in Tasks, NEW m \in 1 .. MaxCalls, Upto(u, m, NotAsked)'
                 PROVE  (~Has("approval_request", <<u, m>>))'
      BY DEF Unasked
    <3>1. Upto(u, m, NotAsked) /\ ~Has("approval_request", <<u, m>>) /\ <<u, m>> \in Ids
      BY <2>1, <2>2, <2>3, <2>4, <2>5 DEF Forward, IInv, Unasked, Ids
    <3> QED
      BY <2>1, <2>2, <2>3, <2>4, <2>5, <3>1 DEF Upto, Call, NotAsked, NotAsked, NotTaken
  <2>11. Unanswered'
    <3> SUFFICES ASSUME NEW u \in Tasks, NEW m \in 1 .. MaxCalls, Upto(u, m, NotAnswered)'
                 PROVE  (~Has("tool_result", <<u, m>>))'
      BY DEF Unanswered
    <3>1. Upto(u, m, NotAnswered) /\ ~Has("tool_result", <<u, m>>) /\ <<u, m>> \in Ids
      BY <2>1, <2>2, <2>3, <2>4, <2>5 DEF Forward, IInv, Unanswered, Ids
    <3> QED
      BY <2>1, <2>2, <2>3, <2>4, <2>5, <3>1 DEF Upto, Call, NotAnswered, NotAsked, NotTaken
  <2>12. AtCall'
    <3>1. \A u \in Tasks : u # t => Knows(u)'
      BY <2>1, <2>2, <2>5, KnowsStays DEF IInv, AtCall
    <3>2. Knows(t)'
      BY <2>1, <2>2, <2>3, <2>4, <2>5 DEF Knows
    <3> QED
      BY <3>1, <3>2 DEF AtCall
  <2>13. Asked'
    BY <2>1, <2>4, <2>5 DEF IInv, Asked
  <2>14. RequestFirst'
    BY <2>4, <2>6 DEF IInv, RequestFirst
  <2>15. ResultsTrue'
    <3>1. PICK j \in DOMAIN log : log[j].kind = "tool_call" /\ log[j].id = Call(t)
      BY <2>1 DEF IInv, AtCall, Knows, Has
    <3>2. task[t].pc = "result" <=> Call(t) \in ran
      <4>1. task[t].pc = "result" => Call(t) \in ran
        BY DEF IInv, AtCall, Knows
      <4>2. task[t].pc = "denied" => Call(t) \notin ran
        BY <2>2 DEF IInv, Unrun, Upto, NotRun, Call
      <4> QED
        BY <2>1, <4>1, <4>2
    <3>3. \A i \in 1 .. Len(log) : log[i].kind = "tool_result" =>
            /\ log[i].ok <=> log[i].id \in ran
            /\ \E k \in 1 .. i : log[k].kind = "tool_call" /\ log[k].id = log[i].id
      BY <2>6 DEF IInv, ResultsTrue
    <3>4. j \in 1 .. Len(log) + 1 /\ log'[j].kind = "tool_call" /\ log'[j].id = Call(t)
      BY <2>6, <3>1
    <3> SUFFICES ASSUME NEW i \in 1 .. Len(log) + 1, log'[i].kind = "tool_result"
                 PROVE  /\ log'[i].ok <=> log'[i].id \in ran
                        /\ \E k \in 1 .. i :
                             log'[k].kind = "tool_call" /\ log'[k].id = log'[i].id
      BY <2>1, <2>6 DEF ResultsTrue
    <3>5. CASE i = Len(log) + 1
      BY <2>4, <2>6, <3>2, <3>4, <3>5
    <3>6. CASE i \in 1 .. Len(log)
      <4>1. \A k \in 1 .. i : log'[k] = log[k]
        BY <2>6, <3>6
      <4> QED
        BY <2>6, <3>3, <3>6, <4>1
    <3> QED
      BY <2>6, <3>5, <3>6
  <2> QED
    BY <2>7, <2>8, <2>9, <2>10, <2>11, <2>12, <2>13, <2>14, <2>15 DEF IInv
<1>4. ASSUME NEW t \in Tasks, Verdict(t) PROVE IInv'
  <2>1. task[t].pc = "verdict" /\ UNCHANGED <<log, approvals, answer, home, approve, ran>>
    BY <1>4 DEF Verdict
  <2>2. PICK v \in Verdicts, p \in {"denied", "request", "run"} :
          /\ task' = [task EXCEPT ![t].pc = p]
          /\ verdict' = [verdict EXCEPT ![Call(t)] = v]
          /\ p = "request" => v = "Ask"
          /\ p = "run" => v = "Auto"
    BY <1>4, ApprovalsAssumption DEF Verdict, ApprovalsAssumption
  <2>3. /\ task' \in [Tasks -> Task]
        /\ \A u \in Tasks : task'[u].pc # "done" => task'[u].n \in 1 .. MaxCalls
        /\ task'[t].pc = p
        /\ \A u \in Tasks : u # t => task'[u].pc = task[u].pc
        /\ \A u \in Tasks : task'[u].n = task[u].n /\ Call(u)' = Call(u)
        /\ Forward
    <3>1. \A pcs \in {NotAsked, NotTaken, NotRun} : p \in pcs => task[t].pc \in pcs
      BY <2>1, <2>2 DEF NotAsked, NotTaken, NotRun
    <3> QED
      BY <2>1, <2>2, <3>1, TaskStep DEF IInv, TaskPcs
  <2>4. task[t].n \in 1 .. MaxCalls /\ Call(t) \in Ids
    BY <2>1, CallInIds DEF IInv
  <2>5. TypeOK' /\ verdict'[Call(t)] = v /\ \A id \in Ids : id # Call(t) => verdict'[id] = verdict[id]
    BY <2>1, <2>2, <2>3, <2>4, ApprovalsAssumption DEF ApprovalsAssumption, IInv, TypeOK
  <2>6. /\ Unasked' /\ Unanswered' /\ RequestFirst' /\ LogGrows
        /\ \A kind, id : Has(kind, id)' <=> Has(kind, id)
        /\ \A id : Decisions(id)' = Decisions(id)
    BY <2>1, <2>3, LogFrame
  <2>7. Untaken' /\ Token' /\ AtAnswer' /\ YesDecided' /\ DecidedOnce'
    BY <2>1, <2>3, <2>6, TokenFrame
  <2>8. Call(t) \notin ran /\ ~Has("approval_request", Call(t))
    BY <2>1, <2>4 DEF IInv, Unrun, Unasked, Upto, Call, NotRun, NotTaken, NotAsked
  <2>9. Unrun'
    BY <2>1, <2>3 DEF Forward, IInv, Unrun
  <2>10. RanCleared'
    <3> SUFFICES ASSUME NEW id \in ran PROVE Cleared(id)'
      BY <2>1 DEF RanCleared
    <3>1. Cleared(id) /\ id \in Ids /\ id # Call(t)
      BY <2>8 DEF IInv, RanCleared, TypeOK
    <3> QED
      BY <2>5, <2>6, <3>1 DEF Cleared, LogGrows
  <2>11. AtCall'
    <3>1. ASSUME NEW u \in Tasks, u # t PROVE Knows(u)'
      <4>1. CASE task[u].pc = "done"
        BY <2>3, <3>1, <4>1 DEF Knows
      <4>2. CASE task[u].pc # "done"
        <5>1. Call(u) \in Ids /\ Call(u) # Call(t)
          BY <3>1, <4>2, CallInIds DEF IInv, Call
        <5>2. verdict'[Call(u)] = verdict[Call(u)]
          BY <2>5, <5>1
        <5> QED
          BY <2>1, <2>3, <2>6, <3>1, <5>2, KnowsStays DEF IInv, AtCall
      <4> QED
        BY <4>1, <4>2
    <3>2. Knows(t)'
      BY <2>1, <2>2, <2>3, <2>5, <2>6 DEF IInv, AtCall, Knows, Cleared
    <3> QED
      BY <3>1, <3>2 DEF AtCall
  <2>12. Asked'
    BY <2>5, <2>6, <2>8 DEF IInv, Asked
  <2>13. ResultsTrue'
    BY <2>1 DEF IInv, ResultsTrue
  <2> QED
    BY <2>5, <2>6, <2>7, <2>9, <2>10, <2>11, <2>12, <2>13 DEF IInv
<1>5. ASSUME NEW t \in Tasks, InsertSender(t) PROVE IInv'
  <2>1. /\ task[t].pc = "insert" /\ approvals' = approvals \cup {Call(t)}
        /\ UNCHANGED <<log, answer, home, approve, verdict, ran>>
    BY <1>5 DEF InsertSender, Goto
  <2>2. /\ task' \in [Tasks -> Task]
        /\ \A u \in Tasks : task'[u].pc # "done" => task'[u].n \in 1 .. MaxCalls
        /\ task'[t].pc = "wait"
        /\ \A u \in Tasks : u # t => task'[u].pc = task[u].pc
        /\ \A u \in Tasks : task'[u].n = task[u].n /\ Call(u)' = Call(u)
        /\ Forward
    <3>1. \A pcs \in {NotAsked, NotTaken, NotRun} : "wait" \in pcs => task[t].pc \in pcs
      BY <2>1 DEF NotAsked, NotTaken, NotRun
    <3> QED
      BY <1>5, <2>1, <3>1, TaskStep DEF IInv, TaskPcs, InsertSender, Goto
  <2>3. task[t].n \in 1 .. MaxCalls /\ Call(t) \in Ids
    BY <2>1, CallInIds DEF IInv
  <2>4. TypeOK'
    BY <2>1, <2>2, <2>3 DEF IInv, TypeOK
  <2>5. /\ Unasked' /\ Unanswered' /\ RequestFirst' /\ LogGrows
        /\ \A kind, id : Has(kind, id)' <=> Has(kind, id)
        /\ \A id : Decisions(id)' = Decisions(id)
    BY <2>1, <2>2, LogFrame
  <2>6. Unrun' /\ RanCleared'
    BY <2>1, <2>2, <2>5, HistoryFrame
  <2>7. Untaken'
    <3> SUFFICES ASSUME NEW u \in Tasks, NEW m \in 1 .. MaxCalls, Upto(u, m, NotTaken)'
                 PROVE  (Free(<<u, m>>))'
      BY DEF Untaken
    <3>1. Upto(u, m, NotTaken) /\ Free(<<u, m>>) /\ <<u, m>> \in Ids
      BY <2>1, <2>2, <2>5 DEF Forward, IInv, Untaken, Ids
    <3> QED
      BY <2>1, <2>2, <2>5, <3>1 DEF Upto, Call, NotTaken, NotAsked, NotTaken, Free
  <2>8. Free(Call(t))
    BY <2>1, <2>3 DEF IInv, Untaken, Upto, Call, NotTaken
  <2>9. Token'
    BY <2>1, <2>5, <2>8 DEF IInv, Token, Holds, Free
  <2>10. AtAnswer' /\ YesDecided'
    BY <2>1, <2>5 DEF IInv, AtAnswer, YesDecided, LogGrows
  <2>11. AtCall'
    <3>1. \A u \in Tasks : u # t => Knows(u)'
      BY <2>1, <2>2, <2>5, KnowsStays DEF IInv, AtCall
    <3>2. Knows(t)'
      BY <2>1, <2>2, <2>5 DEF IInv, AtCall, Knows
    <3> QED
      BY <3>1, <3>2 DEF AtCall
  <2>12. Asked' /\ DecidedOnce' /\ ResultsTrue'
    BY <2>1, <2>5 DEF IInv, Asked, DecidedOnce, ResultsTrue
  <2> QED
    BY <2>4, <2>5, <2>6, <2>7, <2>9, <2>10, <2>11, <2>12 DEF IInv
<1>6. ASSUME NEW t \in Tasks, Execute(t) PROVE IInv'
  <2>1. /\ task[t].pc = "run" /\ ran' = ran \cup {Call(t)}
        /\ UNCHANGED <<log, approvals, answer, home, approve, verdict>>
    BY <1>6 DEF Execute, Goto
  <2>2. /\ task' \in [Tasks -> Task]
        /\ \A u \in Tasks : task'[u].pc # "done" => task'[u].n \in 1 .. MaxCalls
        /\ task'[t].pc = "running"
        /\ \A u \in Tasks : u # t => task'[u].pc = task[u].pc
        /\ \A u \in Tasks : task'[u].n = task[u].n /\ Call(u)' = Call(u)
        /\ Forward
    <3>1. \A pcs \in {NotAsked, NotTaken, NotRun} : "running" \in pcs => task[t].pc \in pcs
      BY <2>1 DEF NotAsked, NotTaken, NotRun
    <3> QED
      BY <1>6, <2>1, <3>1, TaskStep DEF IInv, TaskPcs, Execute, Goto
  <2>3. task[t].n \in 1 .. MaxCalls /\ Call(t) \in Ids
    BY <2>1, CallInIds DEF IInv
  <2>4. TypeOK'
    BY <2>1, <2>2, <2>3 DEF IInv, TypeOK
  <2>5. /\ Unasked' /\ Unanswered' /\ RequestFirst' /\ LogGrows
        /\ \A kind, id : Has(kind, id)' <=> Has(kind, id)
        /\ \A id : Decisions(id)' = Decisions(id)
    BY <2>1, <2>2, LogFrame
  <2>6. Untaken' /\ Token' /\ AtAnswer' /\ YesDecided' /\ DecidedOnce'
    BY <2>1, <2>2, <2>5, TokenFrame
  <2>7. Unrun'
    <3> SUFFICES ASSUME NEW u \in Tasks, NEW m \in 1 .. MaxCalls, Upto(u, m, NotRun)'
                 PROVE  (<<u, m>> \notin ran)'
      BY DEF Unrun
    <3>1. Upto(u, m, NotRun) /\ <<u, m>> \notin ran /\ <<u, m>> \in Ids
      BY <2>1, <2>2 DEF Forward, IInv, Unrun, Ids
    <3> QED
      BY <2>1, <2>2, <3>1 DEF Upto, Call, NotRun, NotAsked, NotTaken, NotRun
  <2>8. RanCleared'
    <3>1. Cleared(Call(t))
      BY <2>1 DEF IInv, AtCall, Knows
    <3> QED
      BY <2>1, <2>5, <3>1 DEF IInv, RanCleared, Cleared, LogGrows
  <2>9. AtCall'
    <3>1. \A u \in Tasks : u # t => Knows(u)'
      BY <2>1, <2>2, <2>5, KnowsStays DEF IInv, AtCall
    <3>2. Knows(t)'
      BY <2>1, <2>2, <2>5 DEF IInv, AtCall, Knows
    <3> QED
      BY <3>1, <3>2 DEF AtCall
  <2>10. Asked'
    BY <2>1, <2>5 DEF IInv, Asked
  <2>11. ~Has("tool_result", Call(t))
    BY <2>1, <2>3 DEF IInv, Unanswered, Upto, Call, NotAnswered, TaskPcs
  <2>12. ResultsTrue'
    BY <2>1, <2>11 DEF IInv, ResultsTrue, Has
  <2> QED
    BY <2>4, <2>5, <2>6, <2>7, <2>8, <2>9, <2>10, <2>12 DEF IInv
<1>7. ASSUME NEW t \in Tasks, Answered(t) PROVE IInv'
  <2>1. task[t].pc = "wait" /\ UNCHANGED <<log, approvals, answer, home, approve, verdict, ran>>
    BY <1>7 DEF Answered
  <2>2. PICK p \in {"denied", "run"} :
          task' = [task EXCEPT ![t].pc = p] /\ (p = "run" => answer[Call(t)] = "yes")
    BY <1>7 DEF Answered
  <2>3. /\ task' \in [Tasks -> Task]
        /\ \A u \in Tasks : task'[u].pc # "done" => task'[u].n \in 1 .. MaxCalls
        /\ task'[t].pc = p
        /\ \A u \in Tasks : u # t => task'[u].pc = task[u].pc
        /\ \A u \in Tasks : task'[u].n = task[u].n /\ Call(u)' = Call(u)
        /\ Forward
    <3>1. \A pcs \in {NotAsked, NotTaken, NotRun} : p \in pcs => task[t].pc \in pcs
      BY <2>1, <2>2 DEF NotAsked, NotTaken, NotRun
    <3> QED
      BY <2>1, <2>2, <3>1, TaskStep DEF IInv, TaskPcs
  <2>4. TypeOK'
    BY <2>1, <2>3 DEF IInv, TypeOK
  <2>5. AtCall'
    <3>1. LogGrows
      BY <2>1, <2>3, LogFrame
    <3>2. \A u \in Tasks : u # t => Knows(u)'
      BY <2>1, <2>3, <3>1, KnowsStays DEF IInv, AtCall
    <3>3. p = "run" => Cleared(Call(t))
      BY <2>1, <2>2, CallInIds DEF IInv, AtCall, Knows, YesDecided, Cleared
    <3>4. Knows(t)'
      BY <2>1, <2>3, <3>1, <3>3 DEF IInv, AtCall, Knows, Cleared, LogGrows
    <3> QED
      BY <3>2, <3>4 DEF AtCall
  <2> QED
    BY <2>1, <2>3, <2>4, <2>5, QuietStep
<1>8. ASSUME NEW t \in Tasks, TimeOut(t) PROVE IInv'
  <2>1. task[t].pc = "wait" /\ UNCHANGED <<log, approvals, answer, home, approve, verdict, ran>>
    BY <1>8 DEF TimeOut
  <2>2. /\ task' \in [Tasks -> Task]
        /\ \A u \in Tasks : task'[u].pc # "done" => task'[u].n \in 1 .. MaxCalls
        /\ task'[t].pc = "denied"
        /\ \A u \in Tasks : u # t => task'[u].pc = task[u].pc
        /\ \A u \in Tasks : task'[u].n = task[u].n /\ Call(u)' = Call(u)
        /\ Forward
    <3>1. \A pcs \in {NotAsked, NotTaken, NotRun} : "denied" \in pcs => task[t].pc \in pcs
      BY <2>1 DEF NotAsked, NotTaken, NotRun
    <3> QED
      BY <1>8, <2>1, <3>1, TaskStep DEF IInv, TaskPcs, TimeOut
  <2>3. TypeOK'
    BY <2>1, <2>2 DEF IInv, TypeOK
  <2>4. AtCall'
    <3>1. LogGrows
      BY <2>1, <2>2, LogFrame
    <3>2. \A u \in Tasks : u # t => Knows(u)'
      BY <2>1, <2>2, <3>1, KnowsStays DEF IInv, AtCall
    <3>3. Knows(t)'
      BY <2>1, <2>2, <3>1, LogFrame DEF IInv, AtCall, Knows, LogGrows
    <3> QED
      BY <3>2, <3>3 DEF AtCall
  <2> QED
    BY <2>1, <2>2, <2>3, <2>4, QuietStep
<1>9. ASSUME NEW t \in Tasks, ToolEnds(t) PROVE IInv'
  <2>1. task[t].pc = "running" /\ UNCHANGED <<log, approvals, answer, home, approve, verdict, ran>>
    BY <1>9 DEF ToolEnds, Goto
  <2>2. /\ task' \in [Tasks -> Task]
        /\ \A u \in Tasks : task'[u].pc # "done" => task'[u].n \in 1 .. MaxCalls
        /\ task'[t].pc = "result"
        /\ \A u \in Tasks : u # t => task'[u].pc = task[u].pc
        /\ \A u \in Tasks : task'[u].n = task[u].n /\ Call(u)' = Call(u)
        /\ Forward
    <3>1. \A pcs \in {NotAsked, NotTaken, NotRun} : "result" \in pcs => task[t].pc \in pcs
      BY <2>1 DEF NotAsked, NotTaken, NotRun
    <3> QED
      BY <1>9, <2>1, <3>1, TaskStep DEF IInv, TaskPcs, ToolEnds, Goto
  <2>3. TypeOK'
    BY <2>1, <2>2 DEF IInv, TypeOK
  <2>4. AtCall'
    <3>1. LogGrows
      BY <2>1, <2>2, LogFrame
    <3>2. \A u \in Tasks : u # t => Knows(u)'
      BY <2>1, <2>2, <3>1, KnowsStays DEF IInv, AtCall
    <3>3. Knows(t)'
      BY <2>1, <2>2, <3>1, LogFrame DEF IInv, AtCall, Knows, LogGrows
    <3> QED
      BY <3>2, <3>3 DEF AtCall
  <2> QED
    BY <2>1, <2>2, <2>3, <2>4, QuietStep
<1>10. ASSUME NEW t \in Tasks, Cancel(t) PROVE IInv'
  <2>1. task[t].pc \in {"wait", "running"} /\ UNCHANGED <<log, approvals, answer, home, approve, verdict, ran>>
    BY <1>10 DEF Cancel
  <2>2. /\ task' \in [Tasks -> Task]
        /\ \A u \in Tasks : task'[u].pc # "done" => task'[u].n \in 1 .. MaxCalls
        /\ task'[t].pc = "cancelled"
        /\ \A u \in Tasks : u # t => task'[u].pc = task[u].pc
        /\ \A u \in Tasks : task'[u].n = task[u].n /\ Call(u)' = Call(u)
        /\ Forward
    <3>1. \A pcs \in {NotAsked, NotTaken, NotRun} : "cancelled" \in pcs => task[t].pc \in pcs
      BY <2>1 DEF NotAsked, NotTaken, NotRun
    <3> QED
      BY <1>10, <2>1, <3>1, TaskStep DEF IInv, TaskPcs, Cancel
  <2>3. TypeOK'
    BY <2>1, <2>2 DEF IInv, TypeOK
  <2>4. AtCall'
    <3>1. LogGrows
      BY <2>1, <2>2, LogFrame
    <3>2. \A u \in Tasks : u # t => Knows(u)'
      BY <2>1, <2>2, <3>1, KnowsStays DEF IInv, AtCall
    <3>3. Knows(t)'
      BY <2>2 DEF Knows
    <3> QED
      BY <3>2, <3>3 DEF AtCall
  <2> QED
    BY <2>1, <2>2, <2>3, <2>4, QuietStep
<1>11. ASSUME NEW t \in Tasks, Interrupt(t) PROVE IInv'
  <2>1. UNCHANGED <<log, approvals, answer, home, approve, verdict, ran>>
    BY <1>11 DEF Interrupt
  <2>2. /\ task' \in [Tasks -> Task]
        /\ \A u \in Tasks : task'[u].pc # "done" => task'[u].n \in 1 .. MaxCalls
        /\ \A u \in Tasks : task'[u].n = task[u].n /\ task'[u].pc = task[u].pc
    BY <1>11 DEF Interrupt, IInv, TypeOK, Task
  <2>3. TypeOK' /\ Forward
    BY <2>1, <2>2 DEF IInv, TypeOK, Forward, Upto
  <2>4. LogGrows /\ \A u \in Tasks : Call(u)' = Call(u)
    BY <2>1, <2>2, <2>3, LogFrame DEF Call
  <2>5. AtCall'
    BY <2>1, <2>2, <2>4, KnowsStays DEF IInv, AtCall
  <2> QED
    BY <2>1, <2>3, <2>5, QuietStep
<1>12. ASSUME NEW a \in Approvers, TakeSender(a) PROVE IInv'
  <2>1. /\ approve[a].pc = "ready" /\ Has("approval_request", approve[a].id)
        /\ UNCHANGED <<log, answer, home, task, verdict, ran>>
    BY <1>12 DEF TakeSender
  <2>2. PICK p \in {"append", "not_found"} :
          /\ approve' = [approve EXCEPT ![a].pc = p]
          /\ p = "append" => /\ approve[a].id \in approvals
                             /\ approvals' = approvals \ {approve[a].id}
          /\ p = "not_found" => approvals' = approvals
    BY <1>12 DEF TakeSender, ApproveGoto
  <2>3. /\ approve' \in [Approvers -> Approve]
        /\ approve'[a].pc = p
        /\ \A b \in Approvers :
             approve'[b].id = approve[b].id /\ approve'[b].approved = approve[b].approved
        /\ \A b \in Approvers : b # a => approve'[b].pc = approve[b].pc
    BY <2>2, ApproveStep DEF IInv, ApprovePcs
  <2>4. approve[a].id \in Ids
    BY DEF IInv, TypeOK, Approve
  <2>5. TypeOK' /\ Forward /\ \A u \in Tasks : Call(u)' = Call(u)
    BY <2>1, <2>2, <2>3 DEF IInv, TypeOK, Forward, Upto, Call
  <2>6. /\ Unasked' /\ Unanswered' /\ RequestFirst' /\ LogGrows
        /\ \A kind, id : Has(kind, id)' <=> Has(kind, id)
        /\ \A id : Decisions(id)' = Decisions(id)
    BY <2>1, <2>5, LogFrame
  <2>7. Unrun' /\ RanCleared'
    BY <2>1, <2>5, <2>6, HistoryFrame
  <2>8. Untaken'
    <3> SUFFICES ASSUME NEW u \in Tasks, NEW m \in 1 .. MaxCalls, Upto(u, m, NotTaken)'
                 PROVE  Free(<<u, m>>)'
      BY DEF Untaken
    <3>1. Free(<<u, m>>)
      BY <2>5 DEF Forward, IInv, Untaken
    <3> QED
      BY <2>1, <2>2, <2>3, <2>6, <3>1 DEF Free
  <2>9. Token'
    BY <2>2, <2>3, <2>4, <2>6 DEF IInv, Token, Holds
  <2>10. AtAnswer'
    BY <2>1, <2>2, <2>3, <2>6 DEF IInv, AtAnswer, LogGrows
  <2>11. YesDecided' /\ Asked'
    BY <2>1, <2>6 DEF IInv, YesDecided, Asked, LogGrows
  <2>12. AtCall'
    BY <2>1, <2>5, <2>6, KnowsStays DEF IInv, AtCall
  <2>13. DecidedOnce' /\ ResultsTrue'
    BY <2>1, <2>6 DEF IInv, DecidedOnce, ResultsTrue
  <2> QED
    BY <2>5, <2>6, <2>7, <2>8, <2>9, <2>10, <2>11, <2>12, <2>13 DEF IInv
<1>13. ASSUME NEW a \in Approvers, AppendDecision(a) PROVE IInv'
  <2>1. approve[a].pc = "append" /\ UNCHANGED <<approvals, answer, home, task, verdict, ran>>
    BY <1>13 DEF AppendDecision
  <2>2. /\ approve' \in [Approvers -> Approve]
        /\ approve'[a].pc = "send"
        /\ \A b \in Approvers :
             approve'[b].id = approve[b].id /\ approve'[b].approved = approve[b].approved
        /\ \A b \in Approvers : b # a => approve'[b].pc = approve[b].pc
    BY <1>13, ApproveStep DEF AppendDecision, ApproveGoto, IInv, ApprovePcs
  <2>3. approve[a].id \in Ids
    BY DEF IInv, TypeOK, Approve
  <2>4. PICK e \in Event : /\ e.kind = "approval_decision" /\ e.id = approve[a].id
                          /\ e.ok = approve[a].approved /\ log' = Append(log, e)
    <3> DEFINE f == [kind |-> "approval_decision", session |-> approve[a].session, id |-> approve[a].id,
                     ok |-> approve[a].approved]
    <3>1. f \in Event /\ log' = Append(log, f)
      BY <1>13, <2>1, CallInIds DEF AppendDecision, Log, IInv, TypeOK, Event, Kinds, Approve
    <3> QED
      BY <3>1
  <2>5. /\ \A kind, id : Has(kind, id)' <=> Has(kind, id) \/ (e.kind = kind /\ e.id = id)
        /\ \A id : id # e.id => Decisions(id)' = Decisions(id)
        /\ \A id, ok : id # e.id => (Decided(id, ok)' <=> Decided(id, ok))
        /\ Decisions(e.id)' = Decisions(e.id) \cup {Len(log) + 1}
        /\ Decided(e.id, e.ok)'
    BY <2>4, Appended DEF IInv, TypeOK
  <2>6. /\ log' \in Seq(Event) /\ Len(log) \in Nat
        /\ DOMAIN log = 1 .. Len(log) /\ DOMAIN log' = 1 .. Len(log) + 1
        /\ log'[Len(log) + 1] = e /\ \A i \in 1 .. Len(log) : log'[i] = log[i]
    BY <2>4, Appended DEF IInv, TypeOK
  <2>7. /\ Decisions(e.id) = {} /\ Has("approval_request", e.id) /\ e.id \notin approvals
        /\ \A b \in Approvers : Holds(b, e.id) => a = b
    BY <2>1, <2>3, <2>4 DEF IInv, Token, Holds, AtAnswer
  <2>8. LogGrows
    BY <2>5, <2>7 DEF LogGrows, Decided
  <2>9. TypeOK' /\ Forward /\ \A u \in Tasks : Call(u)' = Call(u)
    BY <2>1, <2>2, <2>6 DEF IInv, TypeOK, Forward, Upto, Call
  <2>10. Unrun' /\ RanCleared'
    BY <2>1, <2>8, <2>9, HistoryFrame
  <2>11. Untaken'
    <3> SUFFICES ASSUME NEW u \in Tasks, NEW m \in 1 .. MaxCalls, Upto(u, m, NotTaken)'
                 PROVE  Free(<<u, m>>)'
      BY DEF Untaken
    <3>1. Free(<<u, m>>) /\ <<u, m>> # e.id
      BY <2>1, <2>4, <2>9 DEF Forward, IInv, Untaken, Free
    <3> QED
      BY <2>1, <2>2, <2>5, <3>1 DEF Free
  <2>12. Unasked' /\ Unanswered'
    BY <2>4, <2>5, <2>9 DEF Forward, IInv, Unasked, Unanswered
  <2>13. Token'
    BY <2>1, <2>2, <2>4, <2>5, <2>7 DEF IInv, Token, Holds
  <2>14. AtAnswer'
    BY <2>1, <2>2, <2>4, <2>5, <2>8 DEF IInv, AtAnswer, LogGrows
  <2>15. YesDecided' /\ Asked'
    BY <2>1, <2>4, <2>5, <2>8 DEF IInv, YesDecided, Asked, LogGrows
  <2>16. AtCall'
    BY <2>1, <2>8, <2>9, KnowsStays DEF IInv, AtCall
  <2>17. RequestFirst'
    <3>1. PICK j \in DOMAIN log : log[j].kind = "approval_request" /\ log[j].id = e.id
      BY <2>7 DEF Has
    <3>2. \A i \in 1 .. Len(log) : log[i].kind = "approval_decision" =>
            \E k \in 1 .. i : log[k].kind = "approval_request" /\ log[k].id = log[i].id
      BY <2>6 DEF IInv, RequestFirst
    <3>3. j \in 1 .. Len(log) + 1 /\ log'[j].kind = "approval_request" /\ log'[j].id = e.id
      BY <2>6, <3>1
    <3> SUFFICES ASSUME NEW i \in 1 .. Len(log) + 1, log'[i].kind = "approval_decision"
                 PROVE  \E k \in 1 .. i :
                          log'[k].kind = "approval_request" /\ log'[k].id = log'[i].id
      BY <2>6 DEF RequestFirst
    <3>4. CASE i = Len(log) + 1
      BY <2>6, <3>3, <3>4
    <3>5. CASE i \in 1 .. Len(log)
      <4>1. \A k \in 1 .. i : log'[k] = log[k]
        BY <2>6, <3>5
      <4> QED
        BY <2>6, <3>2, <3>5, <4>1
    <3> QED
      BY <2>6, <3>4, <3>5
  <2>18. DecidedOnce'
    BY <2>5, <2>7 DEF IInv, DecidedOnce
  <2>19. ResultsTrue'
    BY <2>1, <2>4, <2>6 DEF IInv, ResultsTrue
  <2> QED
    BY <2>9, <2>10, <2>11, <2>12, <2>13, <2>14, <2>15, <2>16, <2>17, <2>18, <2>19 DEF IInv
<1>14. ASSUME NEW a \in Approvers, SendAnswer(a) PROVE IInv'
  <2>1. approve[a].pc = "send" /\ UNCHANGED <<log, approvals, home, task, verdict, ran>>
    BY <1>14 DEF SendAnswer
  <2>2. /\ approve' \in [Approvers -> Approve]
        /\ approve'[a].pc = "ok"
        /\ \A b \in Approvers :
             approve'[b].id = approve[b].id /\ approve'[b].approved = approve[b].approved
        /\ \A b \in Approvers : b # a => approve'[b].pc = approve[b].pc
    BY <1>14, ApproveStep DEF SendAnswer, ApproveGoto, IInv, ApprovePcs
  <2>3. approve[a].id \in Ids /\ approve[a].approved \in BOOLEAN
    BY DEF IInv, TypeOK, Approve
  <2>4. /\ answer' \in [Ids -> {"none", "yes", "no"}]
        /\ answer'[approve[a].id] = "yes" => approve[a].approved
        /\ \A id \in Ids : id # approve[a].id => answer'[id] = answer[id]
    BY <1>14, <2>3 DEF SendAnswer, IInv, TypeOK
  <2>5. TypeOK' /\ Forward /\ \A u \in Tasks : Call(u)' = Call(u)
    BY <2>1, <2>2, <2>4 DEF IInv, TypeOK, Forward, Upto, Call
  <2>6. /\ Unasked' /\ Unanswered' /\ RequestFirst' /\ LogGrows
        /\ \A kind, id : Has(kind, id)' <=> Has(kind, id)
        /\ \A id : Decisions(id)' = Decisions(id)
    BY <2>1, <2>5, LogFrame
  <2>7. Unrun' /\ RanCleared'
    BY <2>1, <2>5, <2>6, HistoryFrame
  <2>8. Untaken'
    <3> SUFFICES ASSUME NEW u \in Tasks, NEW m \in 1 .. MaxCalls, Upto(u, m, NotTaken)'
                 PROVE  Free(<<u, m>>)'
      BY DEF Untaken
    <3>1. Free(<<u, m>>) /\ <<u, m>> \in Ids
      BY <2>5 DEF Forward, IInv, Untaken, Ids
    <3>2. <<u, m>> # approve[a].id
      BY <2>1, <3>1 DEF Free
    <3> QED
      BY <2>1, <2>2, <2>4, <2>6, <3>1, <3>2 DEF Free
  <2>9. Token'
    BY <2>1, <2>2, <2>6 DEF IInv, Token, Holds
  <2>10. AtAnswer'
    BY <2>1, <2>2, <2>6 DEF IInv, AtAnswer, LogGrows
  <2>11. YesDecided'
    <3>1. Decided(approve[a].id, approve[a].approved)
      BY <2>1 DEF IInv, AtAnswer
    <3>2. approve[a].approved => Decided(approve[a].id, TRUE)
      BY <2>3, <3>1
    <3> QED
      BY <2>4, <2>6, <3>2 DEF IInv, YesDecided, LogGrows
  <2>12. AtCall' /\ Asked'
    BY <2>1, <2>5, <2>6, KnowsStays DEF IInv, AtCall, Asked
  <2>13. DecidedOnce' /\ ResultsTrue'
    BY <2>1, <2>6 DEF IInv, DecidedOnce, ResultsTrue
  <2> QED
    BY <2>5, <2>6, <2>7, <2>8, <2>9, <2>10, <2>11, <2>12, <2>13 DEF IInv
<1>15. CASE UNCHANGED vars
  <2>1. UNCHANGED <<log, approvals, answer, home, task, approve, verdict, ran>>
    BY <1>15 DEF vars
  <2>2. TypeOK' /\ Forward
    BY <2>1 DEF IInv, TypeOK, Forward, Upto
  <2>3. LogGrows /\ \A u \in Tasks : Call(u)' = Call(u)
    BY <2>1, <2>2, LogFrame DEF Call
  <2>4. AtCall'
    BY <2>1, <2>3, KnowsStays DEF IInv, AtCall
  <2> QED
    BY <2>1, <2>2, <2>4, QuietStep
<1> QED
  BY <1>1, <1>2, <1>3, <1>4, <1>5, <1>6, <1>7, <1>8, <1>9, <1>10, <1>11, <1>12, <1>13,
     <1>14, <1>15 DEF Next, Turn, Handler

\* IInv holds at first: nothing is logged, asked or run.
LEMMA Initial == Init => IInv
<1> SUFFICES ASSUME Init PROVE IInv
  OBVIOUS
<1>1. /\ log = <<>> /\ approvals = {} /\ ran = {}
      /\ answer = [id \in Ids |-> "none"] /\ verdict = [id \in Ids |-> "none"]
      /\ \A t \in Tasks : task[t].n = 1 /\ task[t].pc \in {"call", "done"}
      /\ \A a \in Approvers : approve[a].pc = "ready"
  BY DEF Init
<1>2. TypeOK
  <2>1. task \in [Tasks -> Task] /\ \A t \in Tasks : task[t].pc # "done" => task[t].n \in 1 .. MaxCalls
    BY ApprovalsAssumption DEF ApprovalsAssumption, Init, Task, TaskPcs
  <2>2. approve \in [Approvers -> Approve]
    BY DEF Init
  <2>3. log \in Seq(Event) /\ approvals \subseteq Ids /\ ran \subseteq Ids
    BY <1>1
  <2>4. answer \in [Ids -> {"none", "yes", "no"}] /\ verdict \in [Ids -> {"none", "Deny", "Ask", "Auto"}]
    BY <1>1
  <2>5. home \in [Tasks -> Sessions]
    BY DEF Init
  <2> QED
    BY <2>1, <2>2, <2>3, <2>4, <2>5 DEF TypeOK
<1>3. \A kind, id : ~Has(kind, id)
  BY <1>1 DEF Has
<1>4. \A id : Decisions(id) = {}
  BY <1>1 DEF Decisions
<1>5. Untaken
  <2> SUFFICES ASSUME NEW t \in Tasks, NEW m \in 1 .. MaxCalls PROVE Free(<<t, m>>)
    BY DEF Untaken
  <2>1. <<t, m>> \in Ids
    BY DEF Ids
  <2> QED
    BY <1>1, <1>4, <2>1 DEF Free
<1>6. Unasked /\ Unrun /\ Unanswered
  BY <1>1, <1>3 DEF Unasked, Unrun, Unanswered
<1>7. AtCall /\ AtAnswer
  BY <1>1 DEF AtCall, Knows, AtAnswer
<1>8. Asked /\ Token /\ YesDecided
  BY <1>1, <1>3 DEF Asked, Token, YesDecided, Holds
<1>9. RequestFirst /\ RanCleared /\ DecidedOnce /\ ResultsTrue
  BY <1>1, <1>4 DEF RequestFirst, RanCleared, DecidedOnce, ResultsTrue
<1> QED
  BY <1>2, <1>5, <1>6, <1>7, <1>8, <1>9 DEF IInv

\* IInv holds in every behaviour, for any turns, sessions, requests and verdicts.
THEOREM Invariance == Spec => []IInv
<1>1. Init => IInv
  BY Initial
<1>2. IInv /\ [Next]_vars => IInv'
  BY Preservation
<1> QED
  BY <1>1, <1>2, PTL DEF Spec

\* Type correctness: a turn that is not done is at one of its reply's calls.
THEOREM TypeCorrect == Spec => []TypeOK
<1>1. IInv => TypeOK
  BY DEF IInv
<1> QED
  BY <1>1, Invariance, PTL

\* A tool that ran was allowed by the policy, or approved on the ledger first.
THEOREM RunsAreCleared == Spec => []RunsCleared
<1>1. IInv => RunsCleared
  BY DEF IInv, RanCleared, RunsCleared, Cleared, Decided
<1> QED
  BY <1>1, Invariance, PTL

\* Of any number of approve requests for one id, one is a decision.
THEOREM RequestsDecidedOnce == Spec => []DecidedOnce
<1>1. IInv => DecidedOnce
  BY DEF IInv
<1> QED
  BY <1>1, Invariance, PTL

\* A denied call does not run, and every decision answers a request before it.
THEOREM DenialsHold == Spec => []DenialHolds
<1>1. IInv => DenialHolds
  <2> SUFFICES ASSUME IInv, NEW id \in Ids, NEW i \in Decisions(id)
               PROVE  /\ \E j \in 1 .. i : log[j].kind = "approval_request" /\ log[j].id = id
                      /\ ~log[i].ok => id \notin ran
    BY DEF DenialHolds
  <2>1. i \in DOMAIN log /\ log[i].kind = "approval_decision" /\ log[i].id = id
    BY DEF Decisions
  <2>2. PICK j \in 1 .. i : log[j].kind = "approval_request" /\ log[j].id = id
    BY <2>1 DEF IInv, RequestFirst
  <2>3. j \in DOMAIN log
    BY <2>1, <2>2 DEF IInv, TypeOK
  <2>4. verdict[id] = "Ask"
    BY <2>2, <2>3 DEF IInv, Asked, Has
  <2>5. id \in ran => \E k \in Decisions(id) : log[k].ok
    BY <2>4 DEF IInv, RanCleared, Cleared, Decided
  <2>6. \A k \in Decisions(id) : k = i
    BY DEF IInv, DecidedOnce
  <2> QED
    BY <2>2, <2>5, <2>6
<1> QED
  BY <1>1, Invariance, PTL

\* A result on the ledger follows its call and says whether the tool ran.
THEOREM ResultsAreTrue == Spec => []ResultsTrue
<1>1. IInv => ResultsTrue
  BY DEF IInv
<1> QED
  BY <1>1, Invariance, PTL

=============================================================================
