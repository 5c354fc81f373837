----------------------------- MODULE Approvals ------------------------------
(***************************************************************************)
(* How a batch of tool calls is cleared and run: the policy's verdict, the *)
(* approval requests a turn waits on, the map of pending approvals that    *)
(* all sessions share, the approve requests of the HTTP API, the approval  *)
(* timeout and interrupts (daemon/composerd/src/orchestrator.rs and        *)
(* daemon/composerd/src/api.rs).                                           *)
(*                                                                         *)
(* seq_lock is one for all sessions, so appends are totally ordered: log   *)
(* holds every session's events in that order.  Which verdict a call gets  *)
(* is the policy's business and any is possible here.                      *)
(***************************************************************************)
EXTENDS Naturals, Sequences, FiniteSets

CONSTANTS
  Tasks,      \* turn bodies, each working through the calls of one reply
  Sessions,
  Approvers,  \* approve requests
  MaxCalls,   \* calls in a reply
  Verdicts    \* what the policy may answer: "Deny", "Ask", "Auto"

ASSUME ApprovalsAssumption ==
  /\ MaxCalls \in Nat
  /\ Verdicts \subseteq {"Deny", "Ask", "Auto"}

VARIABLES
  log,       \* the events of all sessions
  approvals, \* AppState.approvals: the ids with a sender in the map
  answer,    \* per id: what went through its channel
  home,      \* per task: its session
  task,      \* per task: where it is
  approve,   \* per approve request: where it is and what it says
  verdict,   \* per call: what the policy answered (history)
  ran        \* the calls whose tool has started (history)

vars == <<log, approvals, answer, home, task, approve, verdict, ran>>

\* A call of a task, whose approval request carries a fresh id (a ULID).
Ids == Tasks \X (1 .. MaxCalls)

Kinds == {"tool_call", "approval_request", "approval_decision", "tool_result"}
\* ok: of a decision, approved; of a result, not denied.
Event == [kind : Kinds, session : Sessions, id : Ids, ok : BOOLEAN]

TaskPcs == {"call", "verdict", "request", "insert", "wait", "run", "running",
            "denied", "result", "done", "cancelled"}
Task == [pc : TaskPcs, n : Nat, aborted : BOOLEAN]

ApprovePcs == {"ready", "append", "send", "ok", "not_found"}
Approve == [pc : ApprovePcs, id : Ids, session : Sessions, approved : BOOLEAN]

Call(t) == <<t, task[t].n>>

Has(kind, id) == \E i \in DOMAIN log : log[i].kind = kind /\ log[i].id = id

Decisions(id) == {i \in DOMAIN log : log[i].kind = "approval_decision" /\ log[i].id = id}

Log(kind, session, id, ok) ==
  log' = Append(log, [kind |-> kind, session |-> session, id |-> id, ok |-> ok])

Init ==
  /\ log = <<>> /\ approvals = {} /\ ran = {}
  /\ answer = [id \in Ids |-> "none"] /\ verdict = [id \in Ids |-> "none"]
  /\ home \in [Tasks -> Sessions]
  /\ task = [t \in Tasks |-> [pc |-> IF MaxCalls = 0 THEN "done" ELSE "call", n |-> 1,
                              aborted |-> FALSE]]
  /\ approve \in [Approvers -> {a \in Approve : a.pc = "ready"}]

-----------------------------------------------------------------------------
(* The turn, over the calls of one reply.                                  *)

Goto(t, from, to) == task[t].pc = from /\ task' = [task EXCEPT ![t].pc = to]

ToolCall(t) ==
  /\ Goto(t, "call", "verdict")
  /\ Log("tool_call", home[t], Call(t), TRUE)
  /\ UNCHANGED <<approvals, answer, home, approve, verdict, ran>>

\* verdict_for: a denied call does not run, an asked one waits for a human.
Verdict(t) ==
  /\ task[t].pc = "verdict"
  /\ \E v \in Verdicts :
       /\ task' = [task EXCEPT ![t].pc = CASE v = "Deny" -> "denied"
                                           [] v = "Ask"  -> "request"
                                           [] v = "Auto" -> "run"]
       /\ verdict' = [verdict EXCEPT ![Call(t)] = v]
  /\ UNCHANGED <<log, approvals, answer, home, approve, ran>>

\* The request is on the ledger, and so with the client, before its sender is
\* in the map.
ApprovalRequest(t) ==
  /\ Goto(t, "request", "insert")
  /\ Log("approval_request", home[t], Call(t), TRUE)
  /\ UNCHANGED <<approvals, answer, home, approve, verdict, ran>>

InsertSender(t) ==
  /\ Goto(t, "insert", "wait")
  /\ approvals' = approvals \cup {Call(t)}
  /\ UNCHANGED <<log, answer, home, approve, verdict, ran>>

\* Any answer taken for a yes.
AnsweredBlindly(t) ==
  /\ task[t].pc = "wait" /\ ~task[t].aborted
  /\ answer[Call(t)] # "none"
  /\ task' = [task EXCEPT ![t].pc = "run"]
  /\ UNCHANGED <<log, approvals, answer, home, approve, verdict, ran>>

\* The receiver is ready.
Answered(t) ==
  /\ task[t].pc = "wait" /\ ~task[t].aborted
  /\ answer[Call(t)] # "none"
  /\ task' = [task EXCEPT ![t].pc = IF answer[Call(t)] = "yes" THEN "run" ELSE "denied"]
  /\ UNCHANGED <<log, approvals, answer, home, approve, verdict, ran>>

\* No timeout in the select.
NoTimeOut(t) == FALSE /\ UNCHANGED vars

\* A timeout taken for a yes.
TimeOutApproves(t) ==
  /\ task[t].pc = "wait" /\ ~task[t].aborted
  /\ task' = [task EXCEPT ![t].pc = "run"]
  /\ UNCHANGED <<log, approvals, answer, home, approve, verdict, ran>>

\* The sleep is ready, the receiver perhaps as well: select takes either.  The
\* sender stays in the map.
TimeOut(t) ==
  /\ task[t].pc = "wait" /\ ~task[t].aborted
  /\ task' = [task EXCEPT ![t].pc = "denied"]
  /\ UNCHANGED <<log, approvals, answer, home, approve, verdict, ran>>

\* execute: the tool starts.
Execute(t) ==
  /\ Goto(t, "run", "running")
  /\ ran' = ran \cup {Call(t)}
  /\ UNCHANGED <<log, approvals, answer, home, approve, verdict>>

\* A tool that runs without yielding ends even in an aborted turn.
ToolEnds(t) ==
  /\ Goto(t, "running", "result")
  /\ UNCHANGED <<log, approvals, answer, home, approve, verdict, ran>>

\* An off-by-one: a call after the last.
NextCallPastEnd(t) ==
  [task EXCEPT ![t].n = @ + 1,
               ![t].pc = IF task[t].n <= MaxCalls THEN "call" ELSE "done"]

\* The for loop over the calls of the reply.
NextCall(t) ==
  [task EXCEPT ![t].n = IF @ < MaxCalls THEN @ + 1 ELSE @,
               ![t].pc = IF task[t].n < MaxCalls THEN "call" ELSE "done"]

\* The result of a denied call reported as a success.
ToolResultOk(t) ==
  /\ task[t].pc \in {"result", "denied"}
  /\ Log("tool_result", home[t], Call(t), TRUE)
  /\ task' = NextCall(t)
  /\ UNCHANGED <<approvals, answer, home, approve, verdict, ran>>

ToolResult(t) ==
  /\ task[t].pc \in {"result", "denied"}
  /\ Log("tool_result", home[t], Call(t), task[t].pc = "result")
  /\ task' = NextCall(t)
  /\ UNCHANGED <<approvals, answer, home, approve, verdict, ran>>

\* An interrupt of the session reaches the task at its next await.
Interrupt(t) ==
  /\ task[t].pc \notin {"done", "cancelled"} /\ ~task[t].aborted
  /\ task' = [task EXCEPT ![t].aborted = TRUE]
  /\ UNCHANGED <<log, approvals, answer, home, approve, verdict, ran>>

Cancel(t) ==
  /\ task[t].aborted
  /\ task[t].pc \in {"wait", "running"}
  /\ task' = [task EXCEPT ![t].pc = "cancelled"]
  /\ UNCHANGED <<log, approvals, answer, home, approve, verdict, ran>>

-----------------------------------------------------------------------------
(* The approve handler.                                                    *)

ApproveGoto(a, to) == approve' = [approve EXCEPT ![a].pc = to]

\* The sender looked up and left in the map.
TakeSenderKept(a) ==
  LET id == approve[a].id IN
  /\ approve[a].pc = "ready"
  /\ Has("approval_request", id)
  /\ IF id \in approvals THEN ApproveGoto(a, "append") ELSE ApproveGoto(a, "not_found")
  /\ UNCHANGED <<log, answer, approvals, home, task, verdict, ran>>

\* A human answers a request shown to them, from whichever session the client
\* is on by then.  The id is taken out of the map, or refused.
TakeSender(a) ==
  LET id == approve[a].id IN
  /\ approve[a].pc = "ready"
  /\ Has("approval_request", id)
  /\ IF id \in approvals
     THEN ApproveGoto(a, "append") /\ approvals' = approvals \ {id}
     ELSE ApproveGoto(a, "not_found") /\ UNCHANGED approvals
  /\ UNCHANGED <<log, answer, home, task, verdict, ran>>

AppendDecision(a) ==
  /\ approve[a].pc = "append"
  /\ ApproveGoto(a, "send")
  /\ Log("approval_decision", approve[a].session, approve[a].id, approve[a].approved)
  /\ UNCHANGED <<approvals, answer, home, task, verdict, ran>>

\* Sent to a receiver that may be gone.
SendAnswer(a) ==
  /\ approve[a].pc = "send"
  /\ ApproveGoto(a, "ok")
  /\ answer' = [answer EXCEPT ![approve[a].id] = IF approve[a].approved THEN "yes" ELSE "no"]
  /\ UNCHANGED <<log, approvals, home, task, verdict, ran>>

-----------------------------------------------------------------------------
Turn(t) ==
  \/ ToolCall(t) \/ Verdict(t) \/ ApprovalRequest(t) \/ InsertSender(t)
  \/ Answered(t) \/ TimeOut(t) \/ Execute(t) \/ ToolEnds(t) \/ ToolResult(t)
  \/ Cancel(t)

Handler(a) == AppendDecision(a) \/ SendAnswer(a)

Next ==
  \/ \E t \in Tasks : Turn(t) \/ Interrupt(t)
  \/ \E a \in Approvers : TakeSender(a) \/ Handler(a)

Spec == Init /\ [][Next]_vars

\* The runtime runs every ready task, tools end (the terminal has a timeout)
\* and so does the approval sleep.  Nobody has to approve or to interrupt.
FairSpec ==
  /\ Spec
  /\ \A t \in Tasks : WF_vars(Turn(t))
  /\ \A a \in Approvers : WF_vars(Handler(a))

-----------------------------------------------------------------------------
TypeOK ==
  /\ log \in Seq(Event)
  /\ approvals \subseteq Ids
  /\ answer \in [Ids -> {"none", "yes", "no"}]
  /\ verdict \in [Ids -> {"none", "Deny", "Ask", "Auto"}]
  /\ home \in [Tasks -> Sessions]
  /\ task \in [Tasks -> Task]
  /\ \A t \in Tasks : task[t].pc # "done" => task[t].n \in 1 .. MaxCalls
  /\ approve \in [Approvers -> Approve]
  /\ ran \subseteq Ids

\* No denied call runs, and no asked call without an approval that was on the
\* ledger first, whatever the answers, timeouts, interrupts and approve
\* requests do.
RunsCleared ==
  \A id \in ran :
    \/ verdict[id] = "Auto"
    \/ verdict[id] = "Ask" /\ \E i \in Decisions(id) : log[i].ok

\* A request is decided at most once on the ledgers, of all sessions together:
\* of two approve requests that race, one is refused.
DecidedOnce == \A id \in Ids : \A i, j \in Decisions(id) : i = j

\* A decision is that of a request on the ledger, and a denied call never runs.
DenialHolds ==
  \A id \in Ids : \A i \in Decisions(id) :
    /\ \E j \in 1 .. i : log[j].kind = "approval_request" /\ log[j].id = id
    /\ ~log[i].ok => id \notin ran

\* Each result is that of the call before it, and says truly whether it ran.
ResultsTrue ==
  \A i \in DOMAIN log : log[i].kind = "tool_result" =>
    /\ log[i].ok <=> log[i].id \in ran
    /\ \E j \in 1 .. i : log[j].kind = "tool_call" /\ log[j].id = log[i].id

\* No turn waits for ever on a human: the wait is bounded by the timeout, and a
\* turn comes to the end of its calls unless it is interrupted.
BatchEnds == \A t \in Tasks : <>(task[t].pc \in {"done", "cancelled"})

=============================================================================
