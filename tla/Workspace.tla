----------------------------- MODULE Workspace -----------------------------
(***************************************************************************)
(* What happens to files: the tools of turns that write them, the shadow   *)
(* checkpoints that undo them, and the adoption of a subagent's work.      *)
(* Two sessions, an orchestrator ("parent") in the user's workspace and    *)
(* its subagent ("child") in a git worktree of it (execute and             *)
(* session_shadow of orchestrator.rs, restore, diff and adopt of api.rs,   *)
(* shadow.rs, worktree.rs and terminal.rs of the tools crate).             *)
(*                                                                         *)
(* A tree says who wrote each file last.  A git command is one step: it    *)
(* holds git's own lock.  What comes between two commands is not locked.   *)
(***************************************************************************)
EXTENDS Integers, Sequences, FiniteSets

CONSTANTS
  ParentTurns, ChildTurns,   \* turns of the two sessions
  Restores, Adopts,          \* requests of the human's, the adoptions by number
  Files,                     \* regions of files that git merges as a unit
  Tracked,                   \* those in the repository when the child is dispatched
  Earlier,                   \* sessions that have a checkpoint of an earlier turn's
  Faults,                    \* which commands may fail: "shadow", "status", "remove"
  ParentTools, ChildTools,   \* what the model asks for: "edit", "terminal", "gate"
  CommandFiles,              \* bound of the model: what commands write
  Calls,                     \* bound of the model: tool calls of a turn
  MaxRequests                \* bound of the model: requests that are made

ASSUME WorkspaceAssumption ==
  /\ ParentTurns \cap ChildTurns = {}
  /\ Restores \cap Adopts = {} /\ Adopts \subseteq Nat
  /\ (ParentTurns \cup ChildTurns) \cap {"orig", "absent", "earlier"} = {}
  /\ Tracked \subseteq Files
  /\ Earlier \subseteq {"parent", "child"}
  /\ Faults \subseteq {"shadow", "status", "remove"}
  /\ ParentTools \subseteq {"edit", "terminal", "gate"}
  /\ ChildTools \subseteq {"edit", "terminal"}
  /\ CommandFiles \subseteq Files
  /\ Calls \in Nat \ {0} /\ MaxRequests \in Nat

VARIABLES
  tree,      \* the files of the workspace and of the worktree
  removed,   \* the worktree is gone
  head,      \* the tree committed on the user's branch in the workspace
  branch,    \* the tree committed on the child's branch, <<>> once it is deleted
  staged,    \* the tree in the worktree's own git index
  index,     \* per session: what its shadow repository has staged
  commits,   \* per session: the commits of its shadow repository
  before,    \* history, per turn: what its checkpoint is to save, file by file
  turn,      \* per turn: where it is, its call, the calls left, checkpoint_taken
  proc,      \* per turn: the process of the call it waits for
  stray,     \* turns with a process that nobody waits for any more
  wrote,     \* history: turns whose tools have written a file
  failed,    \* turns with a checkpoint error on the ledger
  req,       \* per request: where it is, and what happened since it began
  adopts,    \* the adopt events on the parent's ledger
  removeErrors   \* its "worktree remove" errors

vars == <<tree, removed, head, branch, staged, index, commits, before, turn, proc, stray,
          wrote, failed, req, adopts, removeErrors>>
files == <<tree, removed, head, branch, staged>>
shadow == <<index, commits, before>>
tasks == <<turn, proc, stray, wrote, failed>>
parentLog == <<adopts, removeErrors>>

Sessions == {"parent", "child"}
Dirs == {"workspace", "worktree"}
Turns == ParentTurns \cup ChildTurns
Requests == Restores \cup Adopts
Tree == [Files -> Turns \cup {"orig", "absent"}]

Session(t) == IF t \in ChildTurns THEN "child" ELSE "parent"

\* meta.jail_root: where the tools of a session work.
JailRoot(s) == IF s = "child" THEN "worktree" ELSE "workspace"
Jail(t) == JailRoot(Session(t))
Tools(t) == IF t \in ChildTurns THEN ChildTools ELSE ParentTools

\* session_shadow: the routes of either session work in meta.workspace.
RouteRoot(s) == "workspace"

Gone(d) == d = "worktree" /\ removed

Init ==
  LET dispatched == [f \in Files |-> IF f \in Tracked THEN "orig" ELSE "absent"]
  IN  /\ tree = [d \in Dirs |-> dispatched] /\ removed = FALSE
      /\ head = dispatched /\ branch = dispatched /\ staged = dispatched
      /\ index = [s \in Sessions |-> IF s \in Earlier THEN dispatched
                                     ELSE [f \in Files |-> "absent"]]
      /\ commits = [s \in Sessions |-> IF s \in Earlier
                                       THEN <<[turn |-> "earlier", tree |-> dispatched]>>
                                       ELSE <<>>]
      /\ before = [t \in Turns |-> <<>>]
      /\ turn = [t \in Turns |->
                   [pc |-> "next", call |-> "edit", left |-> Calls, taken |-> FALSE]]
      /\ proc = [t \in Turns |-> "none"] /\ stray = {}
      /\ wrote = {} /\ failed = {}
      /\ req = [r \in Requests |-> [pc |-> "idle", session |-> "parent", commit |-> 0,
                                    sure |-> TRUE, late |-> {}]]
      /\ adopts = 0 /\ removeErrors = 0

-----------------------------------------------------------------------------
(* What a request has to know of the others: the files written, in the     *)
(* directory it works on, since it began, and whether the index it staged  *)
(* is still its own.  And what a turn has, between the two git commands of *)
(* its checkpoint: the files it staged that nobody has written since.      *)

Watched(r) == IF r \in Restores THEN "workspace" ELSE "worktree"

Since(d, fs) ==
  [r \in Requests |->
     IF req[r].pc \in {"idle", "done", "failed"} \/ Watched(r) # d THEN req[r]
     ELSE [req[r] EXCEPT !.late = @ \cup fs]]

Restaged(s) ==
  [r \in Requests |->
     IF r \in Restores /\ req[r].session = s /\ req[r].pc \in {"checkout", "clean"}
     THEN [req[r] EXCEPT !.sure = FALSE] ELSE req[r]]

\* Turns among ts are no longer about to save the files fs as they staged them.
Unsaved(ts, fs) ==
  [t \in Turns |->
     IF t \in ts /\ turn[t].pc = "commit"
     THEN [f \in DOMAIN before[t] \ fs |-> before[t][f]] ELSE before[t]]

WorkersIn(d) == {t \in Turns : Jail(t) = d}

TurnsOf(s) == {t \in Turns : Session(t) = s}

-----------------------------------------------------------------------------
(* The tool calls of a turn.                                               *)

At(t, pc) == turn[t].pc = pc
Goto(t, pc) == turn' = [turn EXCEPT ![t].pc = pc]
Ended == [pc |-> "done", call |-> "edit", left |-> 0, taken |-> FALSE]
Return(t) ==
  turn' = [turn EXCEPT ![t] =
             IF turn[t].left = 1 THEN Ended
             ELSE [pc |-> "next", call |-> "edit", left |-> turn[t].left - 1,
                   taken |-> turn[t].taken]]

\* A tool of t writes file f.
ToolWrites(t, f) ==
  /\ ~Gone(Jail(t))
  /\ tree' = [tree EXCEPT ![Jail(t)][f] = t]
  /\ wrote' = wrote \cup {t}
  /\ req' = Since(Jail(t), {f})
  /\ before' = Unsaved(WorkersIn(Jail(t)), {f})

\* A model reply asks for a tool that the policy or the human lets run.  The
\* first edit or command of a turn is preceded by a checkpoint; a gate works
\* elsewhere, and only orchestrators run it.
Call(t, kind) ==
  /\ At(t, "next") /\ turn[t].left > 0
  /\ \/ /\ kind \in {"edit", "terminal"}
        /\ turn' = [turn EXCEPT ![t].call = kind,
                                ![t].pc = IF turn[t].taken THEN "exec" ELSE "stage"]
        /\ UNCHANGED proc
     \/ /\ kind = "gate"
        /\ turn' = [turn EXCEPT ![t].call = kind, ![t].pc = "run"]
        /\ proc' = [proc EXCEPT ![t] = "shell"]
  /\ UNCHANGED <<files, shadow, stray, wrote, failed, req, parentLog>>

\* checkpoint: git add -A in a shadow of the workspace, as the routes have it.
StageWorkspace(t) ==
  /\ At(t, "stage") /\ ~Gone(Jail(t))
  /\ index' = [index EXCEPT ![Session(t)] = tree[RouteRoot(Session(t))]]
  /\ before' = [before EXCEPT ![t] = tree[Jail(t)]]
  /\ req' = Restaged(Session(t))
  /\ Goto(t, "commit")
  /\ UNCHANGED <<files, commits, proc, stray, wrote, failed, parentLog>>

\* checkpoint: git add -A ...
Stage(t) ==
  /\ At(t, "stage") /\ ~Gone(Jail(t))
  /\ index' = [index EXCEPT ![Session(t)] = tree[Jail(t)]]
  /\ before' = [before EXCEPT ![t] = tree[Jail(t)]]
  /\ req' = Restaged(Session(t))
  /\ Goto(t, "commit")
  /\ UNCHANGED <<files, commits, proc, stray, wrote, failed, parentLog>>

\* ... and git commit --allow-empty, of whatever the index holds by now.
Commit(t) ==
  /\ At(t, "commit") /\ ~Gone(Jail(t))
  /\ commits' = [commits EXCEPT ![Session(t)] =
                   Append(@, [turn |-> t, tree |-> index[Session(t)]])]
  /\ turn' = [turn EXCEPT ![t].pc = "exec", ![t].taken = TRUE]
  /\ UNCHANGED <<files, index, before, proc, stray, wrote, failed, req, parentLog>>

\* A checkpoint that fails is ledgered, and the tool runs all the same; the
\* next call of the turn tries again.
CheckpointFails(t) ==
  /\ turn[t].pc \in {"stage", "commit"}
  /\ "shadow" \in Faults \/ Gone(Jail(t))
  /\ failed' = failed \cup {t}
  /\ Goto(t, "exec")
  /\ before' = [before EXCEPT ![t] = <<>>]
  /\ UNCHANGED <<files, index, commits, proc, stray, wrote, req, parentLog>>

\* edit_file writes its file, or fails (no match, no such directory).
Edit(t) ==
  /\ At(t, "exec") /\ turn[t].call = "edit"
  /\ Return(t)
  /\ \/ \E f \in Files : ToolWrites(t, f)
     \/ UNCHANGED <<tree, wrote, req, before>>
  /\ UNCHANGED <<removed, head, branch, staged, index, commits, proc, stray, failed, parentLog>>

\* terminal spawns sh in the jail, unless the directory is gone.
Spawn(t) ==
  /\ At(t, "exec") /\ turn[t].call = "terminal"
  /\ IF Gone(Jail(t)) THEN Return(t) /\ UNCHANGED proc
     ELSE Goto(t, "run") /\ proc' = [proc EXCEPT ![t] = "shell"]
  /\ UNCHANGED <<files, shadow, stray, wrote, failed, req, parentLog>>

\* The command, or what it left behind, writes a file at any time.
CommandWrites(t) ==
  /\ t \in stray \/ (turn[t].call = "terminal" /\ proc[t] # "none")
  /\ \E f \in CommandFiles : ToolWrites(t, f)
  /\ UNCHANGED <<removed, head, branch, staged, index, commits, turn, proc, stray, failed,
                 parentLog>>

\* sh ends; what it started may live on and hold its output open.  run_gate
\* leaves the select, and with it the timeout, as soon as bash has ended.
ShellEnds(t) ==
  /\ proc[t] = "shell"
  /\ \E left \in {"none", "orphan"} : proc' = [proc EXCEPT ![t] = left]
  /\ IF At(t, "run") /\ turn[t].call = "gate" THEN Goto(t, "drain") ELSE UNCHANGED turn
  /\ UNCHANGED <<files, shadow, stray, wrote, failed, req, parentLog>>

OrphanEnds(t) ==
  /\ \/ proc[t] = "orphan" /\ proc' = [proc EXCEPT ![t] = "none"] /\ UNCHANGED stray
     \/ t \in stray /\ stray' = stray \ {t} /\ UNCHANGED proc
  /\ UNCHANGED <<files, shadow, turn, wrote, failed, req, parentLog>>

\* The output is at its end: the call returns.
CallEnds(t) ==
  /\ turn[t].pc \in {"run", "drain"} /\ proc[t] = "none"
  /\ Return(t)
  /\ UNCHANGED <<files, shadow, proc, stray, wrote, failed, req, parentLog>>

\* The timeout around the wait for the shell only, as run_gate has it.
TimeoutOfShell(t) ==
  /\ At(t, "run") /\ proc[t] = "shell"
  /\ Return(t)
  /\ proc' = [proc EXCEPT ![t] = "none"]
  /\ UNCHANGED <<files, shadow, stray, wrote, failed, req, parentLog>>

\* The timeout kills the shell, not what it started.  terminal returns at
\* once; run_gate still reads the output to its end.
Timeout(t) ==
  /\ At(t, "run")
  /\ \E orphan \in IF proc[t] = "shell" THEN BOOLEAN ELSE {proc[t] = "orphan"} :
       IF turn[t].call = "gate"
       THEN /\ Goto(t, "drain") /\ UNCHANGED stray
            /\ proc' = [proc EXCEPT ![t] = IF orphan THEN "orphan" ELSE "none"]
       ELSE /\ Return(t)
            /\ proc' = [proc EXCEPT ![t] = "none"]
            /\ stray' = IF orphan THEN stray \cup {t} ELSE stray
  /\ UNCHANGED <<files, shadow, wrote, failed, req, parentLog>>

\* The human's interrupt drops the turn at an await; its process lives on
\* (the command is not spawned with kill_on_drop).
Interrupt(t) ==
  /\ turn[t].pc \in {"next", "run", "drain"}
  /\ turn' = [turn EXCEPT ![t] = Ended]
  /\ stray' = IF turn[t].call = "terminal" /\ proc[t] # "none"
              THEN stray \cup {t} ELSE stray
  /\ proc' = [proc EXCEPT ![t] = "none"]
  /\ UNCHANGED <<files, shadow, wrote, failed, req, parentLog>>

-----------------------------------------------------------------------------
(* The routes of the human's: restore and diff.                            *)

Arrives(r) ==
  /\ req[r].pc = "idle"
  /\ Cardinality({q \in Requests : req[q].pc # "idle"}) < MaxRequests
\* Adoptions differ in nothing: they are numbered as they come.
Foremost(a) == \A b \in Adopts : b < a => req[b].pc # "idle"
Advance(r, pc) == req' = [req EXCEPT ![r].pc = pc]
Over(pc) == [pc |-> pc, session |-> "parent", commit |-> 0, sure |-> TRUE, late |-> {}]
End(r, pc) == req' = [req EXCEPT ![r] = Over(pc)]

\* A subagent's session opens the shadow of its orchestrator's.
BeginRestoreInParent(r, s, k) ==
  /\ Arrives(r)
  /\ index' = [index EXCEPT !["parent"] = commits[s][k].tree]
  /\ req' = [Restaged("parent") EXCEPT ![r] = [@ EXCEPT !.pc = "checkout", !.commit = k]]
  /\ before' = Unsaved(TurnsOf("parent"), Files)
  /\ UNCHANGED <<files, commits, tasks, parentLog>>

\* restore: git read-tree of a listed checkpoint ...
BeginRestore(r, s, k) ==
  /\ Arrives(r)
  /\ index' = [index EXCEPT ![s] = commits[s][k].tree]
  /\ req' = [Restaged(s) EXCEPT ![r] = [@ EXCEPT !.pc = "checkout", !.session = s,
                                                 !.commit = k]]
  /\ before' = Unsaved(TurnsOf(s), Files)
  /\ UNCHANGED <<files, commits, tasks, parentLog>>

Staged(r, f) == index[req[r].session][f]

\* Rewrites the files fs of a route's directory to what is staged.
Rewrite(r, fs, next) ==
  LET d == RouteRoot(req[r].session)
  IN  /\ tree' = [tree EXCEPT ![d] = [f \in Files |-> IF f \in fs THEN Staged(r, f) ELSE @[f]]]
      /\ req' = [Since(d, fs) EXCEPT ![r] = next]
      /\ before' = Unsaved(WorkersIn(d), fs)
      /\ UNCHANGED <<removed, head, branch, staged, index, commits, tasks, parentLog>>

\* ... git checkout-index -f -a ...
Checkout(r) ==
  /\ req[r].pc = "checkout"
  /\ Rewrite(r, {f \in Files : Staged(r, f) # "absent"}, [req[r] EXCEPT !.pc = "clean"])

\* Files added after the checkpoint are kept.
CleanOmitted(r) ==
  /\ req[r].pc = "clean"
  /\ Rewrite(r, {}, Over("done"))

\* ... git clean -fd, and a note on the ledger.
Clean(r) ==
  /\ req[r].pc = "clean"
  /\ Rewrite(r, {f \in Files : Staged(r, f) = "absent"}, Over("done"))

RestoreFails(r) ==
  /\ "shadow" \in Faults
  /\ req[r].pc \in {"checkout", "clean"}
  /\ End(r, "failed")
  /\ UNCHANGED <<files, shadow, tasks, parentLog>>

\* Somebody has staged into the index of session s and will read it.
InUse(s) ==
  \/ \E t \in Turns : Session(t) = s /\ At(t, "commit")
  \/ \E r \in Restores : req[r].session = s /\ req[r].pc \in {"checkout", "clean"}

\* diff stages the directory to compare it with a checkpoint.  At other times
\* this makes no difference: whoever reads the index stages into it first.
Diff(s) ==
  /\ commits[s] # <<>> /\ InUse(s)
  /\ index' = [index EXCEPT ![s] = tree[RouteRoot(s)]]
  /\ req' = Restaged(s)
  /\ before' = Unsaved(TurnsOf(s) \ WorkersIn(RouteRoot(s)), Files)
  /\ UNCHANGED <<files, commits, tasks, parentLog>>

-----------------------------------------------------------------------------
(* adopt: commit the worktree, merge the branch, remove the worktree,      *)
(* delete the branch, ledger the adoption.                                 *)

\* git status -uno: a file that git does not track yet is no change.
BeginAdoptTracked(a) ==
  /\ Arrives(a) /\ Foremost(a)
  /\ \E sure \in IF "status" \in Faults THEN BOOLEAN ELSE {TRUE} :
       LET dirty == /\ sure /\ ~removed
                    /\ \/ staged # branch
                       \/ \E f \in Files :
                            staged[f] # "absent" /\ tree["worktree"][f] # staged[f]
       IN  req' = [req EXCEPT ![a].pc = IF dirty THEN "add" ELSE "merge", ![a].sure = sure]
  /\ UNCHANGED <<files, shadow, tasks, parentLog>>

\* git status; when it fails the worktree is taken to be clean.
BeginAdopt(a) ==
  /\ Arrives(a) /\ Foremost(a)
  /\ \E sure \in IF "status" \in Faults THEN BOOLEAN ELSE {TRUE} :
       LET dirty == sure /\ ~removed /\ (staged # branch \/ tree["worktree"] # staged)
       IN  req' = [req EXCEPT ![a].pc = IF dirty THEN "add" ELSE "merge", ![a].sure = sure]
  /\ UNCHANGED <<files, shadow, tasks, parentLog>>

\* git add -A in the worktree, which another adoption may have removed.
AdoptAdd(a) ==
  /\ req[a].pc = "add"
  /\ IF removed THEN End(a, "failed") /\ UNCHANGED staged
     ELSE Advance(a, "commit") /\ staged' = tree["worktree"]
  /\ UNCHANGED <<tree, removed, head, branch, shadow, tasks, parentLog>>

\* git commit of what is staged there by now: nothing, when another adoption
\* has committed it meanwhile.
AdoptCommit(a) ==
  /\ req[a].pc = "commit"
  /\ IF removed \/ staged = branch THEN End(a, "failed") /\ UNCHANGED branch
     ELSE Advance(a, "merge") /\ branch' = staged
  /\ UNCHANGED <<tree, removed, head, staged, shadow, tasks, parentLog>>

\* git merge --no-ff.  A deleted branch, or a file that the merge would
\* overwrite and that has changed in the workspace, is a conflict: merge
\* --abort leaves everything as it was.  A merge of what HEAD has succeeds.
Merge(a) ==
  /\ req[a].pc = "merge"
  /\ IF branch = <<>> \/ \E f \in Files : branch[f] # head[f] /\ tree["workspace"][f] # head[f]
     THEN End(a, "failed") /\ UNCHANGED <<tree, head, before>>
     ELSE LET new == {f \in Files : branch[f] # head[f]}
          IN  /\ head' = branch
              /\ tree' = [tree EXCEPT !["workspace"] =
                            [f \in Files |-> IF f \in new THEN branch[f] ELSE @[f]]]
              /\ req' = [Since("workspace", new) EXCEPT ![a].pc = "remove"]
              /\ before' = Unsaved(WorkersIn("workspace"), new)
  /\ UNCHANGED <<removed, branch, staged, index, commits, tasks, parentLog>>

\* A failed removal goes unreported.
RemoveFailsSilently(a) ==
  /\ req[a].pc = "remove"
  /\ removed \/ "remove" \in Faults
  /\ Advance(a, "delete")
  /\ UNCHANGED <<files, shadow, tasks, parentLog>>

\* git worktree remove --force fails: ledgered, and the adoption goes on.
RemoveFails(a) ==
  /\ req[a].pc = "remove"
  /\ removed \/ "remove" \in Faults
  /\ removeErrors' = removeErrors + 1
  /\ Advance(a, "delete")
  /\ UNCHANGED <<files, shadow, tasks, adopts>>

\* git worktree remove --force, with all that was never committed.
Remove(a) ==
  /\ req[a].pc = "remove" /\ ~removed
  /\ removed' = TRUE
  /\ tree' = [tree EXCEPT !["worktree"] = [f \in Files |-> "absent"]]
  /\ Advance(a, "delete")
  /\ UNCHANGED <<head, branch, staged, shadow, tasks, parentLog>>

\* git branch -d, then -D: neither deletes what a worktree has checked out.
DeleteBranch(a) ==
  /\ req[a].pc = "delete"
  /\ branch' = IF removed THEN <<>> ELSE branch
  /\ Advance(a, "ledger")
  /\ UNCHANGED <<tree, removed, head, staged, shadow, tasks, parentLog>>

LedgerAdoption(a) ==
  /\ req[a].pc = "ledger"
  /\ adopts' = adopts + 1
  /\ End(a, "done")
  /\ UNCHANGED <<files, shadow, tasks, removeErrors>>

-----------------------------------------------------------------------------
TurnStep(t) ==
  \/ \E kind \in Tools(t) : Call(t, kind)
  \/ Stage(t) \/ Commit(t) \/ CheckpointFails(t) \/ Edit(t) \/ Spawn(t)
  \/ CallEnds(t) \/ Timeout(t)

Process(t) == CommandWrites(t) \/ ShellEnds(t) \/ OrphanEnds(t)

Route ==
  \/ \E s \in Sessions : Diff(s)
  \/ \E r \in Restores :
       \/ \E s \in Sessions : \E k \in DOMAIN commits[s] : BeginRestore(r, s, k)
       \/ Checkout(r) \/ Clean(r) \/ RestoreFails(r)

Adoption(a) ==
  \/ BeginAdopt(a) \/ AdoptAdd(a) \/ AdoptCommit(a) \/ Merge(a) \/ RemoveFails(a)
  \/ Remove(a) \/ DeleteBranch(a) \/ LedgerAdoption(a)

Next ==
  \/ \E t \in Turns : TurnStep(t) \/ Process(t) \/ Interrupt(t)
  \/ Route
  \/ \E a \in Adopts : Adoption(a)

Spec == Init /\ [][Next]_vars

\* The runtime's timers fire; a command need not end by itself.
FairSpec == Spec /\ \A t \in Turns : WF_vars(Timeout(t))

-----------------------------------------------------------------------------
(* What has to hold.                                                       *)

TurnPCs == {"next", "stage", "commit", "exec", "run", "drain", "done"}
RequestPCs == {"idle", "checkout", "clean", "done", "failed", "add", "commit",
               "merge", "remove", "delete", "ledger"}

\* The types of the state; a restore under way has a checkpoint of its session.
TypeOK ==
  /\ tree \in [Dirs -> Tree] /\ removed \in BOOLEAN
  /\ head \in Tree /\ branch \in Tree \cup {<<>>} /\ staged \in Tree
  /\ index \in [Sessions -> Tree]
  /\ commits \in [Sessions -> Seq([turn : Turns \cup {"earlier"}, tree : Tree])]
  /\ before \in [Turns -> UNION {[fs -> Turns \cup {"orig", "absent"}] : fs \in SUBSET Files}]
  /\ turn \in [Turns -> [pc : TurnPCs, call : {"edit", "terminal", "gate"},
                         left : 0..Calls, taken : BOOLEAN]]
  /\ proc \in [Turns -> {"none", "shell", "orphan"}]
  /\ stray \subseteq Turns /\ wrote \subseteq Turns /\ failed \subseteq Turns
  /\ req \in [Requests -> [pc : RequestPCs, session : Sessions, commit : Nat,
                            sure : BOOLEAN, late : SUBSET Files]]
  /\ \A r \in Requests : req[r].pc \in {"checkout", "clean"} =>
       req[r].commit \in DOMAIN commits[req[r].session]
  /\ adopts \in Nat /\ removeErrors \in Nat

\* What a turn has written can be undone: a checkpoint of its own is in its
\* session's shadow, with nothing in it that the turn wrote and with every file
\* as it was in the directory the turn works in when the turn staged it, or the
\* ledger has the error of that checkpoint.  So whatever others stage into the
\* same index and write between the two git commands of the checkpoint.  The
\* code does not keep them out, and its checkpoint does not have a file as it
\* was staged if the file has been written in between, nor any file once a
\* restore has staged another checkpoint in between, or a diff of the subagent's
\* session the user's workspace.
Undoable ==
  \A t \in wrote \ failed :
    \E k \in DOMAIN commits[Session(t)] :
      LET saved == commits[Session(t)][k]
      IN  /\ saved.turn = t /\ \A f \in Files : saved.tree[f] # t
          /\ \A f \in DOMAIN before[t] : saved.tree[f] = before[t][f]

\* A restore leaves every file as it was at the checkpoint, and none that was
\* not there, except what tools, commands and merges have written since it
\* began, and provided nobody else has staged anything into the session's
\* index before it read it.
RestoreReverts ==
  [][\A r \in Restores :
       req[r].pc # "done" /\ req'[r].pc = "done" /\ req[r].sure =>
         \A f \in Files \ req[r].late :
           tree'["workspace"][f] = commits[req[r].session][req[r].commit].tree[f]]_vars

\* An adoption that could tell whether the worktree was clean destroys no work
\* with the worktree but what was written while it ran: it does not stop the
\* child's turn and its processes.
AdoptKeepsWork ==
  [][\A a \in Adopts :
       ~removed /\ removed' /\ req[a].pc # req'[a].pc /\ req[a].sure =>
         \A f \in Files \ req[a].late : tree["worktree"][f] = branch[f]]_vars

\* A retried or a second, concurrent adoption is ledgered again only beside an
\* error about the worktree that the first left behind, or has removed.
AdoptRepeats == adopts <= 1 + removeErrors

\* A terminal call returns, and a gate stops waiting for bash, although the
\* command never ends and its descendants hold its output open.
CallsReturn == \A t \in Turns : turn[t].pc = "run" ~> turn[t].pc # "run"

\* The routes of the subagent's session leave the user's workspace alone: they
\* share the orchestrator's notion of the session's files, its jail root.
WorktreeIsolation ==
  [][\A r \in Restores :
       req[r].session = "child" /\ req[r].pc # req'[r].pc
         => tree'["workspace"] = tree["workspace"]]_vars

=============================================================================
