-------------------------- MODULE WorkspaceProofs ---------------------------
(***************************************************************************)
(* What Workspace says of any number of turns, files, restores, diffs and  *)
(* adoptions, whatever tools the models ask for and whichever commands     *)
(* fail: what a turn has written can be undone, a restore restores, an     *)
(* adoption keeps the child's work and is ledgered once.                   *)
(***************************************************************************)
EXTENDS Workspace, SequenceTheorems, FiniteSetTheorems, TLAPS

Request == [pc : RequestPCs, session : Sessions, commit : Nat, sure : BOOLEAN,
            late : SUBSET Files]
TurnState == [pc : TurnPCs, call : {"edit", "terminal", "gate"}, left : Int,
              taken : BOOLEAN]
Checkpoint == [turn : Turns \cup {"earlier"}, tree : Tree]
Writer == Turns \cup {"orig", "absent"}
Partial == UNION {[fs -> Writer] : fs \in SUBSET Files}

\* The types of the files, of what is saved of them, and of who works on them.
FileTypes ==
  /\ tree \in [Dirs -> Tree] /\ head \in Tree /\ branch \in Tree \cup {<<>>}
  /\ staged \in Tree
  /\ index \in [Sessions -> Tree] /\ commits \in [Sessions -> Seq(Checkpoint)]
RequestTypes == req \in [Requests -> Request]
TurnTypes ==
  /\ turn \in [Turns -> TurnState] /\ proc \in [Turns -> {"none", "shell", "orphan"}]
  /\ stray \subseteq Turns /\ wrote \subseteq Turns /\ failed \subseteq Turns

\* No file anywhere is by turn t.
Untouched(t) ==
  \A f \in Files :
    /\ \A d \in Dirs : tree[d][f] # t
    /\ head[f] # t /\ (branch # <<>> => branch[f] # t) /\ staged[f] # t
    /\ \A s \in Sessions : /\ index[s][f] # t
                           /\ \A k \in DOMAIN commits[s] : commits[s][k].tree[f] # t

Fresh == \A t \in Turns \ wrote : Untouched(t)

Saved(t) ==
  \E k \in DOMAIN commits[Session(t)] :
    LET saved == commits[Session(t)][k]
    IN  /\ saved.turn = t /\ \A f \in Files : saved.tree[f] # t
        /\ \A f \in DOMAIN before[t] : saved.tree[f] = before[t][f]

\* Between the two git commands of a checkpoint, the index has what is to be
\* saved, and so has the directory.
Saving(t) ==
  At(t, "commit") /\ ~Gone(Jail(t)) =>
    \A f \in DOMAIN before[t] :
      f \in Files /\ index[Session(t)][f] = before[t][f] /\ tree[Jail(t)][f] = before[t][f]

\* The turn that is about to run a tool, or that waits for a command.
Working(t) ==
  At(t, "exec") \/ (turn[t].pc \in {"run", "drain"} /\ turn[t].call = "terminal")

Waits(t) ==
  /\ proc[t] # "none" => turn[t].pc \in {"run", "drain"}
  /\ turn[t].pc \in {"run", "drain"} => turn[t].call # "edit"
  /\ turn[t].pc \in {"stage", "commit"} => ~turn[t].taken

\* A turn without a checkpoint error has a checkpoint before it has anything
\* that can write, and nothing of its own is in it.
Careful(t) ==
  t \notin failed =>
    /\ t \in wrote \cup stray \/ turn[t].taken => Saved(t)
    /\ Working(t) => turn[t].taken
    /\ turn[t].pc # "done" /\ ~turn[t].taken => t \notin wrote \cup stray

IInv ==
  /\ FileTypes /\ RequestTypes /\ TurnTypes /\ Fresh
  /\ before \in [Turns -> Partial]
  /\ \A t \in Turns : Waits(t) /\ Careful(t) /\ Saving(t)

-----------------------------------------------------------------------------
LEMMA Initially == Init => IInv
<1> SUFFICES ASSUME Init PROVE IInv
  OBVIOUS
<1> DEFINE dispatched == [f \in Files |-> IF f \in Tracked THEN "orig" ELSE "absent"]
<1>1. dispatched \in Tree /\ [f \in Files |-> "absent"] \in Tree
  BY DEF Tree
<1> DEFINE first == [turn |-> "earlier", tree |-> dispatched]
<1>7. first \in Checkpoint /\ <<first>> \in Seq(Checkpoint) /\ <<>> \in Seq(Checkpoint)
  BY <1>1 DEF Checkpoint
<1>8. commits = [s \in Sessions |-> IF s \in Earlier THEN <<first>> ELSE <<>>]
  BY DEF Init
<1>9. commits \in [Sessions -> Seq(Checkpoint)]
  <2> HIDE DEF first
  <2> QED
    BY <1>7, <1>8
<1>2. FileTypes
  BY <1>1, <1>9 DEF Init, FileTypes
<1>3. RequestTypes
  BY DEF Init, RequestTypes, Request, RequestPCs, Sessions
<1>4. TurnTypes
  BY WorkspaceAssumption DEF Init, TurnTypes, TurnState, TurnPCs
<1>5. Fresh
  <2>1. ASSUME NEW t \in Turns, NEW f \in Files PROVE dispatched[f] # t /\ "absent" # t
    BY <2>1, WorkspaceAssumption DEF Turns
  <2>2. ASSUME NEW t \in Turns, NEW f \in Files, NEW s \in Sessions, NEW k \in DOMAIN commits[s]
        PROVE  commits[s][k].tree[f] # t
    <3>1. commits[s] = <<first>> /\ k = 1
      BY <1>8, <2>2
    <3> QED
      BY <2>1, <3>1
  <2> QED
    BY <2>1, <2>2 DEF Init, Fresh, Untouched, Dirs
<1>6. \A t \in Turns : Waits(t) /\ Careful(t) /\ Saving(t)
  BY DEF Init, Waits, Careful, Working, At, Saving
<1>10. before \in [Turns -> Partial]
  <2>1. <<>> \in [{} -> Writer]
    OBVIOUS
  <2>2. <<>> \in Partial
    BY <2>1 DEF Partial
  <2> QED
    BY <2>2 DEF Init
<1> QED
  BY <1>2, <1>3, <1>4, <1>5, <1>6, <1>10 DEF IInv

\* What the histories of requests say changes no type.
LEMMA Histories ==
  ASSUME RequestTypes, NEW d \in Dirs, NEW fs \in SUBSET Files, NEW s \in Sessions
  PROVE  Since(d, fs) \in [Requests -> Request] /\ Restaged(s) \in [Requests -> Request]
<1>1. ASSUME NEW r \in Requests
      PROVE  [req[r] EXCEPT !.late = @ \cup fs] \in Request
             /\ [req[r] EXCEPT !.sure = FALSE] \in Request
  BY <1>1 DEF RequestTypes, Request
<1> QED
  BY <1>1 DEF RequestTypes, Since, Restaged

\* A request at another step, or ended, is still one.
LEMMA Requested ==
  ASSUME NEW q \in [Requests -> Request], NEW r \in Requests, NEW pc \in RequestPCs
  PROVE  /\ [q EXCEPT ![r].pc = pc] \in [Requests -> Request]
         /\ [q EXCEPT ![r] = Over(pc)] \in [Requests -> Request]
<1>1. [q[r] EXCEPT !.pc = pc] \in Request /\ Over(pc) \in Request
  BY DEF Request, Over, Sessions
<1> QED
  BY <1>1

\* A call that returns ends the turn or goes on without forgetting a checkpoint.
LEMMA TurnReturns ==
  ASSUME TurnTypes, NEW t \in Turns, Return(t)
  PROVE  /\ turn' \in [Turns -> TurnState]
         /\ \A u \in Turns : u # t => turn'[u] = turn[u]
         /\ turn'[t].pc \in {"next", "done"} /\ turn'[t].call = "edit"
         /\ turn'[t].pc # "done" => turn'[t].taken = turn[t].taken
         /\ turn'[t].taken => turn[t].taken
<1> DEFINE new == IF turn[t].left = 1 THEN Ended
                  ELSE [pc |-> "next", call |-> "edit", left |-> turn[t].left - 1,
                        taken |-> turn[t].taken]
<1>1. turn' = [turn EXCEPT ![t] = new]
  BY DEF Return
<1>3. turn[t] \in TurnState
  BY DEF TurnTypes
<1>2. /\ new \in TurnState /\ new.pc \in {"next", "done"} /\ new.call = "edit"
      /\ new.pc # "done" => new.taken = turn[t].taken
      /\ new.taken => turn[t].taken
  BY <1>3 DEF TurnState, TurnPCs, Ended
<1> HIDE DEF new
<1> QED
  BY <1>1, <1>2 DEF TurnTypes

\* Commits are only added.
LEMMA SavedKept ==
  ASSUME FileTypes, NEW t \in Turns, Saved(t), before'[t] = before[t],
         \/ commits' = commits
         \/ \E s \in Sessions, c \in Checkpoint : commits' = [commits EXCEPT ![s] = Append(@, c)]
  PROVE  Saved(t)'
<1>1. Session(t) \in Sessions
  BY DEF Session, Sessions
<1>2. PICK k \in DOMAIN commits[Session(t)] :
        /\ commits[Session(t)][k].turn = t
        /\ \A f \in Files : commits[Session(t)][k].tree[f] # t
        /\ \A f \in DOMAIN before[t] : commits[Session(t)][k].tree[f] = before[t][f]
  BY DEF Saved
<1>5. k \in DOMAIN commits[Session(t)]
  BY <1>2
<1>3. commits[Session(t)] \in Seq(Checkpoint)
  BY <1>1 DEF FileTypes
<1>4. k \in DOMAIN commits'[Session(t)] /\ commits'[Session(t)][k] = commits[Session(t)][k]
  <2>1. CASE commits' = commits
    BY <1>5, <2>1
  <2>2. ASSUME NEW s \in Sessions, NEW c \in Checkpoint,
               commits' = [commits EXCEPT ![s] = Append(@, c)]
        PROVE  k \in DOMAIN commits'[Session(t)]
               /\ commits'[Session(t)][k] = commits[Session(t)][k]
    <3>1. commits'[Session(t)] \in {commits[Session(t)], Append(commits[Session(t)], c)}
      BY <1>1, <2>2 DEF FileTypes
    <3> QED
      BY <1>5, <1>3, <3>1
  <2> QED
    BY <2>1, <2>2
<1> QED
  BY <1>2, <1>4 DEF Saved, Session

\* What a step that is not t's own does to what t saves: nothing, unless t is
\* between its two git commands; then no more than forget some files, and what
\* it does not forget stays in the index and in the directory.
LeavesSaved(t) ==
  /\ ~At(t, "commit") => before'[t] = before[t]
  /\ At(t, "commit") /\ ~Gone(Jail(t))' =>
       /\ ~Gone(Jail(t))
       /\ \A f \in DOMAIN before'[t] :
            /\ f \in DOMAIN before[t] /\ before'[t][f] = before[t][f]
            /\ tree'[Jail(t)][f] = tree[Jail(t)][f]
            /\ index'[Session(t)][f] \in {index[Session(t)][f], tree[Jail(t)][f]}

LEMMA SavingKept ==
  ASSUME NEW t \in Turns, Saving(t), LeavesSaved(t), turn'[t] = turn[t]
  PROVE  Saving(t)'
<1>1. At(t, "commit")' <=> At(t, "commit")
  BY DEF At
<1>2. CASE At(t, "commit") /\ ~Gone(Jail(t))'
  BY <1>2 DEF Saving, LeavesSaved, Session, Jail, JailRoot
<1>3. CASE ~At(t, "commit") \/ Gone(Jail(t))'
  BY <1>1, <1>3 DEF Saving, Jail, JailRoot, Session
<1> QED
  BY <1>2, <1>3

\* What is left to be saved of a checkpoint under way.
LEMMA UnsavedFacts ==
  ASSUME before \in [Turns -> Partial], NEW ts, NEW fs, NEW t \in Turns
  PROVE  LET b == Unsaved(ts, fs)[t]
         IN  /\ b \in Partial
             /\ ~At(t, "commit") \/ t \notin ts => b = before[t]
             /\ \A f \in DOMAIN b : f \in DOMAIN before[t] /\ b[f] = before[t][f]
             /\ t \in ts /\ At(t, "commit") => DOMAIN b \cap fs = {}
<1> DEFINE old == before[t]
           b == Unsaved(ts, fs)[t]
<1>1. b = IF t \in ts /\ At(t, "commit") THEN [f \in DOMAIN old \ fs |-> old[f]] ELSE old
  BY DEF Unsaved, At
<1>2. PICK S \in SUBSET Files : old \in [S -> Writer]
  BY DEF Partial
<1>3. [f \in DOMAIN old \ fs |-> old[f]] \in [S \ fs -> Writer] /\ S \ fs \in SUBSET Files
  BY <1>2
<1>4. [f \in DOMAIN old \ fs |-> old[f]] \in Partial
  BY <1>3 DEF Partial
<1>5. b \in Partial
  BY <1>1, <1>4
<1> HIDE DEF old
<1> QED
  BY <1>1, <1>5 DEF old

LEMMA UnsavedTypes ==
  ASSUME before \in [Turns -> Partial], NEW ts, NEW fs
  PROVE  Unsaved(ts, fs) \in [Turns -> Partial]
<1>1. \A t \in Turns : Unsaved(ts, fs)[t] \in Partial
  BY UnsavedFacts
<1> QED
  BY <1>1 DEF Unsaved

LEMMA NothingLeavesSaved ==
  ASSUME IInv, NEW t \in Turns, UNCHANGED <<tree, removed, index, before>>
  PROVE  LeavesSaved(t)
BY DEF IInv, LeavesSaved, Gone, Jail, JailRoot, Session

LEMMA WritesLeaveSaved ==
  ASSUME IInv, NEW t \in Turns, NEW d \in Dirs, NEW fs,
         before' = Unsaved(WorkersIn(d), fs), UNCHANGED <<index, removed>>,
         \A e \in Dirs, f \in Files : tree'[e][f] # tree[e][f] => e = d /\ f \in fs
  PROVE  LeavesSaved(t)
<1> DEFINE b == Unsaved(WorkersIn(d), fs)[t]
<1>1. /\ b \in Partial /\ (~At(t, "commit") \/ t \notin WorkersIn(d) => b = before[t])
      /\ \A f \in DOMAIN b : f \in DOMAIN before[t] /\ b[f] = before[t][f]
      /\ t \in WorkersIn(d) /\ At(t, "commit") => DOMAIN b \cap fs = {}
  BY UnsavedFacts DEF IInv
<1>2. before'[t] = b /\ (t \in WorkersIn(d) <=> Jail(t) = d) /\ Jail(t) \in Dirs
  BY DEF WorkersIn, Jail, JailRoot, Dirs
<1>3. Gone(Jail(t))' <=> Gone(Jail(t))
  BY DEF Gone, Jail, JailRoot, Session
<1> HIDE DEF b
<1>4. \A f \in DOMAIN b : f \in Files
  BY <1>1 DEF Partial
<1>5. ASSUME At(t, "commit"), NEW f \in DOMAIN b PROVE tree'[Jail(t)][f] = tree[Jail(t)][f]
  BY <1>1, <1>2, <1>4, <1>5
<1> QED
  BY <1>1, <1>2, <1>3, <1>5 DEF LeavesSaved

\* Of the turns ts, those that work elsewhere, nothing is left to be saved.
LEMMA StagesLeaveSaved ==
  ASSUME IInv, NEW t \in Turns, NEW s \in Sessions, NEW new, NEW ts,
         before' = Unsaved(ts, Files), index' = [index EXCEPT ![s] = new],
         UNCHANGED <<tree, removed>>,
         Session(t) = s => t \in ts \/ new = tree[Jail(t)]
  PROVE  LeavesSaved(t)
<1> DEFINE b == Unsaved(ts, Files)[t]
<1>1. /\ b \in Partial /\ (~At(t, "commit") \/ t \notin ts => b = before[t])
      /\ \A f \in DOMAIN b : f \in DOMAIN before[t] /\ b[f] = before[t][f]
      /\ t \in ts /\ At(t, "commit") => DOMAIN b \cap Files = {}
  BY UnsavedFacts DEF IInv
<1>2. before'[t] = b /\ Session(t) \in Sessions
  BY DEF Session, Sessions
<1>3. Gone(Jail(t))' <=> Gone(Jail(t))
  BY DEF Gone, Jail, JailRoot, Session
<1> HIDE DEF b
<1>4. \A f \in DOMAIN b : f \in Files
  BY <1>1 DEF Partial
<1>5. ASSUME At(t, "commit"), NEW f \in DOMAIN b
      PROVE  index'[Session(t)][f] \in {index[Session(t)][f], tree[Jail(t)][f]}
  <2>1. t \notin ts
    BY <1>1, <1>4, <1>5
  <2> QED
    BY <1>2, <2>1 DEF IInv, FileTypes
<1> QED
  BY <1>1, <1>2, <1>3, <1>5 DEF LeavesSaved

\* Of the turns and their processes, the step changes those of t alone.
OnlyTurn(t) ==
  /\ \A u \in Turns \ {t} : turn'[u] = turn[u] /\ proc'[u] = proc[u]
  /\ stray' \ {t} = stray \ {t} /\ failed' \ {t} = failed \ {t}

\* And t stays careful.
StaysCareful(t) ==
  t \notin failed' =>
    /\ t \notin failed
    /\ t \in stray' \/ turn'[t].taken => Saved(t)
    /\ Working(t)' => turn'[t].taken
    /\ turn'[t].pc # "done" /\ ~turn'[t].taken => t \notin wrote \cup stray'

\* A step of one turn that touches no file, no index and no commit.
LEMMA TurnStepKeeps ==
  ASSUME IInv, UNCHANGED <<files, index, commits, wrote, req>>, NEW t \in Turns, TurnTypes',
         before' \in [Turns -> Partial], \A u \in Turns \ {t} : before'[u] = before[u],
         t \in failed' \/ before'[t] = before[t],
         turn'[t].pc # "commit" \/ (turn'[t] = turn[t] /\ before'[t] = before[t]),
         OnlyTurn(t), Waits(t)', StaysCareful(t)
  PROVE  IInv'
<1>1. UNCHANGED <<tree, removed, head, branch, staged, index, commits, wrote, req>>
  BY DEF files
<1>2. FileTypes' /\ RequestTypes'
  BY <1>1 DEF IInv, FileTypes, RequestTypes
<1>3. Fresh'
  BY <1>1 DEF IInv, Fresh, Untouched
<1>4. \A u \in Turns : before'[u] = before[u] => (Saved(u)' <=> Saved(u))
  BY <1>1 DEF Saved, Session
<1>5. Careful(t)'
  BY <1>1, <1>4 DEF IInv, Careful, StaysCareful
<1>6. ASSUME NEW u \in Turns, u # t PROVE Waits(u)' /\ Careful(u)' /\ Saving(u)'
  <2>1. turn'[u] = turn[u] /\ proc'[u] = proc[u] /\ wrote' = wrote /\ before'[u] = before[u]
    BY <1>1, <1>6 DEF OnlyTurn
  <2>2. (u \in stray' <=> u \in stray) /\ (u \in failed' <=> u \in failed)
    BY <1>6 DEF OnlyTurn
  <2>3. (Working(u)' <=> Working(u)) /\ (Waits(u)' <=> Waits(u))
    BY <2>1 DEF Working, At, Waits
  <2>4. Careful(u)' <=> Careful(u)
    BY <2>1, <2>2, <2>3, <1>4 DEF Careful
  <2>5. Saving(u)' <=> Saving(u)
    BY <1>1, <2>1 DEF Saving, At, Gone, Jail, JailRoot, Session
  <2> QED
    BY <2>3, <2>4, <2>5 DEF IInv
<1>7. Saving(t)'
  BY <1>1 DEF IInv, Saving, At, Gone, Jail, JailRoot, Session
<1> QED
  BY <1>2, <1>3, <1>5, <1>6, <1>7 DEF IInv

LEMMA QuietStepKeeps ==
  ASSUME IInv, UNCHANGED <<files, shadow, wrote, req>>, NEW t \in Turns, TurnTypes',
         turn'[t].pc # "commit" \/ turn' = turn, OnlyTurn(t), Waits(t)', StaysCareful(t)
  PROVE  IInv'
<1>1. UNCHANGED <<index, commits, before>>
  BY DEF shadow
<1> QED
  BY <1>1, TurnStepKeeps DEF IInv

\* A step of a request's that adds no commit.
LEMMA RequestKeeps ==
  ASSUME IInv, UNCHANGED <<tasks, commits>>, FileTypes', RequestTypes', Fresh',
         \A t \in Turns : LeavesSaved(t), before' \in [Turns -> Partial]
  PROVE  IInv'
<1>1. UNCHANGED <<turn, proc, stray, wrote, failed, commits>>
  BY DEF tasks
<1>2. TurnTypes'
  BY <1>1 DEF IInv, TurnTypes
<1>3. ASSUME NEW t \in Turns PROVE Waits(t)' /\ Careful(t)' /\ Saving(t)'
  <2>1. before'[t] = before[t] => (Saved(t)' <=> Saved(t))
    BY <1>1 DEF Saved, Session
  <2>2. At(t, "commit") \/ before'[t] = before[t]
    BY DEF LeavesSaved
  <2>3. At(t, "commit") => t \in failed \/ (t \notin wrote \cup stray /\ ~turn[t].taken)
    BY DEF IInv, Waits, Careful, At
  <2>4. Waits(t)' /\ Careful(t)'
    BY <1>1, <2>1, <2>2, <2>3 DEF IInv, Waits, Careful, Working, At
  <2>5. Saving(t)'
    BY <1>1, SavingKept DEF IInv
  <2> QED
    BY <2>4, <2>5
<1> QED
  BY <1>2, <1>3 DEF IInv

-----------------------------------------------------------------------------
(* The steps of turns that touch no file.                                  *)

LEMMA CallStep ==
  ASSUME IInv, NEW t \in Turns, NEW kind \in Tools(t), Call(t, kind)
  PROVE  IInv'
<1>1. turn[t] \in TurnState /\ turn[t].pc = "next" /\ kind \in {"edit", "terminal", "gate"}
      /\ proc[t] = "none"
  BY WorkspaceAssumption DEF IInv, TurnTypes, Call, At, Tools, Waits
<1>2. UNCHANGED <<files, shadow, stray, wrote, failed, req>>
  BY DEF Call
<1> DEFINE pc == IF kind = "gate" THEN "run" ELSE IF turn[t].taken THEN "exec" ELSE "stage"
<1>3. /\ turn' = [turn EXCEPT ![t].call = kind, ![t].pc = pc]
      /\ proc' = IF kind = "gate" THEN [proc EXCEPT ![t] = "shell"] ELSE proc
  BY DEF Call
<1>4. /\ turn' \in [Turns -> TurnState]
      /\ \A u \in Turns \ {t} : turn'[u] = turn[u]
      /\ turn'[t].pc = pc /\ turn'[t].call = kind /\ turn'[t].taken = turn[t].taken
  BY <1>1, <1>3 DEF IInv, TurnTypes, TurnState, TurnPCs
<1>5. TurnTypes' /\ Waits(t)' /\ OnlyTurn(t)
  BY <1>1, <1>2, <1>3, <1>4 DEF IInv, TurnTypes, Waits, OnlyTurn
<1>6. StaysCareful(t)
  BY <1>1, <1>2, <1>4 DEF IInv, Careful, Working, At, StaysCareful
<1> QED
  BY <1>2, <1>4, <1>5, <1>6, QuietStepKeeps

\* The turn's record at another step.
LEMMA AtAnotherStep ==
  ASSUME TurnTypes, NEW t \in Turns, NEW pc \in TurnPCs, Goto(t, pc)
  PROVE  /\ turn' \in [Turns -> TurnState]
         /\ \A u \in Turns \ {t} : turn'[u] = turn[u]
         /\ turn'[t].pc = pc /\ turn'[t].call = turn[t].call
         /\ turn'[t].taken = turn[t].taken
<1>1. turn' = [turn EXCEPT ![t].pc = pc] /\ turn[t] \in TurnState
  BY DEF Goto, TurnTypes
<1> QED
  BY <1>1 DEF TurnTypes, TurnState

LEMMA CheckpointFailsStep ==
  ASSUME IInv, NEW t \in Turns, CheckpointFails(t)
  PROVE  IInv'
<1>1. /\ turn[t].pc \in {"stage", "commit"} /\ Goto(t, "exec") /\ failed' = failed \cup {t}
      /\ before' = [before EXCEPT ![t] = <<>>]
      /\ UNCHANGED <<files, index, commits, proc, stray, wrote, req>>
  BY DEF CheckpointFails
<1>2. /\ turn' \in [Turns -> TurnState]
      /\ \A u \in Turns \ {t} : turn'[u] = turn[u]
      /\ turn'[t].pc = "exec"
  BY <1>1, AtAnotherStep DEF IInv, TurnPCs
<1>3. TurnTypes' /\ Waits(t)' /\ OnlyTurn(t)
  BY <1>1, <1>2 DEF IInv, TurnTypes, Waits, OnlyTurn
<1>4. StaysCareful(t)
  BY <1>1 DEF StaysCareful
<1>5. /\ before' \in [Turns -> Partial]
      /\ \A u \in Turns \ {t} : before'[u] = before[u]
  <2>1. <<>> \in [{} -> Writer]
    OBVIOUS
  <2>2. <<>> \in Partial
    BY <2>1 DEF Partial
  <2> QED
    BY <1>1, <2>2 DEF IInv
<1> QED
  BY <1>1, <1>2, <1>3, <1>4, <1>5, TurnStepKeeps

\* A call returns, and no process of it is waited for; it may have left one.
LEMMA ReturnKeeps ==
  ASSUME IInv, NEW t \in Turns, turn[t].pc # "done", Return(t), proc'[t] = "none",
         proc' \in [Turns -> {"none", "shell", "orphan"}],
         \A u \in Turns \ {t} : proc'[u] = proc[u],
         UNCHANGED <<files, shadow, wrote, failed, req>>,
         stray' \in {stray, stray \cup {t}},
         t \in stray' \ stray => Working(t)
  PROVE  IInv'
<1>1. /\ turn' \in [Turns -> TurnState]
      /\ \A u \in Turns : u # t => turn'[u] = turn[u]
      /\ turn'[t].pc \in {"next", "done"} /\ turn'[t].call = "edit"
      /\ turn'[t].pc # "done" => turn'[t].taken = turn[t].taken
      /\ turn'[t].taken => turn[t].taken
  BY TurnReturns DEF IInv
<1>2. TurnTypes' /\ Waits(t)' /\ OnlyTurn(t)
  BY <1>1 DEF IInv, TurnTypes, Waits, OnlyTurn
<1>3. StaysCareful(t)
  BY <1>1 DEF IInv, Careful, Working, At, StaysCareful
<1> QED
  BY <1>1, <1>2, <1>3, QuietStepKeeps

LEMMA SpawnStep ==
  ASSUME IInv, NEW t \in Turns, Spawn(t)
  PROVE  IInv'
<1>1. /\ At(t, "exec") /\ turn[t].call = "terminal"
      /\ UNCHANGED <<files, shadow, stray, wrote, failed, req>>
  BY DEF Spawn
<1>2. CASE Gone(Jail(t))
  <2>1. Return(t) /\ proc' = proc
    BY <1>2 DEF Spawn
  <2>2. /\ turn[t].pc # "done" /\ proc'[t] = "none"
        /\ proc' \in [Turns -> {"none", "shell", "orphan"}]
        /\ \A u \in Turns \ {t} : proc'[u] = proc[u]
    BY <1>1, <2>1 DEF IInv, Waits, TurnTypes, At
  <2> QED
    BY <1>1, <2>1, <2>2, ReturnKeeps
<1>3. CASE ~Gone(Jail(t))
  <2>1. Goto(t, "run") /\ proc' = [proc EXCEPT ![t] = "shell"]
    BY <1>3 DEF Spawn
  <2>2. /\ turn' \in [Turns -> TurnState]
        /\ \A u \in Turns \ {t} : turn'[u] = turn[u]
        /\ turn'[t].pc = "run" /\ turn'[t].taken = turn[t].taken
        /\ turn'[t].call = turn[t].call
    BY <2>1, AtAnotherStep DEF IInv, TurnPCs
  <2>3. TurnTypes' /\ Waits(t)' /\ OnlyTurn(t)
    BY <1>1, <2>1, <2>2 DEF IInv, TurnTypes, Waits, OnlyTurn
  <2>4. StaysCareful(t)
    BY <1>1, <2>2 DEF IInv, Careful, Working, At, StaysCareful
  <2> QED
    BY <1>1, <2>2, <2>3, <2>4, QuietStepKeeps
<1> QED
  BY <1>2, <1>3

\* A process that ends, or that its call no longer waits for.
LEMMA ProcessKeeps ==
  ASSUME IInv, NEW t \in Turns, turn[t].pc \in {"run", "drain"},
         NEW p \in {"none", "shell", "orphan"}, proc' = [proc EXCEPT ![t] = p],
         Goto(t, "drain") \/ turn' = turn,
         UNCHANGED <<files, shadow, wrote, failed, req, stray>>
  PROVE  IInv'
<1>1. /\ turn' \in [Turns -> TurnState]
      /\ \A u \in Turns \ {t} : turn'[u] = turn[u]
      /\ turn'[t].pc \in {"run", "drain"} /\ turn'[t].call = turn[t].call
      /\ turn'[t].taken = turn[t].taken
  BY AtAnotherStep DEF IInv, TurnPCs, TurnTypes
<1>2. TurnTypes' /\ Waits(t)' /\ OnlyTurn(t)
  BY <1>1 DEF IInv, TurnTypes, Waits, OnlyTurn
<1>3. StaysCareful(t)
  BY <1>1 DEF IInv, Careful, Working, At, StaysCareful
<1> QED
  BY <1>1, <1>2, <1>3, QuietStepKeeps

LEMMA ShellEndsStep ==
  ASSUME IInv, NEW t \in Turns, ShellEnds(t)
  PROVE  IInv'
<1>1. PICK left \in {"none", "orphan"} : proc' = [proc EXCEPT ![t] = left]
  BY DEF ShellEnds
<1>2. turn[t].pc \in {"run", "drain"}
  BY DEF ShellEnds, IInv, Waits
<1>3. Goto(t, "drain") \/ turn' = turn
  BY DEF ShellEnds
<1>4. UNCHANGED <<files, shadow, wrote, failed, req, stray>>
  BY DEF ShellEnds
<1> QED
  BY <1>1, <1>2, <1>3, <1>4, ProcessKeeps

LEMMA OrphanEndsStep ==
  ASSUME IInv, NEW t \in Turns, OrphanEnds(t)
  PROVE  IInv'
<1>1. turn' = turn /\ UNCHANGED <<files, shadow, wrote, failed, req>>
  BY DEF OrphanEnds
<1>2. CASE proc[t] = "orphan" /\ proc' = [proc EXCEPT ![t] = "none"] /\ UNCHANGED stray
  <2>1. turn[t].pc \in {"run", "drain"}
    BY <1>2 DEF IInv, Waits
  <2> QED
    BY <1>1, <1>2, <2>1, ProcessKeeps
<1>3. CASE stray' = stray \ {t} /\ UNCHANGED proc
  <2>1. TurnTypes' /\ Waits(t)' /\ OnlyTurn(t)
    BY <1>1, <1>3 DEF IInv, TurnTypes, Waits, OnlyTurn
  <2>2. StaysCareful(t)
    BY <1>1, <1>3 DEF IInv, Careful, Working, At, StaysCareful
  <2> QED
    BY <1>1, <2>1, <2>2, QuietStepKeeps
<1> QED
  BY <1>2, <1>3 DEF OrphanEnds

LEMMA CallEndsStep ==
  ASSUME IInv, NEW t \in Turns, CallEnds(t)
  PROVE  IInv'
<1>1. /\ turn[t].pc # "done" /\ Return(t) /\ proc' = proc /\ proc[t] = "none"
      /\ UNCHANGED <<files, shadow, wrote, failed, req>> /\ stray' = stray
  BY DEF CallEnds
<1>2. proc' \in [Turns -> {"none", "shell", "orphan"}]
  BY <1>1 DEF IInv, TurnTypes
<1> QED
  BY <1>1, <1>2, ReturnKeeps

LEMMA TimeoutStep ==
  ASSUME IInv, NEW t \in Turns, Timeout(t)
  PROVE  IInv'
<1>1. At(t, "run") /\ UNCHANGED <<files, shadow, wrote, failed, req>>
  BY DEF Timeout
<1>2. turn[t].call \in {"edit", "terminal", "gate"}
      /\ proc \in [Turns -> {"none", "shell", "orphan"}]
  BY DEF IInv, TurnTypes, TurnState
<1>3. PICK orphan \in BOOLEAN :
        IF turn[t].call = "gate"
        THEN /\ Goto(t, "drain") /\ UNCHANGED stray
             /\ proc' = [proc EXCEPT ![t] = IF orphan THEN "orphan" ELSE "none"]
        ELSE /\ Return(t)
             /\ proc' = [proc EXCEPT ![t] = "none"]
             /\ stray' = IF orphan THEN stray \cup {t} ELSE stray
  BY DEF Timeout
<1>4. CASE turn[t].call = "gate"
  <2> DEFINE p == IF orphan THEN "orphan" ELSE "none"
  <2>1. Goto(t, "drain") /\ UNCHANGED stray /\ proc' = [proc EXCEPT ![t] = p]
    BY <1>3, <1>4
  <2>2. p \in {"none", "shell", "orphan"} /\ turn[t].pc \in {"run", "drain"}
    BY <1>1 DEF At
  <2> HIDE DEF p
  <2> QED
    BY <1>1, <2>1, <2>2, ProcessKeeps
<1>5. CASE turn[t].call = "terminal"
  <2>1. Return(t) /\ proc' = [proc EXCEPT ![t] = "none"]
        /\ stray' \in {stray, stray \cup {t}}
    BY <1>3, <1>5
  <2>2. /\ turn[t].pc # "done" /\ proc'[t] = "none" /\ Working(t)
        /\ proc' \in [Turns -> {"none", "shell", "orphan"}]
        /\ \A u \in Turns \ {t} : proc'[u] = proc[u]
    BY <1>1, <1>2, <1>5, <2>1 DEF Working, At
  <2> QED
    BY <1>1, <2>1, <2>2, ReturnKeeps
<1>6. turn[t].call # "edit"
  BY <1>1 DEF IInv, Waits, At
<1> QED
  BY <1>2, <1>4, <1>5, <1>6

LEMMA InterruptStep ==
  ASSUME IInv, NEW t \in Turns, Interrupt(t)
  PROVE  IInv'
<1>1. /\ turn[t].pc \in {"next", "run", "drain"}
      /\ turn' = [turn EXCEPT ![t] = Ended] /\ proc' = [proc EXCEPT ![t] = "none"]
      /\ UNCHANGED <<files, shadow, wrote, failed, req>>
      /\ stray' = IF turn[t].call = "terminal" /\ proc[t] # "none"
                  THEN stray \cup {t} ELSE stray
  BY DEF Interrupt
<1>2. /\ turn' \in [Turns -> TurnState] /\ turn'[t] = Ended
      /\ \A u \in Turns \ {t} : turn'[u] = turn[u] /\ proc'[u] = proc[u]
      /\ proc' \in [Turns -> {"none", "shell", "orphan"}] /\ proc'[t] = "none"
  BY <1>1 DEF IInv, TurnTypes, TurnState, TurnPCs, Ended
<1>3. TurnTypes' /\ Waits(t)' /\ OnlyTurn(t)
  BY <1>1, <1>2 DEF IInv, TurnTypes, Waits, OnlyTurn, Ended
<1>4. StaysCareful(t)
  BY <1>1, <1>2 DEF IInv, Waits, Careful, Working, At, StaysCareful, Ended
<1> QED
  BY <1>1, <1>2, <1>3, <1>4, QuietStepKeeps DEF Ended

-----------------------------------------------------------------------------
(* The steps of turns that stage, commit and write.                        *)

LEMMA StageStep ==
  ASSUME IInv, NEW t \in Turns, Stage(t)
  PROVE  IInv'
<1> DEFINE d == Jail(t)
           s == Session(t)
<1>1. d \in Dirs /\ s \in Sessions
  BY DEF Jail, JailRoot, Session, Sessions, Dirs
<1>2. /\ At(t, "stage") /\ Goto(t, "commit")
      /\ index' = [index EXCEPT ![s] = tree[d]] /\ req' = Restaged(s)
      /\ before' = [before EXCEPT ![t] = tree[d]]
      /\ UNCHANGED <<tree, removed, head, branch, staged, commits, proc, stray, wrote, failed>>
  BY DEF Stage, files
<1>3. FileTypes' /\ RequestTypes'
  BY <1>1, <1>2, Histories DEF IInv, FileTypes, RequestTypes
<1>4. Fresh'
  <2>1. ASSUME NEW q \in Sessions PROVE index'[q] = IF q = s THEN tree[d] ELSE index[q]
    BY <1>1, <1>2, <2>1 DEF IInv, FileTypes
  <2> QED
    BY <1>1, <1>2, <2>1 DEF IInv, Fresh, Untouched
<1>5. /\ turn' \in [Turns -> TurnState]
      /\ \A u \in Turns \ {t} : turn'[u] = turn[u]
      /\ turn'[t].pc = "commit" /\ turn'[t].taken = turn[t].taken
  BY <1>2, AtAnotherStep DEF IInv, TurnPCs
<1>6. TurnTypes'
  BY <1>2, <1>5 DEF IInv, TurnTypes
<1>7. Waits(t)' /\ Careful(t)'
  BY <1>2, <1>5 DEF IInv, Waits, Careful, Working, At
<1>8. tree[d] \in Tree /\ tree[d] \in Partial /\ before'[t] = tree[d] /\ index'[s] = tree[d]
  BY <1>1, <1>2 DEF IInv, FileTypes, Tree, Partial, Writer
<1>9. Saving(t)'
  BY <1>2, <1>8 DEF Saving, Tree, Session, Jail, JailRoot
<1>10. ASSUME NEW u \in Turns \ {t} PROVE Waits(u)' /\ Careful(u)' /\ Saving(u)'
  <2>1. turn'[u] = turn[u] /\ before'[u] = before[u]
    BY <1>2, <1>5 DEF IInv
  <2>2. Saved(u)' <=> Saved(u)
    BY <1>2, <2>1 DEF Saved, Session
  <2>3. Waits(u)' /\ Careful(u)'
    BY <1>2, <2>1, <2>2 DEF IInv, Waits, Careful, Working, At
  <2>4. (Session(u) = s => Jail(u) = d) /\ Session(u) \in Sessions
    BY DEF Jail, Session, Sessions
  <2>5. index'[Session(u)] \in {index[Session(u)], tree[Jail(u)]}
    BY <1>2, <2>4 DEF IInv, FileTypes
  <2>6. LeavesSaved(u)
    BY <1>2, <2>1, <2>5 DEF LeavesSaved, Gone, Jail, JailRoot, Session
  <2> QED
    BY <2>1, <2>3, <2>6, SavingKept DEF IInv
<1>11. before' \in [Turns -> Partial]
  BY <1>2, <1>8 DEF IInv
<1> QED
  BY <1>3, <1>4, <1>6, <1>7, <1>9, <1>10, <1>11 DEF IInv

\* The index holds nothing by a turn that has not written, whoever staged it.
LEMMA CommitStep ==
  ASSUME IInv, NEW t \in Turns, Commit(t)
  PROVE  IInv'
<1> DEFINE s == Session(t)
           c == [turn |-> t, tree |-> index[s]]
<1>1. s \in Sessions /\ c \in Checkpoint
  BY DEF Session, Sessions, Checkpoint, IInv, FileTypes
<1>2. /\ At(t, "commit") /\ commits' = [commits EXCEPT ![s] = Append(@, c)]
      /\ turn' = [turn EXCEPT ![t].pc = "exec", ![t].taken = TRUE]
      /\ ~Gone(Jail(t))
      /\ UNCHANGED <<tree, removed, head, branch, staged, index, before, proc, stray, wrote,
                     failed, req>>
  BY DEF Commit, files
<1>3. /\ turn' \in [Turns -> TurnState]
      /\ \A u \in Turns \ {t} : turn'[u] = turn[u]
      /\ turn'[t].pc = "exec" /\ turn'[t].taken
  BY <1>2 DEF IInv, TurnTypes, TurnState, TurnPCs
<1> HIDE DEF c
<1>4. /\ commits' \in [Sessions -> Seq(Checkpoint)]
      /\ commits'[s] = Append(commits[s], c) /\ commits[s] \in Seq(Checkpoint)
      /\ \A q \in Sessions \ {s} : commits'[q] = commits[q]
  BY <1>1, <1>2 DEF IInv, FileTypes
<1>5. FileTypes' /\ RequestTypes' /\ TurnTypes'
  BY <1>2, <1>3, <1>4 DEF IInv, FileTypes, RequestTypes, TurnTypes
<1>6. Fresh'
  <2>1. ASSUME NEW q \in Sessions, NEW k \in DOMAIN commits'[q]
        PROVE  \/ commits'[q][k].tree = index[s] /\ q = s
               \/ k \in DOMAIN commits[q] /\ commits'[q][k] = commits[q][k]
    <3>1. CASE q # s
      BY <1>4, <2>1, <3>1
    <3>2. CASE q = s
      <4>1. k \in 1 .. Len(commits[s]) + 1
        BY <1>4, <2>1, <3>2
      <4>2. commits'[s][k] = IF k = Len(commits[s]) + 1 THEN c ELSE commits[s][k]
        BY <1>4, <4>1
      <4> QED
        BY <1>4, <3>2, <4>1, <4>2 DEF c
    <3> QED
      BY <3>1, <3>2
  <2> QED
    BY <1>1, <1>2, <2>1 DEF IInv, Fresh, Untouched
<1>7. Saved(t)' \/ t \in failed
  <2>1. SUFFICES ASSUME t \notin failed PROVE Saved(t)'
    OBVIOUS
  <2>2. t \notin wrote
    BY <1>2, <2>1 DEF IInv, Waits, Careful, At
  <2>3. \A f \in Files : index[s][f] # t
    BY <1>1, <2>2 DEF IInv, Fresh, Untouched
  <2>4. LET k == Len(commits[s]) + 1
        IN  k \in DOMAIN commits'[s] /\ commits'[s][k] = c
    BY <1>4
  <2>5. c.turn = t /\ c.tree = index[s]
    BY DEF c
  <2>6. \A f \in DOMAIN before'[t] : index[s][f] = before'[t][f]
    BY <1>2 DEF IInv, Saving
  <2> QED
    BY <2>3, <2>4, <2>5, <2>6 DEF Saved, Session
<1>8. ASSUME NEW u \in Turns PROVE Waits(u)' /\ Careful(u)' /\ Saving(u)'
  <2>1. Saved(u) => Saved(u)'
    BY <1>1, <1>2, SavedKept DEF IInv
  <2>4. Saving(u)'
    BY <1>2, <1>3 DEF IInv, Saving, At, Gone, Jail, JailRoot, Session
  <2>2. CASE u = t
    BY <1>2, <1>3, <1>7, <2>1, <2>2, <2>4 DEF IInv, Waits, Careful, Working, At
  <2>3. CASE u # t
    <3>1. turn'[u] = turn[u]
      BY <1>3, <2>3
    <3> QED
      BY <1>2, <2>1, <2>4, <3>1 DEF IInv, Waits, Careful, Working, At
  <2> QED
    BY <2>2, <2>3, <2>4
<1> QED
  BY <1>2, <1>5, <1>6, <1>8 DEF IInv

\* A tool that writes a file: only what t has written changes.
LEMMA WriteKeeps ==
  ASSUME IInv, NEW t \in Turns, NEW f \in Files, ToolWrites(t, f),
         t \notin failed => Saved(t) /\ (turn[t].pc # "done" => turn[t].taken),
         UNCHANGED <<removed, head, branch, staged, index, commits>>
  PROVE  /\ FileTypes' /\ RequestTypes' /\ Fresh' /\ wrote' = wrote \cup {t}
         /\ before' \in [Turns -> Partial] /\ \A u \in Turns : LeavesSaved(u)
<1> DEFINE d == Jail(t)
<1>1. d \in Dirs /\ tree' = [tree EXCEPT ![d][f] = t] /\ wrote' = wrote \cup {t}
      /\ req' = Since(d, {f}) /\ before' = Unsaved(WorkersIn(d), {f})
  BY DEF ToolWrites, Jail, JailRoot, Session, Dirs
<1>2. /\ tree' \in [Dirs -> Tree]
      /\ \A e \in Dirs, g \in Files : tree'[e][g] \in {tree[e][g], t}
  BY <1>1 DEF IInv, FileTypes, Tree
<1>3. FileTypes' /\ RequestTypes'
  BY <1>1, <1>2, Histories DEF IInv, FileTypes, RequestTypes, Sessions
<1>4. Fresh'
  BY <1>1, <1>2 DEF IInv, Fresh, Untouched
<1>5. before' \in [Turns -> Partial]
  BY <1>1, UnsavedTypes DEF IInv
<1>6. \A e \in Dirs, g \in Files : tree'[e][g] # tree[e][g] => e = d /\ g \in {f}
  BY <1>1 DEF IInv, FileTypes, Tree
<1>7. \A u \in Turns : LeavesSaved(u)
  BY <1>1, <1>6, WritesLeaveSaved
<1> QED
  BY <1>1, <1>3, <1>4, <1>5, <1>7

LEMMA CommandWritesStep ==
  ASSUME IInv, NEW t \in Turns, CommandWrites(t)
  PROVE  IInv'
<1>1. PICK f \in Files : ToolWrites(t, f)
  BY WorkspaceAssumption DEF CommandWrites
<1>2. /\ t \in stray \/ (turn[t].call = "terminal" /\ proc[t] # "none")
      /\ UNCHANGED <<removed, head, branch, staged, index, commits, turn, proc, stray, failed>>
  BY DEF CommandWrites
<1>3. t \notin failed => Saved(t) /\ (turn[t].pc # "done" => turn[t].taken)
  BY <1>2 DEF IInv, Waits, Careful, Working, At
<1>4. /\ FileTypes' /\ RequestTypes' /\ Fresh' /\ wrote' = wrote \cup {t}
      /\ before' \in [Turns -> Partial] /\ \A u \in Turns : LeavesSaved(u)
  BY <1>1, <1>2, <1>3, WriteKeeps
<1>5. TurnTypes'
  BY <1>2, <1>4 DEF IInv, TurnTypes
<1>6. ASSUME NEW u \in Turns PROVE Waits(u)' /\ Careful(u)' /\ Saving(u)'
  <2>1. At(u, "commit") \/ before'[u] = before[u]
    BY <1>4 DEF LeavesSaved
  <2>2. before'[u] = before[u] => (Saved(u)' <=> Saved(u))
    BY <1>2 DEF Saved, Session
  <2>3. At(u, "commit") => u \in failed \/ (u \notin wrote \cup stray /\ ~turn[u].taken)
    BY DEF IInv, Waits, Careful, At
  <2>4. At(u, "commit") /\ u = t => u \in failed
    BY <1>2, <2>3 DEF IInv, Waits, At
  <2>5. Waits(u)' /\ Careful(u)'
    BY <1>2, <1>3, <1>4, <2>1, <2>2, <2>3, <2>4 DEF IInv, Waits, Careful, Working, At
  <2> QED
    BY <1>2, <1>4, <2>5, SavingKept DEF IInv
<1> QED
  BY <1>4, <1>5, <1>6 DEF IInv

LEMMA EditStep ==
  ASSUME IInv, NEW t \in Turns, Edit(t)
  PROVE  IInv'
<1>1. /\ turn[t].pc = "exec" /\ Return(t)
      /\ UNCHANGED <<removed, head, branch, staged, index, commits, proc, stray, failed>>
  BY DEF Edit, At
<1>2. proc[t] = "none" /\ proc \in [Turns -> {"none", "shell", "orphan"}]
  BY <1>1 DEF IInv, Waits, TurnTypes
<1>3. CASE UNCHANGED <<tree, wrote, req, before>>
  <2>1. UNCHANGED <<files, shadow, wrote, failed, req>>
    BY <1>1, <1>3 DEF files, shadow
  <2>2. turn[t].pc # "done" /\ proc' = proc /\ stray' = stray
    BY <1>1
  <2> QED
    BY <1>1, <1>2, <2>1, <2>2, ReturnKeeps
<1>4. ASSUME NEW f \in Files, ToolWrites(t, f) PROVE IInv'
  <2>1. t \notin failed => Saved(t) /\ turn[t].taken
    BY <1>1 DEF IInv, Careful, Working, At
  <2>2. /\ FileTypes' /\ RequestTypes' /\ Fresh' /\ wrote' = wrote \cup {t}
        /\ before' \in [Turns -> Partial] /\ \A u \in Turns : LeavesSaved(u)
    BY <1>1, <1>4, <2>1, WriteKeeps
  <2>3. /\ turn' \in [Turns -> TurnState]
        /\ \A u \in Turns : u # t => turn'[u] = turn[u]
        /\ turn'[t].pc \in {"next", "done"} /\ turn'[t].call = "edit"
        /\ turn'[t].pc # "done" => turn'[t].taken = turn[t].taken
        /\ turn'[t].taken => turn[t].taken
    BY <1>1, TurnReturns DEF IInv
  <2>4. TurnTypes'
    BY <1>1, <2>2, <2>3 DEF IInv, TurnTypes
  <2>6. ASSUME NEW u \in Turns
        PROVE  /\ At(u, "commit") \/ before'[u] = before[u]
               /\ before'[u] = before[u] => (Saved(u)' <=> Saved(u))
    BY <1>1, <2>2 DEF LeavesSaved, Saved, Session
  <2>7. Waits(t)' /\ Careful(t)' /\ Saving(t)'
    <3>1. before'[t] = before[t]
      BY <1>1, <2>6 DEF At
    <3> QED
      BY <1>1, <1>2, <2>1, <2>2, <2>3, <2>6, <3>1 DEF IInv, Waits, Careful, Working, At, Saving
  <2>5. ASSUME NEW u \in Turns \ {t} PROVE Waits(u)' /\ Careful(u)' /\ Saving(u)'
    <3>1. turn'[u] = turn[u]
      BY <2>3
    <3>2. At(u, "commit") => u \in failed \/ (u \notin wrote \cup stray /\ ~turn[u].taken)
      BY DEF IInv, Waits, Careful, At
    <3>3. Waits(u)' /\ Careful(u)'
      BY <1>1, <2>2, <2>6, <3>1, <3>2 DEF IInv, Waits, Careful, Working, At
    <3> QED
      BY <2>2, <3>1, <3>3, SavingKept DEF IInv
  <2> QED
    BY <2>2, <2>4, <2>5, <2>7 DEF IInv
<1> QED
  BY <1>3, <1>4 DEF Edit

-----------------------------------------------------------------------------
(* Requests copy what is in some tree to another, and write nothing of     *)
(* their own.                                                              *)

\* A request that changes neither files nor shadow.
LEMMA OtherRequest ==
  ASSUME IInv, UNCHANGED <<files, shadow, tasks>>, RequestTypes'
  PROVE  IInv'
<1>1. UNCHANGED <<tree, removed, head, branch, staged, index, commits, before, wrote>>
  BY DEF files, shadow, tasks
<1>2. FileTypes' /\ Fresh'
  BY <1>1 DEF IInv, FileTypes, Fresh, Untouched
<1>3. before' \in [Turns -> Partial] /\ \A t \in Turns : LeavesSaved(t)
  BY <1>1, NothingLeavesSaved DEF IInv
<1> QED
  BY <1>1, <1>2, <1>3, RequestKeeps

LEMMA EndTypes ==
  ASSUME IInv, NEW r \in Requests, NEW pc \in RequestPCs,
         End(r, pc) \/ Advance(r, pc)
  PROVE  RequestTypes'
<1>1. req \in [Requests -> Request]
  BY DEF IInv, RequestTypes
<1>2. req' = [req EXCEPT ![r].pc = pc] \/ req' = [req EXCEPT ![r] = Over(pc)]
  BY DEF End, Advance
<1>3. /\ [req EXCEPT ![r].pc = pc] \in [Requests -> Request]
      /\ [req EXCEPT ![r] = Over(pc)] \in [Requests -> Request]
  BY <1>1, Requested
<1> QED
  BY <1>2, <1>3 DEF RequestTypes

LEMMA BeginRestoreStep ==
  ASSUME IInv, NEW r \in Restores, NEW s \in Sessions, NEW k \in DOMAIN commits[s],
         BeginRestore(r, s, k)
  PROVE  IInv'
<1>1. /\ index' = [index EXCEPT ![s] = commits[s][k].tree]
      /\ req' = [Restaged(s) EXCEPT ![r] = [@ EXCEPT !.pc = "checkout", !.session = s,
                                                     !.commit = k]]
      /\ before' = Unsaved(TurnsOf(s), Files)
      /\ UNCHANGED <<tree, removed, head, branch, staged, commits, tasks>> /\ wrote' = wrote
  BY DEF BeginRestore, files, tasks
<1>2. commits[s][k] \in Checkpoint /\ k \in Nat
  BY DEF IInv, FileTypes
<1>3. FileTypes'
  BY <1>1, <1>2 DEF IInv, FileTypes, Checkpoint
<1>4. RequestTypes'
  <2>1. r \in Requests /\ Restaged(s) \in [Requests -> Request]
    BY Histories DEF IInv, Requests, Dirs
  <2> DEFINE old == Restaged(s)[r]
             new == [old EXCEPT !.pc = "checkout", !.session = s, !.commit = k]
  <2>2. old \in Request
    BY <2>1
  <2>3. new \in Request
    BY <1>2, <2>2 DEF Request, RequestPCs
  <2>4. req' = [Restaged(s) EXCEPT ![r] = new]
    BY <1>1
  <2> HIDE DEF new
  <2> QED
    BY <2>1, <2>3, <2>4 DEF RequestTypes
<1>5. Fresh'
  <2>1. ASSUME NEW q \in Sessions
        PROVE  index'[q] = IF q = s THEN commits[s][k].tree ELSE index[q]
    BY <1>1, <2>1 DEF IInv, FileTypes
  <2> QED
    BY <1>1, <2>1 DEF IInv, Fresh, Untouched
<1>6. \A t \in Turns : LeavesSaved(t)
  BY <1>1, StagesLeaveSaved DEF TurnsOf
<1>7. before' \in [Turns -> Partial]
  BY <1>1, UnsavedTypes DEF IInv
<1> QED
  BY <1>1, <1>3, <1>4, <1>5, <1>6, <1>7, RequestKeeps

\* A restore writes what is staged.
LEMMA RewriteStep ==
  ASSUME IInv, NEW r \in Restores, NEW fs \in SUBSET Files, NEW next \in Request,
         Rewrite(r, fs, next)
  PROVE  IInv'
<1> DEFINE d == RouteRoot(req[r].session)
<1>1. /\ d \in Dirs /\ req[r].session \in Sessions
  BY DEF RouteRoot, Dirs, IInv, RequestTypes, Request, Requests
<1>2. /\ tree' = [tree EXCEPT ![d] = [f \in Files |-> IF f \in fs THEN Staged(r, f) ELSE @[f]]]
      /\ req' = [Since(d, fs) EXCEPT ![r] = next]
      /\ before' = Unsaved(WorkersIn(d), fs)
      /\ UNCHANGED <<removed, head, branch, staged, index, commits, tasks>> /\ wrote' = wrote
  BY DEF Rewrite, tasks
<1>3. /\ tree' \in [Dirs -> Tree]
      /\ \A e \in Dirs, f \in Files : tree'[e][f] \in {tree[e][f], index[req[r].session][f]}
  BY <1>1, <1>2 DEF IInv, FileTypes, Tree, Staged
<1>4. FileTypes'
  BY <1>2, <1>3 DEF IInv, FileTypes
<1>5. RequestTypes'
  BY <1>1, <1>2, Histories DEF IInv, RequestTypes, Sessions
<1>6. Fresh'
  BY <1>1, <1>2, <1>3 DEF IInv, Fresh, Untouched
<1>7. \A e \in Dirs, f \in Files : tree'[e][f] # tree[e][f] => e = d /\ f \in fs
  BY <1>2 DEF IInv, FileTypes, Tree
<1>8. before' \in [Turns -> Partial] /\ \A t \in Turns : LeavesSaved(t)
  BY <1>1, <1>2, <1>7, UnsavedTypes, WritesLeaveSaved DEF IInv
<1> QED
  BY <1>2, <1>4, <1>5, <1>6, <1>8, RequestKeeps

LEMMA CheckoutStep == ASSUME IInv, NEW r \in Restores, Checkout(r) PROVE IInv'
<1>1. [req[r] EXCEPT !.pc = "clean"] \in Request
  BY DEF IInv, RequestTypes, Request, Requests, RequestPCs
<1> QED
  BY <1>1, RewriteStep DEF Checkout

LEMMA CleanStep == ASSUME IInv, NEW r \in Restores, Clean(r) PROVE IInv'
<1>1. Over("done") \in Request
  BY DEF Over, Request, RequestPCs, Sessions
<1> QED
  BY <1>1, RewriteStep DEF Clean

LEMMA DiffStep == ASSUME IInv, NEW s \in Sessions, Diff(s) PROVE IInv'
<1>1. /\ index' = [index EXCEPT ![s] = tree[RouteRoot(s)]] /\ req' = Restaged(s)
      /\ before' = Unsaved(TurnsOf(s) \ WorkersIn(RouteRoot(s)), Files)
      /\ UNCHANGED <<tree, removed, head, branch, staged, commits, tasks>> /\ wrote' = wrote
      /\ RouteRoot(s) \in Dirs
  BY DEF Diff, files, tasks, RouteRoot, Dirs
<1>2. FileTypes' /\ RequestTypes'
  BY <1>1, Histories DEF IInv, FileTypes, RequestTypes
<1>3. ASSUME NEW q \in Sessions
      PROVE  index'[q] = IF q = s THEN tree[RouteRoot(s)] ELSE index[q]
  BY <1>1, <1>3 DEF IInv, FileTypes
<1>4. Fresh'
  BY <1>1, <1>3 DEF IInv, Fresh, Untouched
<1>5. \A t \in Turns : LeavesSaved(t)
  <2> DEFINE ts == TurnsOf(s) \ WorkersIn(RouteRoot(s))
  <2>1. \A t \in Turns : Session(t) = s => t \in ts \/ tree[RouteRoot(s)] = tree[Jail(t)]
    BY DEF TurnsOf, WorkersIn
  <2> HIDE DEF ts
  <2> QED
    BY <1>1, <2>1, StagesLeaveSaved DEF ts
<1>6. before' \in [Turns -> Partial]
  BY <1>1, UnsavedTypes DEF IInv
<1> QED
  BY <1>1, <1>2, <1>4, <1>5, <1>6, RequestKeeps

LEMMA BeginAdoptStep == ASSUME IInv, NEW a \in Adopts, BeginAdopt(a) PROVE IInv'
<1>1. UNCHANGED <<files, shadow, tasks>>
  BY DEF BeginAdopt
<1>2. PICK pc \in {"add", "merge"}, sure \in BOOLEAN :
        req' = [req EXCEPT ![a].pc = pc, ![a].sure = sure]
  BY DEF BeginAdopt
<1>3. RequestTypes'
  BY <1>2 DEF IInv, RequestTypes, Request, Requests, RequestPCs
<1> QED
  BY <1>1, <1>3, OtherRequest

\* A request of an adoption's that works on the branch or on what is staged.
LEMMA BranchKeeps ==
  ASSUME IInv, UNCHANGED <<tree, removed, head, shadow, tasks>>, RequestTypes',
         branch' \in {branch, staged, <<>>}, staged' \in {staged, tree["worktree"]}
  PROVE  IInv'
<1>1. UNCHANGED <<tree, removed, head, index, commits, before, tasks, wrote>>
  BY DEF shadow, tasks
<1>2. tree["worktree"] \in Tree /\ "worktree" \in Dirs
  BY DEF IInv, FileTypes, Dirs
<1>3. FileTypes'
  BY <1>1, <1>2 DEF IInv, FileTypes
<1>4. Fresh'
  BY <1>1, <1>2 DEF IInv, Fresh, Untouched
<1>5. before' \in [Turns -> Partial] /\ \A t \in Turns : LeavesSaved(t)
  BY <1>1, NothingLeavesSaved DEF IInv
<1> QED
  BY <1>1, <1>3, <1>4, <1>5, RequestKeeps

LEMMA AdoptAddStep == ASSUME IInv, NEW a \in Adopts, AdoptAdd(a) PROVE IInv'
<1>1. RequestTypes'
  BY EndTypes DEF AdoptAdd, Requests, RequestPCs
<1>2. staged' \in {staged, tree["worktree"]} /\ branch' = branch
      /\ UNCHANGED <<tree, removed, head, shadow, tasks>>
  BY DEF AdoptAdd
<1> QED
  BY <1>1, <1>2, BranchKeeps

LEMMA AdoptCommitStep == ASSUME IInv, NEW a \in Adopts, AdoptCommit(a) PROVE IInv'
<1>1. RequestTypes'
  BY EndTypes DEF AdoptCommit, Requests, RequestPCs
<1>2. branch' \in {branch, staged} /\ staged' = staged
      /\ UNCHANGED <<tree, removed, head, shadow, tasks>>
  BY DEF AdoptCommit
<1> QED
  BY <1>1, <1>2, BranchKeeps

LEMMA MergeStep == ASSUME IInv, NEW a \in Adopts, Merge(a) PROVE IInv'
<1>1. UNCHANGED <<removed, branch, staged, index, commits, tasks>> /\ wrote' = wrote
  BY DEF Merge, tasks
<1>2. CASE End(a, "failed") /\ UNCHANGED <<tree, head, before>>
  <2>1. RequestTypes'
    BY <1>2, EndTypes DEF Requests, RequestPCs
  <2>2. FileTypes' /\ Fresh'
    BY <1>1, <1>2 DEF IInv, FileTypes, Fresh, Untouched
  <2>3. before' \in [Turns -> Partial] /\ \A t \in Turns : LeavesSaved(t)
    BY <1>1, <1>2, NothingLeavesSaved DEF IInv
  <2> QED
    BY <1>1, <2>1, <2>2, <2>3, RequestKeeps
<1>3. ASSUME branch # <<>>,
             LET new == {f \in Files : branch[f] # head[f]}
             IN  /\ head' = branch
                 /\ tree' = [tree EXCEPT !["workspace"] =
                               [f \in Files |-> IF f \in new THEN branch[f] ELSE @[f]]]
                 /\ req' = [Since("workspace", new) EXCEPT ![a].pc = "remove"]
                 /\ before' = Unsaved(WorkersIn("workspace"), new)
      PROVE  IInv'
  <2> DEFINE new == {f \in Files : branch[f] # head[f]}
  <2>1. branch \in Tree /\ new \in SUBSET Files /\ "workspace" \in Dirs
    BY <1>3 DEF IInv, FileTypes, Dirs
  <2>2. /\ tree' \in [Dirs -> Tree]
        /\ \A e \in Dirs, f \in Files : tree'[e][f] \in {tree[e][f], branch[f]}
    BY <1>3, <2>1 DEF IInv, FileTypes, Tree
  <2>3. FileTypes'
    BY <1>1, <1>3, <2>1, <2>2 DEF IInv, FileTypes
  <2>4. RequestTypes'
    <3>1. Since("workspace", new) \in [Requests -> Request]
      BY <2>1, Histories DEF IInv, Sessions
    <3> QED
      BY <1>3, <3>1, Requested DEF RequestTypes, Requests, RequestPCs
  <2>5. Fresh'
    BY <1>1, <1>3, <2>1, <2>2 DEF IInv, Fresh, Untouched
  <2>6. \A e \in Dirs, f \in Files : tree'[e][f] # tree[e][f] => e = "workspace" /\ f \in new
    BY <1>3, <2>1 DEF IInv, FileTypes, Tree
  <2>7. before' \in [Turns -> Partial] /\ \A t \in Turns : LeavesSaved(t)
    BY <1>1, <1>3, <2>1, <2>6, UnsavedTypes, WritesLeaveSaved DEF IInv
  <2> QED
    BY <1>1, <2>3, <2>4, <2>5, <2>7, RequestKeeps
<1> QED
  BY <1>2, <1>3 DEF Merge

LEMMA RemoveStep == ASSUME IInv, NEW a \in Adopts, Remove(a) PROVE IInv'
<1>1. RequestTypes'
  BY EndTypes DEF Remove, Requests, RequestPCs
<1>2. /\ tree' = [tree EXCEPT !["worktree"] = [f \in Files |-> "absent"]]
      /\ removed' = TRUE
      /\ UNCHANGED <<head, branch, staged, index, commits, before, tasks>> /\ wrote' = wrote
  BY DEF Remove, shadow, tasks
<1>3. /\ tree' \in [Dirs -> Tree]
      /\ \A e \in Dirs, f \in Files : tree'[e][f] \in {tree[e][f], "absent"}
  BY <1>2 DEF IInv, FileTypes, Tree, Dirs
<1>4. FileTypes'
  BY <1>2, <1>3 DEF IInv, FileTypes
<1>5. Fresh'
  BY <1>2, <1>3, WorkspaceAssumption DEF IInv, Fresh, Untouched, Turns
<1>6. \A t \in Turns : LeavesSaved(t)
  BY <1>2 DEF IInv, FileTypes, LeavesSaved, Gone, Jail, JailRoot, Session, Dirs
<1> QED
  BY <1>1, <1>2, <1>4, <1>5, <1>6, RequestKeeps DEF IInv

LEMMA DeleteBranchStep == ASSUME IInv, NEW a \in Adopts, DeleteBranch(a) PROVE IInv'
<1>1. RequestTypes'
  BY EndTypes DEF DeleteBranch, Requests, RequestPCs
<1>2. branch' \in {branch, <<>>} /\ staged' = staged
      /\ UNCHANGED <<tree, removed, head, shadow, tasks>>
  BY DEF DeleteBranch
<1> QED
  BY <1>1, <1>2, BranchKeeps

-----------------------------------------------------------------------------
LEMMA Step == ASSUME IInv, [Next]_vars PROVE IInv'
<1>1. ASSUME NEW t \in Turns, TurnStep(t) \/ Process(t) \/ Interrupt(t) PROVE IInv'
  BY <1>1, CallStep, StageStep, CommitStep, CheckpointFailsStep, EditStep, SpawnStep,
     CallEndsStep, TimeoutStep, CommandWritesStep, ShellEndsStep, OrphanEndsStep,
     InterruptStep DEF TurnStep, Process
<1>2. CASE Route
  <2>1. ASSUME NEW r \in Restores, RestoreFails(r) PROVE IInv'
    <3>1. UNCHANGED <<files, shadow, tasks>> /\ RequestTypes'
      BY <2>1, EndTypes DEF RestoreFails, Requests, RequestPCs
    <3> QED
      BY <3>1, OtherRequest
  <2> QED
    BY <1>2, <2>1, DiffStep, BeginRestoreStep, CheckoutStep, CleanStep DEF Route
<1>3. ASSUME NEW a \in Adopts, Adoption(a) PROVE IInv'
  <2>1. ASSUME RemoveFails(a) \/ LedgerAdoption(a) PROVE IInv'
    <3>1. UNCHANGED <<files, shadow, tasks>> /\ RequestTypes'
      BY <2>1, EndTypes DEF RemoveFails, LedgerAdoption, Requests, RequestPCs
    <3> QED
      BY <3>1, OtherRequest
  <2> QED
    BY <1>3, <2>1, BeginAdoptStep, AdoptAddStep, AdoptCommitStep, MergeStep, RemoveStep,
       DeleteBranchStep DEF Adoption
<1>4. CASE UNCHANGED vars
  <2>1. UNCHANGED <<files, shadow, tasks, req>>
    BY <1>4 DEF vars, files, shadow, tasks
  <2>2. RequestTypes'
    BY <2>1 DEF IInv, RequestTypes
  <2> QED
    BY <2>1, <2>2, OtherRequest
<1> QED
  BY <1>1, <1>2, <1>3, <1>4 DEF Next

\* The inductive invariant: no tree holds anything by a turn that has not
\* written, the index holds what a checkpoint under way is to save, and a turn
\* has its checkpoint, or its error, before anything of its own can write.
THEOREM Invariance == Spec => []IInv
  BY Initially, Step, PTL DEF Spec

\* What a turn has written can be undone: a checkpoint of its own is in the
\* shadow of its session, with nothing that it wrote and with the files of its
\* directory as it staged them, but those written or staged over before the
\* checkpoint was committed, or the checkpoint's error is on the ledger (execute,
\* the restore and diff routes, adopt, Shadow).
THEOREM EverythingUndoable == Spec => []Undoable
<1>1. ASSUME IInv PROVE Undoable
  <2>1. ASSUME NEW t \in wrote \ failed PROVE Saved(t)
    BY <1>1, <2>1 DEF IInv, TurnTypes, Careful
  <2> QED
    BY <2>1 DEF Undoable, Saved
<1> QED
  BY <1>1, Invariance, PTL

-----------------------------------------------------------------------------
(* What restores and adoptions rely on while others go on.                 *)

\* A turn has calls left until it is over.
Bounds ==
  /\ removed \in BOOLEAN /\ adopts \in Nat /\ removeErrors \in Nat
  /\ \A t \in Turns : turn[t].left \in 0 .. Calls /\ (turn[t].pc # "done" => turn[t].left # 0)

\* A restore that is sure of the index has its checkpoint there, and once it has
\* checked it out, the workspace has the files of the checkpoint, except what
\* others have written since.
Restoring(r) ==
  /\ req[r].pc \in {"idle", "checkout", "clean", "done", "failed"}
  /\ req[r].pc \in {"checkout", "clean"} =>
       /\ req[r].commit \in DOMAIN commits[req[r].session]
       /\ req[r].sure =>
            index[req[r].session] = commits[req[r].session][req[r].commit].tree
  /\ req[r].pc = "clean" /\ req[r].sure =>
       \A f \in Files \ req[r].late :
         Staged(r, f) # "absent" => tree["workspace"][f] = Staged(r, f)

\* An adoption that has staged the worktree, or found nothing to stage, has all
\* of it in the index, and once it has committed that, on the branch, except
\* what has been written since.
Adopting(a) ==
  /\ req[a].pc \in {"idle", "add", "commit", "merge", "remove", "delete", "ledger", "done",
                     "failed"}
  /\ req[a].pc \in {"commit", "merge", "remove"} /\ req[a].sure /\ ~removed =>
       \A f \in Files \ req[a].late :
         /\ tree["worktree"][f] = staged[f]
         /\ req[a].pc # "commit" => staged[f] = branch[f]

\* Every adoption past the removal has removed the worktree, which one alone
\* does, or has ledgered an error.
Past == {a \in Adopts : req[a].pc \in {"delete", "ledger"}}
Counted ==
  /\ IsFiniteSet(Past)
  /\ adopts + Cardinality(Past) <= removeErrors + (IF removed THEN 1 ELSE 0)

JInv ==
  /\ Bounds /\ Counted
  /\ \A r \in Restores : Restoring(r)
  /\ \A a \in Adopts : Adopting(a)

\* What the histories record, and what they leave alone.
LEMMA HistoryFacts ==
  ASSUME RequestTypes, NEW d \in Dirs, NEW fs \in SUBSET Files, NEW s \in Sessions,
         NEW r \in Requests
  PROVE  /\ LET q == Since(d, fs)[r]
            IN  /\ q.pc = req[r].pc /\ q.session = req[r].session
                /\ q.commit = req[r].commit /\ q.sure = req[r].sure
                /\ req[r].late \subseteq q.late
                /\ req[r].pc \notin {"idle", "done", "failed"} /\ Watched(r) = d =>
                     fs \subseteq q.late
         /\ LET q == Restaged(s)[r]
            IN  /\ q.pc = req[r].pc /\ q.session = req[r].session
                /\ q.commit = req[r].commit /\ q.late = req[r].late
                /\ q.sure => req[r].sure
                /\ r \in Restores /\ req[r].session = s /\ req[r].pc \in {"checkout", "clean"} =>
                     ~q.sure
<1>1. req[r] \in Request
  BY DEF RequestTypes
<1>2. /\ Since(d, fs)[r] = IF req[r].pc \in {"idle", "done", "failed"} \/ Watched(r) # d
                           THEN req[r] ELSE [req[r] EXCEPT !.late = @ \cup fs]
      /\ Restaged(s)[r] = IF r \in Restores /\ req[r].session = s
                             /\ req[r].pc \in {"checkout", "clean"}
                          THEN [req[r] EXCEPT !.sure = FALSE] ELSE req[r]
  BY DEF Since, Restaged
<1> QED
  BY <1>1, <1>2 DEF Request

\* What a step of others does to request r: it is told of what is written where
\* it works and of what is staged into the index it has staged.
Aside(r) ==
  /\ req'[r].pc = req[r].pc /\ req'[r].session = req[r].session
  /\ req'[r].commit = req[r].commit /\ (req'[r].sure => req[r].sure)
  /\ req[r].late \subseteq req'[r].late
  /\ req[r].pc \notin {"idle", "done", "failed"} =>
       \A f \in Files \ req'[r].late :
         \/ tree'[Watched(r)][f] = tree[Watched(r)][f]
         \/ r \notin Restores /\ removed'
  /\ r \in Restores /\ req[r].pc \in {"checkout", "clean"} /\ req'[r].sure =>
       index'[req[r].session] = index[req[r].session]

LEMMA NothingAside ==
  ASSUME NEW r, req'[r] = req[r], tree' = tree, index' = index
  PROVE  Aside(r)
BY DEF Aside

LEMMA WritesAside ==
  ASSUME IInv, NEW r \in Requests, NEW d \in Dirs, NEW fs \in SUBSET Files,
         req'[r] = Since(d, fs)[r], index' = index,
         \A e \in Dirs, f \in Files : tree'[e][f] # tree[e][f] => e = d /\ f \in fs
  PROVE  Aside(r)
<1> DEFINE q == Since(d, fs)[r]
<1>1. /\ q.pc = req[r].pc /\ q.session = req[r].session
      /\ q.commit = req[r].commit /\ q.sure = req[r].sure
      /\ req[r].late \subseteq q.late
      /\ req[r].pc \notin {"idle", "done", "failed"} /\ Watched(r) = d => fs \subseteq q.late
  BY HistoryFacts DEF IInv, Sessions
<1>2. req'[r] = q /\ Watched(r) \in Dirs
  BY DEF Watched, Dirs
<1> HIDE DEF q
<1> QED
  BY <1>1, <1>2 DEF Aside

LEMMA StagesAside ==
  ASSUME IInv, NEW r \in Requests, NEW s \in Sessions,
         req'[r] = Restaged(s)[r], tree' = tree,
         \A e \in Sessions : e # s => index'[e] = index[e]
  PROVE  Aside(r)
<1> DEFINE q == Restaged(s)[r]
<1>1. /\ q.pc = req[r].pc /\ q.session = req[r].session
      /\ q.commit = req[r].commit /\ q.late = req[r].late
      /\ q.sure => req[r].sure
      /\ r \in Restores /\ req[r].session = s /\ req[r].pc \in {"checkout", "clean"} => ~q.sure
  BY HistoryFacts DEF IInv, Dirs
<1>2. req'[r] = q /\ req[r].session \in Sessions
  BY DEF IInv, RequestTypes, Request
<1> HIDE DEF q
<1> QED
  BY <1>1, <1>2 DEF Aside

\* The steps of restore r.
Own(r) ==
  \/ \E s \in Sessions : \E k \in DOMAIN commits[s] : BeginRestore(r, s, k)
  \/ Checkout(r) \/ Clean(r) \/ RestoreFails(r)

LEMMA TurnsAside ==
  ASSUME IInv, NEW t \in Turns, TurnStep(t) \/ Process(t) \/ Interrupt(t), NEW r \in Requests
  PROVE  Aside(r)
<1>0. Jail(t) \in Dirs /\ Session(t) \in Sessions /\ tree \in [Dirs -> Tree]
  BY DEF Jail, JailRoot, Session, Sessions, Dirs, IInv, FileTypes
<1>1. ASSUME NEW f \in Files, ToolWrites(t, f), index' = index PROVE Aside(r)
  <2>1. /\ tree' = [tree EXCEPT ![Jail(t)][f] = t] /\ req' = Since(Jail(t), {f})
    BY <1>1 DEF ToolWrites
  <2>2. \A e \in Dirs, g \in Files : tree'[e][g] # tree[e][g] => e = Jail(t) /\ g \in {f}
    BY <1>0, <2>1 DEF Tree
  <2> QED
    BY <1>0, <1>1, <2>1, <2>2, WritesAside
<1>2. CASE Edit(t) \/ CommandWrites(t)
  BY <1>1, <1>2, NothingAside, WorkspaceAssumption DEF Edit, CommandWrites
<1>3. CASE Stage(t)
  <2>1. /\ index' = [index EXCEPT ![Session(t)] = tree[Jail(t)]] /\ tree' = tree
        /\ req' = Restaged(Session(t))
    BY <1>3 DEF Stage, files
  <2>2. \A e \in Sessions : e # Session(t) => index'[e] = index[e]
    BY <2>1 DEF IInv, FileTypes
  <2> QED
    BY <1>0, <2>1, <2>2, StagesAside
<1>4. CASE ~Edit(t) /\ ~CommandWrites(t) /\ ~Stage(t)
  <2>1. req' = req /\ tree' = tree /\ index' = index
    BY <1>4 DEF TurnStep, Process, Interrupt, Call, Commit, CheckpointFails, Spawn, CallEnds,
       Timeout, ShellEnds, OrphanEnds, files, shadow
  <2> QED
    BY <2>1, NothingAside
<1> QED
  BY <1>2, <1>3, <1>4

LEMMA RoutesAside ==
  ASSUME IInv, Route, NEW r \in Requests
  PROVE  Aside(r) \/ (r \in Restores /\ Own(r))
<1>1. ASSUME NEW s \in Sessions, Diff(s) PROVE Aside(r)
  <2>1. /\ index' = [index EXCEPT ![s] = tree[RouteRoot(s)]] /\ req' = Restaged(s) /\ tree' = tree
    BY <1>1 DEF Diff, files
  <2>2. \A e \in Sessions : e # s => index'[e] = index[e]
    BY <2>1 DEF IInv, FileTypes
  <2> QED
    BY <2>1, <2>2, StagesAside
<1>2. ASSUME NEW q \in Restores, q # r, NEW s \in Sessions, NEW k \in DOMAIN commits[s],
             BeginRestore(q, s, k)
      PROVE  Aside(r)
  <2>1. /\ index' = [index EXCEPT ![s] = commits[s][k].tree] /\ tree' = tree
        /\ req' = [Restaged(s) EXCEPT ![q] = [@ EXCEPT !.pc = "checkout", !.session = s,
                                                       !.commit = k]]
    BY <1>2 DEF BeginRestore, files
  <2>2. \A e \in Sessions : e # s => index'[e] = index[e]
    BY <2>1 DEF IInv, FileTypes
  <2>3. req'[r] = Restaged(s)[r]
    BY <1>2, <2>1 DEF Restaged
  <2> QED
    BY <2>1, <2>2, <2>3, StagesAside
<1>3. ASSUME NEW q \in Restores, q # r, NEW fs \in SUBSET Files, NEW next, Rewrite(q, fs, next)
      PROVE  Aside(r)
  <2>1. /\ tree' = [tree EXCEPT !["workspace"] =
                      [f \in Files |-> IF f \in fs THEN Staged(q, f) ELSE @[f]]]
        /\ req' = [Since("workspace", fs) EXCEPT ![q] = next] /\ index' = index
    BY <1>3 DEF Rewrite, RouteRoot, shadow
  <2>2. \A e \in Dirs, g \in Files : tree'[e][g] # tree[e][g] => e = "workspace" /\ g \in fs
    BY <2>1 DEF IInv, FileTypes, Tree
  <2>3. req'[r] = Since("workspace", fs)[r] /\ "workspace" \in Dirs
    BY <1>3, <2>1 DEF Since, Dirs
  <2> QED
    BY <2>1, <2>2, <2>3, WritesAside
<1>4. ASSUME NEW q \in Restores, q # r, Checkout(q) \/ Clean(q) PROVE Aside(r)
  <2>1. \E fs \in SUBSET Files : \E next : Rewrite(q, fs, next)
    BY <1>4 DEF Checkout, Clean
  <2> QED
    BY <1>4, <2>1, <1>3
<1>5. ASSUME NEW q \in Restores, q # r, RestoreFails(q) PROVE Aside(r)
  <2>1. req'[r] = req[r] /\ tree' = tree /\ index' = index
    BY <1>5 DEF RestoreFails, End, files, shadow
  <2> QED
    BY <2>1, NothingAside
<1> QED
  BY <1>1, <1>2, <1>4, <1>5 DEF Route, Own

LEMMA AdoptionsAside ==
  ASSUME IInv, NEW a \in Adopts, Adoption(a), NEW r \in Requests, r # a
  PROVE  Aside(r)
<1>1. CASE Merge(a)
  <2> DEFINE new == {f \in Files : branch[f] # head[f]}
  <2>1. CASE End(a, "failed") /\ tree' = tree
    <3>1. req'[r] = req[r] /\ index' = index
      BY <1>1, <2>1 DEF Merge, End, shadow
    <3> QED
      BY <2>1, <3>1, NothingAside
  <2>2. CASE /\ tree' = [tree EXCEPT !["workspace"] =
                           [f \in Files |-> IF f \in new THEN branch[f] ELSE @[f]]]
             /\ req' = [Since("workspace", new) EXCEPT ![a].pc = "remove"]
    <3>1. \A e \in Dirs, g \in Files : tree'[e][g] # tree[e][g] => e = "workspace" /\ g \in new
      BY <2>2 DEF IInv, FileTypes, Tree
    <3>2. /\ req'[r] = Since("workspace", new)[r] /\ "workspace" \in Dirs /\ new \in SUBSET Files
          /\ index' = index
      BY <1>1, <2>2 DEF Since, Dirs, Merge, shadow
    <3> QED
      BY <3>1, <3>2, WritesAside
  <2> QED
    BY <1>1, <2>1, <2>2 DEF Merge
<1>2. CASE Remove(a)
  <2>1. /\ req'[r] = req[r] /\ index' = index /\ removed' = TRUE
        /\ tree'["workspace"] = tree["workspace"]
    BY <1>2 DEF Remove, Advance, shadow, IInv, FileTypes, Dirs
  <2>2. r \in Restores => Watched(r) = "workspace"
    BY DEF Watched
  <2> QED
    BY <2>1, <2>2 DEF Aside
<1>3. CASE ~Merge(a) /\ ~Remove(a)
  <2>1. req'[r] = req[r]
    <3>1. PICK new : req' = [req EXCEPT ![a] = new]
      BY <1>3 DEF Adoption, BeginAdopt, AdoptAdd, AdoptCommit, RemoveFails, DeleteBranch,
         LedgerAdoption, End, Advance
    <3> QED
      BY <3>1 DEF IInv, RequestTypes
  <2>2. tree' = tree /\ index' = index
    BY <1>3 DEF Adoption, BeginAdopt, AdoptAdd, AdoptCommit, RemoveFails, DeleteBranch,
       LedgerAdoption, files, shadow
  <2> QED
    BY <2>1, <2>2, NothingAside
<1> QED
  BY <1>1, <1>2, <1>3

\* The other steps leave a request to itself.
LEMMA Asides ==
  ASSUME IInv, [Next]_vars, NEW r \in Requests
  PROVE  Aside(r) \/ (r \in Restores /\ Own(r)) \/ (r \in Adopts /\ Adoption(r))
<1>1. CASE UNCHANGED vars
  BY <1>1, NothingAside DEF vars
<1> QED
  BY <1>1, TurnsAside, RoutesAside, AdoptionsAside DEF Next

\* A checkpoint stays the checkpoint it is.
LEMMA CommitsGrow ==
  ASSUME IInv, [Next]_vars, NEW s \in Sessions, NEW k \in DOMAIN commits[s]
  PROVE  k \in DOMAIN commits'[s] /\ commits'[s][k] = commits[s][k]
<1>1. CASE commits' = commits
  BY <1>1
<1>2. ASSUME NEW t \in Turns, Commit(t)
      PROVE  k \in DOMAIN commits'[s] /\ commits'[s][k] = commits[s][k]
  <2> DEFINE c == [turn |-> t, tree |-> index[Session(t)]]
  <2>1. /\ commits' = [commits EXCEPT ![Session(t)] = Append(@, c)]
        /\ commits \in [Sessions -> Seq(Checkpoint)]
    BY <1>2 DEF Commit, IInv, FileTypes
  <2>2. c \in Checkpoint
    BY DEF Checkpoint, Session, Sessions, IInv, FileTypes
  <2> HIDE DEF c
  <2>3. commits'[s] \in {commits[s], Append(commits[s], c)} /\ commits[s] \in Seq(Checkpoint)
    BY <2>1
  <2> QED
    BY <2>2, <2>3
<1>3. commits' = commits \/ \E t \in Turns : Commit(t)
  <2>1. ASSUME NEW t \in Turns, TurnStep(t) \/ Process(t) \/ Interrupt(t), ~Commit(t)
        PROVE  commits' = commits
    BY <2>1 DEF TurnStep, Process, Interrupt, Call, Stage, CheckpointFails, Edit, Spawn,
       CallEnds, Timeout, CommandWrites, ShellEnds, OrphanEnds, shadow
  <2>2. ASSUME Route PROVE commits' = commits
    BY <2>2 DEF Route, Diff, BeginRestore, Checkout, Clean, Rewrite, RestoreFails, shadow
  <2>3. ASSUME NEW a \in Adopts, Adoption(a) PROVE commits' = commits
    BY <2>3 DEF Adoption, BeginAdopt, AdoptAdd, AdoptCommit, Merge, RemoveFails, Remove,
       DeleteBranch,
       LedgerAdoption, shadow
  <2>4. CASE UNCHANGED vars
    BY <2>4 DEF vars
  <2> QED
    BY <2>1, <2>2, <2>3, <2>4 DEF Next
<1> QED
  BY <1>1, <1>2, <1>3

LEMMA RestoringKept ==
  ASSUME IInv, [Next]_vars, NEW r \in Restores, Restoring(r)
  PROVE  Restoring(r)'
<1>0. /\ r \in Requests /\ r \notin Adopts /\ req \in [Requests -> Request] /\ req[r] \in Request
      /\ index \in [Sessions -> Tree] /\ tree \in [Dirs -> Tree] /\ req[r].session \in Sessions
      /\ Watched(r) = "workspace"
  BY WorkspaceAssumption DEF IInv, RequestTypes, Request, FileTypes, Requests, Watched
<1>1. CASE Aside(r)
  <2>1. /\ req'[r].pc = req[r].pc /\ req'[r].session = req[r].session
        /\ req'[r].commit = req[r].commit /\ (req'[r].sure => req[r].sure)
        /\ req[r].late \subseteq req'[r].late
        /\ req[r].pc \in {"checkout", "clean"} /\ req'[r].sure =>
             index'[req[r].session] = index[req[r].session]
        /\ req[r].pc = "clean" =>
             \A f \in Files \ req'[r].late : tree'["workspace"][f] = tree["workspace"][f]
    BY <1>0, <1>1 DEF Aside
  <2>2. req[r].pc \in {"checkout", "clean"} =>
          /\ req[r].commit \in DOMAIN commits'[req[r].session]
          /\ commits'[req[r].session][req[r].commit] = commits[req[r].session][req[r].commit]
    BY <1>0, CommitsGrow DEF Restoring
  <2> QED
    BY <2>1, <2>2 DEF Restoring, Staged
<1>2. ASSUME NEW s \in Sessions, NEW k \in DOMAIN commits[s], BeginRestore(r, s, k)
      PROVE  Restoring(r)'
  <2> DEFINE old == Restaged(s)[r]
             new == [old EXCEPT !.pc = "checkout", !.session = s, !.commit = k]
  <2>1. /\ index' = [index EXCEPT ![s] = commits[s][k].tree] /\ commits' = commits
        /\ req' = [Restaged(s) EXCEPT ![r] = new]
    BY <1>2 DEF BeginRestore
  <2>2. Restaged(s) \in [Requests -> Request]
    BY Histories DEF IInv, Dirs
  <2>3. new.pc = "checkout" /\ new.session = s /\ new.commit = k
    BY <1>0, <2>2 DEF Request
  <2>4. req'[r] = new
    BY <1>0, <2>1, <2>2
  <2> HIDE DEF new
  <2> QED
    BY <1>0, <2>1, <2>3, <2>4 DEF Restoring
<1>3. CASE Checkout(r)
  <2> DEFINE fs == {f \in Files : Staged(r, f) # "absent"}
             new == [req[r] EXCEPT !.pc = "clean"]
  <2>1. /\ tree' = [tree EXCEPT !["workspace"] =
                      [f \in Files |-> IF f \in fs THEN Staged(r, f) ELSE @[f]]]
        /\ req' = [Since("workspace", fs) EXCEPT ![r] = new]
        /\ index' = index /\ commits' = commits /\ req[r].pc = "checkout"
    BY <1>3 DEF Checkout, Rewrite, RouteRoot, shadow
  <2>2. new.pc = "clean" /\ new.session = req[r].session /\ new.commit = req[r].commit
        /\ new.sure = req[r].sure
    BY <1>0 DEF Request
  <2>3. req'[r] = new
    BY <1>0, <2>1 DEF Since
  <2> HIDE DEF new
  <2>4. \A f \in Files : Staged(r, f) # "absent" => tree'["workspace"][f] = Staged(r, f)
    BY <1>0, <2>1 DEF Dirs
  <2>5. \A f \in Files : Staged(r, f)' = Staged(r, f)
    BY <2>1, <2>2, <2>3 DEF Staged
  <2>6. /\ new.commit \in DOMAIN commits[new.session]
        /\ new.sure => index[new.session] = commits[new.session][new.commit].tree
    BY <2>1, <2>2 DEF Restoring
  <2>7. \A f \in Files : Staged(r, f)' # "absent" => tree'["workspace"][f] = Staged(r, f)'
    BY <2>4, <2>5
  <2> QED
    BY <2>1, <2>2, <2>3, <2>6, <2>7 DEF Restoring
<1>4. CASE Clean(r) \/ RestoreFails(r)
  <2>1. req'[r] = Over("done") \/ req'[r] = Over("failed")
    BY <1>0, <1>4 DEF Clean, RestoreFails, Rewrite, End, Since
  <2>2. req'[r].pc \in {"done", "failed"}
    BY <2>1 DEF Over
  <2> QED
    BY <2>2 DEF Restoring
<1> QED
  BY <1>0, <1>1, <1>2, <1>3, <1>4, Asides DEF Own

\* The index of the worktree changes to what the worktree holds, the branch to
\* what that index holds, or with the worktree gone; and gone it stays.
LEMMA BranchFacts ==
  ASSUME [Next]_vars
  PROVE  /\ removed => removed'
         /\ ~removed' => \/ branch' = branch /\ staged' \in {staged, tree'["worktree"]}
                         \/ branch' = staged /\ staged' = staged
<1>1. ASSUME NEW t \in Turns, TurnStep(t) \/ Process(t) \/ Interrupt(t)
      PROVE  UNCHANGED <<removed, branch, staged>>
  BY <1>1 DEF TurnStep, Process, Interrupt, Call, Stage, Commit, CheckpointFails, Edit, Spawn,
     CallEnds, Timeout, CommandWrites, ShellEnds, OrphanEnds, files
<1>2. ASSUME Route PROVE UNCHANGED <<removed, branch, staged>>
  BY <1>2 DEF Route, Diff, BeginRestore, Checkout, Clean, Rewrite, RestoreFails, files
<1>3. ASSUME NEW a \in Adopts, Adoption(a)
      PROVE  /\ removed => removed'
             /\ ~removed' => \/ branch' = branch /\ staged' \in {staged, tree'["worktree"]}
                             \/ branch' = staged /\ staged' = staged
  <2>1. CASE AdoptAdd(a) \/ AdoptCommit(a)
    BY <2>1 DEF AdoptAdd, AdoptCommit
  <2>2. CASE DeleteBranch(a)
    BY <2>2 DEF DeleteBranch
  <2>3. CASE Remove(a)
    BY <2>3 DEF Remove
  <2>4. CASE BeginAdopt(a) \/ Merge(a) \/ RemoveFails(a) \/ LedgerAdoption(a)
    <3>1. UNCHANGED <<removed, branch, staged>>
      BY <2>4 DEF BeginAdopt, Merge, RemoveFails, LedgerAdoption, files
    <3> QED
      BY <3>1
  <2> QED
    BY <1>3, <2>1, <2>2, <2>3, <2>4 DEF Adoption
<1>4. CASE UNCHANGED vars
  BY <1>4 DEF vars
<1> QED
  BY <1>1, <1>2, <1>3, <1>4 DEF Next

LEMMA AdoptingKept ==
  ASSUME IInv, [Next]_vars, NEW a \in Adopts, Adopting(a)
  PROVE  Adopting(a)'
<1>0. /\ a \in Requests /\ a \notin Restores /\ req \in [Requests -> Request] /\ req[a] \in Request
      /\ tree \in [Dirs -> Tree] /\ Watched(a) = "worktree"
  BY WorkspaceAssumption DEF IInv, RequestTypes, FileTypes, Requests, Watched
<1>1. CASE Aside(a)
  <2>1. /\ req'[a].pc = req[a].pc /\ (req'[a].sure => req[a].sure)
        /\ req[a].late \subseteq req'[a].late
        /\ req[a].pc \in {"commit", "merge", "remove"} /\ ~removed' =>
             \A f \in Files \ req'[a].late : tree'["worktree"][f] = tree["worktree"][f]
    BY <1>0, <1>1 DEF Aside
  <2> QED
    BY <2>1, BranchFacts DEF Adopting
<1>2. CASE BeginAdopt(a)
  <2>1. PICK sure \in BOOLEAN :
          LET dirty == sure /\ ~removed /\ (staged # branch \/ tree["worktree"] # staged)
          IN  req' = [req EXCEPT ![a].pc = IF dirty THEN "add" ELSE "merge", ![a].sure = sure]
    BY <1>2 DEF BeginAdopt
  <2> DEFINE dirty == sure /\ ~removed /\ (staged # branch \/ tree["worktree"] # staged)
             pc == IF dirty THEN "add" ELSE "merge"
             new == [req[a] EXCEPT !.pc = pc, !.sure = sure]
  <2>2. req' = [req EXCEPT ![a] = new]
    BY <1>0, <2>1
  <2>3. new.pc = pc /\ new.sure = sure
    BY <1>0 DEF Request
  <2>4. req'[a] = new /\ UNCHANGED <<tree, removed, branch, staged>>
    BY <1>0, <1>2, <2>2 DEF BeginAdopt, files
  <2> HIDE DEF new
  <2> QED
    BY <2>3, <2>4 DEF Adopting
<1>3. CASE AdoptCommit(a)
  <2>1. \/ req'[a] = Over("failed")
        \/ /\ req'[a] = [req[a] EXCEPT !.pc = "merge"] /\ req[a].pc = "commit"
           /\ branch' = staged /\ UNCHANGED <<tree, removed, staged>>
    BY <1>0, <1>3 DEF AdoptCommit, End, Advance
  <2>2. Over("failed").pc = "failed"
    BY DEF Over
  <2> QED
    BY <1>0, <2>1, <2>2 DEF Adopting, Request
<1>6. CASE AdoptAdd(a)
  <2>1. \/ req'[a] = Over("failed")
        \/ req'[a].pc = "commit" /\ staged' = tree["worktree"] /\ tree' = tree
    BY <1>0, <1>6 DEF AdoptAdd, End, Advance, Request
  <2>2. Over("failed").pc = "failed"
    BY DEF Over
  <2> QED
    BY <2>1, <2>2 DEF Adopting
<1>4. CASE Merge(a)
  <2> DEFINE new == {f \in Files : branch[f] # head[f]}
             old == Since("workspace", new)[a]
             next == [old EXCEPT !.pc = "remove"]
  <2>1. CASE req' = [req EXCEPT ![a] = Over("failed")]
    BY <1>0, <2>1 DEF Adopting, Over
  <2>2. CASE /\ tree' = [tree EXCEPT !["workspace"] =
                           [f \in Files |-> IF f \in new THEN branch[f] ELSE @[f]]]
             /\ req' = [Since("workspace", new) EXCEPT ![a].pc = "remove"]
    <3>1. /\ tree'["worktree"] = tree["worktree"] /\ UNCHANGED <<removed, branch, staged>>
          /\ req[a].pc = "merge"
      BY <1>0, <1>4, <2>2 DEF Merge, Dirs
    <3>2. Since("workspace", new) \in [Requests -> Request] /\ old \in Request
      BY <1>0, Histories DEF IInv, Dirs, Sessions
    <3>3. old.sure = req[a].sure /\ req[a].late \subseteq old.late
      BY <1>0, HistoryFacts DEF IInv, Dirs, Sessions
    <3>4. next.pc = "remove" /\ next.sure = old.sure /\ next.late = old.late
      BY <3>2 DEF Request
    <3>5. req'[a] = next
      BY <1>0, <2>2, <3>2
    <3> HIDE DEF next, old
    <3> QED
      BY <3>1, <3>3, <3>4, <3>5 DEF Adopting
  <2> QED
    BY <1>4, <2>1, <2>2 DEF Merge, End
<1>5. CASE RemoveFails(a) \/ Remove(a) \/ DeleteBranch(a) \/ LedgerAdoption(a)
  <2>1. req'[a].pc \in {"delete", "ledger", "done"}
    BY <1>0, <1>5 DEF RemoveFails, Remove, DeleteBranch, LedgerAdoption, Advance, End, Over, Request
  <2> QED
    BY <2>1 DEF Adopting
<1> QED
  BY <1>0, <1>1, <1>2, <1>3, <1>4, <1>5, <1>6, Asides DEF Adoption

\* The adoptions past the removal, one by one.
LEMMA CountedKept ==
  ASSUME IInv, Bounds, Counted, [Next]_vars
  PROVE  Counted'
<1>0. /\ req \in [Requests -> Request] /\ adopts \in Nat /\ removeErrors \in Nat
      /\ Adopts \subseteq Requests /\ removed \in BOOLEAN
      /\ IsFiniteSet(Past) /\ Cardinality(Past) \in Nat
  BY FS_CardinalityType DEF IInv, RequestTypes, Bounds, Counted, Requests
<1> DEFINE gone == IF removed THEN 1 ELSE 0
<1>1. ASSUME Past' = Past, UNCHANGED <<adopts, removeErrors, removed>> PROVE Counted'
  BY <1>1 DEF Counted
<1>2. ASSUME \A a \in Adopts : \/ req'[a].pc = req[a].pc
                               \/ {req[a].pc, req'[a].pc} \cap {"delete", "ledger"} = {}
                               \/ {req[a].pc, req'[a].pc} \subseteq {"delete", "ledger"}
      PROVE  Past' = Past
  BY <1>2 DEF Past
<1>3. ASSUME NEW a \in Adopts, req[a].pc = "remove", req'[a].pc = "delete",
             \A b \in Adopts : b # a => req'[b].pc = req[b].pc
      PROVE  /\ Past' = Past \cup {a} /\ a \notin Past
             /\ IsFiniteSet(Past') /\ Cardinality(Past') = Cardinality(Past) + 1
  <2>1. Past' = Past \cup {a} /\ a \notin Past
    BY <1>3 DEF Past
  <2> QED
    BY <1>0, <2>1, FS_AddElement
<1>4. ASSUME NEW a \in Adopts, Adoption(a) PROVE Counted'
  <2>1. \A b \in Adopts : b # a => req'[b].pc = req[b].pc
    BY <1>0, <1>4, AdoptionsAside DEF Aside
  <2>2. CASE Remove(a)
    <3>1. /\ req[a].pc = "remove" /\ req'[a].pc = "delete" /\ ~removed /\ removed' = TRUE
          /\ UNCHANGED <<adopts, removeErrors>>
      BY <1>0, <2>2 DEF Remove, Advance, parentLog, Request
    <3>2. IsFiniteSet(Past') /\ Cardinality(Past') = Cardinality(Past) + 1
      BY <1>3, <2>1, <3>1
    <3> QED
      BY <1>0, <3>1, <3>2 DEF Counted
  <2>3. CASE RemoveFails(a)
    <3>1. /\ req[a].pc = "remove" /\ req'[a].pc = "delete" /\ removed' = removed
          /\ adopts' = adopts /\ removeErrors' = removeErrors + 1
      BY <1>0, <2>3 DEF RemoveFails, Advance, files, Request
    <3>2. IsFiniteSet(Past') /\ Cardinality(Past') = Cardinality(Past) + 1
      BY <1>3, <2>1, <3>1
    <3> QED
      BY <1>0, <3>1, <3>2 DEF Counted
  <2>4. CASE LedgerAdoption(a)
    <3>1. /\ req[a].pc = "ledger" /\ req'[a].pc = "done" /\ UNCHANGED <<removed, removeErrors>>
          /\ adopts' = adopts + 1
      <4>1. Over("done").pc = "done"
        BY DEF Over
      <4> QED
        BY <1>0, <2>4, <4>1 DEF LedgerAdoption, End, files
    <3>2. Past' = Past \ {a} /\ a \in Past
      BY <2>1, <3>1 DEF Past
    <3>3. IsFiniteSet(Past') /\ Cardinality(Past') = Cardinality(Past) - 1
      BY <1>0, <3>2, FS_RemoveElement
    <3> QED
      BY <1>0, <3>1, <3>3 DEF Counted
  <2>5. CASE BeginAdopt(a) \/ AdoptAdd(a) \/ AdoptCommit(a) \/ Merge(a)
    <3>1. /\ req[a].pc \in {"idle", "add", "commit", "merge"}
          /\ UNCHANGED <<adopts, removeErrors, removed>>
      BY <2>5 DEF BeginAdopt, Arrives, AdoptAdd, AdoptCommit, Merge, parentLog, files
    <3>2. req'[a].pc \in {"add", "commit", "merge", "failed", "remove"}
      <4>0. Over("failed").pc = "failed"
        BY DEF Over
      <4>1. CASE BeginAdopt(a)
        BY <1>0, <4>1 DEF BeginAdopt, Request
      <4>2. CASE AdoptAdd(a) \/ AdoptCommit(a)
        BY <1>0, <4>0, <4>2 DEF AdoptAdd, AdoptCommit, End, Advance, Request
      <4>3. CASE Merge(a)
        <5>1. {f \in Files : branch[f] # head[f]} \in SUBSET Files
          OBVIOUS
        <5>2. Since("workspace", {f \in Files : branch[f] # head[f]}) \in [Requests -> Request]
          BY <5>1, Histories DEF IInv, Dirs, Sessions
        <5> QED
          BY <1>0, <4>0, <4>3, <5>2 DEF Merge, End, Request
      <4> QED
        BY <2>5, <4>1, <4>2, <4>3
    <3>3. Past' = Past
      BY <1>2, <2>1, <3>1, <3>2
    <3> QED
      BY <1>1, <3>1, <3>3
  <2>6. CASE DeleteBranch(a)
    <3>1. /\ req[a].pc = "delete" /\ req'[a].pc = "ledger"
          /\ UNCHANGED <<adopts, removeErrors, removed>>
      BY <1>0, <2>6 DEF DeleteBranch, Advance, parentLog, Request
    <3>2. Past' = Past
      BY <1>2, <2>1, <3>1
    <3> QED
      BY <1>1, <3>1, <3>2
  <2> QED
    BY <1>4, <2>2, <2>3, <2>4, <2>5, <2>6 DEF Adoption
<1>5. CASE ~\E a \in Adopts : Adoption(a)
  <2>1. \A a \in Adopts : a \notin Restores
    BY WorkspaceAssumption
  <2>2. \A a \in Adopts : req'[a].pc = req[a].pc
    BY <1>0, <1>5, <2>1, Asides DEF Aside
  <2>3. UNCHANGED <<adopts, removeErrors, removed>>
    <3>1. ASSUME NEW t \in Turns, TurnStep(t) \/ Process(t) \/ Interrupt(t)
          PROVE  UNCHANGED <<adopts, removeErrors, removed>>
      BY <3>1 DEF TurnStep, Process, Interrupt, Call, Stage, Commit, CheckpointFails, Edit,
         Spawn, CallEnds, Timeout, CommandWrites, ShellEnds, OrphanEnds, files, parentLog
    <3>2. ASSUME Route PROVE UNCHANGED <<adopts, removeErrors, removed>>
      BY <3>2 DEF Route, Diff, BeginRestore, Checkout, Clean, Rewrite, RestoreFails, files,
         parentLog
    <3>3. CASE UNCHANGED vars
      BY <3>3 DEF vars
    <3> QED
      BY <1>5, <3>1, <3>2, <3>3 DEF Next
  <2>4. Past' = Past
    BY <1>2, <2>2
  <2> QED
    BY <1>1, <2>3, <2>4
<1> QED
  BY <1>4, <1>5

LEMMA BoundsKept ==
  ASSUME IInv, Bounds, [Next]_vars
  PROVE  Bounds'
<1>0. /\ Calls \in Nat /\ turn \in [Turns -> TurnState]
      /\ \A t \in Turns : turn[t].left \in Nat
  BY WorkspaceAssumption DEF IInv, TurnTypes, Bounds
<1>1. ASSUME turn' = turn, removed' \in BOOLEAN, adopts' \in Nat, removeErrors' \in Nat
      PROVE  Bounds'
  BY <1>1 DEF Bounds
<1>2. ASSUME NEW t \in Turns, NEW new, turn' = [turn EXCEPT ![t] = new],
             new.left \in 0 .. Calls, new.pc # "done" => new.left # 0,
             UNCHANGED <<removed, parentLog>>
      PROVE  Bounds'
  BY <1>0, <1>2 DEF Bounds, parentLog
<1>3. ASSUME NEW t \in Turns, turn[t].pc # "done", NEW pc, Goto(t, pc),
             UNCHANGED <<removed, parentLog>>
      PROVE  Bounds'
  <2> DEFINE new == [turn[t] EXCEPT !.pc = pc]
  <2>1. turn' = [turn EXCEPT ![t] = new]
    BY <1>0, <1>3 DEF Goto
  <2>2. new.left = turn[t].left
    BY <1>0 DEF TurnState
  <2> HIDE DEF new
  <2> QED
    BY <1>2, <1>3, <2>1, <2>2 DEF Bounds
<1>4. ASSUME NEW t \in Turns, turn[t].pc # "done", Return(t), UNCHANGED <<removed, parentLog>>
      PROVE  Bounds'
  <2> DEFINE next == [pc |-> "next", call |-> "edit", left |-> turn[t].left - 1,
                      taken |-> turn[t].taken]
  <2>1. turn' = [turn EXCEPT ![t] = IF turn[t].left = 1 THEN Ended ELSE next]
    BY <1>4 DEF Return
  <2>2. turn[t].left \in 0 .. Calls /\ turn[t].left # 0
    BY <1>4 DEF Bounds
  <2>3. next.left = turn[t].left - 1 /\ Ended.left = 0 /\ Ended.pc = "done"
    BY DEF Ended
  <2> HIDE DEF next
  <2>4. CASE turn[t].left = 1
    <3>1. turn' = [turn EXCEPT ![t] = Ended]
      BY <2>1, <2>4
    <3>2. Ended.left \in 0 .. Calls
      BY <1>0, <2>3
    <3> QED
      BY <1>2, <1>4, <2>3, <3>1, <3>2
  <2>5. CASE turn[t].left # 1
    <3>1. turn' = [turn EXCEPT ![t] = next]
      BY <2>1, <2>5
    <3>2. next.left \in 0 .. Calls /\ next.left # 0
      BY <1>0, <2>2, <2>3, <2>5
    <3> QED
      BY <1>2, <1>4, <3>1, <3>2
  <2> QED
    BY <2>4, <2>5
<1>5. ASSUME NEW t \in Turns, NEW kind, Call(t, kind) PROVE Bounds'
  <2>1. PICK pc : turn' = [turn EXCEPT ![t].call = kind, ![t].pc = pc]
    BY <1>5 DEF Call
  <2> DEFINE new == [turn[t] EXCEPT !.call = kind, !.pc = pc]
  <2>2. turn' = [turn EXCEPT ![t] = new]
    BY <1>0, <2>1
  <2>3. new.left = turn[t].left
    BY <1>0 DEF TurnState
  <2>4. turn[t].left # 0 /\ UNCHANGED <<removed, parentLog>>
    BY <1>5 DEF Call, files
  <2> HIDE DEF new
  <2> QED
    BY <1>2, <2>2, <2>3, <2>4 DEF Bounds
<1>6. ASSUME NEW t \in Turns, Commit(t) PROVE Bounds'
  <2> DEFINE new == [turn[t] EXCEPT !.pc = "exec", !.taken = TRUE]
  <2>1. turn' = [turn EXCEPT ![t] = new]
    BY <1>0, <1>6 DEF Commit
  <2>2. new.left = turn[t].left
    BY <1>0 DEF TurnState
  <2>3. turn[t].left # 0 /\ UNCHANGED <<removed, parentLog>>
    BY <1>6 DEF Commit, files, At, Bounds
  <2> HIDE DEF new
  <2> QED
    BY <1>2, <2>1, <2>2, <2>3 DEF Bounds
<1>7. ASSUME NEW t \in Turns, Interrupt(t) PROVE Bounds'
  <2>1. turn' = [turn EXCEPT ![t] = Ended] /\ UNCHANGED <<removed, parentLog>>
    BY <1>7 DEF Interrupt, files
  <2>2. Ended.left = 0 /\ Ended.pc = "done"
    BY DEF Ended
  <2>3. Ended.left \in 0 .. Calls
    BY <1>0, <2>2
  <2> QED
    BY <1>2, <2>1, <2>2, <2>3
<1>8. ASSUME NEW t \in Turns, Stage(t) \/ CheckpointFails(t) \/ Edit(t) \/ Spawn(t)
                              \/ CallEnds(t) \/ Timeout(t)
      PROVE  Bounds'
  <2>1. UNCHANGED <<removed, parentLog>> /\ turn[t].pc # "done"
    BY <1>8 DEF Stage, CheckpointFails, Edit, Spawn, CallEnds, Timeout, At, files
  <2>2. Return(t) \/ \E pc : Goto(t, pc)
    BY <1>8 DEF Stage, CheckpointFails, Edit, Spawn, CallEnds, Timeout
  <2> QED
    BY <1>3, <1>4, <2>1, <2>2
<1>9. ASSUME NEW t \in Turns, Process(t) PROVE Bounds'
  <2>1. UNCHANGED <<removed, parentLog>>
    BY <1>9 DEF Process, CommandWrites, ShellEnds, OrphanEnds, files
  <2>2. turn' = turn \/ (turn[t].pc = "run" /\ Goto(t, "drain"))
    BY <1>9 DEF Process, CommandWrites, ShellEnds, OrphanEnds, At
  <2>3. CASE turn' = turn
    BY <1>1, <2>1, <2>3 DEF Bounds, parentLog
  <2> QED
    BY <1>3, <2>1, <2>2, <2>3
<1>10. ASSUME Route PROVE Bounds'
  <2>1. turn' = turn /\ UNCHANGED <<removed, parentLog>>
    BY <1>10 DEF Route, Diff, BeginRestore, Checkout, Clean, Rewrite, RestoreFails, files, tasks
  <2> QED
    BY <1>1, <2>1 DEF Bounds, parentLog
<1>11. ASSUME NEW a \in Adopts, Adoption(a) PROVE Bounds'
  <2>1. turn' = turn
    BY <1>11 DEF Adoption, BeginAdopt, AdoptAdd, AdoptCommit, Merge, RemoveFails, Remove,
       DeleteBranch,
       LedgerAdoption, tasks
  <2>2. removed' \in BOOLEAN /\ adopts' \in Nat /\ removeErrors' \in Nat
    <3>1. CASE RemoveFails(a) \/ LedgerAdoption(a) \/ Remove(a) \/ DeleteBranch(a)
      <4>1. CASE RemoveFails(a)
        BY <4>1 DEF Bounds, RemoveFails, files
      <4>2. CASE LedgerAdoption(a)
        BY <4>2 DEF Bounds, LedgerAdoption, files
      <4>3. CASE Remove(a)
        BY <4>3 DEF Bounds, Remove, parentLog
      <4>4. CASE DeleteBranch(a)
        BY <4>4 DEF Bounds, DeleteBranch, parentLog
      <4> QED
        BY <3>1, <4>1, <4>2, <4>3, <4>4
    <3>2. CASE BeginAdopt(a) \/ AdoptAdd(a) \/ AdoptCommit(a) \/ Merge(a)
      <4>1. UNCHANGED <<removed, adopts, removeErrors>>
        BY <3>2 DEF BeginAdopt, AdoptAdd, AdoptCommit, Merge, files, parentLog
      <4> QED
        BY <4>1 DEF Bounds
    <3> QED
      BY <1>11, <3>1, <3>2 DEF Adoption
  <2> QED
    BY <1>1, <2>1, <2>2
<1>12. CASE UNCHANGED vars
  BY <1>1, <1>12 DEF vars, Bounds
<1> QED
  BY <1>5, <1>6, <1>7, <1>8, <1>9, <1>10, <1>11, <1>12 DEF Next, TurnStep

LEMMA JInvAtFirst == Init => JInv
<1> SUFFICES ASSUME Init PROVE JInv
  OBVIOUS
<1>1. \A r \in Requests : req[r].pc = "idle"
  BY DEF Init
<1>2. Past = {} /\ adopts = 0 /\ removeErrors = 0 /\ removed = FALSE
  BY <1>1 DEF Past, Requests, Init
<1>3. Counted
  BY <1>2, FS_EmptySet DEF Counted
<1>4. Bounds
  <2>1. Calls \in Nat /\ Calls # 0 /\ Calls \in 0 .. Calls
    BY WorkspaceAssumption
  <2>2. \A t \in Turns : turn[t].left = Calls
    BY DEF Init
  <2> QED
    BY <1>2, <2>1, <2>2 DEF Bounds
<1> QED
  BY <1>1, <1>3, <1>4 DEF JInv, Restoring, Adopting, Requests

\* Restores and adoptions find what they staged, checked out and committed.
THEOREM RequestsInvariance == Spec => []JInv
<1>1. Init => JInv
  BY JInvAtFirst
<1>2. IInv /\ JInv /\ [Next]_vars => JInv'
  BY BoundsKept, CountedKept, RestoringKept, AdoptingKept DEF JInv
<1> QED
  BY <1>1, <1>2, Invariance, PTL DEF Spec

\* The types of the state, and that a restore under way has a checkpoint of its
\* session.
THEOREM TypeCorrect == Spec => []TypeOK
<1>1. IInv /\ JInv => TypeOK
  <2> SUFFICES ASSUME IInv, JInv PROVE TypeOK
    OBVIOUS
  <2>1. turn \in [Turns -> [pc : TurnPCs, call : {"edit", "terminal", "gate"},
                            left : 0 .. Calls, taken : BOOLEAN]]
    <3>1. \A t \in Turns : turn[t] \in [pc : TurnPCs, call : {"edit", "terminal", "gate"},
                                        left : 0 .. Calls, taken : BOOLEAN]
      BY DEF IInv, TurnTypes, TurnState, JInv, Bounds
    <3> QED
      BY <3>1 DEF IInv, TurnTypes
  <2>2. \A r \in Requests : req[r].pc \in {"checkout", "clean"} =>
          req[r].commit \in DOMAIN commits[req[r].session]
    BY DEF JInv, Restoring, Adopting, Requests
  <2> QED
    BY <2>1, <2>2 DEF TypeOK, IInv, FileTypes, RequestTypes, TurnTypes, Request, Checkpoint,
       Partial, Writer, JInv, Bounds
<1> QED
  BY <1>1, Invariance, RequestsInvariance, PTL

\* An adoption is ledgered again only beside an error of the worktree's removal,
\* however many adoptions run and whatever of them fails (adopt).
THEOREM AdoptsOnceAndErrors == Spec => []AdoptRepeats
<1>1. IInv /\ JInv => AdoptRepeats
  BY FS_CardinalityType DEF JInv, Bounds, Counted, AdoptRepeats
<1> QED
  BY <1>1, Invariance, RequestsInvariance, PTL

\* A restore that ends has given the workspace the files of its checkpoint, and
\* no others, but for what was written while it ran, as long as nobody else has
\* staged anything into the index it read (restore, diff, checkpoint).
THEOREM RestoresRevert == Spec => RestoreReverts
<1> DEFINE Reverts ==
      \A r \in Restores :
        req[r].pc # "done" /\ req'[r].pc = "done" /\ req[r].sure =>
          \A f \in Files \ req[r].late :
            tree'["workspace"][f] = commits[req[r].session][req[r].commit].tree[f]
<1>1. IInv /\ JInv /\ [Next]_vars => [Reverts]_vars
  <2> SUFFICES ASSUME IInv, JInv, [Next]_vars, NEW r \in Restores,
                      req[r].pc # "done", req'[r].pc = "done", req[r].sure,
                      NEW f \in Files \ req[r].late
               PROVE  tree'["workspace"][f] = commits[req[r].session][req[r].commit].tree[f]
    OBVIOUS
  <2>0. /\ req \in [Requests -> Request] /\ r \in Requests /\ r \notin Adopts
        /\ tree \in [Dirs -> Tree] /\ Restaged("parent") \in [Requests -> Request]
        /\ Restaged("child") \in [Requests -> Request]
    BY Histories, WorkspaceAssumption DEF IInv, RequestTypes, FileTypes, Requests, Sessions, Dirs
  <2>1. Own(r)
    BY <2>0, Asides DEF Aside
  <2>2. ASSUME NEW s \in Sessions, NEW k \in DOMAIN commits[s], BeginRestore(r, s, k) PROVE FALSE
    <3>1. req'[r] = [Restaged(s)[r] EXCEPT !.pc = "checkout", !.session = s, !.commit = k]
      BY <2>0, <2>2 DEF BeginRestore, Sessions
    <3>2. Restaged(s)[r] \in Request
      BY <2>0 DEF Sessions
    <3> QED
      BY <3>1, <3>2 DEF Request
  <2>3. ASSUME Checkout(r) PROVE FALSE
    <3>1. req'[r] = [req[r] EXCEPT !.pc = "clean"]
      BY <2>0, <2>3 DEF Checkout, Rewrite, Since
    <3> QED
      BY <2>0, <3>1 DEF Request
  <2>4. ASSUME RestoreFails(r) PROVE FALSE
    BY <2>0, <2>4 DEF RestoreFails, End, Over
  <2>5. Clean(r)
    BY <2>1, <2>2, <2>3, <2>4 DEF Own
  <2>6. /\ req[r].pc = "clean"
        /\ tree' = [tree EXCEPT !["workspace"] =
                      [g \in Files |-> IF Staged(r, g) = "absent" THEN Staged(r, g) ELSE @[g]]]
    BY <2>5 DEF Clean, Rewrite, RouteRoot
  <2>7. tree'["workspace"][f] = IF Staged(r, f) = "absent" THEN Staged(r, f)
                                ELSE tree["workspace"][f]
    BY <2>0, <2>6 DEF Dirs
  <2>8. /\ index[req[r].session] = commits[req[r].session][req[r].commit].tree
        /\ Staged(r, f) # "absent" => tree["workspace"][f] = Staged(r, f)
    BY <2>6 DEF JInv, Restoring
  <2> QED
    BY <2>7, <2>8 DEF Staged
<1> QED
  BY <1>1, Invariance, RequestsInvariance, PTL DEF Spec, RestoreReverts

\* The removal of an adoption that could tell whether the worktree was clean
\* destroys nothing but what was written while it ran (adopt, adopt_worktree).
THEOREM AdoptionsKeepWork == Spec => AdoptKeepsWork
<1> DEFINE Keeps ==
      \A a \in Adopts :
        ~removed /\ removed' /\ req[a].pc # req'[a].pc /\ req[a].sure =>
          \A f \in Files \ req[a].late : tree["worktree"][f] = branch[f]
<1>1. IInv /\ JInv /\ [Next]_vars => [Keeps]_vars
  <2> SUFFICES ASSUME IInv, JInv, [Next]_vars, NEW a \in Adopts,
                      ~removed, removed', req[a].pc # req'[a].pc, req[a].sure,
                      NEW f \in Files \ req[a].late
               PROVE  tree["worktree"][f] = branch[f]
    OBVIOUS
  <2>0. a \in Requests /\ a \notin Restores
    BY WorkspaceAssumption DEF Requests
  <2>1. Adoption(a)
    BY <2>0, Asides DEF Aside
  <2>2. Remove(a)
    BY <2>1 DEF Adoption, BeginAdopt, AdoptAdd, AdoptCommit, Merge, RemoveFails, DeleteBranch,
       LedgerAdoption, files
  <2>3. req[a].pc = "remove"
    BY <2>2 DEF Remove
  <2> QED
    BY <2>3 DEF JInv, Adopting
<1> QED
  BY <1>1, Invariance, RequestsInvariance, PTL DEF Spec, AdoptKeepsWork

=============================================================================
