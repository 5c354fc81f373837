# A formal model of Forge Composer

Forge Composer is a daemon, `composerd`, that runs agentic coding sessions and
ledgers everything they do, and a VS Code extension that shows and steers them.
This directory holds TLA+ models of the daemon's core, the TLC configurations
that check them and TLAPS proofs of what matters most in them. Paths below are
relative to the repository.

## 1. The system

| Component | State | Operations | Correct when |
|---|---|---|---|
| **Ledger** (`daemon/crates/ledger`) | one `ledger.jsonl` per session, `seq_lock` | `append` (lock, derive seq, write, newline, fsync), `read(since)`, `create_session` | seqs dense and unique, acknowledged means durable, cursors miss nothing |
| **Session control** (`composerd/src/api.rs`) | per session: `paused`, the abort handle; budget overrides | message, steer, inject, pause, resume, budget, interrupt, role | one control plane for all turns: no lost input, no turn nobody can stop |
| **Turn** (`composerd/src/orchestrator.rs`) | the prompt, `last_seen_seq`, the tier, tokens used | fold, pause gate, budget, model call with escalation, tool batch, usage | ends, answers what it was told, stops at the boundary, is billed |
| **Approvals** (both) | the map from request id to sender | request, wait or time out, approve | nothing runs uncleared, one decision per request |
| **Delegation** (`orchestrator.rs`) | a child session, its worktree and parent | dispatch, steer a child, report, interdiction note | reports reach the parent, interventions are visible |
| **Workspace** (`crates/tools`, `restore`, `diff`, `adopt`) | the work tree, the subagent's worktree and branch, a shadow repository per session, running commands | checkpoint, edit, command, restore, diff, adopt | an edit can be undone, a restore restores, adopted work is kept |
| **Event stream** (`api.rs`, `extension/src`) | a broadcast channel per session, the view | broadcast, subscribe, lag, open a session | the view shows one session's ledger, in order |
| **Policy** (`crates/policy`) | none | the verdict on a command | no part of a command is cleared by the company it comes in |
| **Gateway** (`crates/gateway`) | the accumulators of one call | stream, escalate | a reply is what one provider sent |
| **Config, gate bridge, daemon process, extension** | configuration, `meta.json`, processes | lookups, I/O | see section 7 |

**How they interact.** A request handler appends an event, then looks at the
control plane and may spawn a turn. A turn is two tasks: a wrapper that spawns the
body, stores its abort handle and awaits it, and the body that works. The ledger
is the only channel from a request to a running turn: the body reads it past its
cursor at the start of each iteration. The pause flag and the budget override are
polled. Approvals go through a map that all sessions share. A child reports by
appending to its parent's ledger, and the extension follows a broadcast of what
was appended. Turns, the human's restores and adoptions, and processes that outlive
their call meet in the files, with no lock but git's own around each command.

**What is hard.** Any number of turns may run on one session, since a message
spawns one whether or not another runs. Nothing holds a lock between a test
(`is_running`, `paused`, `has_pending_input`) and what follows from it. An abort
takes effect only at an await. The ways out of a turn differ in what they leave on
the ledger. Approvals race with their timeout and with each other. The ledger has
unlocked readers, and a file that a crash or a failed write can cut anywhere. A
checkpoint, a restore and an adoption are several git commands each, over an index and
files that others write in between. A provider may stop in the middle of a command.
`PROJECT.json` lists these hazards with their lines.

## 2. The modules

| Module | Models | Role |
|---|---|---|
| `EventLog` | what a caller of the ledger may rely on, crashes included | abstract specification |
| `Ledger` | `append`, `last_seq`, `read` with faults | implements `EventLog` |
| `Session` | the control requests and the turns of one session | |
| `Prompt` | the prompt a turn rebuilds from the ledger | operators over the ledgers `Session` reaches |
| `Approvals` | one batch of tool calls of each turn, the approve handler | details the tool step of `Session` |
| `Delegation` | an orchestrator, its subagents and the human between them | composes the turns of several sessions |
| `Workspace` | files, checkpoints, commands, restore, diff, adopt | the side effects of tools in a parent and a child session |
| `Stream` | broadcast, subscription and the view | what becomes of the events `Ledger` appends |
| `Policy` | the verdict on a command | operators |
| `Reply` | one model call: chain, streams, tool calls and their verdicts | composes the gateway with `Policy`; the call step of `Session`, the verdict of `Approvals` |
| `LedgerProofs`, `SessionProofs`, `ApprovalsProofs`, `DelegationProofs`, `StreamProofs`, `WorkspaceProofs`, `ReplyProofs` | | inductive invariants and theorems, one module per component |
| `SessionLedgerProofs` | | theorems on what a session's ledger says of its turns, and on `Prompt`; extends `SessionProofs` |
| `MCLedger`, `MCSession`, `MCApprovals`, `MCDelegation`, `MCWorkspace`, `MCStream`, `MCReply` | | small instances for TLC |

**Ledger.** `file` is a sequence of chunks: head, rest, newline of each line. The
head and the rest are one `write_all` that may be found half done. `synced` is how
much of it `sync_all` has made durable, `pc`, `seq` and `lock` are the appends
under way, `acks` the seqs returned to callers, `seen` what each cursor reader was
given. `BeginAppend` is the lock, the directory test and `last_seq` together,
since nothing else can write meanwhile. `IOError` is a failing write or sync: the
bytes stay. `Crash` keeps any prefix at least as long as `synced` and restarts all tasks.
An append or a read on a file that does not parse returns an error and changes
nothing, so it has no step. Event bodies, timestamps and redaction are left out.

**Session.** `op` and `todo` are the control requests: a handler is the sequence of
its atomic operations (`PostMessage` to `RaiseBudget`), and each action performs one.
`turn[t]` is a turn: `wrap` its wrapper (`SpawnBody`, `StoreHandle`, `Reap`) and `pc`
its body, with its cursor, iteration, calls left in the batch, cost so far and
tier. A body runs from await to await in one go, but other tasks run on other
threads, so each shared access is an action of its own; `Cancel` is enabled only at
the awaits (the first poll, a model call, a tool that yields). `FailTurn` is every
early return by `?`. `heard` and `overrun` are history variables: the longest
ledger prefix a model call was given, and the tiers a turn had behind it when the flag
went up with the calls it has started since, which are those after a budget check and
those of escalations (`GatewayError`: the next tier is asked at once, whatever the flag
says). A turn is named by the request that spawned it, as a request spawns at most one.

**Approvals.** Each task works through the calls of one model reply: `ToolCall`,
`Verdict`, `ApprovalRequest`, `InsertSender`, then `Answered` or `TimeOut`,
`Execute` and `ToolResult`. `approvals` is the shared map, `answer` what went through
the channels, `approve` the requests of the API, each from any session.

**Delegation.** A request or a turn works through a script of atomic steps (`todo`) about a
session (`aim`): `Dispatch`, `Wake` (steer, steer_subagent and the report share it) and
the handlers of the API; `Step` performs the next. A child exists for the API as soon as
it is `created`; its `parent` comes with meta.json, and `Worktree` may fail in between.
`Begin` reads that meta, so a turn the human starts on a child too early runs as an
orchestrator's (`sub` is FALSE). `Answer` makes a subagent report. `heard` collects what
model calls were given: the whole history their prompt was built from, but only human
messages and steers of what came later (`Prompt`). A turn here is that of `Session`
with its fold, gate and call start in one step (`Iterate`), its wrapper spawning the body
at once, and without usage, budget and escalation.

**Prompt.** `Foldable`, `Rebuild` and `RebuildOne` are the fold of `run_turn_inner`: the
newest `MaxFoldEvents` events that are folded, one message each, below a marker for
those that were cut. It extends `Session`, so that its property is checked of every
ledger the control requests and turns can write.

**Workspace.** A tree (`tree`, `head`, `branch`, `staged`, `index`, each of `commits`) says who
wrote each file last; `index` is what the shadow repositories have staged, `staged` the
worktree's own git. `Files` are regions that git merges as a unit. `Call` chooses a tool
and whether a checkpoint is due; `Stage` and `Commit` are its two git commands, `Edit`,
`Spawn`, `CommandWrites`, `ShellEnds`, `OrphanEnds`, `CallEnds` and `Timeout` what follows.
`proc` is the process a call waits for, first a shell and then perhaps only what the
shell has left holding the output; `stray` has processes nobody waits for any more.
`run_gate` differs from `terminal` in that it reads the output to its end whether or
not the timeout has fired (`drain`). A restore is `BeginRestore` (read-tree), `Checkout`,
`Clean`; an adoption is `BeginAdopt` to `LedgerAdoption`, one action per command (its add and
its commit are two). The routes
work in `RouteRoot`, which is the user's workspace for either session (section 4), the tools
in `JailRoot`. `late` and `sure` are histories of a request: the files others have
written since it began, and whether what it staged, or was told of the worktree, still holds.
`before` is a history of a turn: what its checkpoint is to save, each file of the directory it
works in as it was when the turn staged it. Between the two git commands of the checkpoint
a file leaves `before` when somebody writes it, and all of them do when a restore, or a diff
from another directory, stages something else into the session's index.

**Stream.** An append is atomic here (`Ledger` and `EventLog` say why) and its broadcast a
later step. A connection (`conn`) has a queue of `Cap` frames, of which `Push` drops the
oldest and raises `lagged`. A load of the view is `OpenSession`, `EventsAnswered` or
`LoadFails`, `ShowSession`; then its connection is `Subscribe`d, `Deliver`s and may end.
`ShowSession` goes by the session the view has been told of last, whatever was asked for.

**Policy, Reply.** A command is a sequence of tokens: words, operators, quotes, escaped
quotes and substitutions. Two tokenizers read it, and they are kept apart: `OpenQuote`, `Cuts`
and `Segments` are `split_raw_segments`, which knows no escapes, so that an escaped quote opens
or closes like any other; `ShellQuote`, `Parsable` and `Argv` are the library `shell_words`,
external to the repository, for which an escaped quote is a character, but within
single quotes, where its backslash is. `HardDeny`, `Rules` and
`IsReadOnly` are the layers of `CheckSegment`, and `Check` is the whole. The words that the fixed
tables name are constants. In `Reply` a provider sends text, starts calls and
sends pieces of their arguments (`Brace` completes them); the gateway's accumulators are
`content`, `calls` and `usage`, `shown` the deltas broadcast. `said` is the history of what this
provider has sent, so that its words and the gateway's can be compared. A stream may end
or fail after any frame.

## 3. What TLC checks

| Run | Instance | Shows |
|---|---|---|
| `ledger_faults` | 2 writers, 1 reader, crashes and I/O errors, 4 seqs | `TypeOK`, `DenseSeq`, `AckedDurable`, `AcksIncrease`, `ReaderInOrder`, `ImplementsEventLog` |
| `session_control` | any 2 of the 7 requests, 2 iterations, 1 call per reply, a budget of 2 raised to 3, failures, a history of 4 | `TypeOK`, `SlotLive`, `PauseOverrun`, `CallsAnswered`, `BilledOnce`, `PromptPaired` |
| `session_heard` | 2 of message, steer, pause, interrupt; a chain of 2 tiers that fails | `PauseOverrun`, `MessagesHeard`, `SteersHeard`, `TurnsEnd` |
| `approvals` | 1 task, 2 calls, 2 sessions, 2 approve requests, every verdict | `TypeOK`, `RunsCleared`, `DecidedOnce`, `DenialHolds`, `ResultsTrue`, `BatchEnds` |
| `delegation` | 1 child, any 1 request, 3 turns, 1 iteration | `TypeOK`, `ReportedOnce`, `DispatchWhole`, `BriefHeard` |
| `workspace` | 1 turn of the parent (command or gate) and 1 of the child (edits), 1 restore and 2 adoptions of which 2 are made, a checkpoint of an earlier turn in either session, 2 files of which 1 is tracked and 1 is written by commands, all faults | `TypeOK`, `Undoable`, `RestoreReverts`, `AdoptKeepsWork`, `AdoptRepeats`, `CallsReturn` |
| `stream` | 2 sessions, 2 tasks, 2 events, 1 delta, 2 loads, a queue of 1 | `TypeOK`, `OneSession`, `TaskOrder`, `EventuallyShown` |
| `reply` | an OpenAI-compatible provider, then Anthropic; 2 calls of 2 tools, 4 pieces from 2 words, 1 operator, both quotes, an escaped double quote, 1 substitution; 2 user rules | `TypeOK`, `ReplyOfOneTier`, `CommandWhole`, `StrictestWins` |
| `ledger_replay`, `session_missed_wake`, `delegation_pending`, `workspace_isolation` | | section 4 |

**Bounds.** Two writers contend for the lock, and one that fails or crashes leaves
its bytes to the other; with four seqs a line survives, a line is lost and two
more follow. Two requests give two concurrent turns, or a turn and any request
beside it; a race of the control plane is between two tasks. Two iterations with
one call per reply reach a second fold, gate and budget check and the exhaustion
of the loop; a limit of 2 stops a turn in its second iteration or a second turn at
its first. A history of four events is cut before, between and after a call and its
result, with events of the other request among them. `session_heard` has two tiers, so that a
pause falls before, in and after an escalation. `session_missed_wake` needs three
requests (message, pause, resume). Two
approve requests race for one id or take two. The ledger in `Session` needs no
bound, as every turn and handler ends.

In `delegation` the request falls on the parent or the child at any step of a
dispatch, an answer or a report; three turns are a parent's, the human's on the child and
the brief's beside it, and one iteration is the dispatch. A reply carries at most one
tool call; a parent and its child can wake each other for ever, and `MaxTurns` bounds
this. Two children at once are covered by the theorems only.

In `workspace` the two requests are a restore and an adoption, or two adoptions that
race or follow one another; with one file in the repository and one not, a restore
has something to write back and something to clean, and a merge something to overwrite
and something to add. The checkpoint of an earlier turn (`Earlier`) gives diffs and the restore
something to stage between the two git commands of a turn's own; without the exceptions
of `Undoable` for restores, for diffs, for merges or for the restore's rewriting, TLC finds it
violated, so that each of them happens. Adoptions are alike and are numbered in the order they
come; commands write the tracked file only (`CommandFiles`). The parent's turn is the one with processes, which write the
workspace that restores and merges write too; the child's writes the worktree that is
adopted. In `stream` a queue of one lags as soon as two frames meet; two loads are a
session opened over another, or again. In `reply` four pieces make a compound command, a
quoted operator, one between escaped quotes, a quote left open, a glob in order behind a more specific rule, and two
calls whose pieces alternate; each tier can fail at any frame. If `StrictestWins` counted every
operator outside the quotes of `shell_words`, TLC would find it violated by one after an escaped
quote: the two tokenizers do come to disagree.

**Fairness.** `FairSpec` of `Session` assumes that the runtime runs every ready task
(each wrapper, body and accepted handler), that a tool ends, and that a provider
answers or fails. The second is what `CallsReturn` of `Workspace` is about: a terminal call
returns when its timeout fires, with nothing assumed of the command; a gate leaves its
wait for bash, but then reads its output to the end, so that it is an assumption on the
gate's script that it leaves no descendant holding the output open. The third is an
assumption on the provider, as the gateway sets no timeout. No client has to send
anything. `FairSpec` of `Approvals` is the same without any fairness for people:
approving and interrupting are optional; that of `Delegation` is that of `Session`.
`FairSpec` of `Workspace` is that timers fire, and that of `Stream` that a task which has
appended goes on to broadcast and that an open connection delivers. Deadlock is not
checked: a system with no request left simply stays idle.

**Preconditions.** `BriefHeard` excepts a child one of whose turns was stopped by a pause,
aborted, failed or out of iterations, and a brief whose turn the bound `MaxTurns` refuses.
`MessagesHeard` and `SteersHeard` are conditional on `Undisturbed`: everything is over, no pause,
budget or abort came in between, and no turn failed (their run has no `FailTurn`: when the
ledger does not read or the workspace is gone, no turn can hear anything). `Undoable` excepts
files written, and indexes restaged by a restore or from another directory, between the two
git commands of a checkpoint. `StrictestWins` is about operators the policy's splitter finds
outside quotes. `RestoreReverts` and `AdoptKeepsWork` except
files written under the request, a restore whose staged index somebody else has restaged,
and an adoption whose `git status` failed; `OneSession` and `TaskOrder` except sessions
opened while another loads; `EventuallyShown` excepts events broadcast between the fetch and
the subscription, lagging, and lost connections. Section 6 lists these as limits of the
code. `TypeOK` of each module is its one
type invariant; every other property relates several tasks or several events.

**Mutants.** Each property of a passing run has a mutated action in its module (the
definition just above the original), a plausible slip such as a seq read before the lock,
a missing fsync, a gate read once, a sender left in the map, a piece appended to the last
call or a restore without its clean. TLC finds the
property violated with it.

## 4. Where the code and its documents differ

- **Replay after a crash** (`ledger_replay`). A crash during the two writes of a line
  leaves a line that does not parse, or one that the next append makes so. `read`
  and `append` then fail for good, against "Replay reconstructs any session". What was
  acknowledged is still there (`AckedDurable`), but nothing reads it.
- **A missed wake** (`session_missed_wake`). A resume that comes after a turn read the
  raised flag and before its wrapper emptied the slot finds a turn running and
  spawns none. The input stays unanswered, against "`has_pending_input` prevents both missed wakes".
- **A reply that is none** (`delegation_pending`). `has_pending_input` takes a brief or a
  subagent's report for the agent's reply, so a human message before it is no longer
  pending although unanswered, against the function's own comment.

- **A subagent's checkpoints in the user's workspace** (`workspace_isolation`). The checkpoint
  routes take `meta.workspace` for the work tree, the turns that make the checkpoints take
  `meta.jail_root()`, a subagent's worktree. Restoring a subagent's checkpoint overwrites the user's
  files with the subagent's and leaves the worktree as it was; a diff compares the
  checkpoint with the wrong tree. Against the comment of `session_shadow`, "so they share the
  orchestrator's notion of the workspace".

## 5. What is proved

Every invariant and every action property that a passing run checks is also a theorem, for any
number of writers, readers, requests, turns, sessions, subagents, files, loads, providers and
tokens, and all values of the bounds; so is the refinement of `EventLog`. The only assumptions
are those named `...Assumption` in the modules, which give the constants their types and keep
apart what the code keeps apart (an actor `sub:<id>` is none of `human`, `orchestrator` and
`system`; a word is no operator, quote, escaped quote or substitution mark, and these four are
distinct). TLC
evaluates them on every run.

- **`LedgerProofs`**: `SeqsDense`, `AcknowledgedDurable`, `AcknowledgementsIncrease`. `IInv` adds to
  them that only the holder of `seq_lock` is in an append (`Exclusive`), that its seq is larger
  than any acknowledged (`Fresh`), how much of its line is written at each step (`Holder`),
  and that the file is laid out in lines of three chunks as long as it parses
  (`Layout`). The argument turns on `NextSeq`: a parsable file of n lines has
  last seq n, so the next line lands where its seq says. For `ReadersInOrder` and
  `TypesCorrect`, `RInv` adds that the seq a writer works on is next to the last of the file, or
  the last (`Current`), and that a reader has the events from the first on (`Following`); a read
  past a cursor returns the seqs after it (an induction over the file, `UnseenInOrder`).
  `LedgerIsEventLog` is the refinement: under `RInv`, writing the rest of a line publishes, the
  acknowledgement acknowledges, a read delivers the log, a crash keeps a prefix that holds what
  was acknowledged, and every other step, half-written lines and failed writes among them,
  is a stutter.
- **`SessionProofs`**: `TypeCorrect`, `SlotStaysLive` and `PauseBoundsOverrun`. `IInv` adds that a
  request spawns with the last step of its handler, so a wrapper is started once
  (`SpawnedLast`), that a cursor is within the ledger (`SeenInLedger`), and that a turn which
  has asked, since the flag went up, the tier it is at is past the budget check
  (`OverrunOnce`): to ask it again it has to pass the gate, and an escalation asks the next
  tier, of which there are no more than the chain has left.
- **`SessionLedgerProofs`**: `CallsGetResults`, `EveryTurnBilledOnce`, `EveryMessageHeard`,
  `EverySteerHeard` and `PromptsPaired`. Its invariant `Recorded` ties a turn's
  place to what it has ledgered: as many results as calls, but for the call it is at
  (`Paired`), no usage before its end (`Billed`). For what the model hears it follows each input:
  a message is in a model call's prefix, or its handler is not over, or the turn it spawned
  has not read the ledger for the last time (`WillHear`); a steer may rely on any turn,
  or on one whose end is to come after it (`Missed`). That needs where the handlers are
  (`Handling`), and that no turn stops without a pause, a budget or an abort on record
  (`Braked`). `Alternating` says the same of the order of calls and results as `Paired` of their
  number. `PromptSources` is what the fold does to any ledger: its messages come from events
  in their order, the newest foldable ones, all of them unless there is a marker.
  `PromptsPaired` follows from the two.
- **`ApprovalsProofs`**: `TypeCorrect`, `RunsAreCleared`, `RequestsDecidedOnce`, `DenialsHold` and
  `ResultsAreTrue`. The id of a call is a token that is in the map, or held by one approve
  request, or decided, never two of these; nobody has it before its request is
  ledgered; and a turn knows of the call it is at what its step has established
  (`Knows`).
- **`DelegationProofs`**: `TypeCorrect`, `Reported` and `DispatchedWhole`. The steps of a dispatch and
  of a report are scripts, and `IInv` says who may be at which rest of which script (`AtWork`),
  that at most one turn dispatches a child (`Birth`), and for each step what it finds on the two
  ledgers and in meta.json (`Stage`). `Answered` counts a turn's messages: one on its own ledger
  when it is done, one on the parent's when its report has taken its first step.
- **`StreamProofs`**: `TypeCorrect`, `OneSessionShown` and `TaskOrderKept`. What the view shows comes
  before what its connection has queued, and that before what its tasks still owe, so an
  order that holds between the three survives drops, lags and late broadcasts (`Connected`). One
  load at a time is the precondition under which a connection is the view's (`OneLoad`).
- **`WorkspaceProofs`**: `EverythingUndoable`. `IInv` adds that no tree anywhere holds
  anything by a turn that has not written (`Fresh`), so that whatever diffs, restores and other
  turns stage between the two git commands of a checkpoint, what is committed is free of the
  turn's own writes; that between the two the index and the directory have what is
  to be saved (`Saving`), which is where each writer and each who stages has to leave `before`
  alone or take its files out of it; and that a turn without a checkpoint error has its checkpoint before it
  reaches a step from which it, or a process it leaves behind, can write (`Careful`).
  `RestoresRevert`, `AdoptionsKeepWork` and `AdoptsOnceAndErrors` need what a request in the middle
  of its git commands may still rely on while others write and stage (`Restoring`, `Adopting`),
  and that each adoption past the removal has removed the worktree, which one alone
  does, or ledgered an error (`Counted`). `TypeCorrect` follows from them.
- **`ReplyProofs`**: `ReplyFromOneTier`: the accumulators are the provider's words at every frame,
  and start empty with each tier. `CommandsWhole` and `StrictestPartWins` are about `JInv`, that the
  verdicts are those of the policy on the commands of the calls, in their order (`Judged`), and
  that what makes arguments parse is their last piece (`BraceLast`). The rest is algebra of
  the policy, for commands of any length: a quote is open or not at a token whatever follows it,
  so the segments of a command divided at an operator outside quotes are those of its parts; and
  where nothing is escaped the two tokenizers see the same quotes (`SameQuotes`).

**Induction.** Folds over sequences (`LastSeq`, `Unseen`, `OpenQuote`, `ShellQuote`, `Foldable`) are recursive
functions. What they compute is proved by an induction over the set of the numbers for which
the claim holds (`Induction`, from `WFMin` and `NatLessThanWellFounded` of the library), as the
library's induction theorems take an operator that the provers cannot instantiate.

**Only model-checked**: the liveness properties `TurnsEnd`, `BatchEnds`, `BriefHeard`,
`EventuallyShown` and `CallsReturn`, as fairness and ENABLED are out of the prover's reach; and
the four properties of section 4, which do not hold.

## 6. Abstractions, and limits of the code the models show

`Session` treats an append as one step that succeeds (`Ledger` is the detail), a model
call as costing 1 with its usage reported, and a tool as a step that ends,
with or without an await. The `rules` event, which a turn appends when the size of
`AGENTS.md` changed, is left out: no turn or handler decides anything by it but the same
test. Streaming deltas are not events. `Approvals` leaves the policy free to give any
verdict. Identifiers (ULIDs) are assumed never to repeat. `Workspace` has neither ignored
files nor commits or staging of the user's own, and each git command is atomic, as git locks
its index and references. `Policy` separates tokens by spaces, takes a two-character operator
for one token and a glob for the set of what it matches; of what can be escaped it has the two
quotes, and it has none of the comments that `shell_words` skips. `Reply` handles a frame when it is
complete; which bytes it came in makes no difference.

What the properties except is what the code does not promise:

- A turn that runs out of iterations, whose last tier fails, or that is aborted ledgers no
  usage: what its calls cost never counts against the budget. `BilledOnce` says how much
  holds: the last event of such a turn is an error, unless the turn was aborted.
- A pause does not stop an escalation: a call under way that fails is followed by one to each
  tier that is left, the flag notwithstanding. `PauseOverrun` says that it is no more than
  these, and that no further iteration begins.
- Nothing keeps others out between `git add` and `git commit` of a checkpoint. What another
  turn of the session or a diff of the same directory stages there does no harm, but the
  checkpoint has a file as somebody else wrote it in between; and it is one of something
  else if a restore has staged an older checkpoint in between, or, for a subagent, if a diff
  of its session has staged the user's workspace. The turn's own writes are in none of
  these (`Undoable`), but they cannot be undone from the last two.
- The policy divides a line where `split_raw_segments` finds an operator outside quotes, and
  judges each part by its first words. Where a shell divides a line and that function does not,
  what follows is judged as arguments of the command before it: after an escaped quote,
  which it takes for a quote and a shell does not, at a single `&`, and at the end of a line.
  `StrictestWins` is about the operators that the function finds, and says that for a line
  without escaped quotes these are all of `&&`, `||`, `;` and `|` outside quotes.
- A steer that arrives after the last fold of a running turn is heard by no model call until
  something starts the next turn. `SteersHeard` says that no other steer is lost. Messages always
  spawn a turn and are not exposed to this (`MessagesHeard`).
- The view fetches and then subscribes: what is broadcast in between, an approval request
  perhaps, is never shown, and neither is what comes after a lag or a lost connection. A
  session opened while another loads leaves two streams posting into one view.
- A failing `git status` is taken for a clean worktree, which `adopt` then removes by force
  with all that was never committed; so it does with what the child's turn writes while it runs.
- A restore that others stage beside may write what they have staged, and a process left
  behind by a timeout or an interrupt goes on writing files.
- A tool call whose arguments were cut short runs with none: a terminal command is denied
  then (`CommandWhole`), a `dispatch_subagent` is not. The text of a tier that failed stays on
  the human's screen, before the next one's (`ReplyOfOneTier`).

## 7. What is not modelled, and the plan

In this order, each with an abstract property worth stating:

1. **meta.json as a file of its own**: `set_role` reads and rewrites it without a lock, beside
   another switch, a turn that reads it, or the dispatch that writes it for a child.
2. **Budget and restart**: limits read and raised concurrently, the bound on
   overspending with n turns, what a restart forgets (pauses, raised budgets, approvals, input).
3. **Delegation, completed**: the interdiction note, and a run with two children at once (the
   theorems hold for any number).
4. **More proofs**: the safety half of the liveness properties (a turn's progress measure never
   increases), and `Approvals` as a refinement of the tool step of `Session`.

Not planned: the wire formats of prompts, the path jail and the tools that only read, the
gate's verdict (the last matching line of a journal), configuration lookups, token and port
files, and the extension's rendering. They are I/O and text handling without state
that several tasks share.
