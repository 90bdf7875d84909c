# OpenBaD: models of its pipeline, chats, file tools and MCP servers

OpenBaD is a desktop application (Tauri, Rust) in which a language-model agent
works on a project. A person talks to it in *chats*: turns of model requests and
tool calls, written to a session's event log. Its tools change the *files* of a
workspace that other chats and the person change too, and call *MCP servers*,
processes that all chats of a workspace share. Its *pipeline* (ADR-009) works
unattended: it polls a repository's issues and reviews, admits some of them as
tickets, gives each ticket a worktree and an executor's turn, has the result
reviewed and merged, and picks up what it left unfinished. A person may watch,
stop, steer, launch, execute and merge at any time, and the app may go down at
any time. This directory models these four parts in TLA+, checks them with TLC
and proves with TLAPS, for instances of any size: the central safety properties of
the pipeline and that it implements an abstract board; of the supervisor, the file
tools and the MCP servers every safety property the runs check; and two
properties of the chats.

## Inventory

| Part | State it keeps | Operations | Talks to |
|---|---|---|---|
| Executor (`apps/desktop/src-tauri/src/executor.rs`) | in memory: `pipeline_runs` (cancel flags), `pipeline_slots`, `pipeline_watchers`; settings `pipeline.retry.*`, `pipeline.prepared.*`, `pipeline.watch.*` | a watcher's pass (`poll_once`, `resume_unfinished`, `advance`), `launch`, `execute`, review and merge, stop, the panel's commands | store (one lock per section), worktrees, `gh`, the agent |
| Rules (`crates/openbad-pipeline/src/{ticket,execution,stage}.rs`) | none; `Slots` is a counter | state machines, `effects_of`, `recovery_for`, `stage_of` | called by executor, supervisor and panel |
| Pipeline tables (`crates/openbad-store/src/pipeline.rs`, `migrations/0019_pipeline.sql`) | tickets, mandates, assignments, reports, attentions, subscriptions, cursors | create/move rows; unique indexes on trigger, open ticket per thread, active assignment per ticket | SQLite; every call commits on its own |
| Supervisor (`apps/desktop/src-tauri/src/pipeline.rs`, `crates/openbad-pipeline/src/{eval,cursor,source,trigger}.rs`) | a read position per source | `tick`: poll, judge, admit, wake, save the position | GitHub, store |
| Chat (`apps/desktop/src-tauri/src/lib.rs`: `chat`, `RunRegistry`, `repair_interrupted_turn`, `load_history`) | runs under way, each with a cancel flag and an inbox; cancelled ids | begin, open the turn, run the agent, close the turn; steer, stop, view, fork | agent, session store |
| Agent (`crates/openbad-agent`) | of one turn: history, new messages and how much of them is settled, step, tool calls under way, inbox | the loop over requests, replies and tool calls; compaction | providers, tools, the chat's observer |
| Session store (`crates/openbad-store/src/{store,projections}.rs`) | the append-only event log, the rows of messages and turns projected from it | append (event and rows in one transaction), rebuild, fork, replay | SQLite |
| File tools (`crates/openbad-tools/src/lib.rs`) | the workspace, `.openbad/{trash,undo,snapshots}`, checkpoint rows; in memory what each session has read | read, write, edit, delete, move, restore, undo, snapshot; validators | disk, checkpoint sink, the panel's `restore_checkpoint` |
| MCP servers (`crates/openbad-mcp/src/lib.rs`) | the global definitions file, each project's enabled names, a manager's copies and stamps behind two locks, a process per server | list, call, probe, add, update, remove, enable, disable, reload | disk, server processes, chats and the panel |
| Other tools, LSP, terminal | processes, approvals | one call each | operating system |
| Vault, transfer, updater | files | store a credential, export/import, install a release | file system, network |
| UI | none of its own | presentation | commands |

What is hard in this code: almost everything is done by several activities at
once (watcher loops, calls of `execute` and `chat`, commands of the panel, tool
calls on threads of their own) that hold a lock for one section at a time and
keep what they read across awaits of minutes; each store call commits on its own
and each file access is one of several, so the app can go down, and somebody else
can come, between any two; and tables in memory (`pipeline_runs`, slots, the run
registry, the record of reads, an MCP manager's copies) stand beside rows and
files that say the same. `PROJECT.json` lists the hazards one by one, at their
lines.

What makes each part correct:

* executor: one turn per ticket; no more turns than slots; a turn's rows are its
  own until it closes them; a stop reaches the turn; what is admitted is
  launched, what is pending is run, what is final is concluded; nothing is left
  running with nobody at it;
* rules and tables: an ended assignment stays ended, at most one is active, an
  ended ticket shows why;
* supervisor: no event is passed over, none is acted on twice, a message reaches
  a turn that starts after it;
* session store: a projection says what the log says, a summary hides only what
  it was made from, a repair leaves a history a provider accepts;
* chat and agent: one turn at a time in a session, every tool call answered once
  whatever interrupts it, everything shown settled once, a turn ends;
* file tools: what a tool overwrites is what its session knows, what it replaces
  can be had back, a session is not refused its own file;
* MCP servers: no process is left behind, an answer belongs to its question, the
  definitions are not lost, a command returns.

## Modules

| Module | What it is |
|---|---|
| `PipelineRules` | the pure rules: ticket and assignment states, `effects_of`, `ReportOutcome::parse`, `recovery_for` |
| `Executor` | the state machine: rows, GitHub, memory, runners and hands; one action per lock section; the properties |
| `ExecutorInvariant` | the inductive invariant of the unattended pipeline |
| `WorkBoard` | the abstract specification: a phase per ticket |
| `ExecutorBoard` | the refinement mapping and the statement that `Executor` implements `WorkBoard` |
| `MCExecutor` | the instance for TLC (symmetry) |
| `Admission` | the supervisor's rule table: whether a trigger starts work, continues it, or goes nowhere |
| `Supervisor` | GitHub, the read position, ticks, a thread's tickets, and of the executor what the supervisor sees; the properties |
| `MCSupervisor` | the instances for TLC: who writes what |
| `SessionLog` | the event log as a value: what appending, projecting, repairing, summarising, replaying and forking make of it |
| `Conversation` | `chat`, its registry and inbox, the agent's loop, and what a person does meanwhile, over `SessionLog`; the properties |
| `ConversationInvariant` | the inductive invariants of `Conversation`: sound logs, what a run has still to write, where a steering message is, what rows are made from, what a summary would hide, where replies and results are together |
| `MCConversation` | the instances for TLC: budgets, and the logs a session may start with |
| `Files` | the file tools, the record of reads, what they keep; the properties |
| `MCFiles` | the instance for TLC: a chat and a ticket's agent; symmetry |
| `McpServers` | managers, their locks and files, server processes and requests; the properties |
| `MCMcpServers` | the instances for TLC |
| `ExecutorProofs` | `Spec => []TypeOK` |
| `ExecutorSafety` | `Unattended => []IInv` and what follows from it; what holds of `Spec`, with the panel: one active assignment, and flags that are those of calls at work |
| `ExecutorRefinement` | `Unattended => ImplementsWorkBoard` |
| `ConversationProofs` | chats of one session take turns; only a session's last turn is open, nothing is recorded twice or forgotten, and the rows are what the log says |
| `ConversationPairing` | a request never shows a reply without its results, or results without their reply |
| `SupervisorProofs` | no event is passed over, what is remembered was handled, nothing is woken twice or by itself, replies reach a turn |
| `McpProofs` | processes are owned, answers belong to their questions, the definitions survive |
| `FilesProofs` | only known text is overwritten, what is replaced is kept, own writes are not refused |

### How `Executor` corresponds to the code

*Rows* (`ticket`, `assignment`, `report`, `latest`, `attempts`, `prepared`) are
the database; *outside* (`worktree`, `pullRequest`) is the disk and GitHub;
*memory* (`slots`, `runs`, `cancelled`, `runner`, `hand`, `watching`, `loops`)
is what a crash forgets. `assignment[t][i]` is the state of the `i`-th
assignment of ticket `t`; `latest[t]` says which round's report has the newest
`updated_at`.

A *hand* walks through tickets one at a time: a watcher's loop, or the panel
when it launches or merges. A *runner* is one call of `execute`. An action is a
stretch of code with no lock released and no await in it:

| Code | Actions |
|---|---|
| `launch`, first lock section, `create_pipeline_assignment`, `ensure_worktree`, `run_prepare`, the failure's report | `FindUnassigned` (`WatcherLaunch`, `PanelLaunch`), `CreateAssignment`, `EnsureWorktree`, `PrepareSucceeds`, `PrepareFails` |
| `advance` of a pending assignment, `pipeline_execute` | `WatcherExecute`, `PanelExecute`, `PanelExecuteRefused` |
| `execute`: check, worktree and slot, session, move to running, turn, review and merge, rebase, closing section, the caller's `runs.remove` | `CheckPending`, `AcquireSlot`/`RefuseSlot`, `FailBeforeTurn`, `BeginTurn`, `FinishTurn`, `KeepReport`/`MergeApproved`, `RebaseConflict`, `CloseTurn`, `Leave` |
| `resume_unfinished`: candidates, then each one | `FindUnfinished`, `ResumeUnfinished` |
| `pipeline_stop`, `pipeline_merge_ticket`, `pipeline_watch`, `pipeline_unwatch` | `Stop`, `BeginMerge`/`FinishMerge`, `Watch`, `Unwatch`, `LoopReturns` |
| the supervisor's `admit` and `wake` | `Admit`, `Wake` |
| the app going down | `Crash`, and between two commits `CrashWhileClosing`, `CrashWhileFailing`, `CrashWhileWaking`, `CrashWhileResuming` |

The watcher reads `pipeline_runs`, then the assignment, then calls `launch`,
each under a lock of its own; the model does the three in one step
(`WatcherLaunch`), and likewise the check and the insert of `WatcherExecute`.
Between them only the panel could put a flag in, and whatever it changes in the
rows is looked at again by `CheckPending` and `CreateAssignment`.

`UnattendedNext` is the pipeline left to itself: one watcher, messages, GitHub,
stops, faults. `Next` adds the panel's commands. `Faults` says which things may
go wrong in an instance.

### How `Supervisor` corresponds to the code

*GitHub* (`author`, `message`, `touched`) is what the feeds are read from;
*rows* (`ticket`, `opened`, `work`, `spoke`, `cursor`) are the tables, with the
order of `created_at` and the `MAX(ended_at)` of a ticket's assignments; `tick`
is what a tick under way keeps in memory. A ticket is named by the trigger that
created it, since `create_ticket` returns the same one for the same trigger.
`judged`, `reached`, `woken` and `message.found` are history: what the
properties are about and no action reads.

| Code | Actions |
|---|---|
| `tick_source`: read the position; three requests; a request's error | `StartTick`; `ReadIssues`, `ReadComments`, `ReadReviews`; `PollFails` |
| `thread_context` and `judge` | `Ignore`, `Decide` with `Verdict` (`Admission!Judge`) |
| `admit`, `create_ticket`, its conflict | `Admit`, `AdmitConflicts` |
| `wake`, and the app going down between its two commits | `Wake`, `CrashWhileWaking` |
| the position's save after a whole batch | `SavePosition` |
| the executor's `launch`, `resume_unfinished`, the beginning and the end of a turn | `Launch`, `PrepareFails`, `Resume`, `BeginTurn`, `FinishTurn` |
| `pull_request_reviews`: the listing of pull requests, which of them to read | `Listings`, `Reviewed` |
| `SourceCursor::accept` for one trigger after the other | `Accepted`, `Taken` |
| people, bots and the executor writing on GitHub, opening a pull request or pushing to it | `Label`, `Post`, `TouchPull` |

`Executor` takes `Admit` and `Wake` as they come; `Supervisor` says when they
come, and takes turns as they come.

### How `SessionLog` and `Conversation` correspond to the code

`SessionLog` has no state: a session's store is a record of its `log` and the
rows projected from it (`surface`, the messages a request replays; `turns`, how
each ended), and each operation of the store or of the desktop is an operator on
it. An event's number is its index. `append_event` and `projections::apply` are
one transaction; `Projected` is `rebuild`, which the property
`ProjectionsMatchLog` compares with the rows kept step by step.

`Conversation` has the stores, and of each run (one call of `chat`) what
`run_with_observer` keeps: `base`, the history its requests start with, `fresh`
(`new_messages`), `mark` (`step_mark`), the calls still to do. A tool call is
named by its turn, its step and its place.

| Code | Actions |
|---|---|
| `begin_run`; an error before the turn | `Begin`, `BeginFails` |
| the section of `chat` under the store's lock: session, `repair_interrupted_turn`, `load_history`, `turn/start`, the prompt; an error after `turn/start`, which leaves the turn open | `OpenTurn`; `OpenFails` |
| the head of the loop: cancel check; `step/start`, claiming the inbox | `NoticeStop`; `BeginStep` |
| compaction before a request, `persist_compaction` | `Compact` |
| the request; it fails or is cancelled | `Ask`; `StepFails` |
| the reply: interrupted, cut at the output limit, with calls, an answer | `ReplyInterrupted`, `ReplyCut`, `ReplyCalls`, `ReplyAnswer` |
| tool calls: one or a group of parallel ones; too many unusable arguments; a stop; all done | `RunTools`, `GiveUp`, `ToolsStopped`, `ToolsDone` |
| the step's end, the last look at the inbox | `LeaveStep`, `Conclude` |
| after the agent: `finish_inbox`, `turn/end` and the guard's drop | `CloseInbox`, `CloseTurn` |
| `steer_chat` (look up, push), `cancel_chat`, `session_view`, `fork_session` | `SteerFinds`, `SteerPushes`, `Stop`, `View`, `Fork` |
| the app going down | `Crash`; between the commits that open a turn `CrashWhileOpening` |

`ReplyCalls` to `ToolsDone` keep what they add in memory: nothing is written
until the step settles, in one commit, which is why a crash loses a step's calls
together with their results.

### How `Files` corresponds to the code

A tool's call is a walk through accesses of the disk and of the session's record
of reads; each is an action, since the accesses of another session's tool and of
a person come between any two. A file is a text and a stamp: the text is named
by the call that made it; the stamp (`FileStamp`) is new with each change and
kept by a rename. `known`, `crossed` and `placedBy` are history: what a session
last saw or put, what somebody else changed during its call, whose tool a file is from.
`Chats` are the agents with a sink for checkpoints: `chat` wires one, `run_subagent`
and the pipeline's agents do not, and for them `checkpoint_before_write` saves
nothing and goes on. A record of the undo stack stays when it is done: its file is
renamed to `.done`.

| Code | Actions |
|---|---|
| `read_file`: content, then `mark_read` | `ReadContent`, `ReadStamp` |
| `write_file`, `edit_file`: `write_blocked_reason`; previous content; `checkpoint_before_write`; `record_undo`; `atomic_write`; `run_validators` (passes, or puts the content back); `settle_write` | `Check`, `Capture`, `Save`, `Record`, `Put`, `Accept`/`Reject`, `Settle` |
| `delete_file` (trash or for good), `move_file`, a tool that keeps a file of its own (`todo_write`, `write_handoff`) | `Check`, `Save`, then `Remove`, `Move` (or, where the rename fails, `Copy` and `Unlink`) and `Settle`, `Put` |
| `restore_trash` | `FindInTrash`, `TakeFromTrash`/`TrashIsGone` |
| `undo_last`: newest record, content, `settle_write`, the record's rename | `PickUndo`, `ApplyUndo`, `Settle`, `FinishUndo` |
| `snapshot_create`, `snapshot_restore` | `TakeSnapshot`, `RestoreSnapshot` |
| `restore_checkpoint` (panel); a person at work; the app going down | `RestoreCheckpoint`; `PersonEdits`; `Crash` |

### How `McpServers` corresponds to the code

*Disk*: `file` (the definitions all projects share), `temp` (the file a save
writes first), `project` (the names a project enables). *Memory*: a manager's
copies and stamps `mem`, its two `RwLock`s, its `clients`. `proc` are the server
processes: who has the pipe's mutex, the questions asked and the answers not yet
read. A thread runs a command of the desktop, which is a sequence of manager
methods (`CallsOf`), each of which begins with `reload_if_changed`.

| Code | Actions |
|---|---|
| `reload_if_changed`: stamps; `reload`: load, global lock, project lock, `stop_client` of each changed server, `record_stamps` | `Look`; `LoadGlobal`, `LoadProject`, `ReloadGlobal`, `ReloadProject`, `Unmap`/`Kill`, `ReloadStamps` |
| `servers`, `call`, `probe`: read locks, lookup | `TakeRead`, `ReadConfig` |
| `client_for`, `request`, a late or foreign answer, a timeout | `FindClient`, `Ask`, `Hear`, `Return`, `GiveUp` |
| `add_server`, `update_server`, `remove_server`: `save_yaml` (temporary file, rename), memory, stop, enablement | `TakeGlobal`, `SaveTemp`, `Rename`, `Saved`, `Unmap`/`Kill`, `Stopped`, `DropEnabled` |
| `set_server_enabled` | `TakeProject`, `Toggle`, `Unmap`/`Kill`, `Stopped` |
| a server's reader thread; a server dies; somebody edits the file | `Answer`; `Dies`; `Edit` |

## What the runs check

| Run | Specification and bounds | Shows |
|---|---|---|
| `Unattended` | `Unattended`; 2 tickets, 2 calls, 1 slot, 2 rounds, the second for one ticket only, 1 retry; crashes, failing sessions, conflicts, review and merge | capacity, one executor per ticket, turns own their rows and can be stopped, ended tickets are over, ended rounds stay ended, refinement of `WorkBoard` |
| `UnattendedProgress` | `FairUnattended`; 2 tickets, 2 calls, 1 slot, 1 round; no faults, no automatic merge | admitted tickets are launched, assignments with a worktree are run and reported, a turn that is told to stop ends its round as waiting; what is final is ended and holds no slot, no slot is held for nobody |
| `PanelCommands` | `Spec`; 1 ticket, 1 call, 2 watchers, 2 rounds; every fault | types, one active assignment per ticket, no ticket is passed over without a call |
| `CrashStrands` | `FairUnattended`; 1 ticket, crashes | **violated**: an assignment running with nobody at it is never ended |
| `TwoTicks` | `Supervisor!Spec`; 2 issues of which one is labelled, 1 comment, 2 ticks, crashes, 3 instants | no event is passed over, what is remembered was handled, no person's message wakes a ticket twice, own output is ignored, a reply reaches a turn |
| `FeedsProgress` | `FairSpec`; 1 pull request, a bot's comment, a person's or a bot's review, failing requests, 2 instants | whatever is written is judged, unless a conflict holds the position; no review is passed over |
| `ChatTurns` | `Conversation!Spec`; 1 chat of two steps, replies with 2 calls, a session that is empty, has three finished turns and a summary, or an interrupted turn; 1 steering message, 1 fork; stops, views, cuts, failures, unusable arguments, summaries, crashes | every request, and the next turn's after any loss, pairs calls with results; a summary loses nothing; the rows say what the log says; nothing is settled twice |
| `ChatsInTurn` | `FairSpec`; 2 chats on one session, two steps and one; stops, failures, summaries, crashes | chats take turns, the later one closes what the earlier left, every turn ends |
| `SteeredUnlogged` | `Spec`; 1 chat of two steps, 1 steering message | **violated**: a message the model was shown is in no log |
| `FileTools` | `Files!Spec`; a chat, a ticket's agent in a session of its own and without a sink for checkpoints, 2 files, every tool, 3 calls or events, symmetric in the files | the guard lets a session overwrite only what it knows, what is replaced is kept, own writes are not refused |
| `McpCommands` | `McpServers!Spec`; 1 workspace, 2 threads, 1 server, every command, 3 commands or edits; servers answer late, die, files are edited | locks are held properly, no process without an owner, answers belong to their questions, the definitions survive |
| `McpLocks` | `FairSpec`; 2 threads, a list and a toggle, an outside edit | **violated**: two commands wait for each other for good |

The violations are disagreements between the code and what its own
documents say; `PROJECT.json` quotes both sides under "findings".

### Bounds

* `MaxRounds` caps a ticket's assignments. `launch` and `resume_unfinished` are
  simply not taken past it (`OutOfRounds`), and `Wake` neither. Two rounds are
  enough for everything in which one round meets its successor's rows.
  `Unattended` goes on only from states in which one of the two tickets at most has
  come back for its second round (`OneComesBack`): the other one competes with it for
  the slot in its first.
* `MaxAttempts` is 1 instead of 5: the counter matters at its limit, and a crash
  between counting and reopening, only.
* Two tickets compete for one slot: the smallest instance in which a slot is
  refused, handed over, or taken twice. `execution.slots` may be larger, the
  theorems hold for every value.
* One ticket in the runs about a single ticket's life, where a second one would
  only multiply the states. `PanelCommands` has one call, so a flag of one call
  replaced by that of another does not come up in it; `SkippedForACall` is proved
  for any number of calls.
* One pull request per ticket: its branch has one, and what matters of it is
  whether it is open, merged, or recorded.
* The ten-minute cooldown of `resume_unfinished` only delays it and is left out;
  the wait between passes likewise.
* Time in `Supervisor` is counted in units within which order is not told apart;
  the app's clock and GitHub's are one. `Overlap` is one unit and a poll takes at
  most `PollTime`, one unit too: the code's overlap is a minute, and that a poll's
  requests take no longer together is an assumption (with `PollTime` 2 TLC finds
  an event passed over; `gh` is called without a timeout). A tick acts on a verdict within
  the unit, a turn takes at least one. `MaxTime` 3 gives an event, a turn after
  it and a message after that.
* `Page` is larger than the number of events: a response fits its page. With
  `Page` 1 an event is passed over; the code's page is a hundred.
* `Listed` is the twenty of a listing, and no run has more than one pull request: two
  whose updates decide which of them is listed make the runs too large. With two and a
  listing of one TLC finds a review passed over, and none where `PullsFit` holds, the
  hypothesis of the theorem.
* `FeedsProgress` has no issue: issues are the first of a tick's three requests, so
  that whatever cuts a tick short before it has judged them does so to comments and
  reviews, and `TwoTicks` has them under the safety properties. An issue besides makes
  the liveness check too large.
* `Remembered` is 1 in `TwoTicks`, so that a position forgets, where the code keeps
  2 048; one attempt of `resume_unfinished` per ticket.
* `Conversation`: `MaxSteps` is 2 for the first chat and 1 for the second: a step
  after which there is another, and one after which there is none. A reply has no
  calls or two (`CallCounts`), the fewest of which some are answered and some are
  not. `MaxUnusable` is 1: one unusable call is tolerated, two in a row are not.
  The chats are in named sessions; a chat in a new one (`new`) is left to the
  notes on the hazard at `begin_run`.
* `Files`: three calls or events (`MaxCalls`) are a read, a write that relies on
  it, and somebody's change at any point of either; or a write, its undo and a
  third party. The two agents have a session each; that a chat and its subagents
  share one, and with it what the session knows, is left to the theorems, which are
  for any `SessionOf` and `Chats`. Two paths are needed by a move only, and any
  move may have to copy. A stamp tells any two changes
  apart: two within a millisecond that leave the length alone would be taken for
  one by the code. Copying a snapshot is one step.
* `McpServers`: `MaxOps` 3 is an edit that makes a command reload, that command
  and another one beside it, or three commands on two threads; a call whose answer
  is late, the next one and a stop. One definition (`Versions`) is enough for
  these runs: what changes is whether there is one. A lock goes to any thread that
  finds it free; that a waiting writer keeps new readers out, as std's `RwLock`
  may, would only remove behaviours of the safety run, and a cycle of `McpLocks`
  has no reader in it that waits for a writer to be let in first.
* `CHECK_DEADLOCK FALSE` everywhere: with its rounds, calls or commands used up a
  finite instance stops, as does a system with nothing to do.

### Fairness

`FairUnattended` adds weak fairness of: a pass reaching each ticket it should
launch or execute (the loop visits every listed ticket on every pass); each step
of a launch and of a resume (code with no await, and a prepare command that is
killed after ten minutes); each step of a call of `execute`. The last takes it
that an executor's turn and a reviewer's turn end; the code bounds them by the
agent's own limits and the cancel flag, which are outside these modules. Nothing
is assumed of people, messages, or GitHub, and no strong fairness is used: a
ticket that is refused a slot is tried again on the next pass, and gets one
because the ticket that holds it ends its round.

`Supervisor`'s `FairSpec` adds weak fairness of the watcher starting a tick, and
strong fairness of each of its steps: a request that is repeated forever is
answered at some time, so that the tick is not cut short before that step every
time. Strong, because a failed request or a failed admission starts the tick over
and the step is disabled in between. There is no crash in that run: an app that
goes down at the same trigger every time never gets past it.

`Conversation`'s `FairSpec` adds weak fairness of each chat's next step and of a
push under way: a request and a tool call have time limits, so that the model and
the tools answer or are given up, and a command that was called runs to its end.
`McpServers`' adds weak fairness of each thread: it runs, and a lock that stays
free is taken in the end. In `McpLocks` neither lock is free again.

## Known disagreements

What the models show of the code and no run keeps as a violation:

* A ticket whose pull request was merged has a report that says `merged`, which
  `ReportOutcome::parse` does not read (`ticket.rs:153`): `execute`'s closing
  section stops after storing it, and the assignment keeps running. Hence
  `FinalReportConcludes` is checked without automatic merging.
* `pipeline_execute` puts its flag in `pipeline_runs` without looking for one
  (`executor.rs:484`), and the pending check and the move to running are two lock
  sections, between which `try_acquire` says yes to a ticket that has a slot
  (`execution.rs:265`): two calls of the panel may get the turn of one ticket, where
  ADR-009 (line 73) says that one executor owns a ticket at a time. TLC finds that in
  `Spec` with two calls. `OneExecutorPerTicket` is checked and proved of the
  unattended pipeline for that reason.
* `wake` gives a pending assignment to a ticket that was never launched
  (`pipeline.rs:373`); `execute` then fails for want of a worktree and `launch`
  refuses a ticket with an active assignment, on every pass. `AssignedIsReported` asks
  for a worktree for that reason, and `AdmittedIsAssigned` is content with the
  assignment the wake made.
* `advance` launches every open ticket without an active assignment
  (`executor.rs:1781`), also one that is `ready` or `waiting`, which `ticket.rs:121`
  and `:183` call idle until something wakes it.
* Rule 7 ignores a message older than the end of the ticket's last turn
  (`eval.rs:236`), also one written after that turn loaded its history: when the
  turn ends its ticket nothing delivers it. `RepliesAreServed` is about messages
  that find the ticket at rest.
* On a thread where a bot's message opened a second ticket, `resume_unfinished` may
  reopen the first one beside it, as the unique index is about open tickets only.
  `thread_context` then judges a message by the newer ticket and `wake` gives it to
  the open one; if that is in the middle of its turn, no turn sees the message.
* A review arrives on the pull request's number, which has no ticket
  (`executor.rs:762` subscribes the issue's thread, and nothing reads
  subscriptions).
* `pull_request_reviews` reads the reviews of the twenty pull requests updated last
  (`source.rs:305`), while the position moves to the newest event of any feed, of
  which `cursor.rs:3` says that a restart "must not drop them either". When more than twenty were updated
  since the position, a review on another is passed over unless its pull request is
  updated again.
* Two workspaces have two managers, which save the shared definitions through one
  temporary file without a lock in common: with two managers TLC finds a state
  with no definitions file. `DefinitionsSurvive` is checked for one.
* `persist_project` records the stamp of a global file it has not read, and a
  reload the stamps of files as they are after it loaded them: a change in between
  is not noticed, and a later save writes over it.
* A server that died stays in `clients`; every call on it fails until somebody
  stops, toggles or updates it. An agent's toggle probes the server afterwards,
  which starts it again also when it was just disabled.
* `move_file` keeps a checkpoint of its source and none of a destination it replaces;
  `undo_last` and `snapshot_restore` write over what is there and keep nothing of it;
  an agent without a sink for checkpoints keeps nothing of a file it deletes for good
  or of the todo list it replaces. `ReplacedIsKept` claims nothing of these.
* `checkpoint_before_write` saves nothing for an agent without a sink, where
  `docs/plans/0001-implementation-plan.md:353` says of `write_file` and `edit_file`
  that they save the original to `file_checkpoints` before mutating: the panel can
  restore nothing of what a subagent or a ticket's agent wrote over. The undo stack
  has it, which is what `ReplacedIsKept` claims.
* When the rename of `move_file` fails and then the removal of the copied file, the
  copy stays at the destination, where the session has no stamp of it.
* The loop gives up on unusable arguments without settling the step (`GiveUp`): its
  messages are in no log and its `step/start` has no end.

## What is proved

Of the pipeline, with TLAPS, for every set of tickets, calls and watchers, every
capacity, number of rounds and attempts, every policy and every set of faults, from
`ConstantsAssumption` alone where no other hypothesis is named:

* `ExecutorProofs!TypeCorrect`: `Spec => []TypeOK`. One lemma per action. The type
  invariant carries what the others need: a call past its check has a round, a
  hand that resumes noted fewer attempts than the limit (which is why a second
  loop's stale count cannot exceed it).
* `ExecutorSafety!InvariantHolds`: `Unattended => []IInv`. None of the safety
  properties is inductive alone. `OneExecutorPerTicket` holds because a call's
  flag stays in `pipeline_runs` until it leaves (`CallsOwnTheirTickets`) and the
  one loop that walks (`OneWatcherWalks`) calls nothing on a ticket that has a
  flag. `TurnOwnsItsRows` needs that between a call's check and its turn the
  assignment stays pending (`CheckedStaysPending`), which needs that no launch is
  under way on a ticket with a flag (`LaunchIsAlone`) and that at most one
  assignment is active. `TurnsWithinCapacity` needs that a call holds its slot
  from `try_acquire` to the closing section (`TurnsHoldSlots`); with one call per
  ticket the map from turns to tickets is an injection into `slots`, and a
  cardinality theorem does the rest. TLC checked `IInv` on `Unattended` before it was
  proved.
* From it `OneExecutor`, `StopsReachTurns`, `TurnsOwnRows`, `EndedIsOver`,
  `TurnsFitSlots`, and the action property `EndedRoundsAreOver`.
* `ExecutorSafety!RunningIsAttended` (`RunningHasItsTurn`), `SlotsAreForCalls`
  (`SlotsAreUsed`) and `FinalIsConcluded` (`FinalReportConcludes`): what a turn
  leaves behind. They are theorems of the unattended pipeline under hypotheses on the
  constants, and each hypothesis is a place where the code gives the property up. All
  three take `NothingMerges`: a `merged` report is not read back, and the closing
  section stops with the assignment running and the slot taken (Known disagreements).
  The first and the third take `NoCrash`: nothing looks at a running row after a
  restart. The second and the third take `SessionsStart`: a call that fails before its
  turn keeps its slot; that no other active assignment makes it fail there is proved
  (`IndexAllowsTurns`). The second allows crashes, which forget the slots.
  `ReportsAreFinal` is what must be added to `IInv`: a turn that is over will report
  `waiting`, `ready` or `failed`, so that closing it ends its round and frees its slot.
  That a slot taken on a ticket is not that of a round whose report is final needs
  `SlotsAreUsed` too: the call that has the slot is on a round that is pending or
  running (`IInv`), and a round whose report is final is ended (`FinalsEnd`).
* `ExecutorRefinement!Implements`: `Unattended => ImplementsWorkBoard`. `RInv` adds
  to `IInv` that nothing is assigned to a ticket before it is admitted. One lemma per
  kind of step says which phase it moves and how: a section of a hand or a runner
  moves its own ticket's or none, a turn starts only when the tickets at work are in
  the slots and its own was not yet, and a crash strands what was under way, with at
  most one ticket caught between the commits of a section that concludes or reopens
  it: a crash cuts off one section. Liveness is no part of `WorkBoard`.
* `ExecutorSafety!OneActive` and `SkippedForACall`: `Spec => []AtMostOneActive` and
  `Spec => []SkippedTicketsHaveACall`, of the pipeline *with* everything the panel
  offers. The first needs only that the section that writes a pending row looked for
  an active one itself, and the partial unique index; the second that a call's flag
  is set before it starts and taken out in no step but its last.

All but `TypeCorrect` and these two are about `Unattended`. With the panel
`OneExecutorPerTicket` is false (Known disagreements), and so the invariant is.

Of chats, for every set of sessions, chats and steering messages, every step
budget and number of calls in a reply, from `Conversation!ConstantsAssumption`:

* `ConversationProofs!OneTurn`: `Spec => []OneTurnPerSession`, if no chat asks for
  a new session (`"new" \notin Events`; with one the property fails, since such a
  run is registered under no session). `RegistryInv` adds what makes it inductive:
  registered runs have pairwise different names (`Exclusive`, from `begin_run`'s
  check), and a run in its turn writes to the session it is registered under
  (`TurnsAreNamed`). Most of the proof says which steps leave both alone.
* `NothingTwice` (`SettledOnce`), `OnlyLastIsOpen` (`EarlierTurnsAreClosed`) and
  `TypeCorrect` (`TypeOK`), from `SettledInv`, for chats in named and in new
  sessions, so without `OneTurn`. Two hypotheses on the constants: the logs a session
  may start with are sound (`EarlierSound`), and a steering message is told from the
  other texts (`SteeringsApart`). `MCConversation` assumes both, so TLC evaluates them
  for the logs and messages of the runs. `SettledInv` says:
  - of every log (`LogSound`), that its turns begin one after the other, each when
    those before it have ended, nothing is written to a turn that has not begun, and
    no result or steering message is in it twice; of the rows (`RowsSound`), that they
    fit the log. The lemmas about `SessionLog` say that appending, a repair, a summary,
    opening a turn and a fork all leave a sound log: a fork since a beginning of a
    sound log is sound, whatever turn it cuts;
  - of a run (`RunLogged`, `RunUnlogged`), that its turn is its own, that the log has
    nothing about the calls of its present step before `settle`, and that what it
    still has to write answers calls of that step, each once, and none of those it has
    still to make. So an interrupted step may be settled at any point, and a repair
    writes only results nobody else will: two runs with one session have two turns;
  - of a steering message (`SteeringInv`), that it is in one place: not yet claimed,
    in the hand of one run, or logged, since claiming takes it out of the one inbox
    that has it.
* `RowsAreTheLog` (`ProjectionsMatchLog`), from `SettledInv` and `RowsInv`, under the
  same two hypotheses. `RowsInv` says what each row is made from without rebuilding
  it: a message is on the surface when no summary after it hides it, and a turn's
  status is what the last of its ends said. Each operation of `SessionLog` keeps that
  (`SayTells`, `SummariseTells`, `StartTells`, `EndTurnTells`, `RepairedTells`), and
  so does rebuilding (`ProjectedTells`); two stores that have it of one log are equal
  (`RowsAreTold`), since every turn up to the last has its `turnStart` in the log.
* `NothingIsForgotten` (`NothingForgotten`), from these, `ApartInv` and `KeptInv`, if
  the logs a session may start with have forgotten nothing (`EarlierKept`, assumed in
  `MCConversation` too). `KeptInv` says two things. Of every log, at every point of it
  (a fork may cut it anywhere): a message is shown, or a summary is shown that was
  made from it (`KeptAt`). Of every run that may still summarise: whatever the cutoff
  computed from the first `k` entries of its history would hide, is among those `k`
  (`Takes`). The second holds when the turn opens, because the history is the surface
  in order, its one summary first (`ReplayedOrdered`), and stays true while the log
  only grows, so long as no other run summarises in that session. `ApartInv` says why
  none does: registered names differ, and a chat in a new session, which has no name
  and may meet another there, has a history of one message and nothing to summarise
  (`CompactNamed`). `OneTurn` is not needed, and fails in that case. `load_surface_messages`
  is stated with `InOrder` (the k-th smallest seq for each k), not with `SelectSeq`, which is
  recursive and has no theorem in the library.
* `ConversationPairing!RequestsStayPaired` (`RequestsArePaired`), from these and
  `PairedInv`, if the logs a session may start with can be made paired
  (`EarlierPaired`, assumed in `MCConversation` too). A reply is followed by the
  results of just its calls in five places, and each needs it of the one before:
  - in what a turn has said (`SaidPaired`): with the results still to come of the calls
    it is making, which a stop, a failure or the output limit writes in their place,
    and up to the mark of the last settled step;
  - in the log of a session with a turn under way, and of any other but for the last
    reply of an interrupted turn (`MayBePaired`, `Unfinished`), which
    `repair_interrupted_turn` completes: since calls have their turn and step in their
    name, the calls without a result are that reply's (`RepairedPaired`). A fork cuts
    before a user's message, so never through a step that was settled whole
    (`ForkedPaired`);
  - in what is shown of a log (`SurfacePaired`): no summary's cutoff is between a reply
    and its results (`CutsNone`, a part of `LogPaired`), so those are hidden together;
  - in a turn's history (`HistoryPaired`), which the log leaves as it was, and which
    after a summary is that summary and a tail without a head that was paired;
  - in what the next summary would leave (`CutsPaired`): a cutoff computed from the
    entries of as many messages as the provider accepts as a head is itself never
    between a reply and its results. That stays true of the log as it grows.
  `PairedInv` was checked by TLC on `ChatTurns` and `ChatsInTurn` before it was proved.

Of the supervisor, for every number of issues, pull requests, messages, authors
and ticks, every overlap, page, memory of emitted ids and set of faults, from
`Supervisor!ConstantsAssumption`. The proofs build on `RowsInv` (a ticket's trigger
is written and its assignment is of an open ticket) and `TimesInv` (nothing is
dated in the future):

* `SupervisorProofs!TypeCorrect`: `Spec => []TypeOK`.
* `RememberedWasHandled`: `EmittedWasHandled`. `EmittedInv` adds that what a tick's
  own position remembers is handled or waits in its batch, which is empty when the
  position is saved.
* `NothingIsPassedOver`: `Spec /\ []PullsFit => []NothingPassedOver`, under two
  hypotheses on the constants. `FeedsFit`: a page holds a feed. `PollsInOverlap`: a
  poll takes no longer than the overlap reads back. `PullsFit` is about the
  behaviour: whenever reviews are about to be read, no more pull requests were
  updated since the tick's position than a listing has. Without any of the three TLC
  finds an event passed over (Bounds). `ListingHas`: were one of those
  pull requests left out, the listing would be full of others touched since as well,
  and they would be one too many.
  `PositionInv` says of every tick under way that its watermark is no later than
  `asked + PollTime` (`PollIsTimely`), and that what was older than its start when
  it asked is handled or in its batch, feed by feed (`PollIsComplete`). It does not
  matter whose position is saved last, or that it may go back: each is complete by
  itself.
* `WokenOnce`: `WokenIsSpent`, and `OwnOutputIsNoInput`: `OwnOutputIsIgnored`. Both
  rest on one fact kept by every step: the ticket is at work, or its last turn ended
  no earlier than the message was written (`IsSpent`), since an assignment ends only
  in a report, dated then; and rule 7 takes such a message for old.
* `NewestIsServed`: `Spec /\ []LiveInv => []RepliesAreServed`, where `LiveInv` says
  that the open ticket of a thread is its newest. A person's message that found its
  ticket at rest has been seen by a turn, or the newest ticket is about to have one,
  or the message is still to be judged and newer than that ticket's last turn
  (`ReplyWaits`). `AdmittingInv`, that only issues and bots' messages are admitted,
  keeps a reply from opening a ticket of its own.
* `RepliesReachATurn`: `LiveInv` holds, and replies are served, under
  `OlderStayEnded`: no bot's message opens a second ticket on a thread, or no ticket
  has a pull request to be resumed for. Otherwise `resume_unfinished` may reopen an
  older ticket beside a newer one; the message is judged by the newer one's last
  turn and given to the older one, whose turn under way does not see it (Known
  disagreements).

Of the file tools, for any number of agents, sessions, paths, tools and calls, with
any of the agents in a session together and any of them without a sink for
checkpoints, from `Files!ConstantsAssumption`:

* `FilesProofs!TypeCorrect`: `Spec => []TypeOK`.
* `NothingUnknownIsTaken` (`OnlyKnownIsOverwritten`), an action property, from
  `GuardInv`: equal stamps tell equal texts (`StampsTell`), what a session holds a
  stamp of it knows (`SeenIsKnown`), and a call between its check and its write still
  knows what it found there (`CallsKnow`), each except where `crossed` says that
  another changed the file during one of the session's own calls. The exception is
  the code's: it looks at a stamp and writes later.
* `NothingIsLost` (`ReplacedIsKept`), from the same invariant: what `write_file`,
  `edit_file`, `delete_file` and `todo_write` replace or take away is kept somewhere
  when it goes. A write or an edit has recorded it for undo, whoever makes it
  (`RecordsFirst`), and no record leaves the stack (`UndoIsKept`); a deletion puts it
  into the trash; for a deletion for good and the todo list a chat has a checkpoint
  (`SavesFirst`), which only a restore of it takes away, and that is a change of the
  file during the call. `KeepsIt` leaves out an agent without a sink deleting for good
  or replacing its todo list, of which the code keeps nothing, and the text of the
  property leaves out `undo_last`, `snapshot_restore` and a move's destination.
* `OwnWritesGoThrough` (`OwnWritesAreNotRefused`), from `PlacedIsSeen`: what a
  session's tool put somewhere has its stamp, or a call of the session is between
  its write and `settle_write`.

Of the MCP servers, for any number of workspaces, threads, servers and commands,
from `McpServers!ConstantsAssumption`:

* `McpProofs!TypeCorrect`: `Spec => []TypeOK`, which says who may hold a lock, and
  that a command under way has what its next step needs.
* `NoneIsLeftRunning` (`ProcessesAreOwned`): a process leaves the map in the step
  that makes it its taker's victim.
* `AnswersMatch` (`AnswersAreToTheQuestion`): `IdsAreGivenOut`, a question's id is
  below its pipe's counter, and `WaitsForItsOwn`, the id a thread waits for belongs
  to no other question.
* `DefinitionsKept` (`DefinitionsSurvive`), under `OneManager`, all threads in one
  workspace: who saves holds the manager's lock on the definitions throughout, so
  its temporary file is there to be renamed (`SaversHold`). With two workspaces it is
  false (Known disagreements).

Only model-checked, with the reason:

* Liveness (`AdmittedIsAssigned`, `AssignedIsReported`, `StoppedTurnsWait`,
  `EventsAreJudged`, `TurnsEnd`): out of the prover's reach.

## Not modelled

* Of the pipeline: configuration files, credentials, the text of prompts and
  reports, store errors; `stage_of`, which only decides what the panel shows; of
  the supervisor, edits of comments, closing an issue or labelling it again,
  and several sources. `launch_order` and
  `recovery_for` are called by nothing but their tests: the first is left out, the
  second is used to state `DeadAssignmentsEnd`. A person's stop of a *ticket*
  (`stopped`) exists in the rules and is reached by no command.
* Of chats: what a request says beside its messages (tool schemas, prices, hashes),
  sizes in tokens (a summary may come before any request for which one is
  possible), approval of a call, subagents, and prompts and notices in the inbox
  (a chat sends steering only).
* Of the store: the audit chain, migrations, search, usage totals, and the events
  that have no row.
* Of the tools: shell, web, git, documents and the other tools that are one read
  or one call of a service; of the file tools, links, encodings, files outside the
  workspace, and retention of old records.
* Of MCP: HTTP servers (no state besides the definition), allowed tools, the
  validation of a definition, the migration of a legacy file, files that cannot be
  read or written.
* The LSP client, which matches requests and responses as the MCP client does;
  vault, workspace transfer, updater, terminal, memory and knowledge, the UI, the
  archived v0. `PROJECT.json` lists each with its reason.

## What could come next

1. `Supervisor`: an issue labelled again after its ticket ended
   (`0019_pipeline.sql` calls that a new ticket, `create_ticket` returns the old
   one), and a composition with
   `Executor`'s rounds.
2. The approval of tool calls, with its cache per session and per workspace, and
   the subagents of a chat, which write to the same inbox.
3. The LSP client, and the updater's download, verification and restart.
