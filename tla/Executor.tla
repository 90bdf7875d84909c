------------------------------ MODULE Executor ------------------------------
(***************************************************************************)
(* How the desktop app works through its tickets                           *)
(* (apps/desktop/src-tauri/src/executor.rs): the watcher's pass, launch,   *)
(* execute, the review and merge that follow a turn, pipeline_stop, the    *)
(* panel's own launch, execute and merge, and the loss of everything held  *)
(* in memory when the app goes down.                                       *)
(*                                                                         *)
(* An action is one stretch of code between two releases of a lock or two  *)
(* awaits.  Two kinds of processes take them:                              *)
(*   - hands walk through tickets one at a time: each watcher's loop, and  *)
(*     the panel when a person launches or merges from it;                 *)
(*   - runners are the spawned calls of execute().                         *)
(* Rows (ticket, assignment, report, attempts, prepared) survive a crash,  *)
(* as do worktrees and pull requests; slots, runs, cancel flags, hands and *)
(* runners do not.                                                         *)
(***************************************************************************)
EXTENDS PipelineRules, FiniteSets

CONSTANTS
  Tickets,      \* tickets of one project, each on a thread of its own
  Runners,      \* identities for concurrent calls of execute()
  Watchers,     \* identities for watcher loops
  Capacity,     \* execution.slots
  MaxRounds,    \* assignments a ticket may be given (bounds the model)
  MaxAttempts,  \* ATTEMPTS of resume_unfinished
  ReviewPolicy, \* execution.review: "none" or "before_person"
  MergePolicy,  \* execution.merge: "none" or "auto"
  Faults,       \* what may go wrong: a subset of FaultKinds
  NoTicket, NoRunner, Abandoned, NoWatcher, Panel

FaultKinds == {"crash", "session", "identity", "conflict"}

ASSUME ConstantsAssumption ==
  /\ Capacity \in Nat \ {0}
  /\ MaxRounds \in Nat
  /\ MaxAttempts \in Nat
  /\ ReviewPolicy \in {"none", "before_person"}
  /\ MergePolicy \in {"none", "auto"}
  /\ Faults \subseteq FaultKinds
  /\ NoTicket \notin Tickets
  /\ NoRunner \notin Runners
  /\ Abandoned \notin Runners \cup {NoRunner}
  /\ NoWatcher \notin Watchers
  /\ Panel \notin Watchers

Rounds == 1 .. MaxRounds
Hands  == Watchers \cup {Panel}

VARIABLES
  ticket,       \* row: its state, "absent" before admission
  assignment,   \* rows: the state of a ticket's rounds, in creation order
  report,       \* rows: what each round reported, and whether it named a PR
  latest,       \* the round whose report was written last, 0 for none
  attempts,     \* setting pipeline.retry.<ticket>
  prepared,     \* setting pipeline.prepared.<branch>
  worktree,     \* disk: "absent", "raw" (no prepare succeeded) or "ready"
  pullRequest,  \* GitHub: "none", "open" or "merged"
  slots,        \* the tickets holding a slot
  runs,         \* whose cancel flag pipeline_runs holds for a ticket
  cancelled,    \* the runners whose cancel flag is set
  runner,       \* the calls of execute()
  hand,         \* the watcher loops and the panel
  watching,     \* the watcher registered in pipeline_watchers
  loops         \* the watchers whose loop has not returned

rows   == <<ticket, assignment, report, latest, attempts, prepared>>
outside == <<worktree, pullRequest>>
memory == <<slots, runs, cancelled, runner, hand, watching, loops>>
vars   == <<rows, outside, memory>>

NoReport == [outcome |-> "none", pr |-> FALSE]

RunnerStep == {"idle", "called", "checked", "holding", "running",
               "reviewing", "rebasing", "closing", "leaving"}
HandStep   == {"idle", "creating", "worktree", "preparing", "resuming",
               "merging"}

IdleRunner == [pc |-> "idle", ticket |-> NoTicket, round |-> 0,
               outcome |-> "none", pr |-> FALSE]
IdleHand   == [pc |-> "idle", ticket |-> NoTicket, noted |-> 0]

-----------------------------------------------------------------------------
(* Reading the rows.                                                        *)

HasActive(t) == \E i \in Rounds : IsActive(assignment[t][i])

(* create_assignment gives the ticket its next round, and refuses while one *)
(* is active.                                                               *)
MutantReusesRound(t, i) == assignment[t][i] \in {"absent", "ended"}
IsNextRound(t, i) ==
  /\ assignment[t][i] = "absent"
  /\ \A j \in Rounds : j < i => assignment[t][j] # "absent"

(* The bound MaxRounds is reached; nothing in the code corresponds to it.   *)
OutOfRounds(t) == \A i \in Rounds : assignment[t][i] # "absent"

(* pipeline_report reads the newest report; one it cannot read is an error. *)
LatestOutcome(t) == IF latest[t] = 0 THEN "none"
                    ELSE report[t][latest[t]].outcome

(* pipeline_last_pull_request: some round recorded a pull request.          *)
RecordedPullRequest(t) == \E i \in Rounds : report[t][i].pr

(* move_ticket: a refused or repeated move changes nothing.                 *)
Moved(t, next) == IF CanMoveTo(ticket[t], next)
                  THEN [ticket EXCEPT ![t] = next] ELSE ticket

(* write_report replaces the round's report and makes it the newest.        *)
WriteReport(t, i, outcome, pr) ==
  /\ report' = [report EXCEPT ![t][i] = [outcome |-> outcome, pr |-> pr]]
  /\ latest' = [latest EXCEPT ![t] = i]

(* What a report does to the rows: the assignment may end, and the ticket.  *)
Conclude(t, i, outcome) ==
  /\ assignment' = IF EffectsOf(outcome).end_assignment
                   THEN [assignment EXCEPT ![t][i] = "ended"] ELSE assignment
  /\ ticket' = Moved(t, EffectsOf(outcome).ticket)

(* A ticket that is to be worked on keeps its active assignment or is given *)
(* a pending one.                                                           *)
GivenAssignment(t) ==
  \/ HasActive(t) /\ UNCHANGED assignment
  \/ /\ ~HasActive(t)
     /\ \E i \in Rounds :
          /\ IsNextRound(t, i)
          /\ assignment' = [assignment EXCEPT ![t][i] = "pending"]

-----------------------------------------------------------------------------
(* What reaches the rows from the supervisor.                               *)

(* A trigger was accepted: create_ticket.                                   *)
Admit(t) ==
  /\ ticket[t] = "absent"
  /\ ticket' = [ticket EXCEPT ![t] = "open"]
  /\ UNCHANGED <<assignment, report, latest, attempts, prepared, outside,
                 memory>>

(* A message was attached: wake reopens an ended ticket and gives it a      *)
(* pending assignment unless one is already active.                         *)
Wake(t) ==
  /\ ticket[t] \in {"open", "ended"}
  /\ ticket' = Moved(t, "open")
  /\ GivenAssignment(t)
  /\ UNCHANGED <<report, latest, attempts, prepared, outside, memory>>

(* A person merges the pull request on GitHub.                              *)
MergedElsewhere(t) ==
  /\ pullRequest[t] = "open"
  /\ pullRequest' = [pullRequest EXCEPT ![t] = "merged"]
  /\ UNCHANGED <<rows, worktree, memory>>

-----------------------------------------------------------------------------
(* launch(): by a watcher's advance, or from the panel.                     *)

MayWalk(h) == h \in loops /\ hand[h] = IdleHand

(* poll_once passes over a ticket whose flag is in pipeline_runs.           *)
MutantRunningOnly(t)    == runs[t] # NoRunner
MutantRunningAnyway(t)  == runs[t] = runs[t]
NotRunning(t) == runs[t] = NoRunner

HandTo(h, pc, t, i) ==
  hand' = [hand EXCEPT ![h] = [pc |-> pc, ticket |-> t, noted |-> i]]
HandDone(h) == hand' = [hand EXCEPT ![h] = IdleHand]

(* The first lock section found the ticket open with nothing active.        *)
FindUnassigned(h, t) ==
  /\ ticket[t] = "open"
  /\ ~HasActive(t)
  /\ ~OutOfRounds(t)
  /\ HandTo(h, "creating", t, 0)
  /\ UNCHANGED <<rows, outside, slots, runs, cancelled, runner, watching,
                 loops>>

WatcherLaunch(w, t) == MayWalk(w) /\ NotRunning(t) /\ FindUnassigned(w, t)

(* The second lock section creates the assignment, unless another caller    *)
(* has in the meantime.                                                     *)
CreateAssignment(h) ==
  LET t == hand[h].ticket IN
  /\ hand[h].pc = "creating"
  /\ \/ /\ HasActive(t) \/ OutOfRounds(t)
        /\ HandDone(h)
        /\ UNCHANGED assignment
     \/ /\ ~HasActive(t)
        /\ \E i \in Rounds :
             /\ IsNextRound(t, i)
             /\ assignment' = [assignment EXCEPT ![t][i] = "pending"]
             /\ HandTo(h, "worktree", t, i)
  /\ UNCHANGED <<ticket, report, latest, attempts, prepared, outside, slots,
                 runs, cancelled, runner, watching, loops>>

(* ensure_worktree.  A worktree whose ticket has a readable report counts   *)
(* as prepared, and a prepared one is not prepared again.                   *)
EnsureWorktree(h) ==
  LET t == hand[h].ticket
      workedBefore == /\ worktree[t] # "absent"
                      /\ latest[t] # 0
                      /\ Readable(LatestOutcome(t))
  IN
  /\ hand[h].pc = "worktree"
  /\ prepared' = IF workedBefore THEN prepared \cup {t} ELSE prepared
  /\ worktree' = IF worktree[t] = "absent"
                 THEN [worktree EXCEPT ![t] = "raw"] ELSE worktree
  /\ IF t \in prepared' THEN HandDone(h)
     ELSE HandTo(h, "preparing", t, hand[h].noted)
  /\ UNCHANGED <<ticket, assignment, report, latest, attempts, pullRequest,
                 slots, runs, cancelled, runner, watching, loops>>

(* run_prepare succeeded: the assignment stays pending for an executor.     *)
PrepareSucceeds(h) ==
  LET t == hand[h].ticket IN
  /\ hand[h].pc = "preparing"
  /\ worktree' = [worktree EXCEPT ![t] = "ready"]
  /\ prepared' = prepared \cup {t}
  /\ HandDone(h)
  /\ UNCHANGED <<ticket, assignment, report, latest, attempts, pullRequest,
                 slots, runs, cancelled, runner, watching, loops>>

(* ensure_worktree or run_prepare may fail here.                            *)
MayFail(h) ==
  \/ hand[h].pc = "preparing"
  \/ hand[h].pc = "worktree" /\ worktree[hand[h].ticket] = "absent"

(* The worktree or the prepare command failed: the launch reports so and    *)
(* lets the report's effects end the assignment and the ticket.             *)
PrepareFails(h) ==
  LET t == hand[h].ticket
      i == hand[h].noted
  IN
  /\ MayFail(h)
  /\ WriteReport(t, i, "failed", FALSE)
  /\ Conclude(t, i, "failed")
  /\ HandDone(h)
  /\ UNCHANGED <<attempts, prepared, outside, slots, runs, cancelled, runner,
                 watching, loops>>

-----------------------------------------------------------------------------
(* resume_unfinished: an ended ticket whose pull request is still open.     *)

MutantRetriesOnceMore(t) == attempts[t] <= MaxAttempts
MayRetry(t) == attempts[t] < MaxAttempts

(* Asked of the rows, then of GitHub, with no lock held in between.  The    *)
(* cooldown only delays this.                                               *)
FindUnfinished(w, t) ==
  /\ MayWalk(w)
  /\ ticket[t] = "ended"
  /\ RecordedPullRequest(t)
  /\ MayRetry(t)
  /\ pullRequest[t] = "open"
  /\ HandTo(w, "resuming", t, attempts[t])
  /\ UNCHANGED <<rows, outside, slots, runs, cancelled, runner, watching,
                 loops>>

(* The attempt is counted, the ticket reopened and given an assignment; a   *)
(* ticket that already has one keeps it.                                    *)
ResumeUnfinished(w) ==
  LET t == hand[w].ticket IN
  /\ hand[w].pc = "resuming"
  /\ HandDone(w)
  /\ \/ /\ HasActive(t) \/ ~OutOfRounds(t)
        /\ attempts' = [attempts EXCEPT ![t] = hand[w].noted + 1]
        /\ ticket' = Moved(t, "open")
        /\ GivenAssignment(t)
     \/ /\ ~HasActive(t) /\ OutOfRounds(t)
        /\ UNCHANGED <<attempts, ticket, assignment>>
  /\ UNCHANGED <<report, latest, prepared, outside, slots, runs, cancelled,
                 runner, watching, loops>>

-----------------------------------------------------------------------------
(* execute().                                                               *)

RunnerBecomes(r, call) == runner' = [runner EXCEPT ![r] = call]
RunnerTo(r, pc) == RunnerBecomes(r, [runner[r] EXCEPT !.pc = pc])

(* A call begins: its flag is put in pipeline_runs and it is spawned.       *)
MutantUnregisteredCall(r, t) ==
  /\ runner[r].pc = "idle"
  /\ UNCHANGED runs
  /\ RunnerBecomes(r, [IdleRunner EXCEPT !.pc = "called", !.ticket = t])
Call(r, t) ==
  /\ runner[r].pc = "idle"
  /\ runs' = [runs EXCEPT ![t] = r]
  /\ RunnerBecomes(r, [IdleRunner EXCEPT !.pc = "called", !.ticket = t])

(* advance: a pending assignment nobody is running is run.                  *)
WatcherExecute(w, t, r) ==
  /\ MayWalk(w)
  /\ ticket[t] = "open"
  /\ \E i \in Rounds : assignment[t][i] = "pending"
  /\ NotRunning(t)
  /\ Call(r, t)
  /\ UNCHANGED <<rows, outside, slots, cancelled, hand, watching, loops>>

(* The first lock section: the ticket must be open and its assignment       *)
(* pending.                                                                 *)
CheckPending(r) ==
  LET t == runner[r].ticket IN
  /\ runner[r].pc = "called"
  /\ \/ /\ ticket[t] = "open"
        /\ \E i \in Rounds :
             /\ assignment[t][i] = "pending"
             /\ RunnerBecomes(r, [runner[r] EXCEPT !.pc = "checked",
                                                   !.round = i])
     \/ /\ \/ ticket[t] # "open"
           \/ \A i \in Rounds : assignment[t][i] # "pending"
        /\ RunnerTo(r, "leaving")
  /\ UNCHANGED <<rows, outside, slots, runs, cancelled, hand, watching, loops>>

(* try_acquire answers yes to a ticket that already holds a slot.           *)
MutantOneSlotMore(t) == t \in slots \/ Cardinality(slots) <= Capacity
MutantOneSlotLess(t) == t \in slots \/ Cardinality(slots) + 1 < Capacity
SlotFree(t) == t \in slots \/ Cardinality(slots) < Capacity

(* The worktree must exist, and a slot must be free.                        *)
AcquireSlot(r) ==
  LET t == runner[r].ticket IN
  /\ runner[r].pc = "checked"
  /\ worktree[t] # "absent"
  /\ SlotFree(t)
  /\ slots' = slots \cup {t}
  /\ RunnerTo(r, "holding")
  /\ UNCHANGED <<rows, outside, runs, cancelled, hand, watching, loops>>

RefuseSlot(r) ==
  LET t == runner[r].ticket IN
  /\ runner[r].pc = "checked"
  /\ worktree[t] = "absent" \/ ~SlotFree(t)
  /\ RunnerTo(r, "leaving")
  /\ UNCHANGED <<rows, outside, slots, runs, cancelled, hand, watching, loops>>

(* move_assignment asks nothing of the assignment's present state; only the *)
(* unique index refuses a second active row on the ticket.                  *)
MutantNoIndex(t, i) == assignment[t][i] # "absent"
IndexAllowsRunning(t, i) ==
  \A j \in Rounds \ {i} : ~IsActive(assignment[t][j])

BeginTurn(r) ==
  LET t == runner[r].ticket
      i == runner[r].round
  IN
  /\ runner[r].pc = "holding"
  /\ IndexAllowsRunning(t, i)
  /\ assignment' = [assignment EXCEPT ![t][i] = "running"]
  /\ RunnerTo(r, "running")
  /\ UNCHANGED <<ticket, report, latest, attempts, prepared, outside, slots,
                 runs, cancelled, hand, watching, loops>>

(* start_session, load_history or move_assignment failed: the call returns  *)
(* with the slot still taken.                                               *)
FailBeforeTurn(r) ==
  LET t == runner[r].ticket
      i == runner[r].round
  IN
  /\ runner[r].pc = "holding"
  /\ "session" \in Faults \/ ~IndexAllowsRunning(t, i)
  /\ RunnerTo(r, "leaving")
  /\ UNCHANGED <<rows, outside, slots, runs, cancelled, hand, watching, loops>>

(* A cancelled turn counts as waiting whatever it did, and no other does.   *)
MutantIgnoresStop(r, outcome) == outcome # "waiting"
MayReport(r, outcome) == outcome = "waiting" <=> r \in cancelled

(* The turn returns.  It may have opened a pull request, which is looked    *)
(* for only when the outcome is ready, and is not found where gh is missing *)
(* or fails.                                                                *)
FinishTurn(r) ==
  LET t == runner[r].ticket IN
  /\ runner[r].pc = "running"
  /\ \E opened, found \in BOOLEAN, outcome \in {"waiting", "ready", "failed"} :
       /\ MayReport(r, outcome)
       /\ pullRequest' = IF opened /\ pullRequest[t] = "none"
                         THEN [pullRequest EXCEPT ![t] = "open"]
                         ELSE pullRequest
       /\ found => pullRequest'[t] = "open"
       /\ LET pr == outcome = "ready" /\ found IN
          RunnerBecomes(r, [runner[r] EXCEPT
            !.pc = IF pr /\ ReviewPolicy # "none" THEN "reviewing" ELSE "closing",
            !.outcome = outcome,
            !.pr = pr])
  /\ UNCHANGED <<rows, worktree, slots, runs, cancelled, hand, watching, loops>>

(* The review kept the report as it is: it did not run, it rejected, the    *)
(* project does not merge, or the merge was refused.                        *)
KeepReport(r) ==
  /\ runner[r].pc \in {"reviewing", "rebasing"}
  /\ RunnerTo(r, "closing")
  /\ UNCHANGED <<rows, outside, slots, runs, cancelled, hand, watching, loops>>

(* Approved, and the pull request merged.                                   *)
MergeApproved(r) ==
  LET t == runner[r].ticket IN
  /\ runner[r].pc \in {"reviewing", "rebasing"}
  /\ MergePolicy = "auto"
  /\ pullRequest[t] = "open"
  /\ pullRequest' = [pullRequest EXCEPT ![t] = "merged"]
  /\ RunnerBecomes(r, [runner[r] EXCEPT !.pc = "closing", !.outcome = "merged"])
  /\ UNCHANGED <<rows, worktree, slots, runs, cancelled, hand, watching, loops>>

(* Approved, but the branch conflicts: a second turn rebases it, once.      *)
RebaseConflict(r) ==
  /\ runner[r].pc = "reviewing"
  /\ MergePolicy = "auto"
  /\ "conflict" \in Faults
  /\ pullRequest[runner[r].ticket] = "open"
  /\ RunnerTo(r, "rebasing")
  /\ UNCHANGED <<rows, outside, slots, runs, cancelled, hand, watching, loops>>

(* One lock section closes the turn: report, assignment, ticket, slot.  The *)
(* report is read back before anything else happens, and one that cannot be *)
(* read ends the call there.                                                *)
CloseTurn(r) ==
  LET t == runner[r].ticket
      i == runner[r].round
      outcome == runner[r].outcome
  IN
  /\ runner[r].pc = "closing"
  /\ WriteReport(t, i, outcome, runner[r].pr)
  /\ RunnerTo(r, "leaving")
  /\ \/ /\ Readable(outcome)
        /\ Conclude(t, i, outcome)
        /\ slots' = IF EffectsOf(outcome).release_slot THEN slots \ {t} ELSE slots
     \/ /\ ~Readable(outcome)
        /\ UNCHANGED <<assignment, ticket, slots>>
  /\ UNCHANGED <<attempts, prepared, outside, runs, cancelled, hand, watching,
                 loops>>

MutantLeaveKeepsFlag(r) ==
  /\ runner[r].pc = "leaving"
  /\ cancelled' = cancelled \ {r}
  /\ RunnerBecomes(r, IdleRunner)
  /\ UNCHANGED <<rows, outside, slots, runs, hand, watching, loops>>

(* The caller removes the ticket's flag from pipeline_runs, whoever's it is.*)
Leave(r) ==
  /\ runner[r].pc = "leaving"
  /\ runs' = [runs EXCEPT ![runner[r].ticket] = NoRunner]
  /\ cancelled' = cancelled \ {r}
  /\ RunnerBecomes(r, IdleRunner)
  /\ UNCHANGED <<rows, outside, slots, hand, watching, loops>>

-----------------------------------------------------------------------------
(* What a person does from the panel.                                       *)

MutantStopTakesFlag(t) ==
  /\ runs[t] \in Runners
  /\ cancelled' = cancelled \cup {runs[t]}
  /\ runs' = [runs EXCEPT ![t] = NoRunner]
  /\ UNCHANGED <<rows, outside, slots, runner, hand, watching, loops>>

(* pipeline_stop raises the flag pipeline_runs holds for the ticket.        *)
Stop(t) ==
  /\ runs[t] \in Runners
  /\ cancelled' = cancelled \cup {runs[t]}
  /\ UNCHANGED <<rows, outside, slots, runs, runner, hand, watching, loops>>

PanelLaunch(t) == hand[Panel] = IdleHand /\ FindUnassigned(Panel, t)

(* pipeline_execute replaces the flag of whatever is running the ticket.    *)
PanelExecute(t, r) ==
  /\ ticket[t] # "absent"
  /\ Call(r, t)
  /\ UNCHANGED <<rows, outside, slots, cancelled, hand, watching, loops>>

(* It resolves the GitHub account after that, and leaves the flag behind if *)
(* it cannot.                                                               *)
PanelExecuteRefused(t) ==
  /\ "identity" \in Faults
  /\ ticket[t] # "absent"
  /\ runs' = [runs EXCEPT ![t] = Abandoned]
  /\ UNCHANGED <<rows, outside, slots, cancelled, runner, hand, watching,
                 loops>>

(* pipeline_merge_ticket: it reads the newest report, ...                   *)
BeginMerge(t) ==
  /\ hand[Panel] = IdleHand
  /\ latest[t] # 0
  /\ Readable(LatestOutcome(t))
  /\ RecordedPullRequest(t)
  /\ HandTo(Panel, "merging", t, latest[t])
  /\ UNCHANGED <<rows, outside, slots, runs, cancelled, runner, watching,
                 loops>>

(* ... merges, and replaces that report; the ticket would end after it.     *)
FinishMerge ==
  LET t == hand[Panel].ticket IN
  /\ hand[Panel].pc = "merging"
  /\ HandDone(Panel)
  /\ \/ UNCHANGED <<report, latest, ticket, pullRequest>>
     \/ /\ pullRequest[t] = "open"
        /\ pullRequest' = [pullRequest EXCEPT ![t] = "merged"]
        /\ WriteReport(t, hand[Panel].noted, "merged", TRUE)
        /\ ticket' = IF Readable("merged") THEN Moved(t, "ended") ELSE ticket
  /\ UNCHANGED <<assignment, attempts, prepared, worktree, slots, runs,
                 cancelled, runner, watching, loops>>

(* pipeline_unwatch forgets the watcher; its loop returns after its pass.   *)
Unwatch ==
  /\ watching # NoWatcher
  /\ watching' = NoWatcher
  /\ UNCHANGED <<rows, outside, slots, runs, cancelled, runner, hand, loops>>

Watch(w) ==
  /\ watching = NoWatcher
  /\ w \notin loops
  /\ watching' = w
  /\ loops' = loops \cup {w}
  /\ UNCHANGED <<rows, outside, slots, runs, cancelled, runner, hand>>

LoopReturns(w) ==
  /\ w \in loops
  /\ w # watching
  /\ hand[w] = IdleHand
  /\ loops' = loops \ {w}
  /\ UNCHANGED <<rows, outside, slots, runs, cancelled, runner, hand, watching>>

-----------------------------------------------------------------------------
(* The app goes down and comes back.  resume_watchers starts the watcher    *)
(* the settings ask for; nothing looks at assignments left behind.          *)

ForgetMemory ==
  /\ "crash" \in Faults
  /\ slots' = {}
  /\ runs' = [t \in Tickets |-> NoRunner]
  /\ cancelled' = {}
  /\ runner' = [r \in Runners |-> IdleRunner]
  /\ hand' = [h \in Hands |-> IdleHand]
  /\ watching' = watching
  /\ loops' = {watching} \ {NoWatcher}

Crash == ForgetMemory /\ UNCHANGED <<rows, outside>>

(* Every store call commits on its own, so the app can go down between two  *)
(* of them.  After a report: before the assignment ends, or the ticket.     *)
CrashAfterReport(t, i, outcome, pr) ==
  /\ ForgetMemory
  /\ WriteReport(t, i, outcome, pr)
  /\ \/ UNCHANGED assignment
     \/ /\ Readable(outcome)
        /\ assignment' = [assignment EXCEPT ![t][i] = "ended"]
  /\ UNCHANGED <<ticket, attempts, prepared, outside>>

CrashWhileClosing(r) ==
  /\ runner[r].pc = "closing"
  /\ CrashAfterReport(runner[r].ticket, runner[r].round, runner[r].outcome,
                      runner[r].pr)

CrashWhileFailing(h) ==
  /\ MayFail(h)
  /\ CrashAfterReport(hand[h].ticket, hand[h].noted, "failed", FALSE)

(* After wake reopened the ticket, before it is given an assignment.        *)
CrashWhileWaking(t) ==
  /\ ForgetMemory
  /\ ticket[t] = "ended"
  /\ ticket' = Moved(t, "open")
  /\ UNCHANGED <<assignment, report, latest, attempts, prepared, outside>>

(* After the attempt was counted: before the ticket reopened or after.      *)
CrashWhileResuming(w) ==
  LET t == hand[w].ticket IN
  /\ ForgetMemory
  /\ hand[w].pc = "resuming"
  /\ attempts' = [attempts EXCEPT ![t] = hand[w].noted + 1]
  /\ ticket' \in {ticket, Moved(t, "open")}
  /\ UNCHANGED <<assignment, report, latest, prepared, outside>>

-----------------------------------------------------------------------------
Init ==
  /\ ticket = [t \in Tickets |-> "absent"]
  /\ assignment = [t \in Tickets |-> [i \in Rounds |-> "absent"]]
  /\ report = [t \in Tickets |-> [i \in Rounds |-> NoReport]]
  /\ latest = [t \in Tickets |-> 0]
  /\ attempts = [t \in Tickets |-> 0]
  /\ prepared = {}
  /\ worktree = [t \in Tickets |-> "absent"]
  /\ pullRequest = [t \in Tickets |-> "none"]
  /\ slots = {}
  /\ runs = [t \in Tickets |-> NoRunner]
  /\ cancelled = {}
  /\ runner = [r \in Runners |-> IdleRunner]
  /\ hand = [h \in Hands |-> IdleHand]
  /\ watching \in Watchers
  /\ loops = {watching}

Environment(t) == Admit(t) \/ Wake(t) \/ MergedElsewhere(t)

Launching(h) ==
  CreateAssignment(h) \/ EnsureWorktree(h) \/ PrepareSucceeds(h)
    \/ PrepareFails(h)

WatcherStep(w) ==
  \/ ResumeUnfinished(w)
  \/ \E t \in Tickets :
       \/ WatcherLaunch(w, t)
       \/ FindUnfinished(w, t)
       \/ \E r \in Runners : WatcherExecute(w, t, r)

RunnerStepOf(r) ==
  \/ CheckPending(r) \/ AcquireSlot(r) \/ RefuseSlot(r)
  \/ BeginTurn(r) \/ FailBeforeTurn(r) \/ FinishTurn(r)
  \/ KeepReport(r) \/ MergeApproved(r) \/ RebaseConflict(r)
  \/ CloseTurn(r) \/ Leave(r)

PanelStep ==
  \/ \E t \in Tickets :
       \/ PanelLaunch(t) \/ BeginMerge(t) \/ PanelExecuteRefused(t)
       \/ \E r \in Runners : PanelExecute(t, r)
  \/ FinishMerge
  \/ Launching(Panel)
  \/ Unwatch
  \/ \E w \in Watchers : Watch(w) \/ LoopReturns(w)

CrashStep ==
  \/ Crash
  \/ \E r \in Runners : CrashWhileClosing(r)
  \/ \E h \in Hands : CrashWhileFailing(h)
  \/ \E t \in Tickets : CrashWhileWaking(t)
  \/ \E w \in Watchers : CrashWhileResuming(w)

(* The pipeline left to itself: one watcher, and a person who at most stops *)
(* a run.                                                                   *)
UnattendedNext ==
  \/ \E t \in Tickets : Environment(t) \/ Stop(t)
  \/ \E w \in Watchers : WatcherStep(w) \/ Launching(w)
  \/ \E r \in Runners : RunnerStepOf(r)
  \/ CrashStep

(* The same with everything the panel offers.                               *)
Next == UnattendedNext \/ PanelStep

Unattended == Init /\ [][UnattendedNext]_vars
Spec       == Init /\ [][Next]_vars

RowsTypeOK ==
  /\ ticket \in [Tickets -> TicketState \cup {"absent"}]
  /\ assignment \in [Tickets -> [Rounds -> AssignmentState \cup {"absent"}]]
  /\ report \in [Tickets -> [Rounds ->
       [outcome : ReportOutcome \cup {"none"}, pr : BOOLEAN]]]
  /\ latest \in [Tickets -> Rounds \cup {0}]
  /\ attempts \in [Tickets -> 0 .. MaxAttempts]
  /\ prepared \subseteq Tickets

OutsideTypeOK ==
  /\ worktree \in [Tickets -> {"absent", "raw", "ready"}]
  /\ pullRequest \in [Tickets -> {"none", "open", "merged"}]

FlagsTypeOK ==
  /\ slots \subseteq Tickets
  /\ runs \in [Tickets -> Runners \cup {NoRunner, Abandoned}]
  /\ cancelled \subseteq Runners
  /\ watching \in Watchers \cup {NoWatcher}
  /\ loops \subseteq Watchers

CallTyped(call) ==
  /\ call \in [pc : RunnerStep, ticket : Tickets \cup {NoTicket},
               round : Rounds \cup {0}, outcome : ReportOutcome \cup {"none"},
               pr : BOOLEAN]
  /\ call.pc # "idle" => call.ticket \in Tickets
  /\ call.pc \notin {"idle", "called", "leaving"} => call.round \in Rounds

(* A call at work has a ticket, and a round once it has seen one; a hand at *)
(* work has a ticket, and what it noted is the round it is preparing or     *)
(* merging, or the attempts a ticket had when it was found unfinished.      *)
RunnersTypeOK ==
  /\ runner \in [Runners ->
       [pc : RunnerStep, ticket : Tickets \cup {NoTicket},
        round : Rounds \cup {0}, outcome : ReportOutcome \cup {"none"},
        pr : BOOLEAN]]
  /\ \A r \in Runners : CallTyped(runner[r])

HandsTypeOK ==
  /\ hand \in [Hands ->
       [pc : HandStep, ticket : Tickets \cup {NoTicket}, noted : Nat]]
  /\ \A h \in Hands :
       /\ hand[h].pc # "idle" => hand[h].ticket \in Tickets
       /\ hand[h].pc \in {"worktree", "preparing", "merging"}
            => hand[h].noted \in Rounds
       /\ hand[h].pc = "resuming" => hand[h].noted < MaxAttempts

TypeOK ==
  RowsTypeOK /\ OutsideTypeOK /\ FlagsTypeOK /\ RunnersTypeOK /\ HandsTypeOK

-----------------------------------------------------------------------------
(* Safety.                                                                  *)

(* From the slot to the closing lock section a call has its ticket's turn.  *)
InTurn(r) == runner[r].pc \in {"running", "reviewing", "rebasing", "closing"}

Attended(t) == \E r \in Runners : InTurn(r) /\ runner[r].ticket = t

(* No more turns run at once than the project has slots, whatever was       *)
(* released, refused or lost on the way (Slots and its use in execute).     *)
TurnsWithinCapacity == Cardinality({r \in Runners : InTurn(r)}) <= Capacity

(* Two calls of execute never have a turn on the same ticket: they would    *)
(* write to one worktree and one session.                                   *)
OneExecutorPerTicket ==
  \A r, s \in Runners :
    InTurn(r) /\ InTurn(s) /\ runner[r].ticket = runner[s].ticket => r = s

(* While a turn is under way its assignment is the running one and its      *)
(* ticket is open: no launch, resume or closing of another call ends work   *)
(* that is still being done.                                                *)
TurnOwnsItsRows ==
  \A r \in Runners : InTurn(r) =>
    /\ assignment[runner[r].ticket][runner[r].round] = "running"
    /\ ticket[runner[r].ticket] = "open"

(* pipeline_stop on a ticket reaches the call that has the turn.            *)
TurnsCanBeStopped ==
  \A r \in Runners : InTurn(r) => runs[runner[r].ticket] = r

(* A ticket that ended shows the report that ended it and nothing is        *)
(* assigned to it.                                                          *)
EndedTicketIsOver ==
  \A t \in Tickets : ticket[t] = "ended" =>
    EndsTicket(LatestOutcome(t)) /\ ~HasActive(t)

(* One executor owns a ticket at a time, in the rows.                       *)
AtMostOneActive ==
  \A t \in Tickets, i, j \in Rounds :
    IsActive(assignment[t][i]) /\ IsActive(assignment[t][j]) => i = j

(* An assignment that ended is never run again: new work is a new round.    *)
EndedRoundsStayEnded ==
  [][\A t \in Tickets, i \in Rounds :
       assignment[t][i] = "ended" => assignment'[t][i] = "ended"]_assignment

(* A call has its ticket's slot from try_acquire to the closing section.    *)
HoldsSlot(r) == runner[r].pc = "holding" \/ InTurn(r)

(* Once a round's report is final its assignment is ended and its slot is   *)
(* given back: if the ticket's slot is taken, then by a call that works on  *)
(* another round (effects_of, execution.rs).                                *)
FinalReportConcludes ==
  \A t \in Tickets, i \in Rounds :
    report[t][i].outcome # "none" /\ IsFinal(report[t][i].outcome) =>
      /\ assignment[t][i] = "ended"
      /\ t \in slots => \E r \in Runners :
           HoldsSlot(r) /\ runner[r].ticket = t /\ runner[r].round # i

(* A slot is held only for a call that is using it.                         *)
SlotsAreUsed ==
  \A t \in slots : \E r \in Runners : runner[r].ticket = t /\ HoldsSlot(r)

(* An assignment stands as running only while a call has its turn: nothing  *)
(* else ever ends or relaunches it.                                         *)
RunningHasItsTurn ==
  \A t \in Tickets, i \in Rounds :
    assignment[t][i] = "running" =>
      \E r \in Runners :
        InTurn(r) /\ runner[r].ticket = t /\ runner[r].round = i

(* A ticket whose flag is in pipeline_runs is passed over by the watcher,   *)
(* so it must have a call at work on it; a panel call that was refused its  *)
(* account is the exception.                                                *)
SkippedTicketsHaveACall ==
  \A t \in Tickets : runs[t] \notin {NoRunner, Abandoned} =>
    runner[runs[t]].pc # "idle" /\ runner[runs[t]].ticket = t

-----------------------------------------------------------------------------
(* Progress.                                                                *)

(* Passes keep coming and visit every ticket; a prepare command is killed   *)
(* after its timeout; a turn, a review and every later step of execute end. *)
(* Nothing is assumed of people, of messages or of GitHub.                  *)
Fairness ==
  /\ \A t \in Tickets :
       /\ WF_vars(\E w \in Watchers : WatcherLaunch(w, t))
       /\ WF_vars(\E w \in Watchers, r \in Runners : WatcherExecute(w, t, r))
  /\ \A w \in Watchers : WF_vars(Launching(w) \/ ResumeUnfinished(w))
  /\ \A r \in Runners : WF_vars(RunnerStepOf(r))

FairUnattended == Unattended /\ Fairness

(* What was admitted is launched: an open ticket that has no assignment     *)
(* gets one.                                                                *)
AdmittedIsAssigned ==
  \A t \in Tickets :
    ticket[t] = "open" /\ latest[t] = 0 ~> \E i \in Rounds : assignment[t][i] # "absent"

(* An assignment whose worktree exists is run to its end, and reports.      *)
AssignedIsReported ==
  \A t \in Tickets, i \in Rounds :
    IsActive(assignment[t][i]) /\ worktree[t] # "absent"
      ~> assignment[t][i] = "ended" /\ report[t][i].outcome # "none"

(* An assignment that recovery_for would end and relaunch, because no call  *)
(* has its turn, is ended: a dead one leaves the ticket stuck forever.      *)
DeadAssignmentsEnd ==
  \A t \in Tickets, i \in Rounds :
    /\ assignment[t][i] # "absent"
    /\ RecoveryFor(assignment[t][i], Attended(t)) = "end_and_relaunch"
    ~> assignment[t][i] = "ended"

(* A turn that is told to stop ends its round, and the round's report says  *)
(* that it waits, whatever the agent had done by then.                      *)
StoppedTurnsWait ==
  \A r \in Runners, t \in Tickets, i \in Rounds :
    /\ runner[r].pc = "running" /\ r \in cancelled
    /\ runner[r].ticket = t /\ runner[r].round = i
    ~> assignment[t][i] = "ended" /\ report[t][i].outcome = "waiting"
=============================================================================
