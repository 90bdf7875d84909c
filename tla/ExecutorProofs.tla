--------------------------- MODULE ExecutorProofs ---------------------------
(***************************************************************************)
(* What Executor's runs check on small instances, proved for every number  *)
(* of tickets, calls, watchers, slots, rounds and attempts.                *)
(***************************************************************************)
EXTENDS Executor, FiniteSetTheorems, TLAPS

-----------------------------------------------------------------------------
(* What the helpers the actions are built from return.                      *)

LEMMA MovedTyped ==
  ASSUME RowsTypeOK, NEW t \in Tickets, NEW next \in TicketState
  PROVE  Moved(t, next) \in [Tickets -> TicketState \cup {"absent"}]
  BY DEF RowsTypeOK, Moved

LEMMA MovedToUnmoved ==
  ASSUME NEW t \in Tickets
  PROVE  Moved(t, "unmoved") = ticket
  BY DEF Moved, CanMoveTo

LEMMA AssignedTyped ==
  ASSUME RowsTypeOK, NEW t \in Tickets, NEW i \in Rounds,
         NEW s \in AssignmentState
  PROVE  [assignment EXCEPT ![t][i] = s]
           \in [Tickets -> [Rounds -> AssignmentState \cup {"absent"}]]
  BY DEF RowsTypeOK

LEMMA ReportedTyped ==
  ASSUME RowsTypeOK, NEW t \in Tickets, NEW i \in Rounds,
         NEW outcome \in ReportOutcome \cup {"none"}, NEW pr \in BOOLEAN,
         WriteReport(t, i, outcome, pr)
  PROVE  /\ report' \in [Tickets -> [Rounds ->
              [outcome : ReportOutcome \cup {"none"}, pr : BOOLEAN]]]
         /\ latest' \in [Tickets -> Rounds \cup {0}]
  BY DEF RowsTypeOK, WriteReport

LEMMA GivenTyped ==
  ASSUME RowsTypeOK, NEW t \in Tickets, GivenAssignment(t)
  PROVE  assignment' \in [Tickets -> [Rounds -> AssignmentState \cup {"absent"}]]
<1>1. CASE HasActive(t)
  BY <1>1 DEF GivenAssignment, RowsTypeOK
<1>2. CASE ~HasActive(t)
  <2>1. PICK i \in Rounds :
          assignment' = [assignment EXCEPT ![t][i] = "pending"]
    BY <1>2 DEF GivenAssignment
  <2>2. "pending" \in AssignmentState
    BY DEF AssignmentState
  <2>3. QED
    BY <2>1, <2>2, AssignedTyped
<1>3. QED
  BY <1>1, <1>2

LEMMA HandToTyped ==
  ASSUME HandsTypeOK, NEW h \in Hands, NEW t \in Tickets,
         NEW pc \in HandStep \ {"idle"}, NEW n \in Nat, HandTo(h, pc, t, n),
         pc \in {"worktree", "preparing", "merging"} => n \in Rounds,
         pc = "resuming" => n < MaxAttempts
  PROVE  HandsTypeOK'
  BY DEF HandsTypeOK, HandTo

LEMMA HandDoneTyped ==
  ASSUME HandsTypeOK, NEW h \in Hands, HandDone(h)
  PROVE  HandsTypeOK'
  BY DEF HandsTypeOK, HandDone, IdleHand, HandStep

LEMMA RunnerBecomesTyped ==
  ASSUME RunnersTypeOK, NEW r \in Runners, NEW call, CallTyped(call),
         RunnerBecomes(r, call)
  PROVE  RunnersTypeOK'
  BY DEF RunnersTypeOK, CallTyped, RunnerBecomes

LEMMA RunnerToTyped ==
  ASSUME RunnersTypeOK, NEW r \in Runners, NEW pc \in RunnerStep,
         RunnerTo(r, pc), runner[r].pc # "idle",
         pc \in {"idle", "called", "leaving"} \/ runner[r].round \in Rounds
  PROVE  RunnersTypeOK'
<1>1. CallTyped([runner[r] EXCEPT !.pc = pc])
  BY DEF RunnersTypeOK, CallTyped
<1>2. QED
  BY <1>1, RunnerBecomesTyped DEF RunnerTo

LEMMA EnvironmentTyped ==
  ASSUME TypeOK, NEW t \in Tickets, Environment(t)
  PROVE  TypeOK'
<1>1. CASE Admit(t)
  BY <1>1 DEF Admit, TypeOK, RowsTypeOK, OutsideTypeOK,
     FlagsTypeOK, RunnersTypeOK, HandsTypeOK, outside, memory, TicketState
<1>2. CASE Wake(t)
  <2>1. ticket' \in [Tickets -> TicketState \cup {"absent"}]
    BY <1>2, MovedTyped DEF Wake, TypeOK, TicketState
  <2>2. assignment' \in [Tickets -> [Rounds -> AssignmentState \cup {"absent"}]]
    BY <1>2, GivenTyped DEF Wake, TypeOK
  <2>3. QED
    BY <1>2, <2>1, <2>2 DEF Wake, TypeOK, RowsTypeOK, OutsideTypeOK,
       FlagsTypeOK, RunnersTypeOK, HandsTypeOK, outside, memory
<1>3. CASE MergedElsewhere(t)
  BY <1>3 DEF MergedElsewhere, TypeOK, RowsTypeOK, OutsideTypeOK,
     FlagsTypeOK, RunnersTypeOK, HandsTypeOK, rows, memory
<1>4. QED
  BY <1>1, <1>2, <1>3 DEF Environment

LEMMA FindUnassignedTyped ==
  ASSUME TypeOK, NEW h \in Hands, NEW t \in Tickets, FindUnassigned(h, t)
  PROVE  TypeOK'
<1>1. HandsTypeOK'
  BY HandToTyped DEF FindUnassigned, TypeOK, HandStep
<1>2. QED
  BY <1>1 DEF FindUnassigned, TypeOK, RowsTypeOK, OutsideTypeOK, FlagsTypeOK,
     RunnersTypeOK, rows, outside

LEMMA LaunchingTyped ==
  ASSUME TypeOK, NEW h \in Hands, Launching(h)
  PROVE  TypeOK'
<1> DEFINE t == hand[h].ticket
           i == hand[h].noted
<1>0. hand[h].pc # "idle" /\ t \in Tickets
  BY DEF Launching, CreateAssignment, EnsureWorktree, PrepareSucceeds,
     PrepareFails, MayFail, TypeOK, HandsTypeOK
<1>1. CASE CreateAssignment(h)
  <2>1. CASE HandDone(h) /\ UNCHANGED assignment
    <3>1. HandsTypeOK'
      BY <2>1, HandDoneTyped DEF TypeOK
    <3>2. QED
      BY <1>1, <2>1, <3>1 DEF CreateAssignment, TypeOK, RowsTypeOK,
         OutsideTypeOK, FlagsTypeOK, RunnersTypeOK, outside
  <2>2. CASE \E j \in Rounds :
               /\ assignment' = [assignment EXCEPT ![t][j] = "pending"]
               /\ HandTo(h, "worktree", t, j)
    <3>1. PICK j \in Rounds :
            /\ assignment' = [assignment EXCEPT ![t][j] = "pending"]
            /\ HandTo(h, "worktree", t, j)
      BY <2>2
    <3>2. j \in Nat
      BY ConstantsAssumption DEF Rounds
    <3>3. HandsTypeOK'
      BY <1>0, <3>1, <3>2, HandToTyped DEF TypeOK, HandStep
    <3>4. assignment'
            \in [Tickets -> [Rounds -> AssignmentState \cup {"absent"}]]
      BY <1>0, <3>1, AssignedTyped DEF TypeOK, AssignmentState
    <3>5. QED
      BY <1>1, <3>3, <3>4 DEF CreateAssignment, TypeOK, RowsTypeOK,
         OutsideTypeOK, FlagsTypeOK, RunnersTypeOK, outside
  <2>3. QED
    BY <1>1, <2>1, <2>2 DEF CreateAssignment
<1>2. CASE EnsureWorktree(h)
  <2>1. HandsTypeOK'
    <3>1. i \in Rounds /\ i \in Nat
      BY <1>2 DEF EnsureWorktree, TypeOK, HandsTypeOK
    <3>2. CASE HandDone(h)
      BY <3>2, HandDoneTyped DEF TypeOK
    <3>3. CASE HandTo(h, "preparing", t, i)
      BY <1>0, <3>1, <3>3, HandToTyped DEF TypeOK, HandStep
    <3>4. QED
      BY <1>2, <3>2, <3>3 DEF EnsureWorktree
  <2>2. prepared' \subseteq Tickets
    BY <1>0, <1>2 DEF EnsureWorktree, TypeOK, RowsTypeOK
  <2>3. worktree' \in [Tickets -> {"absent", "raw", "ready"}]
    BY <1>0, <1>2 DEF EnsureWorktree, TypeOK, OutsideTypeOK
  <2>4. QED
    BY <1>2, <2>1, <2>2, <2>3 DEF EnsureWorktree, TypeOK, RowsTypeOK,
       OutsideTypeOK, FlagsTypeOK, RunnersTypeOK
<1>3. CASE PrepareSucceeds(h)
  <2>1. HandsTypeOK'
    BY <1>3, HandDoneTyped DEF PrepareSucceeds, TypeOK
  <2>2. QED
    BY <1>0, <1>3, <2>1 DEF PrepareSucceeds, TypeOK, RowsTypeOK, OutsideTypeOK,
       FlagsTypeOK, RunnersTypeOK
<1>4. CASE PrepareFails(h)
  <2>1. HandsTypeOK'
    BY <1>4, HandDoneTyped DEF PrepareFails, TypeOK
  <2>2. i \in Rounds
    BY <1>4 DEF PrepareFails, MayFail, TypeOK, HandsTypeOK
  <2>3. ticket' \in [Tickets -> TicketState \cup {"absent"}]
    BY <1>0, <1>4, MovedTyped DEF PrepareFails, Conclude, EffectsOf,
       EndsTicket, TicketState, TypeOK
  <2>4. assignment'
          \in [Tickets -> [Rounds -> AssignmentState \cup {"absent"}]]
    BY <1>0, <1>4, <2>2, AssignedTyped DEF PrepareFails, Conclude, EffectsOf,
       IsFinal, TypeOK, AssignmentState
  <2>5. /\ report' \in [Tickets -> [Rounds ->
             [outcome : ReportOutcome \cup {"none"}, pr : BOOLEAN]]]
        /\ latest' \in [Tickets -> Rounds \cup {0}]
    BY <1>0, <1>4, <2>2, ReportedTyped DEF PrepareFails, TypeOK, ReportOutcome
  <2>6. QED
    BY <1>4, <2>1, <2>3, <2>4, <2>5 DEF PrepareFails, TypeOK, RowsTypeOK,
       OutsideTypeOK, FlagsTypeOK, RunnersTypeOK, outside
<1>5. QED
  BY <1>1, <1>2, <1>3, <1>4 DEF Launching

LEMMA CallStepTyped ==
  ASSUME TypeOK, NEW r \in Runners, NEW t \in Tickets, Call(r, t),
         UNCHANGED <<rows, outside, slots, cancelled, hand, watching, loops>>
  PROVE  TypeOK'
<1>1. RunnersTypeOK'
  <2>1. CallTyped([IdleRunner EXCEPT !.pc = "called", !.ticket = t])
    BY DEF CallTyped, IdleRunner, RunnerStep, ReportOutcome
  <2>2. QED
    BY <2>1, RunnerBecomesTyped DEF Call, TypeOK
<1>2. runs' \in [Tickets -> Runners \cup {NoRunner, Abandoned}]
  BY DEF Call, TypeOK, FlagsTypeOK
<1>3. QED
  BY <1>1, <1>2 DEF TypeOK, RowsTypeOK, OutsideTypeOK, FlagsTypeOK, HandsTypeOK,
     rows, outside

LEMMA WatcherStepTyped ==
  ASSUME TypeOK, NEW w \in Watchers, WatcherStep(w)
  PROVE  TypeOK'
<1>0. w \in Hands
  BY DEF Hands
<1>1. CASE ResumeUnfinished(w)
  <2> DEFINE t == hand[w].ticket
  <2>1. /\ t \in Tickets
        /\ hand[w].noted \in Nat
        /\ hand[w].noted < MaxAttempts
    BY <1>0, <1>1 DEF ResumeUnfinished, TypeOK, HandsTypeOK
  <2>2. HandsTypeOK'
    BY <1>0, <1>1, HandDoneTyped DEF ResumeUnfinished, TypeOK
  <2>3. ticket' \in [Tickets -> TicketState \cup {"absent"}]
    BY <1>1, <2>1, MovedTyped
    DEF ResumeUnfinished, TypeOK, RowsTypeOK, TicketState
  <2>4. assignment'
          \in [Tickets -> [Rounds -> AssignmentState \cup {"absent"}]]
    <3>1. CASE GivenAssignment(t)
      BY <2>1, <3>1, GivenTyped DEF TypeOK
    <3>2. CASE UNCHANGED assignment
      BY <3>2 DEF TypeOK, RowsTypeOK
    <3>3. QED
      BY <1>1, <3>1, <3>2 DEF ResumeUnfinished
  <2>5. attempts' \in [Tickets -> 0 .. MaxAttempts]
    <3>1. hand[w].noted + 1 \in 0 .. MaxAttempts
      BY <2>1, ConstantsAssumption
    <3>2. QED
      BY <1>1, <3>1 DEF ResumeUnfinished, TypeOK, RowsTypeOK
  <2>6. QED
    BY <1>1, <2>2, <2>3, <2>4, <2>5 DEF ResumeUnfinished, TypeOK, RowsTypeOK,
       OutsideTypeOK, FlagsTypeOK, RunnersTypeOK, outside
<1>2. ASSUME NEW t \in Tickets, WatcherLaunch(w, t)
      PROVE  TypeOK'
  BY <1>0, <1>2, FindUnassignedTyped DEF WatcherLaunch
<1>3. ASSUME NEW t \in Tickets, FindUnfinished(w, t)
      PROVE  TypeOK'
  <2>1. attempts[t] \in Nat
    BY ConstantsAssumption DEF TypeOK, RowsTypeOK
  <2>2. HandsTypeOK'
    BY <1>0, <1>3, <2>1, HandToTyped DEF FindUnfinished, MayRetry, TypeOK,
       HandStep
  <2>3. QED
    BY <1>3, <2>2 DEF FindUnfinished, TypeOK, RowsTypeOK, OutsideTypeOK,
       FlagsTypeOK, RunnersTypeOK, rows, outside
<1>4. ASSUME NEW t \in Tickets, NEW r \in Runners, WatcherExecute(w, t, r)
      PROVE  TypeOK'
  BY <1>4, CallStepTyped DEF WatcherExecute
<1>5. QED
  BY <1>1, <1>2, <1>3, <1>4 DEF WatcherStep

LEMMA RunnerStepTyped ==
  ASSUME TypeOK, NEW r \in Runners, RunnerStepOf(r)
  PROVE  TypeOK'
<1> DEFINE t == runner[r].ticket
           i == runner[r].round
<1> USE DEF RunnerStep
<1>0. runner[r].pc # "idle" /\ t \in Tickets
  BY DEF RunnerStepOf, CheckPending, AcquireSlot, RefuseSlot, BeginTurn,
     FailBeforeTurn, FinishTurn, KeepReport, MergeApproved, RebaseConflict,
     CloseTurn, Leave, TypeOK, RunnersTypeOK, CallTyped
<1>1. CASE CheckPending(r)
  <2>1. RunnersTypeOK'
    <3>1. CASE RunnerTo(r, "leaving")
      BY <1>0, <3>1, RunnerToTyped DEF TypeOK
    <3>2. CASE \E j \in Rounds : RunnerBecomes(r, [runner[r] EXCEPT
                                    !.pc = "checked", !.round = j])
      <4>1. PICK j \in Rounds : RunnerBecomes(r, [runner[r] EXCEPT
                                   !.pc = "checked", !.round = j])
        BY <3>2
      <4>2. CallTyped([runner[r] EXCEPT !.pc = "checked", !.round = j])
        BY <1>0 DEF CallTyped, TypeOK, RunnersTypeOK, CallTyped
      <4>3. QED
        BY <4>1, <4>2, RunnerBecomesTyped DEF TypeOK
    <3>3. QED
      BY <1>1, <3>1, <3>2 DEF CheckPending
  <2>2. QED
    BY <1>1, <2>1 DEF CheckPending, TypeOK, RowsTypeOK, OutsideTypeOK,
       FlagsTypeOK, HandsTypeOK, rows, outside
<1>2. CASE AcquireSlot(r)
  <2>1. RunnersTypeOK'
    BY <1>0, <1>2, RunnerToTyped DEF AcquireSlot, TypeOK, RunnersTypeOK, CallTyped
  <2>2. slots' \subseteq Tickets
    BY <1>0, <1>2 DEF AcquireSlot, TypeOK, FlagsTypeOK
  <2>3. QED
    BY <1>2, <2>1, <2>2 DEF AcquireSlot, TypeOK, RowsTypeOK, OutsideTypeOK,
       FlagsTypeOK, HandsTypeOK, rows, outside
<1>3. CASE RefuseSlot(r)
  <2>1. RunnersTypeOK'
    BY <1>0, <1>3, RunnerToTyped DEF RefuseSlot, TypeOK
  <2>2. QED
    BY <1>3, <2>1 DEF RefuseSlot, TypeOK, RowsTypeOK, OutsideTypeOK,
       FlagsTypeOK, HandsTypeOK, rows, outside
<1>4. CASE BeginTurn(r)
  <2>1. RunnersTypeOK'
    BY <1>0, <1>4, RunnerToTyped DEF BeginTurn, TypeOK, RunnersTypeOK, CallTyped
  <2>2. i \in Rounds
    BY <1>4 DEF BeginTurn, TypeOK, RunnersTypeOK, CallTyped
  <2>3. assignment'
          \in [Tickets -> [Rounds -> AssignmentState \cup {"absent"}]]
    BY <1>0, <1>4, <2>2, AssignedTyped DEF BeginTurn, TypeOK, AssignmentState
  <2>4. QED
    BY <1>4, <2>1, <2>3 DEF BeginTurn, TypeOK, RowsTypeOK, OutsideTypeOK,
       FlagsTypeOK, HandsTypeOK, outside
<1>5. CASE FailBeforeTurn(r)
  <2>1. RunnersTypeOK'
    BY <1>0, <1>5, RunnerToTyped DEF FailBeforeTurn, TypeOK
  <2>2. QED
    BY <1>5, <2>1 DEF FailBeforeTurn, TypeOK, RowsTypeOK, OutsideTypeOK,
       FlagsTypeOK, HandsTypeOK, rows, outside
<1>6. CASE FinishTurn(r)
  <2>1. pullRequest' \in [Tickets -> {"none", "open", "merged"}]
    BY <1>0, <1>6 DEF FinishTurn, TypeOK, OutsideTypeOK
  <2>2. RunnersTypeOK'
    <3>1. PICK pc \in {"reviewing", "closing"}, outcome \in ReportOutcome,
               pr \in BOOLEAN :
            RunnerBecomes(r, [runner[r] EXCEPT
              !.pc = pc, !.outcome = outcome, !.pr = pr])
      BY <1>6 DEF FinishTurn, ReportOutcome
    <3>2. i \in Rounds
      BY <1>6 DEF FinishTurn, TypeOK, RunnersTypeOK, CallTyped
    <3>3. CallTyped([runner[r] EXCEPT
            !.pc = pc, !.outcome = outcome, !.pr = pr])
      BY <1>0, <3>2 DEF CallTyped, TypeOK, RunnersTypeOK, CallTyped
    <3>4. QED
      BY <3>1, <3>3, RunnerBecomesTyped DEF TypeOK
  <2>3. QED
    BY <1>6, <2>1, <2>2 DEF FinishTurn, TypeOK, RowsTypeOK, OutsideTypeOK,
       FlagsTypeOK, HandsTypeOK, rows
<1>7. CASE KeepReport(r)
  <2>1. RunnersTypeOK'
    BY <1>0, <1>7, RunnerToTyped DEF KeepReport, TypeOK, RunnersTypeOK, CallTyped
  <2>2. QED
    BY <1>7, <2>1 DEF KeepReport, TypeOK, RowsTypeOK, OutsideTypeOK,
       FlagsTypeOK, HandsTypeOK, rows, outside
<1>8. CASE MergeApproved(r)
  <2>1. RunnersTypeOK'
    <3>1. i \in Rounds
      BY <1>8 DEF MergeApproved, TypeOK, RunnersTypeOK, CallTyped
    <3>2. CallTyped([runner[r] EXCEPT !.pc = "closing", !.outcome = "merged"])
      BY <1>0, <3>1 DEF CallTyped, TypeOK, RunnersTypeOK, ReportOutcome
    <3>3. QED
      BY <1>8, <3>2, RunnerBecomesTyped DEF MergeApproved, TypeOK
  <2>2. pullRequest' \in [Tickets -> {"none", "open", "merged"}]
    BY <1>0, <1>8 DEF MergeApproved, TypeOK, OutsideTypeOK
  <2>3. QED
    BY <1>8, <2>1, <2>2 DEF MergeApproved, TypeOK, RowsTypeOK, OutsideTypeOK,
       FlagsTypeOK, HandsTypeOK, rows
<1>9. CASE RebaseConflict(r)
  <2>1. RunnersTypeOK'
    BY <1>0, <1>9, RunnerToTyped DEF RebaseConflict, TypeOK, RunnersTypeOK, CallTyped
  <2>2. QED
    BY <1>9, <2>1 DEF RebaseConflict, TypeOK, RowsTypeOK, OutsideTypeOK,
       FlagsTypeOK, HandsTypeOK, rows, outside
<1>10. CASE CloseTurn(r)
  <2>1. RunnersTypeOK'
    BY <1>0, <1>10, RunnerToTyped DEF CloseTurn, TypeOK
  <2>2. /\ i \in Rounds
        /\ runner[r].outcome \in ReportOutcome \cup {"none"}
        /\ runner[r].pr \in BOOLEAN
    BY <1>10 DEF CloseTurn, TypeOK, RunnersTypeOK, CallTyped
  <2>3. /\ report' \in [Tickets -> [Rounds ->
             [outcome : ReportOutcome \cup {"none"}, pr : BOOLEAN]]]
        /\ latest' \in [Tickets -> Rounds \cup {0}]
    BY <1>0, <1>10, <2>2, ReportedTyped DEF CloseTurn, TypeOK
  <2>4. assignment'
          \in [Tickets -> [Rounds -> AssignmentState \cup {"absent"}]]
    <3>1. CASE assignment' = [assignment EXCEPT ![t][i] = "ended"]
      BY <1>0, <2>2, <3>1, AssignedTyped DEF TypeOK, AssignmentState
    <3>2. CASE UNCHANGED assignment
      BY <3>2 DEF TypeOK, RowsTypeOK
    <3>3. QED
      BY <1>10, <3>1, <3>2 DEF CloseTurn, Conclude
  <2>5. ticket' \in [Tickets -> TicketState \cup {"absent"}]
    <3>1. CASE ticket' = Moved(t, "ended")
      BY <1>0, <3>1, MovedTyped DEF TypeOK, TicketState
    <3>2. CASE ticket' = Moved(t, "unmoved")
      BY <1>0, <3>2, MovedToUnmoved DEF TypeOK, RowsTypeOK
    <3>3. CASE UNCHANGED ticket
      BY <3>3 DEF TypeOK, RowsTypeOK
    <3>4. QED
      BY <1>10, <3>1, <3>2, <3>3 DEF CloseTurn, Conclude, EffectsOf
  <2>6. slots' \subseteq Tickets
    BY <1>10 DEF CloseTurn, TypeOK, FlagsTypeOK
  <2>7. QED
    BY <1>10, <2>1, <2>3, <2>4, <2>5, <2>6 DEF CloseTurn, TypeOK, RowsTypeOK,
       OutsideTypeOK, FlagsTypeOK, HandsTypeOK, outside
<1>11. CASE Leave(r)
  <2>1. RunnersTypeOK'
    <3>1. CallTyped(IdleRunner)
      BY DEF CallTyped, IdleRunner, ReportOutcome
    <3>2. QED
      BY <1>11, <3>1, RunnerBecomesTyped DEF Leave, TypeOK
  <2>2. runs' \in [Tickets -> Runners \cup {NoRunner, Abandoned}]
    BY <1>0, <1>11 DEF Leave, TypeOK, FlagsTypeOK
  <2>3. QED
    BY <1>11, <2>1, <2>2 DEF Leave, TypeOK, RowsTypeOK, OutsideTypeOK,
       FlagsTypeOK, HandsTypeOK, rows, outside
<1>12. QED
  BY <1>1, <1>2, <1>3, <1>4, <1>5, <1>6, <1>7, <1>8, <1>9, <1>10, <1>11
  DEF RunnerStepOf

LEMMA PanelStepTyped ==
  ASSUME TypeOK, PanelStep
  PROVE  TypeOK'
<1>0. Panel \in Hands
  BY DEF Hands
<1>1. ASSUME NEW t \in Tickets, PanelLaunch(t)
      PROVE  TypeOK'
  BY <1>0, <1>1, FindUnassignedTyped DEF PanelLaunch
<1>2. ASSUME NEW t \in Tickets, BeginMerge(t)
      PROVE  TypeOK'
  <2>1. latest[t] \in Rounds /\ latest[t] \in Nat
    BY <1>2, ConstantsAssumption DEF BeginMerge, TypeOK, RowsTypeOK, Rounds
  <2>2. HandsTypeOK'
    BY <1>0, <1>2, <2>1, HandToTyped DEF BeginMerge, TypeOK, HandStep
  <2>3. QED
    BY <1>2, <2>2 DEF BeginMerge, TypeOK, RowsTypeOK, OutsideTypeOK,
       FlagsTypeOK, RunnersTypeOK, rows, outside
<1>3. ASSUME NEW t \in Tickets, PanelExecuteRefused(t)
      PROVE  TypeOK'
  <2>1. runs' \in [Tickets -> Runners \cup {NoRunner, Abandoned}]
    BY <1>3 DEF PanelExecuteRefused, TypeOK, FlagsTypeOK
  <2>2. QED
    BY <1>3, <2>1 DEF PanelExecuteRefused, TypeOK, RowsTypeOK, OutsideTypeOK,
       FlagsTypeOK, RunnersTypeOK, HandsTypeOK, rows, outside
<1>4. ASSUME NEW t \in Tickets, NEW r \in Runners, PanelExecute(t, r)
      PROVE  TypeOK'
  BY <1>4, CallStepTyped DEF PanelExecute
<1>5. CASE FinishMerge
  <2> DEFINE t == hand[Panel].ticket
  <2>1. HandsTypeOK'
    BY <1>0, <1>5, HandDoneTyped DEF FinishMerge, TypeOK
  <2>2. CASE UNCHANGED <<report, latest, ticket, pullRequest>>
    BY <1>5, <2>1, <2>2 DEF FinishMerge, TypeOK, RowsTypeOK, OutsideTypeOK,
       FlagsTypeOK, RunnersTypeOK
  <2>3. ASSUME ~ UNCHANGED <<report, latest, ticket, pullRequest>>
        PROVE  TypeOK'
    <3>1. t \in Tickets /\ hand[Panel].noted \in Rounds
      BY <1>0, <1>5 DEF FinishMerge, TypeOK, HandsTypeOK
    <3>2. /\ report' \in [Tickets -> [Rounds ->
               [outcome : ReportOutcome \cup {"none"}, pr : BOOLEAN]]]
          /\ latest' \in [Tickets -> Rounds \cup {0}]
      BY <1>5, <2>3, <3>1, ReportedTyped
      DEF FinishMerge, TypeOK, ReportOutcome
    <3>3. ticket' \in [Tickets -> TicketState \cup {"absent"}]
      BY <1>5, <2>3, <3>1, MovedTyped
      DEF FinishMerge, TypeOK, RowsTypeOK, TicketState
    <3>4. pullRequest' \in [Tickets -> {"none", "open", "merged"}]
      BY <1>5, <2>3, <3>1 DEF FinishMerge, TypeOK, OutsideTypeOK
    <3>5. QED
      BY <1>5, <2>1, <3>2, <3>3, <3>4 DEF FinishMerge, TypeOK, RowsTypeOK,
         OutsideTypeOK, FlagsTypeOK, RunnersTypeOK
  <2>4. QED
    BY <2>2, <2>3
<1>6. CASE Launching(Panel)
  BY <1>0, <1>6, LaunchingTyped
<1>7. CASE Unwatch
  BY <1>7 DEF Unwatch, TypeOK, RowsTypeOK, OutsideTypeOK, FlagsTypeOK,
     RunnersTypeOK, HandsTypeOK, rows, outside
<1>8. ASSUME NEW w \in Watchers, Watch(w) \/ LoopReturns(w)
      PROVE  TypeOK'
  BY <1>8 DEF Watch, LoopReturns, TypeOK, RowsTypeOK, OutsideTypeOK,
     FlagsTypeOK, RunnersTypeOK, HandsTypeOK, rows, outside
<1>9. QED
  BY <1>1, <1>2, <1>3, <1>4, <1>5, <1>6, <1>7, <1>8 DEF PanelStep

LEMMA ForgetMemoryTyped ==
  ASSUME TypeOK, ForgetMemory
  PROVE  FlagsTypeOK' /\ RunnersTypeOK' /\ HandsTypeOK'
<1>1. FlagsTypeOK'
  BY DEF ForgetMemory, TypeOK, FlagsTypeOK
<1>2. RunnersTypeOK'
  BY DEF ForgetMemory, RunnersTypeOK, CallTyped, IdleRunner, RunnerStep,
     ReportOutcome
<1>3. HandsTypeOK'
  BY DEF ForgetMemory, HandsTypeOK, IdleHand, HandStep
<1>4. QED
  BY <1>1, <1>2, <1>3

LEMMA CrashAfterReportTyped ==
  ASSUME TypeOK, NEW t \in Tickets, NEW i \in Rounds,
         NEW outcome \in ReportOutcome \cup {"none"}, NEW pr \in BOOLEAN,
         CrashAfterReport(t, i, outcome, pr)
  PROVE  TypeOK'
<1>1. assignment'
        \in [Tickets -> [Rounds -> AssignmentState \cup {"absent"}]]
  <2>1. CASE UNCHANGED assignment
    BY <2>1 DEF TypeOK, RowsTypeOK
  <2>2. CASE assignment' = [assignment EXCEPT ![t][i] = "ended"]
    BY <2>2, AssignedTyped DEF TypeOK, AssignmentState
  <2>3. QED
    BY <2>1, <2>2 DEF CrashAfterReport
<1>2. /\ report' \in [Tickets -> [Rounds ->
           [outcome : ReportOutcome \cup {"none"}, pr : BOOLEAN]]]
      /\ latest' \in [Tickets -> Rounds \cup {0}]
  BY ReportedTyped DEF CrashAfterReport, TypeOK
<1>3. QED
  BY <1>1, <1>2, ForgetMemoryTyped DEF CrashAfterReport, TypeOK, RowsTypeOK,
     OutsideTypeOK, outside

LEMMA CrashStepTyped ==
  ASSUME TypeOK, CrashStep
  PROVE  TypeOK'
<1>1. CASE Crash
  BY <1>1, ForgetMemoryTyped DEF Crash, TypeOK, RowsTypeOK, OutsideTypeOK, rows,
     outside
<1>2. ASSUME NEW r \in Runners, CrashWhileClosing(r)
      PROVE  TypeOK'
  <2>1. /\ runner[r].ticket \in Tickets
        /\ runner[r].round \in Rounds
        /\ runner[r].outcome \in ReportOutcome \cup {"none"}
        /\ runner[r].pr \in BOOLEAN
    BY <1>2 DEF CrashWhileClosing, TypeOK, RunnersTypeOK, CallTyped
  <2>2. QED
    BY <1>2, <2>1, CrashAfterReportTyped DEF CrashWhileClosing
<1>3. ASSUME NEW h \in Hands, CrashWhileFailing(h)
      PROVE  TypeOK'
  <2>1. hand[h].ticket \in Tickets /\ hand[h].noted \in Rounds
    BY <1>3 DEF CrashWhileFailing, MayFail, TypeOK, HandsTypeOK
  <2>2. QED
    BY <1>3, <2>1, CrashAfterReportTyped DEF CrashWhileFailing, ReportOutcome
<1>4. ASSUME NEW t \in Tickets, CrashWhileWaking(t)
      PROVE  TypeOK'
  BY <1>4, ForgetMemoryTyped, MovedTyped DEF CrashWhileWaking, TypeOK,
     RowsTypeOK, OutsideTypeOK, TicketState, outside
<1>5. ASSUME NEW w \in Watchers, CrashWhileResuming(w)
      PROVE  TypeOK'
  <2>1. /\ hand[w].ticket \in Tickets
        /\ hand[w].noted + 1 \in 0 .. MaxAttempts
    BY <1>5, ConstantsAssumption DEF CrashWhileResuming, TypeOK, HandsTypeOK,
       Hands
  <2>2. ticket' \in [Tickets -> TicketState \cup {"absent"}]
    BY <1>5, <2>1, MovedTyped DEF CrashWhileResuming, TypeOK, RowsTypeOK,
       TicketState
  <2>3. QED
    BY <1>5, <2>1, <2>2, ForgetMemoryTyped DEF CrashWhileResuming, TypeOK,
       RowsTypeOK, OutsideTypeOK, outside
<1>6. QED
  BY <1>1, <1>2, <1>3, <1>4, <1>5 DEF CrashStep

LEMMA InitTyped == Init => TypeOK
<1>1. SUFFICES ASSUME Init PROVE TypeOK
  OBVIOUS
<1>2. RowsTypeOK /\ OutsideTypeOK
  BY <1>1, ConstantsAssumption DEF Init, RowsTypeOK, OutsideTypeOK, NoReport
<1>3. FlagsTypeOK
  BY <1>1 DEF Init, FlagsTypeOK
<1>4. RunnersTypeOK
  BY <1>1 DEF Init, RunnersTypeOK, CallTyped, IdleRunner, RunnerStep
<1>5. HandsTypeOK
  BY <1>1 DEF Init, HandsTypeOK, IdleHand, HandStep
<1>6. QED
  BY <1>2, <1>3, <1>4, <1>5 DEF TypeOK

LEMMA UnattendedTyped ==
  ASSUME TypeOK, UnattendedNext
  PROVE  TypeOK'
<1>1. ASSUME NEW t \in Tickets, Stop(t)
      PROVE  TypeOK'
  BY <1>1 DEF Stop, TypeOK, RowsTypeOK, OutsideTypeOK, FlagsTypeOK,
     RunnersTypeOK, HandsTypeOK, rows, outside
<1>2. Watchers \subseteq Hands
  BY DEF Hands
<1>3. QED
  BY <1>1, <1>2, EnvironmentTyped, WatcherStepTyped, LaunchingTyped,
     RunnerStepTyped, CrashStepTyped
  DEF UnattendedNext

(* Whatever the watcher, the panel and crashes do, every variable keeps its *)
(* type; in particular a hand that goes on after an unlock still has the    *)
(* ticket and the round it noted, and the attempts it noted are below the   *)
(* limit.                                                                   *)
THEOREM TypeCorrect == Spec => []TypeOK
<1>1. TypeOK /\ [Next]_vars => TypeOK'
  <2>1. ASSUME TypeOK, UNCHANGED vars
        PROVE  TypeOK'
    BY <2>1 DEF vars, rows, outside, memory, TypeOK, RowsTypeOK, OutsideTypeOK,
       FlagsTypeOK, RunnersTypeOK, HandsTypeOK
  <2>2. QED
    BY <2>1, UnattendedTyped, PanelStepTyped DEF Next
<1>2. QED
  BY <1>1, InitTyped, PTL DEF Spec
=============================================================================
