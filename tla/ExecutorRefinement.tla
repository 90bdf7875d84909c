------------------------- MODULE ExecutorRefinement -------------------------
(***************************************************************************)
(* The pipeline left to itself implements WorkBoard, for every number of   *)
(* tickets, calls, slots and rounds: each of its steps moves the phase of  *)
(* one ticket as the board allows or of none, and a crash strands exactly  *)
(* the work that was under way.                                            *)
(***************************************************************************)
EXTENDS ExecutorSafety, ExecutorBoard

phases == [t \in Tickets |-> Phase(t)]

(* Nothing is assigned to a ticket before it is admitted, and a loop that   *)
(* resumes a ticket has found it admitted.                                  *)
NothingBeforeAdmission ==
  /\ \A t \in Tickets : ticket[t] = "absent" => ~HasActive(t)
  /\ \A h \in Hands : hand[h].pc = "resuming" => ticket[hand[h].ticket] # "absent"

RInv == IInv /\ NothingBeforeAdmission

-----------------------------------------------------------------------------
(* Reading a phase off the rows and the calls.                              *)

LEMMA PhaseReads ==
  ASSUME NEW t \in Tickets
  PROVE  /\ ticket[t] = "absent" => Phase(t) = "unknown"
         /\ ticket[t] = "ended"  => Phase(t) = "done"
         /\ ticket[t] \notin {"absent", "ended"} =>
              /\ Running(t) /\ Attended(t)    => Phase(t) = "working"
              /\ Running(t) /\ ~Attended(t)   => Phase(t) = "stranded"
              /\ ~Running(t) /\ Pending(t)    => Phase(t) = "queued"
              /\ ~Running(t) /\ ~Pending(t)   => Phase(t) = "idle"
  BY DEF Phase, Underway

LEMMA PhaseReadsNext ==
  ASSUME NEW t \in Tickets
  PROVE  /\ ticket'[t] = "absent" => Phase(t)' = "unknown"
         /\ ticket'[t] = "ended"  => Phase(t)' = "done"
         /\ ticket'[t] \notin {"absent", "ended"} =>
              /\ Running(t)' /\ Attended(t)'  => Phase(t)' = "working"
              /\ Running(t)' /\ ~Attended(t)' => Phase(t)' = "stranded"
              /\ ~Running(t)' /\ Pending(t)'  => Phase(t)' = "queued"
              /\ ~Running(t)' /\ ~Pending(t)' => Phase(t)' = "idle"
  BY DEF Phase, Underway

SameRowsOf(t) ==
  /\ ticket'[t] = ticket[t]
  /\ \A i \in Rounds : assignment'[t][i] = assignment[t][i]

LEMMA Unmoved ==
  ASSUME NEW t \in Tickets, SameRowsOf(t), Attended(t)' <=> Attended(t)
  PROVE  Phase(t)' = Phase(t)
<1>1. (Running(t)' <=> Running(t)) /\ (Pending(t)' <=> Pending(t))
  BY DEF SameRowsOf, Running, Pending
<1>2. ticket'[t] = ticket[t]
  BY DEF SameRowsOf
<1>3. QED
  BY <1>1, <1>2, PhaseReads, PhaseReadsNext

(* One ticket moves as the board allows, and the others stay.               *)
BoardMove(from, to) ==
  \/ from = to
  \/ from = "unknown" /\ to = "idle"
  \/ from \in {"idle", "done"} /\ to = "queued"
  \/ from = "working" /\ to \in {"idle", "stranded"}
  \/ from \in {"queued", "working"} /\ to = "done"
  \/ /\ from = "queued" /\ to = "working"
     /\ Cardinality({t \in Tickets : Phase(t) = "working"}) < Capacity

LEMMA BoardCounts ==
  ASSUME NEW S
  PROVE  Board!Cardinality(S) = Cardinality(S)
  BY Zenon DEF Board!Cardinality, Cardinality

LEMMA BoardSteps ==
  ASSUME NEW t \in Tickets, BoardMove(Phase(t), Phase(t)'),
         \A u \in Tickets \ {t} : Phase(u)' = Phase(u)
  PROVE  [Board!Next]_phases
<1>1. phases' = [phases EXCEPT ![t] = Phase(t)']
  BY DEF phases
<1>2. {u \in Tickets : phases[u] = "working"} = {u \in Tickets : Phase(u) = "working"}
  BY DEF phases
<1>3. phases[t] = Phase(t)
  BY DEF phases
<1>4. CASE Phase(t)' = Phase(t)
  BY <1>4 DEF phases
<1>5. CASE phases' = phases
  BY <1>5
<1>6. CASE phases' # phases /\ Phase(t)' # Phase(t)
  <2>1. \/ Board!Admit(t) \/ Board!Queue(t) \/ Board!Start(t)
        \/ Board!Yield(t) \/ Board!Finish(t) \/ Board!Strand(t)
    BY <1>1, <1>2, <1>3, <1>6, BoardCounts
    DEF BoardMove, phases, Board!Admit, Board!Queue, Board!Start, Board!Yield,
        Board!Finish, Board!Strand, Board!Turn, Board!Working
  <2>2. QED
    BY <1>6, <2>1 DEF Board!Next, phases
<1>7. QED
  BY <1>4, <1>5, <1>6

-----------------------------------------------------------------------------
(* Steps of people, messages and the watcher: no turn begins or ends.       *)

LEMMA SameCalls ==
  ASSUME UNCHANGED runner
  PROVE  \A t : Attended(t)' <=> Attended(t)
  BY DEF Attended, InTurn

LEMMA OthersUnmoved ==
  ASSUME NEW t \in Tickets,
         \A u \in Tickets \ {t} : SameRowsOf(u) /\ (Attended(u)' <=> Attended(u))
  PROVE  \A u \in Tickets \ {t} : Phase(u)' = Phase(u)
  BY Unmoved

LEMMA BoardStutters ==
  ASSUME UNCHANGED <<ticket, assignment>>,
         \A t \in Tickets : Attended(t)' <=> Attended(t)
  PROVE  [Board!Next]_phases
<1>1. \A t \in Tickets : Phase(t)' = Phase(t)
  BY Unmoved DEF SameRowsOf
<1>2. QED
  BY <1>1 DEF phases

(* A ticket that is opened is given an assignment if it has none.           *)
LEMMA GivenQueues ==
  ASSUME RInv, UNCHANGED runner, NEW t \in Tickets, GivenAssignment(t),
         ticket[t] # "absent", ticket' = Moved(t, "open")
  PROVE  [Board!Next]_phases
<1>0. TypeOK /\ AtMostOneActive /\ EndedTicketIsOver
  BY DEF RInv, IInv, RowsAgree
<1>1. /\ ticket'[t] = IF ticket[t] = "ended" THEN "open" ELSE ticket[t]
      /\ \A u \in Tickets \ {t} : ticket'[u] = ticket[u]
  BY <1>0, Types DEF Moved, CanMoveTo
<1>2. \A u \in Tickets \ {t} : assignment'[u] = assignment[u]
  BY <1>0, GivenOnlyAdds
<1>3. \A u \in Tickets : Attended(u)' <=> Attended(u)
  BY SameCalls
<1>4. \A u \in Tickets \ {t} : Phase(u)' = Phase(u)
  BY <1>1, <1>2, <1>3, OthersUnmoved DEF SameRowsOf
<1>5. CASE HasActive(t) /\ UNCHANGED assignment
  <2>1. ticket[t] # "ended"
    BY <1>0, <1>5 DEF EndedTicketIsOver
  <2>2. Phase(t)' = Phase(t)
    BY <1>1, <1>3, <1>5, <2>1, Unmoved DEF SameRowsOf
  <2>3. QED
    BY <1>4, <2>2, BoardSteps DEF BoardMove
<1>6. CASE ~HasActive(t) /\ \E i \in Rounds :
             /\ IsNextRound(t, i)
             /\ assignment' = [assignment EXCEPT ![t][i] = "pending"]
  <2>1. PICK i \in Rounds : \A j \in Rounds :
          assignment'[t][j] = IF j = i THEN "pending" ELSE assignment[t][j]
    BY <1>0, <1>6, Types
  <2>2. ~Running(t) /\ ~Pending(t)
    BY <1>6 DEF HasActive, IsActive, Running, Pending
  <2>3. ~Running(t)' /\ Pending(t)'
    BY <2>1, <2>2 DEF Running, Pending
  <2>4. Phase(t) \in {"idle", "done"} /\ Phase(t)' = "queued"
    BY <1>1, <2>2, <2>3, PhaseReads, PhaseReadsNext
  <2>5. QED
    BY <1>4, <2>4, BoardSteps DEF BoardMove
<1>7. QED
  BY <1>5, <1>6 DEF GivenAssignment

LEMMA EnvironmentRefines ==
  ASSUME RInv, NEW t \in Tickets, Environment(t) \/ Stop(t)
  PROVE  [Board!Next]_phases /\ NothingBeforeAdmission'
<1>0. TypeOK /\ NothingBeforeAdmission
  BY DEF RInv, IInv
<1>1. CASE Admit(t)
  <2>1. /\ ticket[t] = "absent" /\ ticket'[t] = "open"
        /\ \A u \in Tickets \ {t} : ticket'[u] = ticket[u]
        /\ UNCHANGED <<assignment, runner, hand>>
    BY <1>0, <1>1, Types DEF Admit, memory
  <2>2. ~Running(t)' /\ ~Pending(t)'
    BY <1>0, <2>1 DEF NothingBeforeAdmission, HasActive, IsActive, Running,
       Pending
  <2>3. Phase(t) = "unknown" /\ Phase(t)' = "idle"
    BY <2>1, <2>2, PhaseReads, PhaseReadsNext
  <2>4. \A u \in Tickets \ {t} : Phase(u)' = Phase(u)
    BY <2>1, SameCalls, OthersUnmoved DEF SameRowsOf
  <2>5. NothingBeforeAdmission'
    BY <1>0, <2>1, Types DEF NothingBeforeAdmission, HasActive
  <2>6. QED
    BY <2>3, <2>4, <2>5, BoardSteps DEF BoardMove
<1>2. CASE Wake(t)
  <2>1. /\ ticket[t] # "absent" /\ ticket' = Moved(t, "open")
        /\ GivenAssignment(t) /\ UNCHANGED <<runner, hand>>
    BY <1>2 DEF Wake, memory
  <2>2. NothingBeforeAdmission'
    <3>1. \A u \in Tickets : ticket'[u] = "absent" <=> ticket[u] = "absent"
      BY <1>0, <2>1, Types DEF Moved, CanMoveTo
    <3>2. \A u \in Tickets : ticket[u] = "absent" => assignment'[u] = assignment[u]
      BY <1>0, <2>1, GivenOnlyAdds
    <3>3. QED
      BY <1>0, <2>1, <3>1, <3>2, Types DEF NothingBeforeAdmission, HasActive
  <2>3. QED
    BY <2>1, <2>2, GivenQueues
<1>3. CASE MergedElsewhere(t) \/ Stop(t)
  <2>1. UNCHANGED <<ticket, assignment, runner, hand>>
    BY <1>3 DEF MergedElsewhere, Stop, rows, memory
  <2>2. NothingBeforeAdmission'
    BY <1>0, <2>1 DEF NothingBeforeAdmission, HasActive
  <2>3. QED
    BY <2>1, <2>2, BoardStutters, SameCalls
<1>4. QED
  BY <1>1, <1>2, <1>3 DEF Environment

LEMMA WatcherRefines ==
  ASSUME RInv, NEW w \in Watchers, WatcherStep(w)
  PROVE  [Board!Next]_phases /\ NothingBeforeAdmission'
<1>0. TypeOK /\ NothingBeforeAdmission /\ w \in Hands
  BY DEF RInv, IInv, Hands
<1>1. CASE ResumeUnfinished(w)
  <2> DEFINE t == hand[w].ticket
  <2>1. t \in Tickets /\ ticket[t] # "absent"
    BY <1>0, <1>1, Types DEF ResumeUnfinished, NothingBeforeAdmission
  <2>2. UNCHANGED runner /\ HandDone(w)
    BY <1>1 DEF ResumeUnfinished
  <2>3. \A h \in Hands : hand'[h] = hand[h] \/ hand'[h].pc = "idle"
    BY <1>0, <2>2, Types DEF HandDone, IdleHand
  <2>4. CASE GivenAssignment(t) /\ ticket' = Moved(t, "open")
    <3>1. \A u \in Tickets : ticket'[u] = "absent" <=> ticket[u] = "absent"
      BY <1>0, <2>1, <2>4, Types DEF Moved, CanMoveTo
    <3>2. \A u \in Tickets : ticket[u] = "absent" => assignment'[u] = assignment[u]
      BY <1>0, <2>1, <2>4, GivenOnlyAdds
    <3>3. NothingBeforeAdmission'
      BY <1>0, <2>3, <3>1, <3>2, Types DEF NothingBeforeAdmission, HasActive
    <3>4. QED
      BY <2>1, <2>2, <2>4, <3>3, GivenQueues
  <2>5. CASE UNCHANGED <<ticket, assignment>>
    <3>1. NothingBeforeAdmission'
      BY <1>0, <2>3, <2>5 DEF NothingBeforeAdmission, HasActive
    <3>2. QED
      BY <2>2, <2>5, <3>1, BoardStutters, SameCalls
  <2>6. QED
    BY <1>1, <2>4, <2>5 DEF ResumeUnfinished
<1>2. ASSUME NEW t \in Tickets, WatcherLaunch(w, t) \/ FindUnfinished(w, t)
      PROVE  [Board!Next]_phases /\ NothingBeforeAdmission'
  <2>1. UNCHANGED <<ticket, assignment, runner>> /\ ticket[t] # "absent"
    BY <1>2 DEF WatcherLaunch, FindUnassigned, FindUnfinished, rows
  <2>2. \A h \in Hands : hand'[h] = hand[h] \/ hand'[h].pc = "creating"
                          \/ hand'[h].ticket = t
    BY <1>0, <1>2, Types
    DEF WatcherLaunch, FindUnassigned, FindUnfinished, HandTo
  <2>3. NothingBeforeAdmission'
    BY <1>0, <2>1, <2>2 DEF NothingBeforeAdmission, HasActive
  <2>4. QED
    BY <2>1, <2>3, BoardStutters, SameCalls
<1>3. ASSUME NEW t \in Tickets, NEW r \in Runners, WatcherExecute(w, t, r)
      PROVE  [Board!Next]_phases /\ NothingBeforeAdmission'
  <2>1. UNCHANGED <<ticket, assignment, hand>>
    BY <1>3 DEF WatcherExecute, rows
  <2>2. /\ runner[r].pc = "idle" /\ runner'[r].pc = "called"
        /\ \A s \in Runners \ {r} : runner'[s] = runner[s]
    BY <1>0, <1>3, Types DEF WatcherExecute, Call, RunnerBecomes, IdleRunner
  <2>3. \A u : Attended(u)' <=> Attended(u)
    BY <2>2 DEF Attended, InTurn
  <2>4. NothingBeforeAdmission'
    BY <1>0, <2>1 DEF NothingBeforeAdmission, HasActive
  <2>5. QED
    BY <2>1, <2>3, <2>4, BoardStutters
<1>4. QED
  BY <1>1, <1>2, <1>3 DEF WatcherStep

-----------------------------------------------------------------------------
(* Steps of a launch.                                                       *)

(* The rows of a ticket change, and which turns there are does not.         *)
LEMMA KeptBefore ==
  ASSUME RInv, NEW t \in Tickets, ticket[t] # "absent", ticket'[t] # "absent",
         \A u \in Tickets \ {t} : SameRowsOf(u),
         \A h \in Hands : hand'[h] = hand[h] \/ hand'[h].pc # "resuming"
  PROVE  NothingBeforeAdmission'
<1>0. TypeOK /\ NothingBeforeAdmission
  BY DEF RInv, IInv
<1>1. \A u \in Tickets : ticket'[u] = "absent" <=> ticket[u] = "absent"
  BY DEF SameRowsOf
<1>2. \A u \in Tickets : ticket[u] = "absent" => (HasActive(u)' <=> HasActive(u))
  BY DEF SameRowsOf, HasActive
<1>3. QED
  BY <1>0, <1>1, <1>2, Types DEF NothingBeforeAdmission

LEMMA LaunchingRefines ==
  ASSUME RInv, NEW h \in Hands, Launching(h)
  PROVE  [Board!Next]_phases /\ NothingBeforeAdmission'
<1>0. /\ TypeOK /\ AtMostOneActive /\ LaunchIsAlone /\ CallsOwnTheirTickets
      /\ NothingBeforeAdmission
  BY DEF RInv, IInv, Ownership, RowsAgree
<1>1. PICK t \in Tickets :
        /\ t = hand[h].ticket /\ ticket[t] = "open" /\ runs[t] = NoRunner
        /\ hand[h].pc \in {"creating", "worktree", "preparing"}
  BY <1>0, Types DEF Launching, CreateAssignment, EnsureWorktree,
     PrepareSucceeds, PrepareFails, MayFail, LaunchIsAlone, Launches
<1>2. UNCHANGED runner /\ \A u : Attended(u)' <=> Attended(u)
  <2>1. UNCHANGED runner
    BY DEF Launching, CreateAssignment, EnsureWorktree, PrepareSucceeds,
       PrepareFails
  <2>2. QED
    BY <2>1, SameCalls
<1>3. \A g \in Hands : hand'[g] = hand[g] \/ hand'[g].pc # "resuming"
  <2>1. \/ UNCHANGED hand \/ HandDone(h)
        \/ \E i : HandTo(h, "worktree", t, i) \/ HandTo(h, "preparing", t, i)
    BY <1>1 DEF Launching, CreateAssignment, EnsureWorktree,
       PrepareSucceeds, PrepareFails
  <2>2. QED
    BY <1>0, <2>1, Types DEF HandDone, HandTo, IdleHand
<1>4. ~Attended(t)
  BY <1>0, <1>1, ConstantsAssumption DEF Attended, InTurn, CallsOwnTheirTickets
<1>5. CASE UNCHANGED <<ticket, assignment>>
  BY <1>0, <1>1, <1>2, <1>3, <1>5, KeptBefore, BoardStutters DEF SameRowsOf
<1>6. CASE CreateAssignment(h) /\ ~ UNCHANGED <<ticket, assignment>>
  <2>1. PICK i \in Rounds :
          /\ ~HasActive(t) /\ UNCHANGED ticket
          /\ assignment' = [assignment EXCEPT ![t][i] = "pending"]
    BY <1>1, <1>6 DEF CreateAssignment
  <2>2. /\ \A j \in Rounds :
             assignment'[t][j] = IF j = i THEN "pending" ELSE assignment[t][j]
        /\ \A u \in Tickets \ {t} : assignment'[u] = assignment[u]
    BY <1>0, <1>1, <2>1, Types
  <2>3. ~Running(t) /\ ~Pending(t)
    BY <2>1 DEF HasActive, IsActive, Running, Pending
  <2>4. ~Running(t)' /\ Pending(t)'
    BY <2>2, <2>3 DEF Running, Pending
  <2>5. Phase(t) = "idle" /\ Phase(t)' = "queued"
    BY <1>1, <2>1, <2>3, <2>4, PhaseReads, PhaseReadsNext
  <2>6. \A u \in Tickets \ {t} : SameRowsOf(u)
    BY <2>1, <2>2 DEF SameRowsOf
  <2>7. QED
    BY <1>1, <1>2, <1>3, <2>1, <2>5, <2>6, OthersUnmoved, KeptBefore, BoardSteps
    DEF BoardMove
<1>7. CASE PrepareFails(h)
  <2> DEFINE i == hand[h].noted
  <2>1. i \in Rounds /\ assignment[t][i] = "pending"
    BY <1>0, <1>1, <1>7, Types DEF PrepareFails, MayFail, LaunchIsAlone
  <2>2. Conclude(t, i, "failed")
    BY <1>1, <1>7 DEF PrepareFails
  <2>3. ticket'[t] = "ended" /\ \A u \in Tickets \ {t} : ticket'[u] = ticket[u]
    BY <1>0, <1>1, <2>2, Types
    DEF Conclude, EffectsOf, EndsTicket, Moved, CanMoveTo
  <2>4. \A u \in Tickets \ {t} : assignment'[u] = assignment[u]
    BY <1>0, <2>2, Types DEF Conclude
  <2>5. \A u \in Tickets \ {t} : SameRowsOf(u)
    BY <2>3, <2>4 DEF SameRowsOf
  <2>6. ~Running(t) /\ Pending(t)
    BY <1>0, <1>1, <2>1 DEF AtMostOneActive, IsActive, Running, Pending
  <2>7. Phase(t) = "queued" /\ Phase(t)' = "done"
    BY <1>1, <2>3, <2>6, PhaseReads, PhaseReadsNext
  <2>8. QED
    BY <1>1, <1>2, <1>3, <2>3, <2>5, <2>7, OthersUnmoved, KeptBefore, BoardSteps
    DEF BoardMove
<1>8. QED
  BY <1>5, <1>6, <1>7 DEF Launching, EnsureWorktree, PrepareSucceeds

-----------------------------------------------------------------------------
(* Steps of execute().                                                      *)

LEMMA BeginTurnRefines ==
  ASSUME RInv, NEW r \in Runners, BeginTurn(r)
  PROVE  [Board!Next]_phases /\ NothingBeforeAdmission'
<1>0. /\ TypeOK /\ AtMostOneActive /\ Accounting /\ CheckedStaysPending
  BY DEF RInv, IInv, RowsAgree
<1>1. PICK t \in Tickets, i \in Rounds :
        /\ t = runner[r].ticket /\ i = runner[r].round
        /\ runner[r].pc = "holding" /\ t \in slots
        /\ assignment[t][i] = "pending" /\ ticket[t] = "open"
  BY <1>0, Types DEF BeginTurn, CallTyped, Accounting, TurnsHoldSlots,
     HoldsSlot, CheckedStaysPending
<1>2. /\ UNCHANGED <<ticket, hand>>
      /\ assignment' = [assignment EXCEPT ![t][i] = "running"]
  BY <1>1 DEF BeginTurn
<1>3. /\ assignment'[t][i] = "running"
      /\ \A u \in Tickets \ {t} : assignment'[u] = assignment[u]
  BY <1>0, <1>1, <1>2, Types
<1>4. /\ runner'[r].pc = "running" /\ runner'[r].ticket = t
      /\ \A s \in Runners \ {r} : runner'[s] = runner[s]
  BY <1>0, <1>1, Types DEF BeginTurn, RunnerTo, RunnerBecomes, CallTyped
<1>5. \A u \in Tickets \ {t} : SameRowsOf(u) /\ (Attended(u)' <=> Attended(u))
  BY <1>1, <1>2, <1>3, <1>4 DEF SameRowsOf, Attended, InTurn
<1>6. Phase(t) = "queued"
  <2>1. ~Running(t) /\ Pending(t)
    BY <1>0, <1>1 DEF AtMostOneActive, IsActive, Running, Pending
  <2>2. QED
    BY <1>1, <2>1, PhaseReads
<1>7. Phase(t)' = "working"
  <2>1. Running(t)' /\ Attended(t)'
    BY <1>1, <1>3, <1>4 DEF Running, Attended, InTurn
  <2>2. QED
    BY <1>1, <1>2, <2>1, PhaseReadsNext
<1>8. Cardinality({u \in Tickets : Phase(u) = "working"}) < Capacity
  <2> DEFINE working == {u \in Tickets : Phase(u) = "working"}
  <2>1. ASSUME NEW u \in working PROVE u \in slots \ {t}
    <3>1. Attended(u)
      BY PhaseReads
    <3>2. QED
      BY <1>0, <1>6, <3>1 DEF Attended, Accounting, TurnsHoldSlots, HoldsSlot
  <2>2. IsFiniteSet(slots) /\ Cardinality(slots) <= Capacity
    BY <1>0 DEF Accounting, SlotsWithinCapacity
  <2>3. /\ IsFiniteSet(slots \ {t})
        /\ Cardinality(slots \ {t}) = Cardinality(slots) - 1
    BY <1>1, <2>2, FS_RemoveElement
  <2>4. Cardinality(working) <= Cardinality(slots \ {t})
    BY <2>1, <2>3, FS_Subset
  <2>5. /\ Cardinality(working) \in Nat /\ Cardinality(slots) \in Nat
    BY <2>1, <2>2, <2>3, FS_Subset, FS_CardinalityType
  <2>6. QED
    BY <2>2, <2>3, <2>4, <2>5, ConstantsAssumption
<1>9. [Board!Next]_phases
  BY <1>1, <1>5, <1>6, <1>7, <1>8, OthersUnmoved, BoardSteps DEF BoardMove
<1>10. NothingBeforeAdmission'
  BY <1>1, <1>2, <1>5, KeptBefore
<1>11. QED
  BY <1>9, <1>10

(* A turn that closes yields its ticket, finishes it, or leaves it behind   *)
(* with an assignment that nobody runs.                                     *)
LEMMA CloseTurnRefines ==
  ASSUME RInv, NEW r \in Runners, CloseTurn(r)
  PROVE  [Board!Next]_phases /\ NothingBeforeAdmission'
<1>0. TypeOK /\ AtMostOneActive /\ TurnOwnsItsRows /\ IInv
  BY DEF RInv, IInv, RowsAgree
<1>1. PICK t \in Tickets, i \in Rounds :
        /\ t = runner[r].ticket /\ i = runner[r].round
        /\ runner[r].pc = "closing"
        /\ assignment[t][i] = "running" /\ ticket[t] = "open"
  BY <1>0, Types DEF CloseTurn, CallTyped, TurnOwnsItsRows, InTurn
<1>2. UNCHANGED hand /\ \/ Conclude(t, i, runner[r].outcome)
                        \/ UNCHANGED <<assignment, ticket>>
  BY <1>1 DEF CloseTurn
<1>3. /\ runner'[r].pc = "leaving" /\ runner'[r].ticket = t
      /\ \A s \in Runners \ {r} : runner'[s] = runner[s]
  BY <1>0, <1>1, Types DEF CloseTurn, RunnerTo, RunnerBecomes, CallTyped
<1>4. /\ \A s \in Runners \ {r} : runner[s].pc # "idle" => runner[s].ticket # t
  BY <1>0, <1>1, CallsApart
<1>5. /\ Attended(t) /\ ~Attended(t)'
      /\ \A u \in Tickets \ {t} : Attended(u)' <=> Attended(u)
  BY <1>1, <1>3, <1>4 DEF Attended, InTurn
<1>6. Phase(t) = "working"
  <2>1. Running(t)
    BY <1>1 DEF Running
  <2>2. QED
    BY <1>1, <1>5, <2>1, PhaseReads
<1>7. CASE UNCHANGED <<assignment, ticket>>
  <2>1. Running(t)' /\ ticket'[t] = "open"
    BY <1>1, <1>7 DEF Running
  <2>2. Phase(t)' = "stranded"
    BY <1>5, <2>1, PhaseReadsNext
  <2>3. \A u \in Tickets \ {t} : SameRowsOf(u)
    BY <1>7 DEF SameRowsOf
  <2>4. QED
    BY <1>1, <1>2, <1>5, <1>6, <2>1, <2>2, <2>3, OthersUnmoved, KeptBefore,
       BoardSteps DEF BoardMove
<1>8. CASE Conclude(t, i, runner[r].outcome)
  <2>1. /\ ticket'[t] \in {"open", "ended"}
        /\ \A u \in Tickets \ {t} : ticket'[u] = ticket[u]
    BY <1>0, <1>1, <1>8, Types DEF Conclude, EffectsOf, Moved, CanMoveTo
  <2>2. /\ \A j \in Rounds \ {i} : assignment'[t][j] = assignment[t][j]
        /\ assignment'[t][i] \in {"running", "ended"}
        /\ \A u \in Tickets \ {t} : assignment'[u] = assignment[u]
    BY <1>0, <1>1, <1>8, Types DEF Conclude
  <2>3. \A u \in Tickets \ {t} : SameRowsOf(u)
    BY <2>1, <2>2 DEF SameRowsOf
  <2>4. ~Pending(t)'
    BY <1>0, <1>1, <2>2 DEF AtMostOneActive, IsActive, Pending
  <2>5. Phase(t)' \in {"idle", "done", "stranded"}
    BY <1>5, <2>1, <2>4, PhaseReadsNext
  <2>6. QED
    BY <1>1, <1>2, <1>5, <1>6, <2>1, <2>3, <2>5, OthersUnmoved, KeptBefore,
       BoardSteps DEF BoardMove
<1>9. QED
  BY <1>2, <1>7, <1>8

LEMMA RunnerRefines ==
  ASSUME RInv, NEW r \in Runners, RunnerStepOf(r)
  PROVE  [Board!Next]_phases /\ NothingBeforeAdmission'
<1>0. TypeOK /\ NothingBeforeAdmission
  BY DEF RInv, IInv
<1>1. CASE BeginTurn(r) \/ CloseTurn(r)
  BY <1>1, BeginTurnRefines, CloseTurnRefines
<1>2. CASE ~BeginTurn(r) /\ ~CloseTurn(r)
  <2>1. UNCHANGED <<ticket, assignment, hand>>
    BY <1>2 DEF RunnerStepOf, CheckPending, AcquireSlot, RefuseSlot,
       FailBeforeTurn, FinishTurn, KeepReport, MergeApproved, RebaseConflict,
       Leave, rows
  <2>2. PICK call : /\ RunnerBecomes(r, call)
                    /\ call.pc \in {"running", "reviewing", "rebasing", "closing"}
                         <=> InTurn(r)
                    /\ InTurn(r) => call.ticket = runner[r].ticket
    <3>1. CallTyped(runner[r])
      BY <1>0, Types
    <3>2. ASSUME NEW pc, RunnerTo(r, pc), ~InTurn(r),
                 pc \notin {"running", "reviewing", "rebasing", "closing"}
          PROVE  \E call :
                   /\ RunnerBecomes(r, call)
                   /\ call.pc \in {"running", "reviewing", "rebasing", "closing"}
                        <=> InTurn(r)
                   /\ InTurn(r) => call.ticket = runner[r].ticket
      <4>1. [runner[r] EXCEPT !.pc = pc].pc = pc
        BY <3>1 DEF CallTyped
      <4>2. QED
        BY <3>2, <4>1 DEF RunnerTo
    <3>3. CASE CheckPending(r) \/ AcquireSlot(r) \/ RefuseSlot(r) \/ FailBeforeTurn(r)
      <4>1. ~InTurn(r)
        BY <3>3 DEF CheckPending, AcquireSlot, RefuseSlot, FailBeforeTurn, InTurn
      <4>2. CASE \E i \in Rounds :
                   RunnerBecomes(r, [runner[r] EXCEPT !.pc = "checked", !.round = i])
        <5>1. PICK i \in Rounds :
                RunnerBecomes(r, [runner[r] EXCEPT !.pc = "checked", !.round = i])
          BY <4>2
        <5>2. [runner[r] EXCEPT !.pc = "checked", !.round = i].pc = "checked"
          BY <3>1 DEF CallTyped
        <5>3. QED
          BY <4>1, <5>1, <5>2
      <4>3. CASE RunnerTo(r, "holding") \/ RunnerTo(r, "leaving")
        BY <3>2, <4>1, <4>3
      <4>4. QED
        BY <3>3, <4>2, <4>3
        DEF CheckPending, AcquireSlot, RefuseSlot, FailBeforeTurn
    <3>4. CASE FinishTurn(r)
      <4>1. PICK pc \in {"reviewing", "closing"} : \E outcome, pr :
              RunnerBecomes(r, [runner[r] EXCEPT !.pc = pc, !.outcome = outcome,
                                                 !.pr = pr])
        <5>1. PICK outcome, pr :
                RunnerBecomes(r, [runner[r] EXCEPT
                  !.pc = IF pr /\ ReviewPolicy # "none" THEN "reviewing"
                                                        ELSE "closing",
                  !.outcome = outcome, !.pr = pr])
          BY <3>4, Zenon DEF FinishTurn
        <5>2. PICK pc \in {"reviewing", "closing"} :
                pc = IF pr /\ ReviewPolicy # "none" THEN "reviewing" ELSE "closing"
          OBVIOUS
        <5>3. QED
          BY <5>1, <5>2, Zenon
      <4>2. PICK call, outcome, pr :
              /\ RunnerBecomes(r, call)
              /\ call = [runner[r] EXCEPT !.pc = pc, !.outcome = outcome, !.pr = pr]
        BY <4>1, Zenon
      <4>3. call.pc = pc /\ call.ticket = runner[r].ticket
        BY <3>1, <4>2 DEF CallTyped
      <4>4. InTurn(r)
        BY <3>4 DEF FinishTurn, InTurn
      <4>5. QED
        BY <4>2, <4>3, <4>4
    <3>5. CASE KeepReport(r) \/ MergeApproved(r) \/ RebaseConflict(r)
      <4>1. PICK pc \in {"rebasing", "closing"} : \E outcome :
              \/ RunnerBecomes(r, [runner[r] EXCEPT !.pc = pc])
              \/ RunnerBecomes(r, [runner[r] EXCEPT !.pc = pc,
                                                    !.outcome = outcome])
        <5>1. \/ RunnerBecomes(r, [runner[r] EXCEPT !.pc = "closing"])
              \/ RunnerBecomes(r, [runner[r] EXCEPT !.pc = "rebasing"])
              \/ RunnerBecomes(r, [runner[r] EXCEPT !.pc = "closing",
                                                    !.outcome = "merged"])
          BY <3>5, Zenon
          DEF KeepReport, MergeApproved, RebaseConflict, RunnerTo
        <5>2. "closing" \in {"rebasing", "closing"} /\ "rebasing" \in {"rebasing", "closing"}
          OBVIOUS
        <5>3. QED
          BY <5>1, <5>2, Zenon
      <4>2. PICK call, outcome :
              /\ RunnerBecomes(r, call)
              /\ \/ call = [runner[r] EXCEPT !.pc = pc]
                 \/ call = [runner[r] EXCEPT !.pc = pc, !.outcome = outcome]
        BY <4>1, Zenon
      <4>3. call.pc = pc /\ call.ticket = runner[r].ticket
        BY <3>1, <4>2 DEF CallTyped
      <4>4. InTurn(r)
        BY <3>5 DEF KeepReport, MergeApproved, RebaseConflict, InTurn
      <4>5. QED
        BY <4>2, <4>3, <4>4
    <3>6. CASE Leave(r)
      BY <3>6 DEF Leave, IdleRunner, InTurn
    <3>7. QED
      BY <1>2, <3>3, <3>4, <3>5, <3>6 DEF RunnerStepOf
  <2>3. runner'[r] = call /\ \A s \in Runners \ {r} : runner'[s] = runner[s]
    BY <1>0, <2>2, Types DEF RunnerBecomes
  <2>4. \A u \in Tickets : Attended(u)' <=> Attended(u)
    BY <2>2, <2>3 DEF Attended, InTurn
  <2>5. NothingBeforeAdmission'
    BY <1>0, <2>1 DEF NothingBeforeAdmission, HasActive
  <2>6. QED
    BY <2>1, <2>4, <2>5, BoardStutters
<1>3. QED
  BY <1>1, <1>2

-----------------------------------------------------------------------------
(* The app goes down: no call has a turn any more.                          *)

LEMMA CrashStrands ==
  ASSUME ForgetMemory, NEW half \in SUBSET Tickets, Cardinality(half) <= 1,
         \A u \in Tickets \ half : SameRowsOf(u),
         \A u \in half : /\ Phase(u) \in {"queued", "working", "done"}
                         /\ Phase(u)' = "idle"
  PROVE  [Board!Next]_phases
<1>1. \A u : ~Attended(u)'
  BY DEF ForgetMemory, Attended, InTurn, IdleRunner
<1>2. ASSUME NEW u \in Tickets \ half
      PROVE  Phase(u)' = IF Phase(u) = "working" THEN "stranded" ELSE Phase(u)
  <2>1. /\ ticket'[u] = ticket[u]
        /\ Running(u)' <=> Running(u)
        /\ Pending(u)' <=> Pending(u)
    BY <1>2 DEF SameRowsOf, Running, Pending
  <2>2. QED
    BY <1>1, <2>1, PhaseReads, PhaseReadsNext
<1>3. \A u \in Tickets : phases[u] = Phase(u) /\ phases'[u] = Phase(u)'
  BY DEF phases
<1>4. Board!Lose
  <2>1. phases' = [u \in Tickets |->
                     CASE u \in half -> "idle"
                       [] u \in {t \in Tickets : phases[t] = "working"} \ half
                            -> "stranded"
                       [] OTHER -> phases[u]]
    BY <1>2, <1>3 DEF phases
  <2>2. \A u \in half : phases[u] \in {"queued", "working", "done"}
    BY <1>3
  <2>3. QED
    BY <2>1, <2>2, BoardCounts DEF Board!Lose, Board!Working, phases
<1>5. QED
  BY <1>4 DEF Board!Next, phases

LEMMA NobodyHalfWay ==
  ASSUME ForgetMemory, \A u \in Tickets : SameRowsOf(u)
  PROVE  [Board!Next]_phases
<1>1. Cardinality({}) <= 1
  BY FS_EmptySet
<1>2. QED
  BY <1>1, CrashStrands

LEMMA OneHalfWay ==
  ASSUME ForgetMemory, NEW t \in Tickets,
         \A u \in Tickets \ {t} : SameRowsOf(u),
         Phase(t) \in {"queued", "working", "done"}, Phase(t)' = "idle"
  PROVE  [Board!Next]_phases
<1>1. Cardinality({t}) <= 1
  BY FS_Singleton
<1>2. QED
  BY <1>1, CrashStrands

(* The report is written, and the assignment ended or not; the ticket is    *)
(* open still.                                                              *)
LEMMA ReportedHalfWay ==
  ASSUME RInv, NEW t \in Tickets, NEW i \in Rounds, NEW outcome, NEW pr,
         CrashAfterReport(t, i, outcome, pr), ticket[t] = "open",
         IsActive(assignment[t][i]), Phase(t) \in {"queued", "working"}
  PROVE  [Board!Next]_phases
<1>0. TypeOK /\ AtMostOneActive
  BY DEF RInv, IInv, RowsAgree
<1>1. ForgetMemory /\ UNCHANGED ticket
  BY DEF CrashAfterReport
<1>2. CASE UNCHANGED assignment
  BY <1>1, <1>2, NobodyHalfWay DEF SameRowsOf
<1>3. CASE assignment' = [assignment EXCEPT ![t][i] = "ended"]
  <2>1. /\ assignment'[t][i] = "ended"
        /\ \A j \in Rounds \ {i} : assignment'[t][j] = assignment[t][j]
        /\ \A u \in Tickets \ {t} : assignment'[u] = assignment[u]
    BY <1>0, <1>3, Types
  <2>2. ~Running(t)' /\ ~Pending(t)'
    BY <1>0, <2>1 DEF AtMostOneActive, IsActive, Running, Pending
  <2>3. Phase(t)' = "idle"
    BY <1>1, <2>2, PhaseReadsNext
  <2>4. QED
    BY <1>1, <2>1, <2>3, OneHalfWay DEF SameRowsOf
<1>4. QED
  BY <1>2, <1>3 DEF CrashAfterReport

(* A ticket was reopened, or not, and not yet given an assignment.          *)
LEMMA ReopenedHalfWay ==
  ASSUME RInv, ForgetMemory, NEW t \in Tickets,
         ticket' \in {ticket, Moved(t, "open")}, UNCHANGED assignment
  PROVE  [Board!Next]_phases
<1>0. TypeOK /\ EndedTicketIsOver
  BY DEF RInv, IInv, RowsAgree
<1>1. CASE UNCHANGED ticket
  BY <1>1, NobodyHalfWay DEF SameRowsOf
<1>2. CASE ticket' = Moved(t, "open") /\ ticket[t] = "ended"
  <2>1. ticket'[t] = "open" /\ \A u \in Tickets \ {t} : ticket'[u] = ticket[u]
    BY <1>0, <1>2, Types DEF Moved, CanMoveTo
  <2>2. ~Running(t)' /\ ~Pending(t)'
    BY <1>0, <1>2 DEF EndedTicketIsOver, HasActive, IsActive, Running, Pending
  <2>3. Phase(t) = "done" /\ Phase(t)' = "idle"
    BY <1>2, <2>1, <2>2, PhaseReads, PhaseReadsNext
  <2>4. QED
    BY <2>1, <2>3, OneHalfWay DEF SameRowsOf
<1>3. CASE ticket' = Moved(t, "open") /\ ticket[t] # "ended"
  BY <1>1, <1>3 DEF Moved, CanMoveTo
<1>4. QED
  BY <1>1, <1>2, <1>3

LEMMA CrashRefines ==
  ASSUME RInv, CrashStep
  PROVE  [Board!Next]_phases /\ NothingBeforeAdmission'
<1>0. /\ TypeOK /\ AtMostOneActive /\ TurnOwnsItsRows /\ LaunchIsAlone
      /\ CallsOwnTheirTickets /\ NothingBeforeAdmission
  BY DEF RInv, IInv, Ownership, RowsAgree
<1>1. ForgetMemory
  BY DEF CrashStep, Crash, CrashWhileClosing, CrashWhileFailing,
     CrashAfterReport, CrashWhileWaking, CrashWhileResuming
<1>2. ASSUME NEW r \in Runners, CrashWhileClosing(r)
      PROVE  [Board!Next]_phases
  <2>1. PICK t \in Tickets, i \in Rounds :
          /\ t = runner[r].ticket /\ i = runner[r].round
          /\ InTurn(r) /\ assignment[t][i] = "running" /\ ticket[t] = "open"
    BY <1>0, <1>2, Types DEF CrashWhileClosing, CallTyped, TurnOwnsItsRows,
       InTurn
  <2>2. Running(t) /\ Attended(t)
    BY <2>1 DEF Running, Attended
  <2>3. Phase(t) = "working"
    BY <2>1, <2>2, PhaseReads
  <2>4. QED
    BY <1>2, <2>1, <2>3, ReportedHalfWay DEF CrashWhileClosing, IsActive
<1>3. ASSUME NEW h \in Hands, CrashWhileFailing(h)
      PROVE  [Board!Next]_phases
  <2>1. PICK t \in Tickets, i \in Rounds :
          /\ t = hand[h].ticket /\ i = hand[h].noted
          /\ assignment[t][i] = "pending" /\ ticket[t] = "open"
    BY <1>0, <1>3, Types DEF CrashWhileFailing, MayFail, LaunchIsAlone, Launches
  <2>2. ~Running(t) /\ Pending(t)
    BY <1>0, <2>1 DEF AtMostOneActive, IsActive, Running, Pending
  <2>3. Phase(t) = "queued"
    BY <2>1, <2>2, PhaseReads
  <2>4. QED
    BY <1>3, <2>1, <2>3, ReportedHalfWay DEF CrashWhileFailing, IsActive
<1>4. ASSUME NEW t \in Tickets, CrashWhileWaking(t)
      PROVE  [Board!Next]_phases
  BY <1>4, ReopenedHalfWay DEF CrashWhileWaking
<1>5. ASSUME NEW w \in Watchers, CrashWhileResuming(w)
      PROVE  [Board!Next]_phases
  <2>1. hand[w].ticket \in Tickets
    BY <1>0, <1>5, Types DEF CrashWhileResuming, Hands
  <2>2. QED
    BY <1>5, <2>1, ReopenedHalfWay DEF CrashWhileResuming
<1>6. ASSUME Crash PROVE [Board!Next]_phases
  BY <1>6, NobodyHalfWay DEF Crash, rows, SameRowsOf
<1>7. [Board!Next]_phases
  BY <1>2, <1>3, <1>4, <1>5, <1>6 DEF CrashStep
<1>8. NothingBeforeAdmission'
  <2>1. \A h \in Hands : hand'[h].pc = "idle"
    BY <1>1 DEF ForgetMemory, IdleHand
  <2>2. ASSUME NEW u \in Tickets, ticket'[u] = "absent"
        PROVE  ticket[u] = "absent"
    <3>1. \/ UNCHANGED ticket
          \/ \E t \in Tickets : ticket' = Moved(t, "open")
      BY <1>0, Types DEF CrashStep, Crash, CrashWhileClosing, CrashWhileFailing,
         CrashAfterReport, CrashWhileWaking, CrashWhileResuming, rows, Hands
    <3>2. QED
      BY <1>0, <2>2, <3>1, Types DEF Moved, CanMoveTo
  <2>3. ASSUME NEW u \in Tickets, HasActive(u)'
        PROVE  HasActive(u)
    <3>1. \/ UNCHANGED assignment
          \/ \E t \in Tickets, i \in Rounds :
               assignment' = [assignment EXCEPT ![t][i] = "ended"]
      BY <1>0, Types DEF CrashStep, Crash, CrashWhileClosing, CrashWhileFailing,
         CrashAfterReport, CrashWhileWaking, CrashWhileResuming, rows, CallTyped,
         MayFail
    <3>2. \A j \in Rounds : IsActive(assignment'[u][j]) => IsActive(assignment[u][j])
      BY <1>0, <3>1, Types DEF IsActive
    <3>3. QED
      BY <2>3, <3>2 DEF HasActive
  <2>4. QED
    BY <1>0, <2>1, <2>2, <2>3 DEF NothingBeforeAdmission
<1>9. QED
  BY <1>7, <1>8

-----------------------------------------------------------------------------
LEMMA InitRefines ==
  ASSUME Init
  PROVE  Board!Init /\ NothingBeforeAdmission
<1>1. \A t \in Tickets : Phase(t) = "unknown"
  BY PhaseReads DEF Init
<1>2. Board!Init
  BY <1>1 DEF Board!Init
<1>3. NothingBeforeAdmission
  BY DEF Init, NothingBeforeAdmission, HasActive, IsActive, IdleHand
<1>4. QED
  BY <1>2, <1>3

LEMMA StepRefines ==
  ASSUME RInv, [UnattendedNext]_vars
  PROVE  [Board!Next]_phases /\ NothingBeforeAdmission'
<1>1. CASE UNCHANGED vars
  <2>1. UNCHANGED <<ticket, assignment, runner, hand>>
    BY <1>1 DEF vars, rows, memory
  <2>2. NothingBeforeAdmission'
    BY <2>1 DEF RInv, NothingBeforeAdmission, HasActive
  <2>3. QED
    BY <2>1, <2>2, BoardStutters, SameCalls
<1>2. CASE UnattendedNext
  <2>1. Watchers \subseteq Hands
    BY DEF Hands
  <2>2. QED
    BY <1>2, <2>1, EnvironmentRefines, WatcherRefines, LaunchingRefines,
       RunnerRefines, CrashRefines DEF UnattendedNext
<1>3. QED
  BY <1>1, <1>2

(* What the panel's board shows is what WorkBoard promises, for any number  *)
(* of tickets, calls and slots: work starts only from the queue and never   *)
(* in more tickets than there are slots, and whatever is under way when the *)
(* app goes down is stranded and stays so.                                  *)
THEOREM Implements == Unattended => ImplementsWorkBoard
<1>1. Init => Board!Init /\ NothingBeforeAdmission
  BY InitRefines
<1>2. /\ IInv /\ NothingBeforeAdmission /\ [UnattendedNext]_vars
      => [Board!Next]_([t \in Tickets |-> Phase(t)]) /\ NothingBeforeAdmission'
  BY StepRefines DEF RInv, phases
<1>3. QED
  BY <1>1, <1>2, InvariantHolds, PTL
  DEF Unattended, ImplementsWorkBoard, Board!Spec
=============================================================================
