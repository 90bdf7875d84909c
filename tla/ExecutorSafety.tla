--------------------------- MODULE ExecutorSafety ---------------------------
(***************************************************************************)
(* The pipeline left to itself keeps its turns apart: IInv is inductive,   *)
(* and the safety properties the Unattended run checks follow from it.  At *)
(* the end, what holds of the whole specification, with the panel.         *)
(***************************************************************************)
EXTENDS ExecutorProofs, ExecutorInvariant

-----------------------------------------------------------------------------
(* Facts the steps below share.                                             *)

(* A report that was written is the one the ticket shows, and no other      *)
(* ticket shows another than before.                                        *)
LEMMA WrittenIsLatest ==
  ASSUME TypeOK, NEW t \in Tickets, NEW i \in Rounds, NEW outcome, NEW pr,
         WriteReport(t, i, outcome, pr)
  PROVE  /\ LatestOutcome(t)' = outcome
         /\ \A u \in Tickets \ {t} : LatestOutcome(u)' = LatestOutcome(u)
<1>1. /\ report \in [Tickets -> [Rounds ->
            [outcome : ReportOutcome \cup {"none"}, pr : BOOLEAN]]]
      /\ latest \in [Tickets -> Rounds \cup {0}]
  BY DEF TypeOK, RowsTypeOK
<1>2. i # 0
  BY ConstantsAssumption DEF Rounds
<1>3. /\ latest'[t] = i
      /\ report'[t][i] = [outcome |-> outcome, pr |-> pr]
  BY <1>1 DEF WriteReport
<1>4. \A u \in Tickets \ {t} : latest'[u] = latest[u] /\ report'[u] = report[u]
  BY <1>1 DEF WriteReport
<1>5. LatestOutcome(t)' = outcome
  BY <1>2, <1>3 DEF LatestOutcome
<1>6. QED
  BY <1>4, <1>5 DEF LatestOutcome

(* The types of the variables, without the names that group them.           *)
LEMMA Types ==
  ASSUME TypeOK
  PROVE  /\ ticket \in [Tickets -> TicketState \cup {"absent"}]
         /\ assignment
              \in [Tickets -> [Rounds -> AssignmentState \cup {"absent"}]]
         /\ latest \in [Tickets -> Rounds \cup {0}]
         /\ slots \subseteq Tickets
         /\ runs \in [Tickets -> Runners \cup {NoRunner, Abandoned}]
         /\ \A r \in Runners : CallTyped(runner[r])
         /\ DOMAIN runner = Runners
         /\ DOMAIN hand = Hands
         /\ \A h \in Hands :
              /\ hand[h].pc # "idle" => hand[h].ticket \in Tickets
              /\ hand[h].pc \in {"worktree", "preparing", "merging"}
                   => hand[h].noted \in Rounds
  BY DEF TypeOK, RowsTypeOK, FlagsTypeOK, RunnersTypeOK, HandsTypeOK

LEMMA InitInvariant == Init => IInv
<1>1. SUFFICES ASSUME Init PROVE IInv
  OBVIOUS
<1>2. TypeOK
  BY <1>1, InitTyped
<1>3. Ownership
  BY <1>1 DEF Init, Ownership, CallsOwnTheirTickets, OneWatcherWalks,
     LaunchIsAlone, Launches, IdleRunner, IdleHand
<1>4. IsFiniteSet({}) /\ Cardinality({}) = 0
  BY FS_EmptySet
<1>5. Accounting
  BY <1>1, <1>4, ConstantsAssumption DEF Init, Accounting, TurnsHoldSlots,
     SlotsWithinCapacity, HoldsSlot, InTurn, IdleRunner
<1>6. RowsAgree
  BY <1>1 DEF Init, RowsAgree, CheckedStaysPending, TurnOwnsItsRows, InTurn,
     IdleRunner, AtMostOneActive, EndedTicketIsOver, IsActive
<1>7. QED
  BY <1>2, <1>3, <1>5, <1>6 DEF IInv

-----------------------------------------------------------------------------
(* Steps that leave the calls alone.                                        *)

(* A step opens tickets and gives assignments but ends none.                *)
RowsOnlyAdded ==
  /\ \A u \in Tickets : ticket[u] = "open" => ticket'[u] = "open"
  /\ \A u \in Tickets, i \in Rounds :
       assignment[u][i] # "absent" => assignment'[u][i] = assignment[u][i]

LEMMA GivenOnlyAdds ==
  ASSUME TypeOK, NEW t \in Tickets, GivenAssignment(t)
  PROVE  /\ AtMostOneActive => AtMostOneActive'
         /\ \A u \in Tickets, i \in Rounds :
              assignment[u][i] # "absent" => assignment'[u][i] = assignment[u][i]
         /\ \A u \in Tickets \ {t} : assignment'[u] = assignment[u]
<1>1. CASE UNCHANGED assignment
  BY <1>1 DEF AtMostOneActive
<1>2. CASE ~HasActive(t) /\ ~ UNCHANGED assignment
  <2>1. PICK i \in Rounds :
          /\ assignment[t][i] = "absent"
          /\ assignment' = [assignment EXCEPT ![t][i] = "pending"]
    BY <1>2 DEF GivenAssignment, IsNextRound
  <2>2. \A u \in Tickets, j \in Rounds :
          assignment'[u][j] = IF u = t /\ j = i THEN "pending"
                              ELSE assignment[u][j]
    BY <2>1, Types
  <2>3. \A u \in Tickets \ {t} : assignment'[u] = assignment[u]
    BY <2>1, Types
  <2>4. AtMostOneActive => AtMostOneActive'
    BY <1>2, <2>2 DEF AtMostOneActive, HasActive
  <2>5. QED
    BY <2>1, <2>2, <2>3, <2>4
<1>3. QED
  BY <1>1, <1>2 DEF GivenAssignment

LEMMA MovedToOpen ==
  ASSUME TypeOK, NEW t \in Tickets
  PROVE  /\ \A u \in Tickets \ {t} : Moved(t, "open")[u] = ticket[u]
         /\ Moved(t, "open")[t] # "ended"
         /\ ticket[t] = "open" => Moved(t, "open")[t] = "open"
  BY Types DEF Moved, CanMoveTo

LEMMA CallsUndisturbed ==
  ASSUME IInv, RowsOnlyAdded, UNCHANGED <<runner, runs, slots>>
  PROVE  /\ CallsOwnTheirTickets' /\ Accounting'
         /\ CheckedStaysPending' /\ TurnOwnsItsRows'
<1> USE DEF IInv, Ownership, Accounting, RowsAgree
<1>1. CallsOwnTheirTickets' /\ Accounting'
  BY DEF CallsOwnTheirTickets, TurnsHoldSlots, SlotsWithinCapacity, HoldsSlot,
     InTurn
<1>2. ASSUME NEW r \in Runners, runner[r].pc \notin {"idle", "called", "leaving"}
      PROVE  runner[r].ticket \in Tickets /\ runner[r].round \in Rounds
  BY <1>2, Types DEF CallTyped
<1>3. CheckedStaysPending'
  BY <1>2 DEF CheckedStaysPending, RowsOnlyAdded
<1>4. TurnOwnsItsRows'
  BY <1>2 DEF TurnOwnsItsRows, InTurn, RowsOnlyAdded
<1>5. QED
  BY <1>1, <1>3, <1>4

LEMMA HandsUndisturbed ==
  ASSUME IInv, RowsOnlyAdded, UNCHANGED <<runs, loops, watching>>,
         \A h \in Hands : hand'[h] = hand[h] \/ hand'[h].pc \in {"idle", "resuming"},
         \A h \in Hands : h # watching => hand'[h].pc = "idle"
  PROVE  OneWatcherWalks' /\ LaunchIsAlone'
<1> USE DEF IInv, Ownership
<1>1. OneWatcherWalks'
  BY DEF OneWatcherWalks
<1>2. LaunchIsAlone'
  BY Types DEF LaunchIsAlone, Launches, RowsOnlyAdded
<1>3. QED
  BY <1>1, <1>2

LEMMA SameRows ==
  ASSUME UNCHANGED <<ticket, assignment>>
  PROVE  RowsOnlyAdded /\ (AtMostOneActive => AtMostOneActive')
  BY DEF RowsOnlyAdded, AtMostOneActive

LEMMA SameEnded ==
  ASSUME UNCHANGED <<ticket, assignment, report, latest>>, EndedTicketIsOver
  PROVE  EndedTicketIsOver'
  BY DEF EndedTicketIsOver, LatestOutcome, HasActive

LEMMA EnvironmentInvariant ==
  ASSUME IInv, NEW t \in Tickets, Environment(t) \/ Stop(t)
  PROVE  Ownership' /\ Accounting' /\ RowsAgree'
<1>0. TypeOK /\ AtMostOneActive /\ EndedTicketIsOver
  BY DEF IInv, RowsAgree
<1>1. CASE Admit(t)
  <2>1. RowsOnlyAdded /\ AtMostOneActive' /\ EndedTicketIsOver'
    <3>1. \A u \in Tickets : ticket'[u] = IF u = t THEN "open" ELSE ticket[u]
      BY <1>0, <1>1, Types DEF Admit
    <3>2. QED
      BY <1>0, <1>1, <3>1 DEF Admit, RowsOnlyAdded, AtMostOneActive,
         EndedTicketIsOver, LatestOutcome, HasActive
  <2>2. QED
    BY <1>1, <2>1, CallsUndisturbed, HandsUndisturbed
    DEF Admit, memory, IInv, Ownership, OneWatcherWalks, RowsAgree
<1>2. CASE Wake(t)
  <2>1. RowsOnlyAdded /\ AtMostOneActive'
    BY <1>0, <1>2, GivenOnlyAdds, MovedToOpen DEF Wake, RowsOnlyAdded
  <2>2. EndedTicketIsOver'
    BY <1>0, <1>2, GivenOnlyAdds, MovedToOpen
    DEF Wake, EndedTicketIsOver, LatestOutcome, HasActive
  <2>3. QED
    BY <1>2, <2>1, <2>2, CallsUndisturbed, HandsUndisturbed
    DEF Wake, memory, IInv, Ownership, OneWatcherWalks, RowsAgree
<1>3. CASE MergedElsewhere(t) \/ Stop(t)
  <2>1. UNCHANGED <<rows, slots, runs, runner, hand, watching, loops>>
    BY <1>3 DEF MergedElsewhere, Stop, memory
  <2>2. RowsOnlyAdded /\ AtMostOneActive' /\ EndedTicketIsOver'
    BY <1>0, <2>1, SameRows, SameEnded DEF rows
  <2>3. QED
    BY <2>1, <2>2, CallsUndisturbed, HandsUndisturbed
    DEF IInv, Ownership, OneWatcherWalks, RowsAgree
<1>4. QED
  BY <1>1, <1>2, <1>3 DEF Environment

-----------------------------------------------------------------------------
(* Steps of the watcher.                                                    *)

(* A loop that may walk is the registered one, and nothing else is walking. *)
LEMMA OnlyWalker ==
  ASSUME IInv, NEW w \in Watchers, MayWalk(w)
  PROVE  w = watching /\ \A h \in Hands : hand[h].pc = "idle"
  BY DEF MayWalk, IdleHand, IInv, Ownership, OneWatcherWalks

(* A hand in the middle of a step is the registered watcher's.              *)
LEMMA OnlyWorkingHand ==
  ASSUME IInv, NEW h \in Hands, hand[h].pc # "idle"
  PROVE  h = watching /\ \A g \in Hands \ {h} : hand[g].pc = "idle"
  BY DEF IInv, Ownership, OneWatcherWalks

LEMMA HandDoneAlone ==
  ASSUME IInv, NEW h \in Hands, hand[h].pc # "idle", HandDone(h)
  PROVE  \A g \in Hands : hand'[g].pc = "idle"
  BY OnlyWorkingHand, Types DEF IInv, HandDone, IdleHand

LEMMA WatcherInvariant ==
  ASSUME IInv, NEW w \in Watchers, WatcherStep(w)
  PROVE  Ownership' /\ Accounting' /\ RowsAgree'
<1>0. /\ TypeOK /\ AtMostOneActive /\ EndedTicketIsOver
      /\ w \in Hands
  BY DEF IInv, RowsAgree, Hands
<1>1. CASE ResumeUnfinished(w)
  <2> DEFINE t == hand[w].ticket
  <2>1. t \in Tickets /\ hand[w].pc # "idle"
    BY <1>0, <1>1, Types DEF ResumeUnfinished
  <2>2. \A g \in Hands : hand'[g].pc = "idle"
    BY <1>0, <1>1, <2>1, HandDoneAlone DEF ResumeUnfinished
  <2>3. CASE GivenAssignment(t) /\ ticket' = Moved(t, "open")
    <3>1. RowsOnlyAdded /\ AtMostOneActive'
      BY <1>0, <2>1, <2>3, GivenOnlyAdds, MovedToOpen DEF RowsOnlyAdded
    <3>2. EndedTicketIsOver'
      BY <1>0, <1>1, <2>1, <2>3, GivenOnlyAdds, MovedToOpen
      DEF ResumeUnfinished, EndedTicketIsOver, LatestOutcome, HasActive
    <3>3. QED
      BY <1>1, <2>2, <3>1, <3>2, CallsUndisturbed, HandsUndisturbed
      DEF ResumeUnfinished, Ownership, RowsAgree
  <2>4. CASE UNCHANGED <<ticket, assignment>>
    <3>1. RowsOnlyAdded /\ AtMostOneActive' /\ EndedTicketIsOver'
      BY <1>0, <1>1, <2>4, SameRows, SameEnded DEF ResumeUnfinished
    <3>2. QED
      BY <1>1, <2>2, <3>1, CallsUndisturbed, HandsUndisturbed
      DEF ResumeUnfinished, Ownership, RowsAgree
  <2>5. QED
    BY <1>1, <2>3, <2>4 DEF ResumeUnfinished
<1>2. ASSUME NEW t \in Tickets, WatcherLaunch(w, t)
      PROVE  Ownership' /\ Accounting' /\ RowsAgree'
  <2>1. w = watching /\ \A h \in Hands : hand[h].pc = "idle"
    BY <1>2, OnlyWalker DEF WatcherLaunch
  <2>2. /\ runs[t] = NoRunner /\ ticket[t] = "open"
        /\ UNCHANGED <<rows, slots, runs, runner, watching, loops>>
        /\ hand' = [hand EXCEPT ![w] =
                      [pc |-> "creating", ticket |-> t, noted |-> 0]]
    BY <1>2 DEF WatcherLaunch, NotRunning, FindUnassigned, HandTo
  <2>3. RowsOnlyAdded /\ AtMostOneActive' /\ EndedTicketIsOver'
    BY <1>0, <2>2, SameRows, SameEnded DEF rows
  <2>4. OneWatcherWalks' /\ LaunchIsAlone'
    <3>1. \A h \in Hands : hand'[h] = IF h = w
             THEN [pc |-> "creating", ticket |-> t, noted |-> 0] ELSE hand[h]
      BY <1>0, <2>2, Types
    <3>2. QED
      BY <2>1, <2>2, <3>1
      DEF rows, IInv, Ownership, OneWatcherWalks, LaunchIsAlone, Launches
  <2>5. QED
    BY <2>2, <2>3, <2>4, CallsUndisturbed DEF Ownership, RowsAgree
<1>3. ASSUME NEW t \in Tickets, FindUnfinished(w, t)
      PROVE  Ownership' /\ Accounting' /\ RowsAgree'
  <2>1. w = watching /\ \A h \in Hands : hand[h].pc = "idle"
    BY <1>3, OnlyWalker DEF FindUnfinished
  <2>2. /\ UNCHANGED <<rows, slots, runs, runner, watching, loops>>
        /\ hand' = [hand EXCEPT ![w] =
                      [pc |-> "resuming", ticket |-> t, noted |-> attempts[t]]]
    BY <1>3 DEF FindUnfinished, HandTo
  <2>3. RowsOnlyAdded /\ AtMostOneActive' /\ EndedTicketIsOver'
    BY <1>0, <2>2, SameRows, SameEnded DEF rows
  <2>4. \A h \in Hands :
          /\ (hand'[h] = hand[h]) \/ (hand'[h].pc = "resuming")
          /\ h # watching => hand'[h].pc = "idle"
    BY <1>0, <2>1, <2>2, Types
  <2>5. QED
    BY <2>2, <2>3, <2>4, CallsUndisturbed, HandsUndisturbed
    DEF Ownership, RowsAgree
<1>4. ASSUME NEW t \in Tickets, NEW r \in Runners, WatcherExecute(w, t, r)
      PROVE  Ownership' /\ Accounting' /\ RowsAgree'
  <2>1. \A h \in Hands : hand[h].pc = "idle"
    BY <1>4, OnlyWalker DEF WatcherExecute
  <2>2. /\ runs[t] = NoRunner
        /\ UNCHANGED <<rows, slots, hand, watching, loops>>
    BY <1>4 DEF WatcherExecute, NotRunning
  <2>3. /\ runner[r].pc = "idle"
        /\ \A s \in Runners \ {r} : runner'[s] = runner[s]
        /\ runner'[r].pc = "called" /\ runner'[r].ticket = t
        /\ runs' = [runs EXCEPT ![t] = r]
    BY <1>0, <1>4, Types DEF WatcherExecute, Call, RunnerBecomes, IdleRunner
  <2>4. CallsOwnTheirTickets'
    <3>1. \A s \in Runners :
            runner[s].pc # "idle" => runs[runner[s].ticket] = s /\ s # NoRunner
      BY ConstantsAssumption DEF IInv, Ownership, CallsOwnTheirTickets
    <3>2. \A s \in Runners : runner[s].pc # "idle" => runner[s].ticket # t
      BY <2>2, <3>1
    <3>3. QED
      BY <1>0, <2>3, <3>1, <3>2, Types DEF CallsOwnTheirTickets
  <2>5. OneWatcherWalks' /\ LaunchIsAlone'
    BY <2>1, <2>2 DEF IInv, Ownership, OneWatcherWalks, LaunchIsAlone, Launches
  <2>6. /\ Accounting' /\ CheckedStaysPending' /\ TurnOwnsItsRows'
    BY <2>2, <2>3 DEF IInv, Accounting, TurnsHoldSlots, SlotsWithinCapacity,
       HoldsSlot, InTurn, RowsAgree, CheckedStaysPending, TurnOwnsItsRows, rows
  <2>7. AtMostOneActive' /\ EndedTicketIsOver'
    BY <1>0, <2>2, SameRows, SameEnded DEF rows
  <2>8. QED
    BY <2>4, <2>5, <2>6, <2>7 DEF Ownership, RowsAgree
<1>5. QED
  BY <1>1, <1>2, <1>3, <1>4 DEF WatcherStep

LEMMA LaunchingInvariant ==
  ASSUME IInv, NEW h \in Hands, Launching(h)
  PROVE  Ownership' /\ Accounting' /\ RowsAgree'
<1> DEFINE t == hand[h].ticket
           i == hand[h].noted
<1>0. /\ TypeOK /\ AtMostOneActive /\ EndedTicketIsOver
      /\ Launches(h) /\ hand[h].pc # "idle" /\ t \in Tickets
  BY Types DEF IInv, RowsAgree, Launching, CreateAssignment, EnsureWorktree,
     PrepareSucceeds, PrepareFails, MayFail, Launches
<1>1. /\ runs[t] = NoRunner /\ ticket[t] = "open"
      /\ h = watching /\ \A g \in Hands \ {h} : hand[g].pc = "idle"
  BY <1>0, OnlyWorkingHand DEF IInv, Ownership, LaunchIsAlone
<1>2. CASE CreateAssignment(h)
  <2>1. CASE UNCHANGED assignment /\ HandDone(h)
    <3>1. RowsOnlyAdded /\ AtMostOneActive' /\ EndedTicketIsOver'
      BY <1>0, <1>2, <2>1, SameRows, SameEnded DEF CreateAssignment
    <3>2. \A g \in Hands : hand'[g].pc = "idle"
      BY <1>0, <2>1, HandDoneAlone
    <3>3. QED
      BY <1>2, <3>1, <3>2, CallsUndisturbed, HandsUndisturbed
      DEF CreateAssignment, Ownership, RowsAgree
  <2>2. CASE ~HasActive(t) /\ ~ (UNCHANGED assignment /\ HandDone(h))
    <3>1. PICK j \in Rounds :
            /\ IsNextRound(t, j)
            /\ assignment' = [assignment EXCEPT ![t][j] = "pending"]
            /\ HandTo(h, "worktree", t, j)
      BY <1>2, <2>2 DEF CreateAssignment
    <3>2. GivenAssignment(t)
      BY <2>2, <3>1 DEF GivenAssignment
    <3>3. RowsOnlyAdded /\ AtMostOneActive'
      BY <1>0, <1>2, <3>2, GivenOnlyAdds DEF CreateAssignment, RowsOnlyAdded
    <3>4. EndedTicketIsOver'
      BY <1>0, <1>1, <1>2, <3>2, GivenOnlyAdds
      DEF CreateAssignment, EndedTicketIsOver, LatestOutcome, HasActive
    <3>5. assignment'[t][j] = "pending"
      BY <1>0, <3>1, Types
    <3>6. \A g \in Hands : hand'[g] = IF g = h
             THEN [pc |-> "worktree", ticket |-> t, noted |-> j] ELSE hand[g]
      BY <1>0, <3>1, Types DEF HandTo
    <3>7. OneWatcherWalks' /\ LaunchIsAlone'
      BY <1>1, <1>2, <3>5, <3>6 DEF CreateAssignment, IInv, Ownership,
         OneWatcherWalks, LaunchIsAlone, Launches
    <3>8. QED
      BY <1>2, <3>3, <3>4, <3>7, CallsUndisturbed
      DEF CreateAssignment, Ownership, RowsAgree
  <2>3. QED
    BY <1>2, <2>1, <2>2 DEF CreateAssignment
<1>3. CASE EnsureWorktree(h)
  <2>1. RowsOnlyAdded /\ AtMostOneActive' /\ EndedTicketIsOver'
    BY <1>0, <1>3, SameRows, SameEnded DEF EnsureWorktree
  <2>2. OneWatcherWalks' /\ LaunchIsAlone'
    <3>1. CASE HandDone(h)
      BY <1>0, <1>3, <2>1, <3>1, HandDoneAlone, HandsUndisturbed
      DEF EnsureWorktree
    <3>2. CASE HandTo(h, "preparing", t, i)
      <4>1. \A g \in Hands : hand'[g] = IF g = h
               THEN [pc |-> "preparing", ticket |-> t, noted |-> i] ELSE hand[g]
        BY <1>0, <3>2, Types DEF HandTo
      <4>2. QED
        BY <1>1, <1>3, <4>1 DEF EnsureWorktree, IInv, Ownership,
           OneWatcherWalks, LaunchIsAlone, Launches
    <3>3. QED
      BY <1>3, <3>1, <3>2 DEF EnsureWorktree
  <2>3. QED
    BY <1>3, <2>1, <2>2, CallsUndisturbed DEF EnsureWorktree, Ownership, RowsAgree
<1>4. CASE PrepareSucceeds(h)
  <2>1. RowsOnlyAdded /\ AtMostOneActive' /\ EndedTicketIsOver'
    BY <1>0, <1>4, SameRows, SameEnded DEF PrepareSucceeds
  <2>2. \A g \in Hands : hand'[g].pc = "idle"
    BY <1>0, <1>4, HandDoneAlone DEF PrepareSucceeds
  <2>3. QED
    BY <1>4, <2>1, <2>2, CallsUndisturbed, HandsUndisturbed
    DEF PrepareSucceeds, Ownership, RowsAgree
<1>5. CASE PrepareFails(h)
  <2>1. i \in Rounds /\ assignment[t][i] = "pending"
    BY <1>0, <1>5, Types DEF PrepareFails, MayFail, IInv, Ownership,
       LaunchIsAlone
  <2>2. \A u \in Tickets, j \in Rounds :
          assignment'[u][j] = IF u = t /\ j = i THEN "ended"
                              ELSE assignment[u][j]
    BY <1>0, <1>5, Types DEF PrepareFails, Conclude, EffectsOf, IsFinal
  <2>3. \A u \in Tickets : ticket'[u] = IF u = t THEN "ended" ELSE ticket[u]
    BY <1>0, <1>1, <1>5, Types
    DEF PrepareFails, Conclude, EffectsOf, EndsTicket, Moved, CanMoveTo
  <2>4. AtMostOneActive'
    BY <1>0, <2>2 DEF AtMostOneActive, IsActive
  <2>5. EndedTicketIsOver'
    <3>1. ASSUME NEW u \in Tickets, ticket'[u] = "ended"
          PROVE  EndsTicket(LatestOutcome(u)') /\ ~HasActive(u)'
      <4>1. CASE u = t
        <5>1. ~HasActive(u)'
          BY <1>0, <2>1, <2>2, <4>1 DEF HasActive, AtMostOneActive, IsActive
        <5>2. WriteReport(u, i, "failed", FALSE)
          BY <1>5, <4>1 DEF PrepareFails
        <5>3. LatestOutcome(u)' = "failed"
          BY <1>0, <2>1, <5>2, WrittenIsLatest
        <5>4. QED
          BY <5>1, <5>3 DEF EndsTicket
      <4>2. CASE u # t
        <5>1. LatestOutcome(u)' = LatestOutcome(u)
          BY <1>0, <1>5, <2>1, <4>2, WrittenIsLatest DEF PrepareFails
        <5>2. HasActive(u)' <=> HasActive(u)
          BY <2>2, <4>2 DEF HasActive
        <5>3. QED
          BY <1>0, <2>3, <3>1, <4>2, <5>1, <5>2 DEF EndedTicketIsOver
      <4>3. QED
        BY <4>1, <4>2
    <3>2. QED
      BY <3>1 DEF EndedTicketIsOver
  <2>6. \A r \in Runners : runner[r].pc # "idle" =>
          runner[r].ticket # t /\ runner[r].ticket \in Tickets
    BY <1>0, <1>1, Types, ConstantsAssumption
    DEF IInv, Ownership, CallsOwnTheirTickets, CallTyped
  <2>7. UNCHANGED <<slots, runs, runner, watching, loops>>
    BY <1>5 DEF PrepareFails
  <2>8. CheckedStaysPending' /\ TurnOwnsItsRows'
    <3>1. \A r \in Runners : runner[r].pc \notin {"idle", "called", "leaving"}
            => runner[r].round \in Rounds
      BY <1>0, Types DEF CallTyped
    <3>2. QED
      BY <2>2, <2>3, <2>6, <2>7, <3>1
      DEF IInv, RowsAgree, CheckedStaysPending, TurnOwnsItsRows, InTurn
  <2>9. CallsOwnTheirTickets' /\ Accounting'
    BY <2>7 DEF IInv, Ownership, CallsOwnTheirTickets, Accounting,
       TurnsHoldSlots, SlotsWithinCapacity, HoldsSlot, InTurn
  <2>10. OneWatcherWalks' /\ LaunchIsAlone'
    <3>1. \A g \in Hands : hand'[g].pc = "idle"
      BY <1>0, <1>5, HandDoneAlone DEF PrepareFails
    <3>2. QED
      BY <2>7, <3>1 DEF IInv, Ownership, OneWatcherWalks, LaunchIsAlone, Launches
  <2>11. QED
    BY <2>4, <2>5, <2>8, <2>9, <2>10 DEF Ownership, RowsAgree
<1>6. QED
  BY <1>2, <1>3, <1>4, <1>5 DEF Launching

-----------------------------------------------------------------------------
(* Steps of a call.                                                         *)

(* No two calls at work are on the same ticket.                             *)
LEMMA CallsApart ==
  ASSUME IInv, NEW r \in Runners, NEW s \in Runners,
         runner[r].pc # "idle", runner[s].pc # "idle",
         runner[r].ticket = runner[s].ticket
  PROVE  r = s
  BY DEF IInv, Ownership, CallsOwnTheirTickets

(* A call that goes on with its ticket and leaves the rows as they are.     *)
LEMMA CallMoves ==
  ASSUME IInv, NEW r \in Runners, NEW call, RunnerBecomes(r, call),
         runner[r].pc # "idle", call.ticket = runner[r].ticket,
         UNCHANGED <<ticket, assignment, report, latest, runs, hand, watching,
                     loops>>,
         slots \subseteq slots', IsFiniteSet(slots'),
         Cardinality(slots') <= Capacity,
         call.pc \in {"holding", "running", "reviewing", "rebasing", "closing"}
           => call.ticket \in slots',
         call.pc \in {"checked", "holding"}
           => /\ assignment[call.ticket][call.round] = "pending"
              /\ ticket[call.ticket] = "open",
         call.pc \in {"running", "reviewing", "rebasing", "closing"}
           => /\ assignment[call.ticket][call.round] = "running"
              /\ ticket[call.ticket] = "open"
  PROVE  Ownership' /\ Accounting' /\ RowsAgree'
<1>1. /\ runner'[r] = call
      /\ \A s \in Runners \ {r} : runner'[s] = runner[s]
  BY Types DEF RunnerBecomes, IInv
<1>2. RowsOnlyAdded /\ AtMostOneActive' /\ EndedTicketIsOver'
  BY SameRows, SameEnded DEF IInv, RowsAgree
<1>3. OneWatcherWalks' /\ LaunchIsAlone'
  BY <1>2, HandsUndisturbed DEF IInv, Ownership, OneWatcherWalks
<1>4. CallsOwnTheirTickets'
  BY <1>1 DEF IInv, Ownership, CallsOwnTheirTickets
<1>5. Accounting'
  BY <1>1 DEF IInv, Accounting, TurnsHoldSlots, SlotsWithinCapacity, HoldsSlot,
     InTurn
<1>6. CheckedStaysPending'
  BY <1>1 DEF IInv, RowsAgree, CheckedStaysPending
<1>7. TurnOwnsItsRows'
  BY <1>1 DEF IInv, RowsAgree, TurnOwnsItsRows, InTurn
<1>8. QED
  BY <1>2, <1>3, <1>4, <1>5, <1>6, <1>7 DEF Ownership, RowsAgree

LEMMA BeginTurnInvariant ==
  ASSUME IInv, NEW r \in Runners, BeginTurn(r)
  PROVE  Ownership' /\ Accounting' /\ RowsAgree'
<1> DEFINE t == runner[r].ticket
           i == runner[r].round
<1>1. /\ TypeOK /\ t \in Tickets /\ i \in Rounds
      /\ runner[r].pc = "holding" /\ t \in slots
      /\ assignment[t][i] = "pending" /\ ticket[t] = "open"
  BY Types DEF BeginTurn, IInv, CallTyped, Accounting, TurnsHoldSlots,
     HoldsSlot, RowsAgree, CheckedStaysPending
<1>2. \A u \in Tickets, j \in Rounds :
        assignment'[u][j] = IF u = t /\ j = i THEN "running"
                            ELSE assignment[u][j]
  BY <1>1, Types DEF BeginTurn
<1>3. /\ runner'[r].pc = "running" /\ runner'[r].ticket = t
      /\ runner'[r].round = i
      /\ \A s \in Runners \ {r} : runner'[s] = runner[s]
  BY <1>1, Types DEF BeginTurn, RunnerTo, RunnerBecomes, CallTyped
<1>4. UNCHANGED <<ticket, report, latest, slots, runs, hand, watching, loops>>
  BY DEF BeginTurn
<1>5. \A s \in Runners \ {r} :
        runner[s].pc # "idle" => runner[s].ticket # t
  BY <1>1, CallsApart
<1>6. AtMostOneActive' /\ EndedTicketIsOver'
  <2>1. AtMostOneActive'
    BY <1>1, <1>2 DEF IInv, RowsAgree, AtMostOneActive, IsActive
  <2>2. ASSUME NEW u \in Tickets, ticket[u] = "ended"
        PROVE  /\ LatestOutcome(u)' = LatestOutcome(u)
               /\ HasActive(u)' <=> HasActive(u)
    <3>1. u # t
      BY <1>1, <2>2
    <3>2. HasActive(u)' <=> HasActive(u)
      BY <1>2, <3>1 DEF HasActive
    <3>3. LatestOutcome(u)' = LatestOutcome(u)
      BY <1>4 DEF LatestOutcome
    <3>4. QED
      BY <3>2, <3>3
  <2>3. EndedTicketIsOver'
    BY <1>4, <2>2 DEF IInv, RowsAgree, EndedTicketIsOver
  <2>4. QED
    BY <2>1, <2>3
<1>7. \A s \in Runners : runner[s].pc \notin {"idle", "called", "leaving"}
        => runner[s].ticket \in Tickets /\ runner[s].round \in Rounds
  BY <1>1, Types DEF CallTyped
<1>8. CheckedStaysPending'
  BY <1>1, <1>2, <1>3, <1>4, <1>5, <1>7
  DEF IInv, RowsAgree, CheckedStaysPending
<1>9. TurnOwnsItsRows'
  BY <1>1, <1>2, <1>3, <1>4, <1>5, <1>7
  DEF IInv, RowsAgree, TurnOwnsItsRows, InTurn
<1>10. CallsOwnTheirTickets' /\ Accounting'
  BY <1>1, <1>3, <1>4 DEF IInv, Ownership, CallsOwnTheirTickets, Accounting,
     TurnsHoldSlots, SlotsWithinCapacity, HoldsSlot, InTurn
<1>11. OneWatcherWalks' /\ LaunchIsAlone'
  <2>1. runs[t] = r /\ r # NoRunner
    BY <1>1, ConstantsAssumption DEF IInv, Ownership, CallsOwnTheirTickets
  <2>2. \A h \in Hands : Launches(h) => hand[h].ticket \in Tickets \ {t}
    BY <1>1, <2>1, Types DEF IInv, Ownership, LaunchIsAlone, Launches
  <2>3. \A u \in Tickets \ {t}, j \in Rounds :
          assignment'[u][j] = assignment[u][j]
    BY <1>2
  <2>4. OneWatcherWalks'
    BY <1>4 DEF IInv, Ownership, OneWatcherWalks
  <2>5. \A h \in Hands :
          /\ Launches(h) => /\ runs[hand[h].ticket] = NoRunner
                            /\ ticket[hand[h].ticket] = "open"
          /\ hand[h].pc \in {"worktree", "preparing"} =>
               assignment'[hand[h].ticket][hand[h].noted] = "pending"
    BY <1>1, <2>2, <2>3, Types DEF IInv, Ownership, LaunchIsAlone, Launches
  <2>6. LaunchIsAlone'
    BY <1>4, <2>5 DEF LaunchIsAlone, Launches
  <2>7. QED
    BY <2>4, <2>6
<1>12. QED
  BY <1>6, <1>8, <1>9, <1>10, <1>11 DEF Ownership, RowsAgree

LEMMA CloseTurnInvariant ==
  ASSUME IInv, NEW r \in Runners, CloseTurn(r)
  PROVE  Ownership' /\ Accounting' /\ RowsAgree'
<1> DEFINE t == runner[r].ticket
           i == runner[r].round
           outcome == runner[r].outcome
<1>1. /\ TypeOK /\ t \in Tickets /\ i \in Rounds
      /\ runner[r].pc = "closing"
      /\ assignment[t][i] = "running" /\ ticket[t] = "open"
  BY Types DEF CloseTurn, IInv, CallTyped, RowsAgree, TurnOwnsItsRows, InTurn
<1>2. /\ runner'[r].pc = "leaving" /\ runner'[r].ticket = t
      /\ \A s \in Runners \ {r} : runner'[s] = runner[s]
  BY <1>1, Types DEF CloseTurn, RunnerTo, RunnerBecomes, CallTyped
<1>3. UNCHANGED <<runs, hand, watching, loops>>
  BY DEF CloseTurn
<1>4. \A s \in Runners \ {r} :
        runner[s].pc # "idle" => runner[s].ticket # t
  BY <1>1, CallsApart
<1>5. runs[t] = r /\ r # NoRunner
  BY <1>1, ConstantsAssumption DEF IInv, Ownership, CallsOwnTheirTickets
<1>6. \A s \in Runners : runner[s].pc \notin {"idle", "called", "leaving"}
        => runner[s].ticket \in Tickets /\ runner[s].round \in Rounds
  BY <1>1, Types DEF CallTyped
<1>7. /\ \A u \in Tickets \ {t} :
           /\ ticket'[u] = ticket[u]
           /\ \A j \in Rounds : assignment'[u][j] = assignment[u][j]
      /\ \A j \in Rounds : j # i => assignment'[t][j] = assignment[t][j]
      /\ \/ /\ assignment'[t][i] = "ended"
            /\ slots' = slots \ {t}
            /\ ticket'[t] = IF EndsTicket(outcome) THEN "ended" ELSE "open"
         \/ assignment'[t][i] = "running" /\ slots' = slots /\ ticket'[t] = "open"
  <2>1. CASE Readable(outcome) /\ IsFinal(outcome)
    <3>1. assignment' = [assignment EXCEPT ![t][i] = "ended"]
      BY <2>1 DEF CloseTurn, Conclude, EffectsOf
    <3>2. /\ ticket' = Moved(t, EffectsOf(outcome).ticket)
          /\ slots' = slots \ {t}
      BY <2>1 DEF CloseTurn, Conclude, EffectsOf
    <3>3. \A u \in Tickets : ticket'[u] =
            IF u = t /\ EndsTicket(outcome) THEN "ended" ELSE ticket[u]
      BY <1>1, <3>2, Types DEF Moved, CanMoveTo, EffectsOf
    <3>4. QED
      BY <1>1, <2>1, <3>1, <3>2, <3>3, Types
  <2>2. CASE ~ (Readable(outcome) /\ IsFinal(outcome))
    <3>1. UNCHANGED <<assignment, slots>> /\ ticket' = ticket
      BY <2>2 DEF CloseTurn, Conclude, EffectsOf, IsFinal, EndsTicket, Moved,
         CanMoveTo
    <3>2. QED
      BY <1>1, <3>1
  <2>3. QED
    BY <2>1, <2>2
<1>8. AtMostOneActive'
  BY <1>1, <1>7 DEF IInv, RowsAgree, AtMostOneActive, IsActive
<1>9. EndedTicketIsOver'
  <2>1. ASSUME NEW u \in Tickets, ticket'[u] = "ended"
        PROVE  EndsTicket(LatestOutcome(u)') /\ ~HasActive(u)'
    <3>1. CASE u = t
      <4>1. WriteReport(u, i, outcome, runner[r].pr)
        BY <3>1 DEF CloseTurn
      <4>2. ASSUME NEW o, o = outcome
            PROVE  LatestOutcome(u)' = o
        BY <1>1, <4>1, <4>2, WrittenIsLatest
      <4>3. EndsTicket(outcome) /\ assignment'[t][i] = "ended"
        BY <1>7, <2>1, <3>1
      <4>4. EndsTicket(LatestOutcome(u)')
        BY <4>2, <4>3
      <4>5. ~HasActive(u)'
        BY <1>1, <1>7, <3>1, <4>3 DEF HasActive, IsActive, IInv, RowsAgree,
           AtMostOneActive
      <4>6. QED
        BY <4>4, <4>5
    <3>2. CASE u # t
      <4>1. LatestOutcome(u)' = LatestOutcome(u)
        BY <1>1, <3>2, WrittenIsLatest DEF CloseTurn
      <4>2. HasActive(u)' <=> HasActive(u)
        BY <1>7, <3>2 DEF HasActive
      <4>3. QED
        BY <1>7, <2>1, <3>2, <4>1, <4>2 DEF IInv, RowsAgree, EndedTicketIsOver
    <3>3. QED
      BY <3>1, <3>2
  <2>2. QED
    BY <2>1 DEF EndedTicketIsOver
<1>10. CheckedStaysPending'
  BY <1>2, <1>4, <1>6, <1>7 DEF IInv, RowsAgree, CheckedStaysPending
<1>11. TurnOwnsItsRows'
  BY <1>2, <1>4, <1>6, <1>7 DEF IInv, RowsAgree, TurnOwnsItsRows, InTurn
<1>12. CallsOwnTheirTickets'
  BY <1>1, <1>2, <1>3 DEF IInv, Ownership, CallsOwnTheirTickets
<1>13. Accounting'
  <2>1. slots' = slots \/ slots' = slots \ {t}
    BY <1>7
  <2>2. SlotsWithinCapacity'
    <3>1. /\ IsFiniteSet(slots) /\ Cardinality(slots) <= Capacity
          /\ Cardinality(slots) \in Nat /\ Capacity \in Nat
      BY FS_CardinalityType, ConstantsAssumption
      DEF IInv, Accounting, SlotsWithinCapacity
    <3>2. /\ IsFiniteSet(slots \ {t})
          /\ Cardinality(slots \ {t}) <= Cardinality(slots)
          /\ Cardinality(slots \ {t}) \in Nat
      BY <3>1, FS_Subset, FS_CardinalityType
    <3>3. QED
      BY <2>1, <3>1, <3>2 DEF SlotsWithinCapacity
  <2>3. TurnsHoldSlots'
    BY <1>2, <1>4, <2>1
    DEF IInv, Accounting, TurnsHoldSlots, HoldsSlot, InTurn
  <2>4. QED
    BY <2>2, <2>3 DEF Accounting
<1>14. OneWatcherWalks' /\ LaunchIsAlone'
  <2>1. \A h \in Hands : Launches(h) => hand[h].ticket \in Tickets \ {t}
    BY <1>1, <1>5, Types DEF IInv, Ownership, LaunchIsAlone, Launches
  <2>2. QED
    BY <1>1, <1>3, <1>7, <2>1, Types DEF IInv, Ownership, OneWatcherWalks,
       LaunchIsAlone, Launches
<1>15. QED
  BY <1>8, <1>9, <1>10, <1>11, <1>12, <1>13, <1>14 DEF Ownership, RowsAgree

LEMMA RunnerInvariant ==
  ASSUME IInv, NEW r \in Runners, RunnerStepOf(r)
  PROVE  Ownership' /\ Accounting' /\ RowsAgree'
<1> DEFINE t == runner[r].ticket
           i == runner[r].round
<1>0. /\ TypeOK /\ CallTyped(runner[r])
      /\ IsFiniteSet(slots) /\ Cardinality(slots) <= Capacity
  BY Types DEF IInv, Accounting, SlotsWithinCapacity
<1>1. CASE CheckPending(r)
  <2>1. UNCHANGED <<rows, slots, runs, hand, watching, loops>>
    BY <1>1 DEF CheckPending
  <2>2. CASE RunnerTo(r, "leaving")
    BY <1>0, <1>1, <2>1, <2>2, CallMoves DEF CheckPending, RunnerTo, CallTyped,
       rows
  <2>3. CASE \E j \in Rounds :
               /\ ticket[t] = "open" /\ assignment[t][j] = "pending"
               /\ RunnerBecomes(r, [runner[r] EXCEPT !.pc = "checked",
                                                     !.round = j])
    <3>1. PICK j \in Rounds :
            /\ ticket[t] = "open" /\ assignment[t][j] = "pending"
            /\ RunnerBecomes(r, [runner[r] EXCEPT !.pc = "checked",
                                                  !.round = j])
      BY <2>3
    <3>2. QED
      BY <1>0, <1>1, <2>1, <3>1, CallMoves DEF CheckPending, CallTyped, rows
  <2>4. QED
    BY <1>1, <2>2, <2>3 DEF CheckPending
<1>2. CASE AcquireSlot(r)
  <2>1. t \in slots'
    BY <1>2 DEF AcquireSlot
  <2>2. IsFiniteSet(slots') /\ Cardinality(slots') <= Capacity
    <3>1. CASE t \in slots
      <4>1. slots' = slots
        BY <1>2, <3>1 DEF AcquireSlot
      <4>2. QED
        BY <1>0, <4>1
    <3>2. CASE t \notin slots
      <4>1. Cardinality(slots) < Capacity /\ slots' = slots \cup {t}
        BY <1>2, <3>2 DEF AcquireSlot, SlotFree
      <4>2. /\ IsFiniteSet(slots \cup {t})
            /\ Cardinality(slots \cup {t}) = Cardinality(slots) + 1
            /\ Cardinality(slots) \in Nat
        BY <1>0, <3>2, FS_AddElement, FS_CardinalityType
      <4>3. QED
        BY <4>1, <4>2, ConstantsAssumption
    <3>3. QED
      BY <3>1, <3>2
  <2>3. /\ assignment[t][i] = "pending" /\ ticket[t] = "open"
    BY <1>2 DEF AcquireSlot, IInv, RowsAgree, CheckedStaysPending
  <2>4. /\ UNCHANGED <<rows, runs, hand, watching, loops>>
        /\ slots \subseteq slots'
    BY <1>2 DEF AcquireSlot
  <2>5. QED
    BY <1>0, <1>2, <2>1, <2>2, <2>3, <2>4, CallMoves
    DEF AcquireSlot, RunnerTo, CallTyped, rows
<1>3. CASE RefuseSlot(r) \/ FailBeforeTurn(r)
  <2>1. /\ UNCHANGED <<rows, slots, runs, hand, watching, loops>>
        /\ RunnerTo(r, "leaving") /\ runner[r].pc # "idle"
    BY <1>3 DEF RefuseSlot, FailBeforeTurn
  <2>2. QED
    BY <1>0, <2>1, CallMoves DEF RunnerTo, CallTyped, rows
<1>4. CASE BeginTurn(r)
  BY <1>4, BeginTurnInvariant
<1>5. CASE FinishTurn(r) \/ KeepReport(r) \/ MergeApproved(r) \/ RebaseConflict(r)
  <2>1. /\ t \in slots
        /\ assignment[t][i] = "running" /\ ticket[t] = "open"
    BY <1>5 DEF FinishTurn, KeepReport, MergeApproved, RebaseConflict, IInv,
       Accounting, TurnsHoldSlots, HoldsSlot, InTurn, RowsAgree, TurnOwnsItsRows
  <2>2. UNCHANGED <<rows, slots, runs, hand, watching, loops>>
    BY <1>5 DEF FinishTurn, KeepReport, MergeApproved, RebaseConflict
  <2>3. ASSUME NEW pc \in {"reviewing", "rebasing", "closing"}, NEW outcome,
               NEW pr, runner[r].pc # "idle",
               RunnerBecomes(r, [runner[r] EXCEPT
                 !.pc = pc, !.outcome = outcome, !.pr = pr])
        PROVE  Ownership' /\ Accounting' /\ RowsAgree'
    <3> DEFINE call == [runner[r] EXCEPT
                          !.pc = pc, !.outcome = outcome, !.pr = pr]
    <3>1. call.pc = pc /\ call.ticket = t /\ call.round = i
      BY <1>0 DEF CallTyped
    <3>2. RunnerBecomes(r, call)
      BY <2>3
    <3> HIDE DEF call
    <3>3. QED
      BY <1>0, <2>1, <2>2, <2>3, <3>1, <3>2, CallMoves DEF rows
  <2>4. CASE FinishTurn(r)
    <3>1. PICK pc \in {"reviewing", "closing"},
                 outcome \in {"waiting", "ready", "failed"}, pr \in BOOLEAN :
            RunnerBecomes(r, [runner[r] EXCEPT
              !.pc = pc, !.outcome = outcome, !.pr = pr])
      BY <2>4 DEF FinishTurn
    <3>2. runner[r].pc # "idle"
      BY <2>4 DEF FinishTurn
    <3>3. QED
      BY <2>3, <3>1, <3>2
  <2>5. ASSUME NEW pc \in {"rebasing", "closing"}, RunnerTo(r, pc),
               runner[r].pc # "idle"
        PROVE  Ownership' /\ Accounting' /\ RowsAgree'
    <3>1. [runner[r] EXCEPT !.pc = pc] =
            [runner[r] EXCEPT !.pc = pc, !.outcome = runner[r].outcome,
                              !.pr = runner[r].pr]
      BY <1>0 DEF CallTyped
    <3>2. RunnerBecomes(r, [runner[r] EXCEPT !.pc = pc,
                             !.outcome = runner[r].outcome,
                             !.pr = runner[r].pr])
      BY <2>5, <3>1 DEF RunnerTo
    <3>3. QED
      BY <2>3, <2>5, <3>2
  <2>6. CASE MergeApproved(r)
    <3>1. [runner[r] EXCEPT !.pc = "closing", !.outcome = "merged"] =
            [runner[r] EXCEPT !.pc = "closing", !.outcome = "merged",
                              !.pr = runner[r].pr]
      BY <1>0 DEF CallTyped
    <3>2. /\ runner[r].pc # "idle"
          /\ RunnerBecomes(r, [runner[r] EXCEPT !.pc = "closing",
                                                !.outcome = "merged"])
      BY <2>6 DEF MergeApproved
    <3>3. RunnerBecomes(r, [runner[r] EXCEPT !.pc = "closing",
                             !.outcome = "merged", !.pr = runner[r].pr])
      BY <3>1, <3>2
    <3>4. QED
      BY <2>3, <3>2, <3>3
  <2>7. QED
    BY <1>5, <2>4, <2>5, <2>6 DEF KeepReport, RebaseConflict
<1>6. CASE CloseTurn(r)
  BY <1>6, CloseTurnInvariant
<1>7. CASE Leave(r)
  <2>1. /\ UNCHANGED <<rows, slots, hand, watching, loops>>
        /\ runner[r].pc = "leaving" /\ t \in Tickets
    BY <1>0, <1>7 DEF Leave, CallTyped
  <2>2. /\ runner'[r].pc = "idle"
        /\ \A s \in Runners \ {r} : runner'[s] = runner[s]
        /\ \A u \in Tickets : runs'[u] = IF u = t THEN NoRunner ELSE runs[u]
    BY <1>0, <1>7, <2>1, Types DEF Leave, RunnerBecomes, IdleRunner
  <2>3. \A s \in Runners \ {r} : runner[s].pc # "idle" =>
          runner[s].ticket # t /\ runner[s].ticket \in Tickets
    BY <1>0, <2>1, CallsApart, Types DEF CallTyped
  <2>4. CallsOwnTheirTickets'
    BY <2>2, <2>3 DEF IInv, Ownership, CallsOwnTheirTickets
  <2>5. OneWatcherWalks' /\ LaunchIsAlone'
    BY <1>0, <2>1, <2>2, Types DEF IInv, Ownership, OneWatcherWalks,
       LaunchIsAlone, Launches, rows
  <2>6. Accounting' /\ CheckedStaysPending' /\ TurnOwnsItsRows'
    BY <2>1, <2>2 DEF IInv, Accounting, TurnsHoldSlots, SlotsWithinCapacity,
       HoldsSlot, InTurn, RowsAgree, CheckedStaysPending, TurnOwnsItsRows, rows
  <2>7. AtMostOneActive' /\ EndedTicketIsOver'
    BY <2>1, SameRows, SameEnded DEF rows, IInv, RowsAgree
  <2>8. QED
    BY <2>4, <2>5, <2>6, <2>7 DEF Ownership, RowsAgree
<1>8. QED
  BY <1>1, <1>2, <1>3, <1>4, <1>5, <1>6, <1>7 DEF RunnerStepOf

-----------------------------------------------------------------------------
(* The app goes down.                                                       *)

LEMMA NothingAtWork ==
  ASSUME ForgetMemory
  PROVE  Ownership' /\ Accounting' /\ CheckedStaysPending' /\ TurnOwnsItsRows'
<1>1. Ownership'
  BY DEF ForgetMemory, Ownership, CallsOwnTheirTickets, OneWatcherWalks,
     LaunchIsAlone, Launches, IdleRunner, IdleHand
<1>2. IsFiniteSet({}) /\ Cardinality({}) = 0
  BY FS_EmptySet
<1>3. Accounting'
  BY <1>2, ConstantsAssumption DEF ForgetMemory, Accounting, TurnsHoldSlots,
     SlotsWithinCapacity, HoldsSlot, InTurn, IdleRunner
<1>4. CheckedStaysPending' /\ TurnOwnsItsRows'
  BY DEF ForgetMemory, CheckedStaysPending, TurnOwnsItsRows, InTurn, IdleRunner
<1>5. QED
  BY <1>1, <1>3, <1>4

LEMMA CrashInvariant ==
  ASSUME IInv, CrashStep
  PROVE  Ownership' /\ Accounting' /\ RowsAgree'
<1>0. /\ TypeOK /\ AtMostOneActive /\ EndedTicketIsOver /\ TurnOwnsItsRows
      /\ LaunchIsAlone
  BY DEF IInv, RowsAgree, Ownership
<1>1. Ownership' /\ Accounting' /\ CheckedStaysPending' /\ TurnOwnsItsRows'
  BY NothingAtWork DEF CrashStep, Crash, CrashWhileClosing, CrashWhileFailing,
     CrashAfterReport, CrashWhileWaking, CrashWhileResuming
<1>2. CASE Crash
  BY <1>0, <1>1, <1>2, SameRows, SameEnded DEF Crash, rows, RowsAgree
<1>3. ASSUME NEW t \in Tickets, NEW i \in Rounds, NEW outcome, NEW pr,
             CrashAfterReport(t, i, outcome, pr), ticket[t] = "open"
      PROVE  AtMostOneActive' /\ EndedTicketIsOver'
  <2>1. UNCHANGED ticket /\ WriteReport(t, i, outcome, pr)
    BY <1>3 DEF CrashAfterReport
  <2>2. \/ UNCHANGED assignment
        \/ assignment' = [assignment EXCEPT ![t][i] = "ended"]
    BY <1>3 DEF CrashAfterReport
  <2>3. \A u \in Tickets, j \in Rounds :
          IsActive(assignment'[u][j]) => IsActive(assignment[u][j])
    BY <1>0, <2>2, Types DEF IsActive
  <2>4. AtMostOneActive'
    BY <1>0, <2>3 DEF AtMostOneActive
  <2>5. ASSUME NEW u \in Tickets, ticket'[u] = "ended"
        PROVE  EndsTicket(LatestOutcome(u)') /\ ~HasActive(u)'
    <3>1. ticket[u] = "ended" /\ u # t
      BY <1>3, <2>1, <2>5
    <3>2. LatestOutcome(u)' = LatestOutcome(u)
      BY <1>0, <2>1, <3>1, WrittenIsLatest
    <3>3. ~HasActive(u)'
      BY <1>0, <2>3, <3>1 DEF HasActive, EndedTicketIsOver
    <3>4. QED
      BY <1>0, <3>1, <3>2, <3>3 DEF EndedTicketIsOver
  <2>6. QED
    BY <2>4, <2>5 DEF EndedTicketIsOver
<1>4. ASSUME NEW r \in Runners, CrashWhileClosing(r)
      PROVE  AtMostOneActive' /\ EndedTicketIsOver'
  <2>1. /\ runner[r].ticket \in Tickets /\ runner[r].round \in Rounds
        /\ ticket[runner[r].ticket] = "open"
    BY <1>0, <1>4, Types DEF CrashWhileClosing, CallTyped, TurnOwnsItsRows, InTurn
  <2>2. QED
    BY <1>3, <1>4, <2>1 DEF CrashWhileClosing
<1>5. ASSUME NEW h \in Hands, CrashWhileFailing(h)
      PROVE  AtMostOneActive' /\ EndedTicketIsOver'
  <2>1. /\ hand[h].ticket \in Tickets /\ hand[h].noted \in Rounds
        /\ ticket[hand[h].ticket] = "open"
    BY <1>0, <1>5, Types DEF CrashWhileFailing, MayFail, LaunchIsAlone, Launches
  <2>2. QED
    BY <1>3, <1>5, <2>1 DEF CrashWhileFailing
<1>6. ASSUME NEW t \in Tickets, ticket' \in {ticket, Moved(t, "open")},
             UNCHANGED <<assignment, report, latest>>
      PROVE  AtMostOneActive' /\ EndedTicketIsOver'
  <2>1. \A u \in Tickets : ticket'[u] = "ended" => ticket[u] = "ended"
    BY <1>0, <1>6, MovedToOpen
  <2>2. QED
    BY <1>0, <1>6, <2>1 DEF AtMostOneActive, EndedTicketIsOver, LatestOutcome,
       HasActive
<1>7. ASSUME NEW t \in Tickets, CrashWhileWaking(t)
      PROVE  AtMostOneActive' /\ EndedTicketIsOver'
  BY <1>6, <1>7 DEF CrashWhileWaking
<1>8. ASSUME NEW w \in Watchers, CrashWhileResuming(w)
      PROVE  AtMostOneActive' /\ EndedTicketIsOver'
  <2>1. hand[w].ticket \in Tickets
    BY <1>0, <1>8, Types DEF CrashWhileResuming, Hands
  <2>2. QED
    BY <1>6, <1>8, <2>1 DEF CrashWhileResuming
<1>9. QED
  BY <1>1, <1>2, <1>4, <1>5, <1>7, <1>8 DEF CrashStep, RowsAgree

-----------------------------------------------------------------------------
(* IInv is the inductive invariant: a call owns its ticket's flag and slot  *)
(* from the check to the report, a launch owns a ticket no call is on, and  *)
(* only one loop walks, so nothing moves the rows under either.             *)
THEOREM InvariantHolds == Unattended => []IInv
<1>1. IInv /\ UnattendedNext => IInv'
  <2>1. SUFFICES ASSUME IInv, UnattendedNext PROVE IInv'
    OBVIOUS
  <2>2. TypeOK'
    BY <2>1, UnattendedTyped DEF IInv
  <2>3. Watchers \subseteq Hands
    BY DEF Hands
  <2>4. Ownership' /\ Accounting' /\ RowsAgree'
    BY <2>1, <2>3, EnvironmentInvariant, WatcherInvariant, LaunchingInvariant,
       RunnerInvariant, CrashInvariant
    DEF UnattendedNext
  <2>5. QED
    BY <2>2, <2>4 DEF IInv
<1>2. IInv /\ UNCHANGED vars => IInv'
  <2>1. SUFFICES ASSUME IInv, UNCHANGED vars PROVE IInv'
    OBVIOUS
  <2>2. UNCHANGED <<ticket, assignment, report, latest, attempts, prepared>>
    BY <2>1 DEF vars, rows
  <2>3. /\ UNCHANGED <<worktree, pullRequest>>
        /\ UNCHANGED <<slots, runs, cancelled, runner, hand, watching, loops>>
    BY <2>1 DEF vars, outside, memory
  <2>4. TypeOK'
    BY <2>1, <2>2, <2>3 DEF IInv, TypeOK, RowsTypeOK, OutsideTypeOK, FlagsTypeOK,
       RunnersTypeOK, HandsTypeOK
  <2>5. RowsOnlyAdded /\ AtMostOneActive' /\ EndedTicketIsOver'
    BY <2>1, <2>2, SameRows, SameEnded DEF IInv, RowsAgree
  <2>6. QED
    BY <2>1, <2>2, <2>3, <2>4, <2>5, CallsUndisturbed, HandsUndisturbed
    DEF IInv, Ownership, OneWatcherWalks, RowsAgree
<1>3. QED
  BY <1>1, <1>2, InitInvariant, PTL DEF Unattended

-----------------------------------------------------------------------------
(* What the invariant gives.                                                *)

(* Two calls of execute never have a turn on the same ticket, for any       *)
(* number of tickets, calls and slots and through any crash: both would     *)
(* have to be the one call whose flag pipeline_runs holds for the ticket.   *)
THEOREM OneExecutor == Unattended => []OneExecutorPerTicket
<1>1. IInv => OneExecutorPerTicket
  BY DEF IInv, Ownership, CallsOwnTheirTickets, OneExecutorPerTicket, InTurn
<1>2. QED
  BY <1>1, InvariantHolds, PTL

(* A stop always reaches the call that has the ticket's turn: execute is    *)
(* never left with a flag the panel can no longer raise.                    *)
THEOREM StopsReachTurns == Unattended => []TurnsCanBeStopped
<1>1. IInv => TurnsCanBeStopped
  BY DEF IInv, Ownership, CallsOwnTheirTickets, TurnsCanBeStopped, InTurn
<1>2. QED
  BY <1>1, InvariantHolds, PTL

(* While a turn is under way its assignment stays running and its ticket    *)
(* open, whatever messages wake, the watcher resumes or a launch fails.     *)
THEOREM TurnsOwnRows == Unattended => []TurnOwnsItsRows
<1>1. IInv => TurnOwnsItsRows
  BY DEF IInv, RowsAgree
<1>2. QED
  BY <1>1, InvariantHolds, PTL

(* A ticket that ended shows the report that ended it, and has no active    *)
(* assignment.                                                              *)
THEOREM EndedIsOver == Unattended => []EndedTicketIsOver
<1>1. IInv => EndedTicketIsOver
  BY DEF IInv, RowsAgree
<1>2. QED
  BY <1>1, InvariantHolds, PTL

(* As many turns as slots at most: each call in its turn holds a slot, and  *)
(* two of them hold two.                                                    *)
THEOREM TurnsFitSlots == Unattended => []TurnsWithinCapacity
<1>1. ASSUME IInv PROVE TurnsWithinCapacity
  <2> DEFINE turns == {r \in Runners : InTurn(r)}
             SlotOf == [r \in turns |-> runner[r].ticket]
  <2>1. \A r \in turns : runner[r].ticket \in slots
    BY <1>1 DEF IInv, Accounting, TurnsHoldSlots, HoldsSlot
  <2>2. \A r, s \in turns : runner[r].ticket = runner[s].ticket => r = s
    BY <1>1 DEF IInv, Ownership, CallsOwnTheirTickets, InTurn
  <2>3. SlotOf \in Injection(turns, slots)
    BY <2>1, <2>2 DEF Injection, IsInjective
  <2>4. IsFiniteSet(slots) /\ Cardinality(slots) <= Capacity
    BY <1>1 DEF IInv, Accounting, SlotsWithinCapacity
  <2>5. /\ IsFiniteSet(turns)
        /\ Cardinality(turns) <= Cardinality(slots)
    BY <2>3, <2>4, FS_Injection
  <2>6. Cardinality(turns) <= Capacity
    BY <2>4, <2>5, FS_CardinalityType, ConstantsAssumption
  <2>7. QED
    BY <2>6 DEF TurnsWithinCapacity
<1>2. QED
  BY <1>1, InvariantHolds, PTL

-----------------------------------------------------------------------------
(* What no step does.                                                       *)

RoundsStayEnded ==
  \A t \in Tickets, i \in Rounds :
    assignment[t][i] = "ended" => assignment'[t][i] = "ended"

LEMMA GivenKeepsEnded ==
  ASSUME TypeOK, NEW t \in Tickets, GivenAssignment(t) \/ UNCHANGED assignment
  PROVE  RoundsStayEnded
  BY GivenOnlyAdds DEF RoundsStayEnded

LEMMA RoundEndedOrKept ==
  ASSUME TypeOK, NEW t \in Tickets, NEW i \in Rounds,
         \/ UNCHANGED assignment
         \/ assignment' = [assignment EXCEPT ![t][i] = "ended"]
  PROVE  RoundsStayEnded
  BY Types DEF RoundsStayEnded

LEMMA StepKeepsEnded ==
  ASSUME IInv, UnattendedNext
  PROVE  RoundsStayEnded
<1>0. TypeOK /\ Watchers \subseteq Hands
  BY DEF IInv, Hands
<1>1. ASSUME NEW t \in Tickets, Environment(t) \/ Stop(t)
      PROVE  RoundsStayEnded
  BY <1>0, <1>1, GivenKeepsEnded
  DEF Environment, Admit, Wake, MergedElsewhere, Stop, rows
<1>2. ASSUME NEW w \in Watchers, WatcherStep(w)
      PROVE  RoundsStayEnded
  <2>1. CASE ResumeUnfinished(w)
    <3>1. hand[w].ticket \in Tickets
      BY <1>0, <2>1, Types DEF ResumeUnfinished
    <3>2. QED
      BY <1>0, <2>1, <3>1, GivenKeepsEnded DEF ResumeUnfinished
  <2>2. CASE ~ResumeUnfinished(w)
    <3>1. UNCHANGED assignment
      BY <1>2, <2>2 DEF WatcherStep, WatcherLaunch, FindUnassigned,
         FindUnfinished, WatcherExecute, rows
    <3>2. QED
      BY <3>1 DEF RoundsStayEnded
  <2>3. QED
    BY <2>1, <2>2
<1>3. ASSUME NEW h \in Hands, Launching(h)
      PROVE  RoundsStayEnded
  <2>1. hand[h].ticket \in Tickets
    BY <1>0, <1>3, Types DEF Launching, CreateAssignment, EnsureWorktree,
       PrepareSucceeds, PrepareFails, MayFail
  <2>2. CASE CreateAssignment(h)
    BY <1>0, <2>1, <2>2, GivenKeepsEnded DEF CreateAssignment, GivenAssignment
  <2>3. CASE EnsureWorktree(h) \/ PrepareSucceeds(h)
    BY <2>3 DEF EnsureWorktree, PrepareSucceeds, RoundsStayEnded
  <2>4. CASE PrepareFails(h)
    <3>1. hand[h].noted \in Rounds
      BY <1>0, <2>4, Types DEF PrepareFails, MayFail
    <3>2. QED
      BY <1>0, <2>1, <2>4, <3>1, RoundEndedOrKept
      DEF PrepareFails, Conclude
  <2>5. QED
    BY <1>3, <2>2, <2>3, <2>4 DEF Launching
<1>4. ASSUME NEW r \in Runners, RunnerStepOf(r)
      PROVE  RoundsStayEnded
  <2>1. CASE BeginTurn(r)
    <3>1. /\ runner[r].ticket \in Tickets /\ runner[r].round \in Rounds
          /\ assignment[runner[r].ticket][runner[r].round] = "pending"
      BY <1>0, <2>1, Types DEF BeginTurn, CallTyped, IInv, RowsAgree,
         CheckedStaysPending
    <3>2. QED
      BY <1>0, <2>1, <3>1, Types DEF BeginTurn, RoundsStayEnded
  <2>2. CASE CloseTurn(r)
    <3>1. runner[r].ticket \in Tickets /\ runner[r].round \in Rounds
      BY <1>0, <2>2, Types DEF CloseTurn, CallTyped
    <3>2. QED
      BY <1>0, <2>2, <3>1, RoundEndedOrKept DEF CloseTurn, Conclude
  <2>3. CASE ~BeginTurn(r) /\ ~CloseTurn(r)
    BY <1>4, <2>3 DEF RunnerStepOf, CheckPending, AcquireSlot, RefuseSlot,
       FailBeforeTurn, FinishTurn, KeepReport, MergeApproved, RebaseConflict,
       Leave, rows, RoundsStayEnded
  <2>4. QED
    BY <2>1, <2>2, <2>3
<1>5. CASE CrashStep
  <2>1. ASSUME NEW r \in Runners, CrashWhileClosing(r)
        PROVE  RoundsStayEnded
    <3>1. runner[r].ticket \in Tickets /\ runner[r].round \in Rounds
      BY <1>0, <2>1, Types DEF CrashWhileClosing, CallTyped
    <3>2. QED
      BY <1>0, <2>1, <3>1, RoundEndedOrKept DEF CrashWhileClosing,
         CrashAfterReport
  <2>2. ASSUME NEW h \in Hands, CrashWhileFailing(h)
        PROVE  RoundsStayEnded
    <3>1. hand[h].ticket \in Tickets /\ hand[h].noted \in Rounds
      BY <1>0, <2>2, Types DEF CrashWhileFailing, MayFail
    <3>2. QED
      BY <1>0, <2>2, <3>1, RoundEndedOrKept DEF CrashWhileFailing,
         CrashAfterReport
  <2>3. CASE UNCHANGED assignment
    BY <2>3 DEF RoundsStayEnded
  <2>4. QED
    BY <1>5, <2>1, <2>2, <2>3
    DEF CrashStep, Crash, CrashWhileWaking, CrashWhileResuming, rows
<1>6. QED
  BY <1>0, <1>1, <1>2, <1>3, <1>4, <1>5 DEF UnattendedNext

(* An assignment that ended is never run again.  execute moves the one it   *)
(* found pending to running after awaits, without looking at it again, and  *)
(* move_assignment would take it back from ended: what forbids it is that   *)
(* nobody ends an assignment between a call's check and its turn.           *)
THEOREM EndedRoundsAreOver == Unattended => EndedRoundsStayEnded
<1>1. IInv /\ [UnattendedNext]_vars => [RoundsStayEnded]_assignment
  <2>1. UNCHANGED vars => UNCHANGED assignment
    BY DEF vars, rows
  <2>2. QED
    BY <2>1, StepKeepsEnded
<1>2. QED
  BY <1>1, InvariantHolds, PTL
  DEF Unattended, EndedRoundsStayEnded, RoundsStayEnded

-----------------------------------------------------------------------------
(* What is left running, or holding a slot, when nobody crashes and nothing *)
(* is merged.                                                               *)

(* No session fails to start: a call that fails before its turn leaves its  *)
(* slot taken.                                                              *)
SessionsStart == "session" \notin Faults
(* The app stays up: a restart forgets the calls and leaves the rows.       *)
NoCrash == "crash" \notin Faults
(* No automatic merge: its report cannot be read back, and the closing      *)
(* section stops there.                                                     *)
NothingMerges == MergePolicy = "none"

(* What a turn that is over will report can be read back.                   *)
ReportsAreFinal ==
  \A r \in Runners : runner[r].pc \in {"reviewing", "rebasing", "closing"} =>
    runner[r].outcome \in {"waiting", "ready", "failed"}

LEMMA NobodyCrashes ==
  ASSUME NoCrash
  PROVE  ~CrashStep
  BY DEF NoCrash, CrashStep, Crash, CrashWhileClosing, CrashWhileFailing,
     CrashAfterReport, CrashWhileWaking, CrashWhileResuming, ForgetMemory

(* Which steps are a call's.                                                *)
LEMMA CallsOrNot ==
  ASSUME UnattendedNext
  PROVE  \/ UNCHANGED <<runner, slots>>
         \/ \E w \in Watchers, t \in Tickets, r \in Runners : WatcherExecute(w, t, r)
         \/ \E r \in Runners : RunnerStepOf(r)
         \/ CrashStep
<1>1. ASSUME NEW t \in Tickets, Environment(t) \/ Stop(t)
      PROVE  UNCHANGED <<runner, slots>>
  BY <1>1 DEF Environment, Admit, Wake, MergedElsewhere, Stop, memory
<1>2. ASSUME NEW w \in Watchers, WatcherStep(w)
      PROVE  \/ UNCHANGED <<runner, slots>>
             \/ \E t \in Tickets, r \in Runners : WatcherExecute(w, t, r)
  BY <1>2 DEF WatcherStep, ResumeUnfinished, WatcherLaunch, FindUnassigned,
     FindUnfinished
<1>3. ASSUME NEW w \in Watchers, Launching(w)
      PROVE  UNCHANGED <<runner, slots>>
  BY <1>3 DEF Launching, CreateAssignment, EnsureWorktree, PrepareSucceeds,
     PrepareFails
<1>4. QED
  BY <1>1, <1>2, <1>3 DEF UnattendedNext

(* How a call's own step leaves it, and that it leaves the others alone.    *)
LEMMA CallStep ==
  ASSUME IInv, NEW r \in Runners, RunnerStepOf(r)
  PROVE  /\ \A s \in Runners \ {r} : runner'[s] = runner[s]
         /\ \/ CloseTurn(r) \/ FailBeforeTurn(r) \/ ~HoldsSlot(r)
            \/ /\ runner'[r].ticket = runner[r].ticket
               /\ runner'[r].round = runner[r].round
               /\ runner'[r].pc \in {"running", "reviewing", "rebasing", "closing"}
<1>1. DOMAIN runner = Runners /\ CallTyped(runner[r])
  BY Types DEF IInv
<1>2. ASSUME NEW call, RunnerBecomes(r, call)
      PROVE  /\ \A s \in Runners \ {r} : runner'[s] = runner[s]
             /\ runner'[r] = call
  BY <1>1, <1>2 DEF RunnerBecomes
<1>3. CASE CheckPending(r) \/ AcquireSlot(r) \/ RefuseSlot(r) \/ Leave(r)
  <2>1. ~HoldsSlot(r)
    BY <1>3 DEF CheckPending, AcquireSlot, RefuseSlot, Leave, HoldsSlot, InTurn
  <2>2. QED
    BY <1>2, <1>3, <2>1
       DEF CheckPending, AcquireSlot, RefuseSlot, Leave, RunnerTo
<1>4. CASE CloseTurn(r) \/ FailBeforeTurn(r)
  BY <1>2, <1>4 DEF CloseTurn, FailBeforeTurn, RunnerTo
<1>5. CASE BeginTurn(r) \/ KeepReport(r) \/ RebaseConflict(r)
  BY <1>1, <1>2, <1>5
     DEF BeginTurn, KeepReport, RebaseConflict, RunnerTo, CallTyped
<1>6. CASE FinishTurn(r)
  <2>1. PICK pc \in {"reviewing", "closing"},
               outcome \in {"waiting", "ready", "failed"}, pr \in BOOLEAN :
          RunnerBecomes(r, [runner[r] EXCEPT
            !.pc = pc, !.outcome = outcome, !.pr = pr])
    BY <1>6 DEF FinishTurn
  <2> DEFINE call == [runner[r] EXCEPT
                        !.pc = pc, !.outcome = outcome, !.pr = pr]
  <2>2. /\ call.pc = pc /\ call.ticket = runner[r].ticket
        /\ call.round = runner[r].round
    BY <1>1 DEF CallTyped
  <2>3. RunnerBecomes(r, call)
    BY <2>1
  <2> HIDE DEF call
  <2>4. QED
    BY <1>2, <2>1, <2>2, <2>3
<1>7. CASE MergeApproved(r)
  <2> DEFINE call == [runner[r] EXCEPT !.pc = "closing", !.outcome = "merged"]
  <2>1. /\ call.pc = "closing" /\ call.ticket = runner[r].ticket
        /\ call.round = runner[r].round
    BY <1>1 DEF CallTyped
  <2>2. RunnerBecomes(r, call)
    BY <1>7 DEF MergeApproved
  <2> HIDE DEF call
  <2>3. QED
    BY <1>2, <2>1, <2>2
<1>8. QED
  BY <1>3, <1>4, <1>5, <1>6, <1>7 DEF RunnerStepOf

(* A call keeps its ticket and round until it closes or fails.              *)
LEMMA HoldersGoOn ==
  ASSUME IInv, UnattendedNext, ~CrashStep, NEW r \in Runners, HoldsSlot(r)
  PROVE  \/ CloseTurn(r) \/ FailBeforeTurn(r)
         \/ /\ runner'[r].ticket = runner[r].ticket
            /\ runner'[r].round = runner[r].round
            /\ HoldsSlot(r)' /\ (InTurn(r) => InTurn(r)')
<1>1. CASE UNCHANGED <<runner, slots>>
  BY <1>1 DEF HoldsSlot, InTurn
<1>2. ASSUME NEW w \in Watchers, NEW t \in Tickets, NEW s \in Runners,
             WatcherExecute(w, t, s)
      PROVE  runner'[r] = runner[r]
  <2>1. r # s
    BY <1>2 DEF WatcherExecute, Call, HoldsSlot, InTurn
  <2>2. QED
    BY <1>2, <2>1, Types DEF WatcherExecute, Call, RunnerBecomes, IInv
<1>3. ASSUME NEW s \in Runners, RunnerStepOf(s)
      PROVE  \/ CloseTurn(r) \/ FailBeforeTurn(r) \/ runner'[r] = runner[r]
             \/ /\ runner'[r].ticket = runner[r].ticket
                /\ runner'[r].round = runner[r].round
                /\ runner'[r].pc \in {"running", "reviewing", "rebasing", "closing"}
  BY <1>3, CallStep
<1>4. QED
  BY <1>1, <1>2, <1>3, CallsOrNot DEF HoldsSlot, InTurn

LEMMA ReportsStep ==
  ASSUME NothingMerges, IInv, ReportsAreFinal, UnattendedNext
  PROVE  ReportsAreFinal'
<1>1. DOMAIN runner = Runners /\ \A r \in Runners : CallTyped(runner[r])
  BY Types DEF IInv
<1>2. ASSUME NEW r \in Runners, NEW call, RunnerBecomes(r, call),
             call.pc \in {"reviewing", "rebasing", "closing"} =>
               call.outcome \in {"waiting", "ready", "failed"}
      PROVE  ReportsAreFinal'
  BY <1>1, <1>2 DEF RunnerBecomes, ReportsAreFinal
<1>3. CASE UNCHANGED <<runner, slots>>
  BY <1>3 DEF ReportsAreFinal
<1>4. CASE CrashStep
  <2>1. ForgetMemory
    BY <1>4 DEF CrashStep, Crash, CrashWhileClosing, CrashWhileFailing,
       CrashAfterReport, CrashWhileWaking, CrashWhileResuming
  <2>2. QED
    BY <2>1 DEF ForgetMemory, ReportsAreFinal, IdleRunner
<1>5. ASSUME NEW w \in Watchers, NEW t \in Tickets, NEW r \in Runners,
             WatcherExecute(w, t, r)
      PROVE  ReportsAreFinal'
  BY <1>2, <1>5 DEF WatcherExecute, Call, IdleRunner
<1>6. ASSUME NEW r \in Runners, RunnerStepOf(r) PROVE ReportsAreFinal'
  <2>1. ASSUME NEW pc, RunnerTo(r, pc),
               pc \in {"reviewing", "rebasing", "closing"} =>
                 runner[r].pc \in {"reviewing", "rebasing", "closing"}
        PROVE  ReportsAreFinal'
    BY <1>1, <1>2, <2>1 DEF RunnerTo, CallTyped, ReportsAreFinal
  <2>2. CASE CheckPending(r)
    <3>1. CASE RunnerTo(r, "leaving")
      BY <2>1, <3>1
    <3>2. ASSUME NEW i \in Rounds,
                 RunnerBecomes(r, [runner[r] EXCEPT !.pc = "checked", !.round = i])
          PROVE  ReportsAreFinal'
      BY <1>1, <1>2, <3>2 DEF CallTyped
    <3>3. QED
      BY <2>2, <3>1, <3>2 DEF CheckPending
  <2>3. CASE FinishTurn(r)
    <3>1. PICK pc \in {"reviewing", "closing"},
                 outcome \in {"waiting", "ready", "failed"}, pr \in BOOLEAN :
            RunnerBecomes(r, [runner[r] EXCEPT
              !.pc = pc, !.outcome = outcome, !.pr = pr])
      BY <2>3 DEF FinishTurn
    <3>2. QED
      BY <1>1, <1>2, <3>1 DEF CallTyped
  <2>4. CASE Leave(r)
    BY <1>2, <2>4 DEF Leave, IdleRunner
  <2>5. ~MergeApproved(r)
    BY DEF NothingMerges, MergeApproved
  <2>6. CASE \/ AcquireSlot(r) \/ RefuseSlot(r) \/ BeginTurn(r) \/ FailBeforeTurn(r)
             \/ KeepReport(r) \/ RebaseConflict(r) \/ CloseTurn(r)
    BY <2>1, <2>6 DEF AcquireSlot, RefuseSlot, BeginTurn, FailBeforeTurn,
       KeepReport, RebaseConflict, CloseTurn
  <2>7. QED
    BY <1>6, <2>2, <2>3, <2>4, <2>5, <2>6 DEF RunnerStepOf
<1>7. QED
  BY <1>3, <1>4, <1>5, <1>6, CallsOrNot

-----------------------------------------------------------------------------
(* What such a pipeline leaves behind.                                      *)

(* Only the step that begins a call's turn makes an assignment running.     *)
LEMMA RunningStep ==
  ASSUME IInv, UnattendedNext, ~CrashStep,
         NEW t \in Tickets, NEW i \in Rounds, assignment'[t][i] = "running"
  PROVE  \/ assignment[t][i] = "running"
         \/ \E r \in Runners :
              InTurn(r)' /\ runner'[r].ticket = t /\ runner'[r].round = i
<1>0. /\ TypeOK /\ Watchers \subseteq Hands
      /\ assignment
           \in [Tickets -> [Rounds -> AssignmentState \cup {"absent"}]]
  BY Types DEF IInv, Hands
<1>1. ASSUME NEW u \in Tickets, GivenAssignment(u)
      PROVE  assignment[t][i] = "running"
  <2>1. ASSUME NEW j \in Rounds,
               assignment' = [assignment EXCEPT ![u][j] = "pending"]
        PROVE  assignment[t][i] = "running"
    BY <1>0, <2>1
  <2>2. QED
    BY <1>1, <2>1 DEF GivenAssignment
<1>2. ASSUME NEW u \in Tickets, NEW j \in Rounds, NEW outcome,
             Conclude(u, j, outcome)
      PROVE  assignment[t][i] = "running"
  BY <1>0, <1>2 DEF Conclude
<1>3. CASE UNCHANGED assignment
  BY <1>3
<1>4. ASSUME NEW u \in Tickets, Environment(u) \/ Stop(u)
      PROVE  assignment[t][i] = "running"
  BY <1>1, <1>3, <1>4 DEF Environment, Admit, Wake, MergedElsewhere, Stop, rows
<1>5. ASSUME NEW w \in Watchers, WatcherStep(w)
      PROVE  assignment[t][i] = "running"
  <2>1. CASE ResumeUnfinished(w)
    <3>1. hand[w].ticket \in Tickets
      BY <1>0, <2>1, Types DEF ResumeUnfinished
    <3>2. QED
      BY <1>1, <1>3, <2>1, <3>1 DEF ResumeUnfinished
  <2>2. QED
    BY <1>3, <1>5, <2>1 DEF WatcherStep, WatcherLaunch, FindUnassigned,
       FindUnfinished, WatcherExecute, rows
<1>6. ASSUME NEW h \in Hands, Launching(h)
      PROVE  assignment[t][i] = "running"
  <2>1. hand[h].ticket \in Tickets
    BY <1>0, <1>6, Types DEF Launching, CreateAssignment, EnsureWorktree,
       PrepareSucceeds, PrepareFails, MayFail
  <2>2. CASE CreateAssignment(h)
    BY <1>1, <1>3, <2>1, <2>2 DEF CreateAssignment, GivenAssignment
  <2>3. CASE PrepareFails(h)
    <3>1. hand[h].noted \in Rounds
      BY <1>0, <2>3, Types DEF PrepareFails, MayFail
    <3>2. QED
      BY <1>2, <2>1, <2>3, <3>1 DEF PrepareFails
  <2>4. QED
    BY <1>3, <1>6, <2>2, <2>3 DEF Launching, EnsureWorktree, PrepareSucceeds
<1>7. ASSUME NEW r \in Runners, RunnerStepOf(r)
      PROVE  \/ assignment[t][i] = "running"
             \/ InTurn(r)' /\ runner'[r].ticket = t /\ runner'[r].round = i
  <2>1. CallTyped(runner[r])
    BY <1>0, Types
  <2>2. CASE BeginTurn(r)
    <3>1. /\ runner[r].ticket \in Tickets /\ runner[r].round \in Rounds
          /\ runner'[r].pc = "running"
          /\ runner'[r].ticket = runner[r].ticket
          /\ runner'[r].round = runner[r].round
      BY <1>0, <2>1, <2>2, Types
      DEF BeginTurn, RunnerTo, RunnerBecomes, CallTyped
    <3>2. \/ assignment'[t][i] = assignment[t][i]
          \/ runner[r].ticket = t /\ runner[r].round = i
      BY <1>0, <2>2, <3>1 DEF BeginTurn
    <3>3. QED
      BY <3>1, <3>2 DEF InTurn
  <2>3. CASE CloseTurn(r)
    <3>1. runner[r].ticket \in Tickets /\ runner[r].round \in Rounds
      BY <2>1, <2>3 DEF CloseTurn, CallTyped
    <3>2. QED
      BY <1>2, <1>3, <2>3, <3>1 DEF CloseTurn
  <2>4. QED
    BY <1>3, <1>7, <2>2, <2>3 DEF RunnerStepOf, CheckPending, AcquireSlot,
       RefuseSlot, FailBeforeTurn, FinishTurn, KeepReport, MergeApproved,
       RebaseConflict, Leave, rows
<1>8. QED
  BY <1>0, <1>4, <1>5, <1>6, <1>7 DEF UnattendedNext

(* Where a report can be read back, closing a turn ends its round and gives *)
(* the slot back.                                                           *)
LEMMA ClosingEnds ==
  ASSUME IInv, ReportsAreFinal, NEW r \in Runners, CloseTurn(r)
  PROVE  /\ assignment'[runner[r].ticket][runner[r].round] = "ended"
         /\ slots' = slots \ {runner[r].ticket}
<1>1. /\ runner[r].ticket \in Tickets /\ runner[r].round \in Rounds
      /\ runner[r].outcome \in {"waiting", "ready", "failed"}
  BY Types DEF CloseTurn, CallTyped, ReportsAreFinal, IInv
<1>2. Readable(runner[r].outcome) /\ IsFinal(runner[r].outcome)
  BY <1>1 DEF Readable, IsFinal, ReportOutcome
<1>3. /\ assignment' = [assignment EXCEPT
            ![runner[r].ticket][runner[r].round] = "ended"]
      /\ slots' = slots \ {runner[r].ticket}
  BY <1>2 DEF CloseTurn, Conclude, EffectsOf
<1>4. QED
  BY <1>1, <1>3, Types DEF IInv

LEMMA InitReports == Init => ReportsAreFinal
  BY DEF Init, ReportsAreFinal, IdleRunner

(* A call that holds its slot is refused its turn by no other assignment.   *)
LEMMA IndexAllowsTurns ==
  ASSUME IInv, NEW r \in Runners, runner[r].pc = "holding"
  PROVE  IndexAllowsRunning(runner[r].ticket, runner[r].round)
<1>1. /\ runner[r].ticket \in Tickets /\ runner[r].round \in Rounds
      /\ assignment[runner[r].ticket][runner[r].round] = "pending"
  BY Types DEF IInv, CallTyped, RowsAgree, CheckedStaysPending
<1>2. QED
  BY <1>1 DEF IInv, RowsAgree, AtMostOneActive, IsActive, IndexAllowsRunning

(* What a turn will report can be read back, all along.                     *)
LEMMA FinalReports ==
  ASSUME NothingMerges
  PROVE  Unattended => []ReportsAreFinal
<1>1. IInv /\ ReportsAreFinal /\ [UnattendedNext]_vars => ReportsAreFinal'
  <2>1. ReportsAreFinal /\ UNCHANGED vars => ReportsAreFinal'
    BY DEF ReportsAreFinal, vars, memory
  <2>2. QED
    BY <2>1, ReportsStep
<1>2. QED
  BY <1>1, InitReports, InvariantHolds, PTL DEF Unattended

(* Rounds without a report are left alone, and one that gets a final report *)
(* ends in the same step.                                                   *)
LEMMA ReportedStep ==
  ASSUME IInv, ReportsAreFinal, UnattendedNext, ~CrashStep,
         NEW t \in Tickets, NEW i \in Rounds
  PROVE  report'[t][i] = report[t][i] \/ assignment'[t][i] = "ended"
<1>0. /\ TypeOK /\ Watchers \subseteq Hands
      /\ report \in [Tickets -> [Rounds ->
            [outcome : ReportOutcome \cup {"none"}, pr : BOOLEAN]]]
  BY DEF IInv, Hands, TypeOK, RowsTypeOK
<1>1. ASSUME NEW u \in Tickets, NEW j \in Rounds, NEW outcome, NEW pr,
             WriteReport(u, j, outcome, pr)
      PROVE  report'[t][i] = report[t][i] \/ (u = t /\ j = i)
  BY <1>0, <1>1 DEF WriteReport
<1>2. ASSUME NEW u \in Tickets, Environment(u) \/ Stop(u)
      PROVE  report'[t][i] = report[t][i]
  BY <1>2 DEF Environment, Admit, Wake, MergedElsewhere, Stop, rows
<1>3. ASSUME NEW w \in Watchers, WatcherStep(w)
      PROVE  report'[t][i] = report[t][i]
  BY <1>3 DEF WatcherStep, ResumeUnfinished, WatcherLaunch, FindUnassigned,
     FindUnfinished, WatcherExecute, rows
<1>4. ASSUME NEW h \in Hands, Launching(h)
      PROVE  report'[t][i] = report[t][i] \/ assignment'[t][i] = "ended"
  <2>1. CASE PrepareFails(h)
    <3>1. hand[h].ticket \in Tickets /\ hand[h].noted \in Rounds
      BY <1>0, <2>1, Types DEF PrepareFails, MayFail
    <3>2. assignment'[hand[h].ticket][hand[h].noted] = "ended"
      BY <1>0, <2>1, <3>1, Types DEF PrepareFails, Conclude, EffectsOf, IsFinal
    <3>3. WriteReport(hand[h].ticket, hand[h].noted, "failed", FALSE)
      BY <2>1 DEF PrepareFails
    <3>4. QED
      BY <1>1, <3>1, <3>2, <3>3
  <2>2. QED
    BY <1>4, <2>1
    DEF Launching, CreateAssignment, EnsureWorktree, PrepareSucceeds
<1>5. ASSUME NEW r \in Runners, RunnerStepOf(r)
      PROVE  report'[t][i] = report[t][i] \/ assignment'[t][i] = "ended"
  <2>1. CASE CloseTurn(r)
    <3>1. runner[r].ticket \in Tickets /\ runner[r].round \in Rounds
      BY <1>0, <2>1, Types DEF CloseTurn, CallTyped
    <3>2. assignment'[runner[r].ticket][runner[r].round] = "ended"
      BY <2>1, ClosingEnds
    <3>3. WriteReport(runner[r].ticket, runner[r].round, runner[r].outcome,
                      runner[r].pr)
      BY <2>1 DEF CloseTurn
    <3>4. QED
      BY <1>1, <3>1, <3>2, <3>3
  <2>2. QED
    BY <1>5, <2>1 DEF RunnerStepOf, CheckPending, AcquireSlot, RefuseSlot,
       BeginTurn, FailBeforeTurn, FinishTurn, KeepReport, MergeApproved,
       RebaseConflict, Leave, rows
<1>6. QED
  BY <1>0, <1>2, <1>3, <1>4, <1>5 DEF UnattendedNext

(* Without a crash or an automatic merge an assignment that stands as       *)
(* running has its call: execute ends it in the lock section that closes    *)
(* the turn, and no other step leaves it behind.                            *)
THEOREM RunningIsAttended ==
  ASSUME NoCrash, NothingMerges
  PROVE  Unattended => []RunningHasItsTurn
<1>1. Init => RunningHasItsTurn
  BY DEF Init, RunningHasItsTurn
<1>2. ASSUME IInv, ReportsAreFinal, RunningHasItsTurn, UnattendedNext
      PROVE  RunningHasItsTurn'
  <2>1. ASSUME NEW t \in Tickets, NEW i \in Rounds,
               assignment'[t][i] = "running"
        PROVE  \E r \in Runners :
                 InTurn(r)' /\ runner'[r].ticket = t /\ runner'[r].round = i
    <3>1. ~CrashStep
      BY NobodyCrashes
    <3>2. CASE assignment[t][i] = "running"
      <4>1. PICK r \in Runners :
              InTurn(r) /\ runner[r].ticket = t /\ runner[r].round = i
        BY <1>2, <3>2 DEF RunningHasItsTurn
      <4>2. ~CloseTurn(r)
        BY <1>2, <2>1, <4>1, ClosingEnds
      <4>3. ~FailBeforeTurn(r) /\ HoldsSlot(r)
        BY <4>1 DEF FailBeforeTurn, InTurn, HoldsSlot
      <4>4. QED
        BY <1>2, <3>1, <4>1, <4>2, <4>3, HoldersGoOn
    <3>3. QED
      BY <1>2, <2>1, <3>1, <3>2, RunningStep
  <2>2. QED
    BY <2>1 DEF RunningHasItsTurn
<1>3. RunningHasItsTurn /\ UNCHANGED vars => RunningHasItsTurn'
  BY DEF RunningHasItsTurn, InTurn, vars, rows, memory
<1>4. QED
  BY <1>1, <1>2, <1>3, InvariantHolds, FinalReports, PTL DEF Unattended

(* Where sessions start and nothing merges, a slot is held only for a call  *)
(* that is using it, through any crash: what try_acquire gives a call is    *)
(* given back when its turn closes, and no call fails before its turn for   *)
(* another active assignment.                                               *)
THEOREM SlotsAreForCalls ==
  ASSUME SessionsStart, NothingMerges
  PROVE  Unattended => []SlotsAreUsed
<1>1. Init => SlotsAreUsed
  BY DEF Init, SlotsAreUsed
<1>2. ASSUME IInv, ReportsAreFinal, SlotsAreUsed, UnattendedNext
      PROVE  SlotsAreUsed'
  <2>1. CASE CrashStep
    <3>1. slots' = {}
      BY <2>1 DEF CrashStep, Crash, CrashWhileClosing, CrashWhileFailing,
         CrashAfterReport, CrashWhileWaking, CrashWhileResuming, ForgetMemory
    <3>2. QED
      BY <3>1 DEF SlotsAreUsed
  <2>2. ASSUME ~CrashStep, NEW t \in slots'
        PROVE  \E r \in Runners : runner'[r].ticket = t /\ HoldsSlot(r)'
    <3>1. CASE t \in slots
      <4>1. PICK r \in Runners : runner[r].ticket = t /\ HoldsSlot(r)
        BY <1>2, <3>1 DEF SlotsAreUsed, HoldsSlot
      <4>2. ~CloseTurn(r)
        BY <1>2, <2>2, <4>1, ClosingEnds
      <4>3. ~FailBeforeTurn(r)
        BY <1>2, IndexAllowsTurns DEF SessionsStart, FailBeforeTurn
      <4>4. QED
        BY <1>2, <2>2, <4>1, <4>2, <4>3, HoldersGoOn
    <3>2. CASE t \notin slots
      <4>1. PICK r \in Runners : RunnerStepOf(r)
        BY <1>2, <2>2, <3>2, CallsOrNot DEF WatcherExecute
      <4>2. AcquireSlot(r) /\ t = runner[r].ticket
        BY <1>2, <2>2, <3>2, <4>1, ClosingEnds
        DEF RunnerStepOf, CheckPending, AcquireSlot, RefuseSlot, BeginTurn,
            FailBeforeTurn, FinishTurn, KeepReport, MergeApproved,
            RebaseConflict, Leave
      <4>3. runner'[r].pc = "holding" /\ runner'[r].ticket = t
        BY <1>2, <4>2, Types
        DEF AcquireSlot, RunnerTo, RunnerBecomes, CallTyped, IInv
      <4>4. QED
        BY <4>3 DEF HoldsSlot
    <3>3. QED
      BY <3>1, <3>2
  <2>3. QED
    BY <2>1, <2>2 DEF SlotsAreUsed, HoldsSlot
<1>3. SlotsAreUsed /\ UNCHANGED vars => SlotsAreUsed'
  BY DEF SlotsAreUsed, HoldsSlot, InTurn, vars, rows, memory
<1>4. QED
  BY <1>1, <1>2, <1>3, InvariantHolds, FinalReports, PTL DEF Unattended

(* Final reports and the assignments they end, without the slots.           *)
FinalsEnded ==
  \A t \in Tickets, i \in Rounds :
    report[t][i].outcome # "none" /\ IsFinal(report[t][i].outcome)
      => assignment[t][i] = "ended"

(* Both places that write a report end its round, and an ended round stays  *)
(* so, where every report can be read back and no crash comes between.      *)
LEMMA FinalsEnd ==
  ASSUME NoCrash, NothingMerges
  PROVE  Unattended => []FinalsEnded
<1>1. Init => FinalsEnded
  BY DEF Init, FinalsEnded, NoReport
<1>2. ASSUME IInv, ReportsAreFinal, FinalsEnded, UnattendedNext
      PROVE  FinalsEnded'
  <2>1. \A t \in Tickets, i \in Rounds :
          \/ report'[t][i] = report[t][i]
          \/ assignment'[t][i] = "ended"
    BY <1>2, NobodyCrashes, ReportedStep
  <2>2. RoundsStayEnded
    BY <1>2, StepKeepsEnded
  <2>3. QED
    BY <1>2, <2>1, <2>2 DEF FinalsEnded, RoundsStayEnded
<1>3. FinalsEnded /\ UNCHANGED vars => FinalsEnded'
  BY DEF FinalsEnded, vars, rows
<1>4. QED
  BY <1>1, <1>2, <1>3, InvariantHolds, FinalReports, PTL DEF Unattended

(* Once a report is final its assignment is ended and its slot given back,  *)
(* as effects_of promises: a slot that is taken has a call that uses it     *)
(* (SlotsAreUsed), that call's round is pending or running (IInv), and the  *)
(* reported one is ended.                                                   *)
THEOREM FinalIsConcluded ==
  ASSUME NoCrash, NothingMerges, SessionsStart
  PROVE  Unattended => []FinalReportConcludes
<1>1. ASSUME IInv, FinalsEnded, SlotsAreUsed
      PROVE  FinalReportConcludes
  <2>1. ASSUME NEW t \in Tickets, NEW i \in Rounds, t \in slots,
               assignment[t][i] = "ended"
        PROVE  \E r \in Runners :
                 HoldsSlot(r) /\ runner[r].ticket = t /\ runner[r].round # i
    <3>1. PICK r \in Runners : runner[r].ticket = t /\ HoldsSlot(r)
      BY <1>1, <2>1 DEF SlotsAreUsed
    <3>2. assignment[t][runner[r].round] \in {"pending", "running"}
      BY <1>1, <3>1 DEF IInv, RowsAgree, CheckedStaysPending, TurnOwnsItsRows,
         HoldsSlot
    <3>3. QED
      BY <2>1, <3>1, <3>2
  <2>2. QED
    BY <1>1, <2>1 DEF FinalsEnded, FinalReportConcludes
<1>2. QED
  BY <1>1, InvariantHolds, FinalsEnd, SlotsAreForCalls, PTL

-----------------------------------------------------------------------------
(* What holds with everything the panel offers besides, where calls may     *)
(* replace each other's flags and several loops may walk: the rows keep one *)
(* active assignment per ticket, and a ticket is passed over only for a     *)
(* call that is at work on it.                                              *)

(* At most one active assignment: every section that writes a pending row   *)
(* looked for an active one, and the index guards the move to running.      *)

LEMMA ConcludedKeepsOne ==
  ASSUME TypeOK, AtMostOneActive, NEW t \in Tickets, NEW i \in Rounds,
         \/ UNCHANGED assignment
         \/ assignment' = [assignment EXCEPT ![t][i] = "ended"]
  PROVE  AtMostOneActive'
<1>1. \A u \in Tickets, j \in Rounds :
        IsActive(assignment'[u][j]) => IsActive(assignment[u][j])
  BY Types DEF IsActive
<1>2. QED
  BY <1>1 DEF AtMostOneActive

LEMMA CreatedKeepsOne ==
  ASSUME TypeOK, AtMostOneActive, NEW h \in Hands, CreateAssignment(h)
  PROVE  AtMostOneActive'
<1>1. CASE UNCHANGED assignment
  BY <1>1 DEF AtMostOneActive
<1>2. CASE ~ UNCHANGED assignment
  <2>1. GivenAssignment(hand[h].ticket) /\ hand[h].ticket \in Tickets
    BY <1>2, Types DEF CreateAssignment, GivenAssignment
  <2>2. QED
    BY <2>1, GivenOnlyAdds
<1>3. QED
  BY <1>1, <1>2

LEMMA BegunKeepsOne ==
  ASSUME TypeOK, AtMostOneActive, NEW r \in Runners, BeginTurn(r)
  PROVE  AtMostOneActive'
<1>1. PICK t \in Tickets, i \in Rounds :
        /\ assignment' = [assignment EXCEPT ![t][i] = "running"]
        /\ IndexAllowsRunning(t, i)
  BY Types DEF BeginTurn, CallTyped
<1>2. \A u \in Tickets, j \in Rounds :
        assignment'[u][j] = IF u = t /\ j = i THEN "running"
                            ELSE assignment[u][j]
  BY <1>1, Types
<1>3. QED
  BY <1>1, <1>2 DEF AtMostOneActive, IndexAllowsRunning

LEMMA StepKeepsOne ==
  ASSUME TypeOK, AtMostOneActive, Next
  PROVE  AtMostOneActive'
<1>0. Watchers \subseteq Hands /\ Panel \in Hands
  BY DEF Hands
<1>1. CASE UNCHANGED assignment
  BY <1>1 DEF AtMostOneActive
<1>2. ASSUME NEW t \in Tickets, Wake(t)
      PROVE  AtMostOneActive'
  BY <1>2, GivenOnlyAdds DEF Wake
<1>3. ASSUME NEW w \in Watchers, ResumeUnfinished(w)
      PROVE  AtMostOneActive'
  <2>1. hand[w].ticket \in Tickets
    BY <1>0, <1>3, Types DEF ResumeUnfinished
  <2>2. QED
    BY <1>1, <1>3, <2>1, GivenOnlyAdds DEF ResumeUnfinished
<1>4. ASSUME NEW h \in Hands, Launching(h)
      PROVE  AtMostOneActive'
  <2>1. CASE PrepareFails(h)
    <3>1. hand[h].ticket \in Tickets /\ hand[h].noted \in Rounds
      BY <2>1, Types DEF PrepareFails, MayFail
    <3>2. QED
      BY <2>1, <3>1, ConcludedKeepsOne DEF PrepareFails, Conclude
  <2>2. QED
    BY <1>1, <1>4, <2>1, CreatedKeepsOne
    DEF Launching, EnsureWorktree, PrepareSucceeds
<1>5. ASSUME NEW r \in Runners, RunnerStepOf(r)
      PROVE  AtMostOneActive'
  <2>1. CASE CloseTurn(r)
    <3>1. runner[r].ticket \in Tickets /\ runner[r].round \in Rounds
      BY <2>1, Types DEF CloseTurn, CallTyped
    <3>2. QED
      BY <2>1, <3>1, ConcludedKeepsOne DEF CloseTurn, Conclude
  <2>2. CASE ~BeginTurn(r) /\ ~CloseTurn(r)
    BY <1>1, <1>5, <2>2 DEF RunnerStepOf, CheckPending, AcquireSlot, RefuseSlot,
       FailBeforeTurn, FinishTurn, KeepReport, MergeApproved, RebaseConflict,
       Leave, rows
  <2>3. QED
    BY <2>1, <2>2, BegunKeepsOne
<1>6. CASE CrashStep
  <2>1. ASSUME NEW r \in Runners, CrashWhileClosing(r)
        PROVE  AtMostOneActive'
    <3>1. runner[r].ticket \in Tickets /\ runner[r].round \in Rounds
      BY <2>1, Types DEF CrashWhileClosing, CallTyped
    <3>2. QED
      BY <2>1, <3>1, ConcludedKeepsOne DEF CrashWhileClosing, CrashAfterReport
  <2>2. ASSUME NEW h \in Hands, CrashWhileFailing(h)
        PROVE  AtMostOneActive'
    <3>1. hand[h].ticket \in Tickets /\ hand[h].noted \in Rounds
      BY <2>2, Types DEF CrashWhileFailing, MayFail
    <3>2. QED
      BY <2>2, <3>1, ConcludedKeepsOne DEF CrashWhileFailing, CrashAfterReport
  <2>3. QED
    BY <1>1, <1>6, <2>1, <2>2
    DEF CrashStep, Crash, CrashWhileWaking, CrashWhileResuming, rows
<1>7. CASE PanelStep /\ ~Launching(Panel)
  BY <1>1, <1>7 DEF PanelStep, PanelLaunch, FindUnassigned, BeginMerge,
     PanelExecuteRefused, PanelExecute, FinishMerge, Unwatch, Watch,
     LoopReturns, rows
<1>8. ASSUME NEW w \in Watchers, WatcherStep(w), ~ResumeUnfinished(w)
      PROVE  AtMostOneActive'
  BY <1>1, <1>8 DEF WatcherStep, WatcherLaunch, FindUnassigned, FindUnfinished,
     WatcherExecute, rows
<1>9. ASSUME NEW t \in Tickets, Admit(t) \/ MergedElsewhere(t) \/ Stop(t)
      PROVE  AtMostOneActive'
  BY <1>1, <1>9 DEF Admit, MergedElsewhere, Stop, rows
<1>10. QED
  BY <1>0, <1>2, <1>3, <1>4, <1>5, <1>6, <1>7, <1>8, <1>9
  DEF Next, UnattendedNext, Environment

(* One executor owns a ticket at a time in the rows, whatever the panel     *)
(* launches and executes beside the watchers: the check and the write of a  *)
(* new assignment are one section, and the index refuses a second one.      *)
THEOREM OneActive == Spec => []AtMostOneActive
<1>1. Init => AtMostOneActive
  BY DEF Init, AtMostOneActive, IsActive
<1>2. TypeOK /\ AtMostOneActive /\ [Next]_vars => AtMostOneActive'
  BY StepKeepsOne DEF AtMostOneActive, vars, rows
<1>3. QED
  BY <1>1, <1>2, TypeCorrect, PTL DEF Spec

-----------------------------------------------------------------------------
(* Whose flag pipeline_runs holds: a call that was registered on a ticket   *)
(* stays at work on it for as long as its flag is there.                    *)

LEMMA CallGoesOn ==
  ASSUME TypeOK, SkippedTicketsHaveACall, NEW r \in Runners, NEW call,
         RunnerBecomes(r, call), call.pc # "idle",
         call.ticket = runner[r].ticket, UNCHANGED runs
  PROVE  SkippedTicketsHaveACall'
<1>1. /\ runner'[r] = call
      /\ \A s \in Runners \ {r} : runner'[s] = runner[s]
  BY Types DEF RunnerBecomes
<1>2. QED
  BY <1>1, Types DEF SkippedTicketsHaveACall

LEMMA CallMovesOn ==
  ASSUME TypeOK, SkippedTicketsHaveACall, NEW r \in Runners, NEW pc,
         RunnerTo(r, pc), pc # "idle", UNCHANGED runs
  PROVE  SkippedTicketsHaveACall'
<1>1. PICK call : call = [runner[r] EXCEPT !.pc = pc]
  OBVIOUS
<1>2. call.pc = pc /\ call.ticket = runner[r].ticket
  BY <1>1, Types DEF CallTyped
<1>3. QED
  BY <1>1, <1>2, CallGoesOn DEF RunnerTo

LEMMA CallBegins ==
  ASSUME TypeOK, SkippedTicketsHaveACall, NEW t \in Tickets, NEW r \in Runners,
         Call(r, t)
  PROVE  SkippedTicketsHaveACall'
<1>1. /\ runner[r].pc = "idle"
      /\ runner'[r].pc = "called" /\ runner'[r].ticket = t
      /\ \A s \in Runners \ {r} : runner'[s] = runner[s]
  BY Types DEF Call, RunnerBecomes, IdleRunner
<1>2. /\ runs'[t] = r
      /\ \A u \in Tickets \ {t} : runs'[u] = runs[u]
  BY Types DEF Call
<1>3. \A u \in Tickets : runs[u] # r
  BY <1>1, ConstantsAssumption DEF SkippedTicketsHaveACall
<1>4. QED
  BY <1>1, <1>2, <1>3, Types DEF SkippedTicketsHaveACall

LEMMA CallLeaves ==
  ASSUME TypeOK, SkippedTicketsHaveACall, NEW r \in Runners, Leave(r)
  PROVE  SkippedTicketsHaveACall'
<1>1. runner[r].ticket \in Tickets
  BY Types DEF Leave, CallTyped
<1>2. \A s \in Runners \ {r} : runner'[s] = runner[s]
  BY Types DEF Leave, RunnerBecomes
<1>3. \A u \in Tickets :
        runs'[u] = IF u = runner[r].ticket THEN NoRunner ELSE runs[u]
  BY <1>1, Types DEF Leave
<1>4. \A u \in Tickets \ {runner[r].ticket} : runs[u] # r
  BY ConstantsAssumption DEF SkippedTicketsHaveACall
<1>5. QED
  BY <1>2, <1>3, <1>4, Types DEF SkippedTicketsHaveACall

LEMMA RunnerKeepsFlags ==
  ASSUME TypeOK, SkippedTicketsHaveACall, NEW r \in Runners, RunnerStepOf(r)
  PROVE  SkippedTicketsHaveACall'
<1>0. CallTyped(runner[r])
  BY Types
<1>1. CASE Leave(r)
  BY <1>1, CallLeaves
<1>2. CASE \E pc \in RunnerStep \ {"idle"} : RunnerTo(r, pc) /\ UNCHANGED runs
  BY <1>2, CallMovesOn
<1>3. CASE \E i \in Rounds :
             /\ RunnerBecomes(r, [runner[r] EXCEPT !.pc = "checked", !.round = i])
             /\ UNCHANGED runs
  <2>0. PICK i \in Rounds :
          /\ RunnerBecomes(r, [runner[r] EXCEPT !.pc = "checked", !.round = i])
          /\ UNCHANGED runs
    BY <1>3
  <2>1. PICK call :
          /\ call = [runner[r] EXCEPT !.pc = "checked", !.round = i]
          /\ RunnerBecomes(r, call) /\ UNCHANGED runs
    BY <2>0
  <2>2. call.pc = "checked" /\ call.ticket = runner[r].ticket
    BY <1>0, <2>1 DEF CallTyped
  <2>3. QED
    BY <2>1, <2>2, CallGoesOn
<1>4. CASE FinishTurn(r)
  <2>1. PICK outcome, pr, call :
          /\ call = [runner[r] EXCEPT
                       !.pc = IF pr /\ ReviewPolicy # "none" THEN "reviewing"
                                                             ELSE "closing",
                       !.outcome = outcome, !.pr = pr]
          /\ RunnerBecomes(r, call) /\ UNCHANGED runs
    BY <1>4, Zenon DEF FinishTurn
  <2>2. PICK pc \in {"reviewing", "closing"} :
          call = [runner[r] EXCEPT !.pc = pc, !.outcome = outcome, !.pr = pr]
    BY <2>1
  <2>3. call.pc = pc /\ call.ticket = runner[r].ticket
    BY <1>0, <2>2 DEF CallTyped
  <2>4. QED
    BY <2>1, <2>3, CallGoesOn
<1>5. CASE MergeApproved(r)
  <2>1. PICK call :
          /\ call = [runner[r] EXCEPT !.pc = "closing", !.outcome = "merged"]
          /\ RunnerBecomes(r, call) /\ UNCHANGED runs
    BY <1>5 DEF MergeApproved
  <2>2. call.pc = "closing" /\ call.ticket = runner[r].ticket
    BY <1>0, <2>1 DEF CallTyped
  <2>3. QED
    BY <2>1, <2>2, CallGoesOn
<1>6. CASE BeginTurn(r) \/ FailBeforeTurn(r) \/ AcquireSlot(r) \/ RefuseSlot(r)
           \/ KeepReport(r) \/ RebaseConflict(r) \/ CloseTurn(r)
  <2>1. \E pc \in {"running", "leaving", "holding", "closing", "rebasing"} :
          RunnerTo(r, pc) /\ UNCHANGED runs
    BY <1>6 DEF BeginTurn, FailBeforeTurn, AcquireSlot, RefuseSlot, KeepReport,
       RebaseConflict, CloseTurn
  <2>2. QED
    BY <1>2, <2>1 DEF RunnerStep
<1>7. CASE CheckPending(r)
  <2>1. RunnerTo(r, "leaving") => \E pc \in RunnerStep \ {"idle"} : RunnerTo(r, pc)
    BY DEF RunnerStep
  <2>2. QED
    BY <1>2, <1>3, <1>7, <2>1 DEF CheckPending
<1>8. QED
  BY <1>1, <1>4, <1>5, <1>6, <1>7 DEF RunnerStepOf

LEMMA StepKeepsFlags ==
  ASSUME TypeOK, SkippedTicketsHaveACall, Next
  PROVE  SkippedTicketsHaveACall'
<1>1. CASE UNCHANGED <<runs, runner>>
  BY <1>1 DEF SkippedTicketsHaveACall
<1>2. ASSUME NEW t \in Tickets, Environment(t) \/ Stop(t)
      PROVE  SkippedTicketsHaveACall'
  BY <1>1, <1>2 DEF Environment, Admit, Wake, MergedElsewhere, Stop, memory
<1>3. ASSUME NEW h \in Hands, Launching(h)
      PROVE  SkippedTicketsHaveACall'
  BY <1>1, <1>3 DEF Launching, CreateAssignment, EnsureWorktree,
     PrepareSucceeds, PrepareFails
<1>4. ASSUME NEW w \in Watchers, WatcherStep(w)
      PROVE  SkippedTicketsHaveACall'
  <2>1. CASE \E t \in Tickets, r \in Runners : WatcherExecute(w, t, r)
    BY <2>1, CallBegins DEF WatcherExecute
  <2>2. CASE ~ \E t \in Tickets, r \in Runners : WatcherExecute(w, t, r)
    BY <1>1, <1>4, <2>2 DEF WatcherStep, ResumeUnfinished, WatcherLaunch,
       FindUnassigned, FindUnfinished
  <2>3. QED
    BY <2>1, <2>2
<1>5. CASE CrashStep
  <2>1. ForgetMemory
    BY <1>5 DEF CrashStep, Crash, CrashWhileClosing, CrashWhileFailing,
       CrashAfterReport, CrashWhileWaking, CrashWhileResuming
  <2>2. QED
    BY <2>1 DEF ForgetMemory, SkippedTicketsHaveACall
<1>6. CASE PanelStep
  <2>1. ASSUME NEW t \in Tickets, NEW r \in Runners, PanelExecute(t, r)
        PROVE  SkippedTicketsHaveACall'
    BY <2>1, CallBegins DEF PanelExecute
  <2>2. ASSUME NEW t \in Tickets, PanelExecuteRefused(t)
        PROVE  SkippedTicketsHaveACall'
    <3>1. /\ UNCHANGED runner
          /\ \A u \in Tickets : runs'[u] = IF u = t THEN Abandoned ELSE runs[u]
      BY <2>2, Types DEF PanelExecuteRefused
    <3>2. QED
      BY <3>1 DEF SkippedTicketsHaveACall
  <2>3. CASE Launching(Panel)
    BY <1>3, <2>3 DEF Hands
  <2>4. QED
    BY <1>1, <1>6, <2>1, <2>2, <2>3
    DEF PanelStep, PanelLaunch, FindUnassigned, BeginMerge, FinishMerge, Unwatch,
        Watch, LoopReturns
<1>7. Watchers \subseteq Hands
  BY DEF Hands
<1>8. QED
  BY <1>2, <1>3, <1>4, <1>5, <1>6, <1>7, RunnerKeepsFlags
  DEF Next, UnattendedNext

(* poll_once passes over a ticket whose flag is in pipeline_runs.  With any *)
(* number of loops, calls and panel commands that replace and remove each   *)
(* other's flags, a flag that is there is that of a call at work on the     *)
(* ticket, or one that a refused command of the panel left behind.          *)
THEOREM SkippedForACall == Spec => []SkippedTicketsHaveACall
<1>1. Init => SkippedTicketsHaveACall
  BY DEF Init, SkippedTicketsHaveACall
<1>2. TypeOK /\ SkippedTicketsHaveACall /\ [Next]_vars => SkippedTicketsHaveACall'
  BY StepKeepsFlags DEF SkippedTicketsHaveACall, vars, memory
<1>3. QED
  BY <1>1, <1>2, TypeCorrect, PTL DEF Spec
=============================================================================
