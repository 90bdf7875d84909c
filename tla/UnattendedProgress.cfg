SPECIFICATION FairUnattended
CONSTANTS
  Tickets = {t1, t2}
  Runners = {r1, r2}
  Watchers = {w1}
  Capacity = 1
  MaxRounds = 1
  MaxAttempts = 1
  ReviewPolicy = "before_person"
  MergePolicy = "none"
  Faults = {}
  NoTicket = NoTicket
  NoRunner = NoRunner
  Abandoned = Abandoned
  NoWatcher = NoWatcher
  Panel = Panel
INVARIANT FinalReportConcludes
INVARIANT SlotsAreUsed
INVARIANT RunningHasItsTurn
PROPERTY AdmittedIsAssigned
PROPERTY AssignedIsReported
PROPERTY StoppedTurnsWait
CHECK_DEADLOCK FALSE
