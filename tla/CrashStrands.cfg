SPECIFICATION FairUnattended
CONSTANTS
  Tickets = {t1}
  Runners = {r1}
  Watchers = {w1}
  Capacity = 1
  MaxRounds = 1
  MaxAttempts = 1
  ReviewPolicy = "none"
  MergePolicy = "none"
  Faults = {"crash"}
  NoTicket = NoTicket
  NoRunner = NoRunner
  Abandoned = Abandoned
  NoWatcher = NoWatcher
  Panel = Panel
PROPERTY DeadAssignmentsEnd
CHECK_DEADLOCK FALSE
