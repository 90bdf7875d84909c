SPECIFICATION Spec
CONSTANTS
  Tickets = {t1}
  Runners = {r1}
  Watchers = {w1, w2}
  Capacity = 1
  MaxRounds = 2
  MaxAttempts = 1
  ReviewPolicy = "before_person"
  MergePolicy = "auto"
  Faults = {"crash", "identity", "session", "conflict"}
  NoTicket = NoTicket
  NoRunner = NoRunner
  Abandoned = Abandoned
  NoWatcher = NoWatcher
  Panel = Panel
SYMMETRY Symmetry
INVARIANT TypeOK
INVARIANT AtMostOneActive
INVARIANT SkippedTicketsHaveACall
CHECK_DEADLOCK FALSE
