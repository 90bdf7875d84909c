SPECIFICATION Unattended
CONSTANTS
  Tickets = {t1, t2}
  Runners = {r1, r2}
  Watchers = {w1}
  Capacity = 1
  MaxRounds = 2
  MaxAttempts = 1
  ReviewPolicy = "before_person"
  MergePolicy = "auto"
  Faults = {"crash", "session", "conflict"}
  NoTicket = NoTicket
  NoRunner = NoRunner
  Abandoned = Abandoned
  NoWatcher = NoWatcher
  Panel = Panel
SYMMETRY Symmetry
CONSTRAINT OneComesBack
INVARIANT TurnsWithinCapacity
INVARIANT OneExecutorPerTicket
INVARIANT TurnOwnsItsRows
INVARIANT TurnsCanBeStopped
INVARIANT EndedTicketIsOver
PROPERTY EndedRoundsStayEnded
PROPERTY ImplementsWorkBoard
CHECK_DEADLOCK FALSE
