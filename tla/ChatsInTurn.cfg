SPECIFICATION FairSpec
CONSTANTS
  Sessions = {s1}
  First = s1
  r1 = r1
  Runs = {r1, r2}
  Steerings = {}
  Earlier <- JustPast
  MaxSteps <- TwoAndOne
  CallCounts = {2}
  MaxUnusable = 1
  Events = {"crash", "stop", "compact", "fail"}
  NoSession = NoSession
INVARIANTS
  EarlierTurnsAreClosed
  OneTurnPerSession
PROPERTIES
  TurnsEnd
CHECK_DEADLOCK FALSE
