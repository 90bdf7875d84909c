SPECIFICATION Spec
CONSTANTS
  Sessions = {s1}
  First = s1
  r1 = r1
  Runs = {r1}
  Steerings = {m1}
  Earlier <- JustPast
  MaxSteps <- TwoAndOne
  CallCounts = {2}
  MaxUnusable = 1
  Events = {}
  NoSession = NoSession
INVARIANTS
  VisibleMeansLogged
CHECK_DEADLOCK FALSE
