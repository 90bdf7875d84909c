SPECIFICATION Spec
CONSTANTS
  Sessions = {s1, s2}
  First = s1
  r1 = r1
  Runs = {r1}
  Steerings = {m1}
  Earlier <- AnyEarlier
  MaxSteps <- TwoAndOne
  CallCounts = {2}
  MaxUnusable = 1
  Events = {"crash", "view", "fork", "stop", "resume", "unusable", "fail", "compact"}
  NoSession = NoSession
INVARIANTS
  TypeOK
  RequestsArePaired
  NothingForgotten
  ProjectionsMatchLog
  SettledOnce
CHECK_DEADLOCK FALSE
