SPECIFICATION FairSpec
CONSTANTS
  m1 = m1
  Managers = {m1}
  Threads = {t1, t2}
  ManagerOf <- OneWorkspace
  Servers = {s1}
  Versions = {v1}
  Kinds = {"list", "disable"}
  Outside = {"edit"}
  MaxOps = 3
  None = None
PROPERTIES
  CommandsReturn
CHECK_DEADLOCK FALSE
