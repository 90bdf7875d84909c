SPECIFICATION Spec
CONSTANTS
  m1 = m1
  Managers = {m1}
  Threads = {t1, t2}
  ManagerOf <- OneWorkspace
  Servers = {s1}
  Versions = {v1}
  Kinds = {"list", "call", "probe", "add", "update", "remove", "enable", "disable"}
  Outside = {"dies", "edit"}
  MaxOps = 3
  None = None
SYMMETRY ThreadSymmetry
INVARIANTS
  TypeOK
  ProcessesAreOwned
  AnswersAreToTheQuestion
PROPERTIES
  DefinitionsSurvive
CHECK_DEADLOCK FALSE
