SPECIFICATION Spec
CONSTANTS
  chat = chat
  worker = worker
  s1 = s1
  s2 = s2
  Agents = {chat, worker}
  Chats = {chat}
  Sessions = {s1, s2}
  SessionOf <- Theirs
  Paths = {p1, p2}
  Ops = {"read", "write", "edit", "delete", "hard", "move", "untrash", "undo", "snapshot", "todo", "person", "checkpoints", "crash"}
  MaxCalls = 3
  Absent = Absent
INVARIANTS
  TypeOK
  OwnWritesAreNotRefused
PROPERTIES
  OnlyKnownIsOverwritten
  ReplacedIsKept
SYMMETRY Symmetry
CHECK_DEADLOCK FALSE
