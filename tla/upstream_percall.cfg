\* One per_call upstream whose processes resist SIGKILL and whose event log fails.
SPECIFICATION Spec
CONSTANTS
  Threads = {t1, t2}
  Janitor = janitor
  SharedUp = {}
  SessionUp = {}
  PerCallUp = {u}
  RelayUp = {}
  Sessions = {s}
  Clients = {c1, c2}
  Procs = {p1, p2}
  None = None
  MaxCalls = 2
  Requests = {"call", "health"}
  Forking = {}
  Stubborn = {p1}
  LogFails = TRUE
SYMMETRY SlotSymmetry
INVARIANTS LiveGroupsAccounted CallsAreRecorded
