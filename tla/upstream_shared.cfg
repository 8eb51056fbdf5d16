\* One shared upstream with elicitation, forking leaders and a failing event log: calls, health restarts, broker stop, janitor.
SPECIFICATION Spec
CONSTANTS
  Threads = {t1, t2}
  Janitor = janitor
  SharedUp = {u}
  SessionUp = {}
  PerCallUp = {}
  RelayUp = {u}
  Sessions = {s1}
  Clients = {c1, c2}
  Procs = {p1, p2}
  None = None
  MaxCalls = 1
  Requests = {"call", "health", "broker_stop"}
  Forking = {p1}
  Stubborn = {}
  LogFails = TRUE
SYMMETRY SlotSymmetry
INVARIANTS PipeExclusive RegistryClosed
