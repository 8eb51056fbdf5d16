\* broker/stop after an upstream leader exited and left a child.
SPECIFICATION Spec
CONSTANTS
  Threads = {t1}
  Janitor = janitor
  SharedUp = {u}
  SessionUp = {}
  PerCallUp = {}
  RelayUp = {}
  Sessions = {s}
  Clients = {c1}
  Procs = {p1}
  None = None
  MaxCalls = 1
  Requests = {"call", "broker_stop"}
  Forking = {p1}
  Stubborn = {}
  LogFails = FALSE

INVARIANT NothingOutlivesStop
