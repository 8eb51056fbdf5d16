\* One per_session upstream, two sessions: calls, session stops, idle eviction.
SPECIFICATION Spec
CONSTANTS
  Threads = {t1, t2}
  Janitor = janitor
  SharedUp = {}
  SessionUp = {u}
  PerCallUp = {}
  RelayUp = {}
  Sessions = {s1, s2}
  Clients = {c1, c2}
  Procs = {p1, p2}
  None = None
  MaxCalls = 1
  Requests = {"call", "session_stop"}
  Forking = {}
  Stubborn = {}
  LogFails = FALSE
SYMMETRY Symmetric
INVARIANTS SessionIsolation
PROPERTY NoEvictionWithoutStop
