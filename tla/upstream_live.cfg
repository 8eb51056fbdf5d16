\* One per_session upstream under fair scheduling: requests end, clients leave, broker stop settles.
SPECIFICATION FairSpec
CONSTANTS
  Threads = {t1}
  Janitor = janitor
  SharedUp = {}
  SessionUp = {u}
  PerCallUp = {}
  RelayUp = {}
  Sessions = {s1}
  Clients = {c1, c2}
  Procs = {p1}
  None = None
  MaxCalls = 2
  Requests = {"call", "session_stop", "broker_stop"}
  Forking = {}
  Stubborn = {}
  LogFails = FALSE
PROPERTIES IdleEvicted ExitedEvicted  
