\* The state store under two workers, one method at a time but for recover() calls
\* that find an active record, with crashes and lost active records; or plans
\* installed, rolled back and removed, with a launcher.
SPECIFICATION StoresSpec
CONSTANTS
  w1 = w1
  w2 = w2
  Workers = {w1, w2}
  States = {s1, s2}
  None = None
  Overlapping = {"check"}
  Ttl = 1
  MaxTime = 2
  MaxToken = 3
  MaxRevision = 3
  MaxJournal = 3
  MaxCrashes = 2
  p1 = p1
  p2 = p2
  p3 = p3
  r1 = r1
  r2 = r2
  Plans = {p1, p2, p3}
  Runtimes = {r1, r2}
  NoRuntime = NoRuntime
  RuntimeOf <- MCRuntimeOf
SYMMETRY Interchangeable
INVARIANTS TypeOK ReportedSurvives  ActiveLaunches StatusTellsActive
PROPERTIES LeasesAdvance  WayBackIsKept

