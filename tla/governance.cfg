\* Pulls, approved and not, against applies, rollbacks and recoveries that overlap, with a crash and a loss.
SPECIFICATION PullSpec
CONSTANTS
  a1 = a1
  b1 = b1
  b2 = b2
  raw = raw
  bad = bad
  Bundles = {b1, b2, raw, bad}
  Procs = {p1, p2}
  None = None
  MaxFaults = 1
  Assignments = {a1}
  Approved <- SomeApproved
  Invalid = {bad}
  SourceStable = TRUE
  PullsOverlap = FALSE
SYMMETRY Symmetric
INVARIANTS PointersResolve ReportedSurvives  
PROPERTIES RecoveredResolves
