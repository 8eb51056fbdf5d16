\* Two daemons that start, serve, stop and crash over one runtime directory, and a
\* reaper.
SPECIFICATION Spec
CONSTANTS
  Daemons = {d1, d2}
  Upstreams = {u1}
  Conns = {c1}
  None = None
SYMMETRY Symmetric
INVARIANTS ReachableHoldsLock  LockGetsReleased
PROPERTIES ServingKeepsItsSocket SnapshotFromServer
CHECK_DEADLOCK FALSE
