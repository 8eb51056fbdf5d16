\* One command dies between two writes; then recover().
SPECIFICATION Spec
CONSTANTS
  Bundles = {b1, b2}
  Procs = {p1}
  None = None
  MaxFaults = 1
INVARIANT RollbackTarget
