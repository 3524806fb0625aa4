CONSTANTS
  p1 = p1
  p2 = p2
  p3 = p3
  NoOne = NoOne
  Process <- ThreeProcesses
SPECIFICATION LockSpec
INVARIANTS
  HolderKeepsLock
CHECK_DEADLOCK FALSE
