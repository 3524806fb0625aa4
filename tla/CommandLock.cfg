CONSTANTS
  p1 = p1
  p2 = p2
  p3 = p3
  NoOne = NoOne
  Process <- ThreeProcesses
SPECIFICATION FairLockSpec
INVARIANTS
  LockTypeOK
  ExclusionUnlessStray
  StrayNeedsDeath
PROPERTIES
  CancelStops
  WaiterServed
CHECK_DEADLOCK FALSE
