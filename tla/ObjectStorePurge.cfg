CONSTANTS
  adder = adder
  mover = mover
  carrier = carrier
  puller = puller
  checker = checker
  Earlier = Earlier
  NoFile = NoFile
  Stores = {}
  Adopts = {mover}
  Trusts = {}
  CrossDevice = {}
  Editable = {}
  Failing = {}
  LockOf <- MoveLock
SPECIFICATION Spec
INVARIANTS
  FailedAdoptKeepsSource
CHECK_DEADLOCK FALSE
