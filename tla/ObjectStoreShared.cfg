CONSTANTS
  adder = adder
  mover = mover
  carrier = carrier
  puller = puller
  checker = checker
  Earlier = Earlier
  NoFile = NoFile
  Stores = {}
  Adopts = {carrier, checker}
  Trusts = {}
  CrossDevice = {carrier}
  Editable = {}
  Failing = {}
  LockOf <- TwoAdoptLocks
SPECIFICATION Spec
INVARIANTS
  SealedIsIntact
CHECK_DEADLOCK FALSE
