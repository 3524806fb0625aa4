CONSTANTS
  adder = adder
  mover = mover
  carrier = carrier
  puller = puller
  checker = checker
  Earlier = Earlier
  NoFile = NoFile
  Stores = {adder}
  Adopts = {mover, carrier}
  Trusts = {puller}
  CrossDevice = {carrier}
  Editable = {adder}
  Failing = {adder, mover, carrier, puller}
  LockOf <- ThreeLocks
SPECIFICATION Spec
INVARIANTS
  TypeOK
  SealedIsIntact
  BytesKept
  AcceptedIsPresent
PROPERTIES
  ImplementsContentStore
CHECK_DEADLOCK FALSE
