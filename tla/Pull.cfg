CONSTANTS
  o1 = o1
  o2 = o2
  Object <- Both
  Scope <- Both
  Jobs = {1, 2}
  RetryMax = 2
SPECIFICATION FairSpec
INVARIANTS
  TypeOK
  DoneIsPresent
  AddedIsKept
PROPERTIES
  DropsReplaceable
  EveryPullEnds
CHECK_DEADLOCK FALSE
