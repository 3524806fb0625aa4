CONSTANTS
  laptop = laptop
  server = server
  o1 = o1
  o2 = o2
  alice = alice
  bob = bob
  Pusher = {laptop, server}
  Object = {o1, o2}
  Scope <- Overlapping
  SkipMissing = {server}
  User <- TwoUsers
  Disturbed = {laptop}
  RetryMax = 2
SPECIFICATION FairSpec
INVARIANTS
  ExitIsTrue
  StagedIsOwn
PROPERTIES
  FinalsWhole
  OnlyRaceReplaces
  EveryPushEnds
CHECK_DEADLOCK FALSE
