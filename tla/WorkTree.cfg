CONSTANTS
  adder = adder
  importer = importer
  mover = mover
  pruner = pruner
  remover = remover
  data = data
  archive = archive
  gitsfs = gitsfs
  n1 = n1
  d1 = d1
  d2 = d2
  s1 = s1
  l1 = l1
  l2 = l2
  Nothing = Nothing
  Adders = {adder}
  Importers = {importer}
  Movers = {mover}
  Pruners = {pruner}
  Removers = {remover}
  Consumes = {importer}
  Follows = {importer}
  Failing = {mover}
  Stoppable = {importer}
  Folder = {data, archive}
  Name = {n1}
  OffLimits = {gitsfs}
  Depth <- Depths
  GitTracked = {}
  Data = {d1, d2}
  Source = {s1, l1, l2}
  LeadsTo <- Links
  Batches <- Arguments
SPECIFICATION Spec
CONSTRAINT OneEviction
INVARIANTS
  BytesKept
  LinksResolve
  RejectedChangesNothing
PROPERTIES
  MovesKeepLinks
CHECK_DEADLOCK FALSE
