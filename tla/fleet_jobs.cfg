CONSTANTS
  ann = ann
  bob = bob
  patrol = patrol
  search = search
  dog = dog
  None = None
  Watchdog = dog
  People = {ann, bob}
  Plugins = {search}
  Onboard = {}
  MaxJobs = 2
  Kinds = {"start", "take", "end", "release", "remove"}
  Forces = {TRUE}
  Faults = {}
  Watches = FALSE
  MayRefuse = TRUE
  HoldsExpire = TRUE
  MaxCrashes = 0
  LostPasses = 1
  OrphanPasses = 1
SPECIFICATION Spec
INVARIANT StoreConsistent
INVARIANT StartingSound
PROPERTY LedgerSpec
PROPERTY TakeoverEndsJob
SYMMETRY Symmetry
