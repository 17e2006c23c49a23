CONSTANTS
  ann = ann
  bob = bob
  patrol = patrol
  search = search
  dog = dog
  None = None
  Watchdog = dog
  People = {ann}
  Plugins = {search}
  Onboard = {}
  MaxJobs = 1
  Kinds = {"start", "take", "end", "land", "move"}
  Forces = {TRUE}
  Faults = {"down", "hung"}
  Watches = TRUE
  MayRefuse = TRUE
  HoldsExpire = FALSE
  MaxCrashes = 1
  LostPasses = 1
  OrphanPasses = 1
SPECIFICATION Spec
INVARIANT TypeOK
INVARIANT HealthyJobSurvives
PROPERTY NoZombie
