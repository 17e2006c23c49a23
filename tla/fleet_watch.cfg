CONSTANTS
  ann = ann
  bob = bob
  patrol = patrol
  search = search
  dog = dog
  None = None
  Watchdog = dog
  People = {ann}
  Plugins = {search}
  Onboard = {}
  MaxJobs = 1
  Kinds = {"start", "end", "move"}
  Forces = {FALSE}
  Faults = {"down"}
  Watches = TRUE
  MayRefuse = FALSE
  HoldsExpire = FALSE
  MaxCrashes = 1
  LostPasses = 1
  OrphanPasses = 2
SPECIFICATION FairSpec
PROPERTY LandedJobEnds
PROPERTY LostJobEnds
PROPERTY LostDroneComesDown
