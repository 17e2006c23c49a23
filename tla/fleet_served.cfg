CONSTANTS
  ann = ann
  bob = bob
  patrol = patrol
  search = search
  dog = dog
  None = None
  Watchdog = dog
  People = {ann}
  Plugins = {patrol}
  Onboard = {patrol}
  MaxJobs = 1
  Kinds = {"start", "land", "end", "hold"}
  Forces = {FALSE}
  Faults = {"hung"}
  Watches = TRUE
  MayRefuse = TRUE
  HoldsExpire = FALSE
  MaxCrashes = 0
  LostPasses = 1
  OrphanPasses = 1
SPECIFICATION FairSpec
PROPERTY RequestsEnd
