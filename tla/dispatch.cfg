CONSTANTS
  d1 = d1
  d2 = d2
  monitor = monitor
  desk = desk
  None = None
  Monitor = monitor
  MaxIncidents = 1
  Drones = {d1}
  MaxJobs = 2
  Resolvers = {monitor, desk}
  People = TRUE
  Faults = {"restart", "delete", "timeout", "refused"}
  MaxEvents = 3
SPECIFICATION FairSpec
INVARIANT TypeOK
INVARIANT NewIsFree
INVARIANT ResolvedIsOver
PROPERTY ResolvedStays
PROPERTY JobEndsWithIncident
PROPERTY StayerResolves
CHECK_DEADLOCK FALSE
