SPECIFICATION Spec
CONSTANTS
  Params <- BothParams
  Calls <- AllCalls
  MaxCalls = 2
  Faults <- AllFaults
  Alcs <- Zero
  Rates <- SomeRates
  Bws <- SomeBws
  Los <- SomeLos
  Fir <- SomeFir
  Profiles = {0, 1}
  AlcSize = 4
CHECK_DEADLOCK FALSE
INVARIANTS
  TypeOK
  Tuned
  CachesTrue
  TrackingOn
  Configured
  QuadNear
PROPERTIES
  EnsmKept
  Fastlocks
  TablesAgree
