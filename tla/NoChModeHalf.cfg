SPECIFICATION Spec
CONSTANTS
  Params <- DefaultOnly
  Calls <- ChCalls
  MaxCalls = 2
  Faults <- NoFaults
  Alcs <- Zero
  Rates <- SomeRates
  Bws <- SomeBws
  Los <- SomeLos
  Fir <- SomeFir
  Profiles = {0, 1}
  AlcSize = 4
PROPERTIES
  NoChModeDone
CHECK_DEADLOCK FALSE
