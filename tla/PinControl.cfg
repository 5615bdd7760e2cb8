SPECIFICATION Spec
CONSTANTS
  Params <- DefaultOnly
  Calls <- PinCalls
  MaxCalls = 4
  Faults <- NoFaults
  Alcs <- Zero
  Rates <- SomeRates
  Bws <- SomeBws
  Los <- SomeLos
  Fir <- SomeFir
  Profiles = {0, 1}
  AlcSize = 4
PROPERTIES
  PinsAsFound
CHECK_DEADLOCK FALSE
