SPECIFICATION Spec
CONSTANTS
  Params <- DefaultOnly
  Calls <- LoCalls
  MaxCalls = 4
  Faults <- NoFaults
  Alcs <- Zero
  Rates <- SomeRates
  Bws <- SomeBws
  Los <- SomeLos
  Fir <- SomeFir
  Profiles = {0, 1}
  AlcSize = 4
PROPERTIES
  LoAsAsked
CHECK_DEADLOCK FALSE
