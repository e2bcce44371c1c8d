CONSTANTS
  m1 = m1
  m2 = m2
  Unset = Unset
  Models <- MCModels
  NoSoc <- Unset
  InitStates <- MCInitStates
  InitWait = 1
  InitTimeout = 1
  Durations <- MCDurations
  HasAmbientSink = TRUE
  AmbientRate = 1
  Threshold = 2
  MaxTime = 3
SPECIFICATION Spec
INVARIANTS
  TypeOK
  EstimateAboveThreshold
