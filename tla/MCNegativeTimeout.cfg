CONSTANTS
  t1 = t1
  t2 = t2
  Unset = Unset
  Tokens <- MCOneToken
  NoSoc <- Unset
  InitStates <- MCChargedState
  InitWait = 1
  InitTimeout = 1
  Durations <- MCDurations
  HasAmbientSink = TRUE
  AmbientRate = 1
  Threshold = 2
  MaxTime = 3
  ExecutorSpins = TRUE
SPECIFICATION Spec
INVARIANT
  TimeoutNeverEarly
