CONSTANTS
  t1 = t1
  t2 = t2
  Unset = Unset
  Tokens <- MCTokens
  NoSoc <- Unset
  InitStates <- MCChargedState
  InitWait = 1
  InitTimeout = 1
  Durations = {1}
  HasAmbientSink = TRUE
  AmbientRate = 1
  Threshold = 2
  MaxTime = 1
  ExecutorSpins = TRUE
SPECIFICATION Spec
SYMMETRY MCSymmetry

INVARIANTS
  ConfirmationCorrelated
  FinishedOnlyWhenEchoed
PROPERTIES
  LatchNeverResets
