CONSTANTS
  t1 = t1
  t2 = t2
  Unset = Unset
  Tokens <- MCTokens
  NoSoc <- Unset
  InitStates <- MCMarginalState
  InitWait = 1
  InitTimeout = 0
  Durations = {1}
  HasAmbientSink = TRUE
  AmbientRate = 1
  Threshold = 2
  MaxTime = 1
  ExecutorSpins = TRUE
SPECIFICATION Spec
INVARIANTS
  RefinementInv
PROPERTIES
  LatchRefinement
