CONSTANTS
  t1 = t1
  Unset = Unset
  Unread = Unread
  Tokens <- MCPlannerToken
  NoSoc <- Unset
  NoPlan <- Unread
  InitStates <- MCPlannerState
  InitWait = 1
  InitTimeout = 1
  Durations <- MCPlannerDurations
  HasAmbientSink = TRUE
  AmbientRate = 1
  Threshold = 2
  MaxTime = 3
  ExecutorSpins = TRUE
SPECIFICATION PSpec
INVARIANTS
  UnconfirmedBoundExact
