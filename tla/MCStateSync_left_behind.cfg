SPECIFICATION Spec
CONSTANTS
  p1 = p1
  p2 = p2
  v1 = v1
  v2 = v2
  MaxHeight = 1
  Layer <- TwoLayers
  Children <- Chained
  Roots <- OneRoot
  Signer <- SameProcessor
  Processor <- SameProcessor
  Genesis = p1
  Version <- SameVersion
  FirstVersion = v1
  Setup <- StateTransfer
  StateHeight = 0
  Awaited = {0}
  RequestLimit = 1
  MaxFaults = 0
INVARIANT NothingLeftBehind
CHECK_DEADLOCK FALSE
