SPECIFICATION FairSpec
CONSTANTS
  p1 = p1
  p2 = p2
  v1 = v1
  v2 = v2
  MaxHeight = 2
  Layer <- Layers
  Children <- ChildrenOf
  Roots <- RootsOf
  Signer <- Signers
  Processor <- Processors
  Genesis = p1
  Version <- Versions
  FirstVersion = v1
  Setup <- AllSetups
  StateHeight = 0
  Awaited = {0}
  RequestLimit = 1
  MaxFaults = 1
INVARIANT StoreComplete
INVARIANT TrustsNoMore
INVARIANT ArchiveHasNoGaps
PROPERTY ChainArrives
CHECK_DEADLOCK FALSE
