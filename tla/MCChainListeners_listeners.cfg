SPECIFICATION MCSpec
CONSTANTS
  Platforms = {"ethereum", "solana"}
  EventKinds <- MCEventKinds
  Hybrid = TRUE
  Page = 3
  MaxEvents = 3
  MaxStops = 1
  GenesisChains <- TwoChains
  KindOf <- TheirKinds
  ListenerKeys = {"l1"}
  NeededListeners = 1
  MaxCreated = 2
  MaxSetChanges = 1
  MaxOthersOffers = 0
  MaxGenesisStops = 1
INVARIANT NothingPassed
INVARIANT CreatedOnce
PROPERTY EventsAttested
PROPERTY GenesisCompletes
CHECK_DEADLOCK FALSE
