SPECIFICATION MCSpec
CONSTANTS
  t1 = t1
  f1 = f1
  VersionWaiter = VersionWaiter
  Upgrade = Upgrade
  Filler = Filler
  Proposer = {t1}
  Awaited = {t1}
  Follower = {f1}
  Height = {1, 2}
  Processes <- AllProcesses
  GenesisChains <- OneChain
  KindOf <- ItsKind
  ListenerKeys = {"l1", "l2"}
  NeededListeners = 2
  MaxCreated = 2
  MaxSetChanges = 0
  MaxOthersOffers = 1
  MaxGenesisStops = 1
INVARIANT FollowersMissOneAtMost
INVARIANT AdoptedByQuorum
PROPERTIES WaitsEnd VersionArrives FailuresLearned
CHECK_DEADLOCK FALSE
