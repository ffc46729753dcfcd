SPECIFICATION MCSpec
CONSTANTS
  v = v
  k = k
  j = j
  w = w
  m1 = m1
  Key = {v, k, j}
  Wallet = {w}
  IdSpace = 100
  Scale = 2
  Validator = v
  Admin = v
  Market = {m1}
  Outcome = {1, 2}
  Odds <- MCOdds
  HouseFunds = 6
  Stores = {"postgres", "fjall"}
  Uses <- MCUses
  MaxNonce = 2
  MaxCrashes = 1
  Handles = {m1, m2}
  Entries <- SomeEntries
  Base = 2
  Capacity = 2
  CloneUnserialized = FALSE
  Ranges <- SomeRanges
  None = None
  Threads = {t1, t2, t3}
  NoLock = NoLock
  NoEntry = NoEntry
  NoArc = NoArc
  Versions = {1, 2, 3}
  EarlierChains <- SomeChains
  EarlierGaps <- SomeGaps
  MaxBlocks = 9
  Layer = {"a", "b", "ab", "abb"}
  ChildrenOf <- SomeChildren
  ExportChain <- ThreeBlocks
  FirstProcessor = "k1"
  Peer = {"p", "q"}
  BlockProducer = {"p", "q"}
  Server = "q"
  MaxChain = 2
  Times = {1, 2}
  MaxFailed = 2
  FailedCapacity = 1
INVARIANTS ExecutedOnce Recoverable BooksBalance
INVARIANTS SameEntriesSameHash IteratesInOrder
INVARIANTS ForkInfoIsExact ImportIsSound
PROPERTIES NoDropUnderLock ToldInOrder
CHECK_DEADLOCK FALSE
