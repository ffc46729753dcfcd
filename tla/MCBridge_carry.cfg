SPECIFICATION BridgeSpec
CONSTANTS
  p = p
  l1 = l1
  l2 = l2
  a1 = a1
  a2 = a2
  f1 = f1
  v1 = v1
  c1 = c1
  c2 = c2
  u1 = u1
  s1 = s1
  s2 = s2
  NoIntent = NoIntent
  NoKey = NoKey
  Orphan = Orphan
  Key <- Keys
  Version = {v1}
  Chain = {c1}
  ChainOrder <- OneChain
  InitialSet <- Strict
  InitialVersion = v1
  Upgrader <- NoUpgraders
  Desired <- NoDesired
  ListenerNode <- BothListeners
  ApproverNode <- BothApprovers
  OpenPayload <- LenientPayload
  Replacements <- NoReplacements
  MaxProposals = 1
  MaxActions = 1
  Careful = TRUE
  User = {u1}
  Submitter = {s1, s2}
  Deposits = {2}
  Withdrawals = {3}
  Scale = 2
  Wealth = 2
  MaxEvents = 2
  MaxQueue = 1
  MaxFaults = 1
  Covered = FALSE
SYMMETRY Interchangeable
INVARIANT FundsConserved
PROPERTY TakenInOrder
CHECK_DEADLOCK FALSE
