SPECIFICATION FairBridgeSpec
CONSTANTS
  p = p
  l1 = l1
  l2 = l2
  a1 = a1
  a2 = a2
  f1 = f1
  v1 = v1
  c1 = c1
  c2 = c2
  u1 = u1
  s1 = s1
  s2 = s2
  NoIntent = NoIntent
  NoKey = NoKey
  Orphan = Orphan
  Key <- Keys
  Version = {v1}
  Chain = {c1, c2}
  ChainOrder <- TwoChains
  InitialSet <- Strict
  InitialVersion = v1
  Upgrader <- NoUpgraders
  Desired <- NoDesired
  ListenerNode <- BothListeners
  ApproverNode <- OneApprover
  OpenPayload <- NoPayloads
  Replacements <- NoReplacements
  MaxProposals = 0
  MaxActions = 0
  Careful = TRUE
  User = {u1}
  Submitter = {s1}
  Deposits = {1}
  Withdrawals = {1}
  Scale = 1
  Wealth = 1
  MaxEvents = 1
  MaxQueue = 1
  MaxFaults = 1
  Covered = TRUE
PROPERTY EventsProcessed
CHECK_DEADLOCK FALSE
