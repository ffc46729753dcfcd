SPECIFICATION MCSpec
CONSTANTS
  p = p
  l = l
  a1 = a1
  a2 = a2
  f = f
  v1 = v1
  v2 = v2
  c1 = c1
  NoIntent = NoIntent
  Key <- Keys
  Version = {v1, v2}
  Chain = {c1}
  InitialSet <- Genesis
  InitialVersion = v1
  Desired <- NoDesired
  OpenPayload <- Payloads
  Replacements <- Handed
  Upgrader <- NoUpgraders
  MaxProposals = 4
  MaxActions = 3
  Careful = TRUE
  Kinds = {"cosmos", "solana", "ethereum"}
  OtherSets = {}
  MaxSignatures = 2
INVARIANT FollowsKolme
INVARIANT QuorumSigned
INVARIANT NextIsAccepted
INVARIANT SameVerdict
PROPERTY UpgradersSucceed
CHECK_DEADLOCK FALSE
