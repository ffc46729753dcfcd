SPECIFICATION FairSpec
CONSTANTS
  p1 = p1 p2 = p2 k1 = k1 k2 = k2 v1 = v1 v2 = v2 alice = alice proc = proc
  g1 = g1 g2 = g2 a0 = a0 rot = rot up = up app = app
  Processor <- MCProcessor
  Key = {k1, k2}
  Version = {v1, v2}
  Account = {alice, proc}
  Tx = {g1, g2, a0, app}
  ApprovalTx = {app}
  GenesisTx <- MCGenesisTx
  TxInfo <- MCTxInfo
  Secrets <- BothHaveBothKeys
  CodeVersion <- AllRunV1
  GenesisState <- MCGenesisState
  Faults = {}
  MaxCrashes = 1
  CrashesAlone = TRUE
  None = None
INVARIANTS MutualExclusion
PROPERTIES ProposedIsSettled FailureJudgedAtTip
CHECK_DEADLOCK FALSE
