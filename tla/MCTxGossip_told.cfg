SPECIFICATION FairSpec
CONSTANTS
  p = p
  c1 = c1
  i1 = i1
  i2 = i2
  k1 = k1
  Client = {c1}
  Processor = p
  Call = {i1, i2}
  NodeOf <- AtClient
  Key = {k1}
  KeyOf <- OneKey
  Risky = {i2}
  MaxAttempts = 2
  PoolCap = 2
  BlockedCap = 4
  MaxBreaks = 1
CHECK_DEADLOCK FALSE
INVARIANT ExecutedOnceAtMost
INVARIANT AnswersAreTrue
PROPERTY ProposalsAreJudged
