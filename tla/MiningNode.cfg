SPECIFICATION FairSpec
CONSTRAINT Small
CONSTANTS
  Tx <- MCTx
  Fee <- MCFee
  OutKey <- MCOutKey
  Pays <- MCPays
  OutPoint <- MCOutPoint
  Inputs <- MCInputs
  Creates <- MCCreates
  Initial <- MCInitial
  Comp <- MCComp
  Depth <- MCDepth
  Faulty <- MCFaulty
  Difficulty = 2
  Limit = 2
  Received <- MCReceived
  MaxHeight = 3
  None = None
INVARIANTS
  SpentOnce
  MinedLeavesPool
  CalmRoundSurvives
  OwnCoinbasesDiffer
  OwnBlocksVerify
PROPERTIES
  MiningLoopRuns
  ImplementsMemPool
CHECK_DEADLOCK FALSE
