SPECIFICATION FairSpec
CONSTANTS
  Block <- Forest
  Genesis = "g"
  Parent <- MCParent
  Timestamp <- MCTimestamp
  SoundHeader <- MCSoundHeader
  SoundBody <- MCSoundBody
  Tx <- MCTx
  Coinbase <- MCCoinbase
  Body <- MCBody
  OutPoint <- MCOutPoint
  Inputs <- MCInputs
  Outputs <- MCOutputs
  Owned <- MCOwned
  Rebinding = "idempotent"
  Mined <- OwnBlocks
INVARIANTS
  MainIsChain
  StoreHasChains
  ChainstateMatchesChain
  UndoRecordsComplete
  WalletMatchesChain
  ForksHangOnMain
  HeaviestIsMain
  
  OnlyStaleForksCutElsewhere
PROPERTIES
  OnlyFailedReorgsLose
  AddBlockReturns
  
CHECK_DEADLOCK FALSE
