SPECIFICATION Spec
CONSTANTS
  Block <- TwoBranches
  Genesis = "g"
  Parent <- MCParent
  Timestamp <- MCTimestamp
  SoundHeader <- MCSoundHeader
  SoundBody <- MCSoundBody
  Tx <- MCTx
  Coinbase <- MCCoinbase
  Body <- MCBody
  OutPoint <- MCOutPoint
  Inputs <- MCInputs
  Outputs <- MCOutputs
  Owned <- MCOwned
  Rebinding = "cumulative"
  Mined <- SoundOwnBlocks
INVARIANTS
  NoAssertionFails
CHECK_DEADLOCK FALSE
