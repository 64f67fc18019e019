SPECIFICATION Spec
CONSTANTS
  Block <- Nested
  Genesis = "g"
  Parent <- MCParent
  Timestamp <- MCTimestamp
  SoundHeader <- MCSoundHeader
  SoundBody <- MCSoundBody
  Tx <- MCTx
  Coinbase <- MCCoinbase
  Body <- MCBody
  OutPoint <- MCOutPoint
  Inputs <- MCInputs
  Outputs <- MCOutputs
  Owned <- MCOwned
  Rebinding = "idempotent"
  Mined <- SoundOwnBlocks
INVARIANTS
  ReorgCutsAtForkPoint
CHECK_DEADLOCK FALSE
