SPECIFICATION Spec
CONSTANTS
  Tx <- MCTx
  Fee <- MCFee
  OutKey <- MCOutKey
  Pays <- MCPays
  OutPoint <- MCOutPoint
  Inputs <- MCInputs
  Bodies <- MCBodies
INVARIANTS
  IndexesMatchStorage
  AbortNeedsEqualOutputs
CHECK_DEADLOCK FALSE
