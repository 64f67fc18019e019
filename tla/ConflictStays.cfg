SPECIFICATION Spec
CONSTANTS
  Tx <- MCTx
  Fee <- MCFee
  OutKey <- MCOutKey
  Pays <- MCPays
  OutPoint <- MCOutPoint
  Inputs <- MCInputs
  Bodies <- MCBodies
PROPERTIES
  SpendEvictsConflicts
CHECK_DEADLOCK FALSE
