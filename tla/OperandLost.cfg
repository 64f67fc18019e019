SPECIFICATION Spec
CONSTANTS
  Operators = {"*"}
  Plain <- MCPlain
  MaxOperators = 6
  MaxGroups = 3
INVARIANTS
  ResultKept
CHECK_DEADLOCK FALSE
