SPECIFICATION Spec
CONSTANTS
  Operators = {"-", "*"}
  Plain <- MCPlain
  MaxOperators = 5
  MaxGroups = 2
INVARIANTS
  PostfixWellFormed
  ResultKept
  DepthsAreLevels
  Balanced
