SPECIFICATION Spec
CONSTANTS
  one = one
  all = all
  d = d
  e = e
  Request = {one, all}
  Need <- MCNeed
  Deposit = {d, e}
  Worth <- MCWorth
  MaxHeight = 3
  MaxReorgs = 1
  None = None
INVARIANTS
  SignedForOwner
  RefusedNeedsRace
  CoinsMatchChain
CHECK_DEADLOCK FALSE
