SPECIFICATION FairSpec
CONSTRAINT Small
CONSTANTS
  m = m
  a = a
  a1 = a1
  t = t
  t1 = t1
  c = c
  Node = {m, a, a1}
  Miner = m
  Transaction = {t, t1}
  Computation = {c}
  Needs <- MCNeeds
  MaxHeight = 2
  MaxItems = 2
  MaxBreaks = 1
  None = None
INVARIANTS
  SyncUnderWay
  MissingIsUnderWay
  ItemsUnderWay
PROPERTIES
  SyncEnds
  FollowsSyncPeer
CHECK_DEADLOCK FALSE
