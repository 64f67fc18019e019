SPECIFICATION FairSpec
CONSTANTS
  p = p
  q = q
  m = m
  n = n
  ask = ask
  item = item
  Peer = {p, q}
  Inbound = {p}
  Message = {m, n}
  MainCalls = {m}
  Frame = {ask, item}
  From <- MCFrom
  Says <- MCSays
  Answered = {ask}
  Chunks = 2
  MaxBreaks = 1
  None = None
INVARIANTS
  HeldWhileWriting
  OnlyAnswersCutIn
PROPERTIES
  FramesComplete
CHECK_DEADLOCK FALSE
