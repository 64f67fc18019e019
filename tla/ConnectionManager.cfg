SPECIFICATION FairSpec
CONSTANTS
  h = h
  n = n
  p = p
  Node <- MCNode
  Bootstrap <- MCBootstrap
  InboundLimit <- MCInboundLimit
  OutboundLimit <- MCOutboundLimit
  Lives <- MCLives
INVARIANTS
  InboundIsListening
  PeersMeet
PROPERTIES
  CrashHasCause
  BootSucceeds
CHECK_DEADLOCK FALSE
