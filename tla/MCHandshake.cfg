SPECIFICATION FairSpec
CONSTANTS
  Mask <- MCMask
  NumClients = 2
  Key = {"k1", "k2"}
  Psk <- MCPsk
  Nonce = {1, 2}
  NoSelector = NoSelector
  NoParts = NoParts
  WINDOW_MINUTES = 0
  MaxMinute = 1
  MaxStepBack = 0
  MaxDials = 2
  Amplification = 2
  Bounds <- MCBounds
  Dialler <- MCDialler
INVARIANTS
  TypeOK
  OpenedWasSealed
  RepeatsElicitNothing
  SurfacedOnce
PROPERTY
  HandshakeConverges
CHECK_DEADLOCK FALSE
