\* Minutes 0..4 with a window of one minute reach the saturation at both ends and
\* let an entry expire. The clock never goes back.
SPECIFICATION Spec
CONSTANTS
  NumClients = 2
  Key <- MCKey
  Psk <- MCPsk
  Nonce <- MCNonce
  NoSelector = NoSelector
  NoParts = NoParts
  WINDOW_MINUTES = 1
  MaxMinute = 4
  MaxStepBack = 0
  MaxDials = 3
INVARIANTS
  TypeOK
  AdmittedAtMostOnce
  AdmittedWasDialled
  FirstArrivalAdmitted
PROPERTY
  GuardHoldsOnlyFresh
