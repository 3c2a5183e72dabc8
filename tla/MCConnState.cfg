\* Two streams of the peer's, so that their order shows, and one of ours; the halves of
\* different streams are independent, so one carries the traffic. Two bytes make short
\* reads, exact ones and ones that run into the FIN.
SPECIFICATION Spec
CONSTANTS
  NumPeer = 2
  NumLocal = 1
  Busy = {1}
  MaxBytes = 2
INVARIANTS
  TypeOK
  UnsentIsDirty
  EndIsStable
  EndMeansAllRead
  AcceptsInOrder
PROPERTIES
  SendFactToldOnce
