\* One busy stream of the peer's.
SPECIFICATION DoneSpec
CONSTANTS
  NumPeer = 1
  NumLocal = 0
  Busy = {1}
  MaxBytes = 1
INVARIANTS
  ForgottenStaysForgotten
