\* A client that dials, or a server with two connections one after the other in the same
\* slot. With two CIDs a connection may ask for a second one and retire its first.
SPECIFICATION LoopSpec
CONSTANTS
  Roles = {"client", "server"}
  c1 = c1
  c2 = c2
  Cid = {c1, c2}
  NoCid = NoCid
  alice = alice
  Client = {alice}
  NoClient = NoClient
  q0 = q0
  Slot = {q0}
  MaxGeneration = 2
  MaxOutbound = 1
  MaxEvents = 1
INVARIANT
  SafeToSleep
PROPERTIES
  CloseIsReported
  WorkIsFlushed
