\* As MCEndpoint.cfg, with one connection.
SPECIFICATION Spec
CONSTANTS
  Roles = {"server"}
  c1 = c1
  c2 = c2
  Cid = {c1, c2}
  NoCid = NoCid
  alice = alice
  Client = {alice}
  NoClient = NoClient
  q0 = q0
  Slot = {q0}
  MaxGeneration = 1
  MaxOutbound = 1
  MaxEvents = 1
INVARIANT
  SlotFreedWhenReaped
