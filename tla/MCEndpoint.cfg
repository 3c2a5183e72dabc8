\* Two connections, at the same time in two slots or one after the other in the same:
\* a slot freed by a local close or a timeout is reused, one left behind by a remote
\* close is not. Three CIDs let a connection ask for a second one, retire its first,
\* and let a refused peer's CIDs come in between.
SPECIFICATION Spec
CONSTANTS
  Roles = {"server"}
  c1 = c1
  c2 = c2
  c3 = c3
  Cid = {c1, c2, c3}
  NoCid = NoCid
  alice = alice
  bob = bob
  Client = {alice, bob}
  NoClient = NoClient
  q0 = q0
  q1 = q1
  Slot = {q0, q1}
  MaxGeneration = 2
  MaxOutbound = 1
  MaxEvents = 1
SYMMETRY Symmetry
INVARIANTS
  TypeOK
  CidsOwnedByLive
  LiveReachable
  SilentToStrangers
PROPERTY
  ImplementsConnectionLife
