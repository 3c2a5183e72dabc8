----------------------------- MODULE MCEndpoint -----------------------------
EXTENDS EndpointLife, TLC

Symmetry == Permutations(Cid) \cup Permutations(Client) \cup Permutations(Slot)
=============================================================================
