---------------------------- MODULE MCHandshake ----------------------------
EXTENDS Handshake

MCPsk == [c \in 1..NumClients |-> <<"k1", "k2">>[c]]

\* A second dial, or a restart of the server under the first. The clients are alike, so
\* the first dial is client 1's, and the second is its own or the other's.
MCBounds == {<<0, 0>>, <<1, 0>>, <<1, 1>>, <<2, 0>>}
MCDialler == <<{1}, {1, 2}>>

\* Masks that change the length bits, and differ between the directions.
MCMask(hp, sample) ==
  IF hp[1][2] = "client in"
  THEN [i \in 0..4 |-> IF i = 0 THEN {0, 4, 7} ELSE {i}]
  ELSE [i \in 0..4 |-> IF i = 0 THEN {1, 2, 5} ELSE {0, i}]
=============================================================================
