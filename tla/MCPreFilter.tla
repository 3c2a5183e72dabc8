---------------------------- MODULE MCPreFilter ----------------------------
EXTENDS PreFilter

MCPsk == [c \in Client |-> IF c = 1 THEN "k1" ELSE "k2"]
MCKey == {"k1", "k2"}
MCNonce == {"n1", "n2"}
=============================================================================
