--------------------------- MODULE MCClientDriver ---------------------------
(* An instance of ClientDriver: the send half busy, the receive half busy,  *)
(* or streams being opened and accepted.                                    *)
EXTENDS ClientDriver

Sending == [kinds |-> {"write", "finish", "wait", "reset", "release", "close"},
            frames |-> {"handshake", "credit", "stop", "ack", "close"}]
Receiving == [kinds |-> {"read", "end", "stop", "reset", "close"},
              frames |-> {"handshake", "data", "fin", "reset", "close"}]
Opening == [kinds |-> {"open", "accept", "close"}, frames |-> {"handshake", "open", "close"}]

MCScenario == {Sending, Receiving, Opening}
=============================================================================
