--------------------------- MODULE ConnectionLife ---------------------------
(***************************************************************************)
(* What an endpoint promises the holder of a ConnectionHandle, whatever    *)
(* happens to the slots, connection IDs and configurations behind it       *)
(* (proto/src/outcome.rs, Event; proto/src/endpoint.rs, conn_mut and       *)
(* client_id). Module EndpointLife shows that Endpoint keeps it.           *)
(***************************************************************************)
EXTENDS Sequences

CONSTANTS
  Handle,     \* the handles there will ever be
  Client,     \* the identities of the configured clients
  NoClient    \* client_id is None

VARIABLES
  stage,   \* how far the connection of each handle is
  psk,     \* the client whose PSK the connection was made with, NoClient on a client
  id,      \* what client_id says
  news     \* the events about each handle that poll_event has yet to return

life == <<stage, psk, id, news>>

Stage == {"unborn", "dialling", "connected", "lost"}

\* What one servicing pass may tell of a connection, in order.
Maybe(kind) == {<<>>, <<kind>>}
Reports ==
  {c \o s \o l : c \in Maybe("Connected"), s \in Maybe("Stream"), l \in Maybe("ConnectionLost")}
Tells(r, kind) == \E i \in DOMAIN r : r[i] = kind

Init ==
  /\ stage \in [Handle -> {"unborn", "dialling"}]
  /\ psk = [h \in Handle |-> NoClient] /\ id = psk
  /\ news = [h \in Handle |-> <<>>]

\* An event is polled.
Told(h) ==
  /\ news[h] # <<>> /\ news'[h] = Tail(news[h])
  /\ stage'[h] = stage[h] /\ id'[h] = id[h] /\ psk'[h] = psk[h]

\* A connection advances, is lost, or both, and says so as it happens: Connected at
\* most once, of streams only when connected, ConnectionLost last, and never anything
\* after it. The identity goes with the connection.
Advances(h) ==
  \E r \in Reports :
    /\ stage[h] \in {"dialling", "connected"}
    /\ news'[h] = news[h] \o r /\ psk'[h] = psk[h]
    /\ Tells(r, "Connected") => stage[h] = "dialling"
    /\ Tells(r, "Stream") => stage[h] = "connected" \/ Tells(r, "Connected")
    /\ \/ /\ Tells(r, "ConnectionLost")
          /\ stage'[h] = "lost" /\ id'[h] = NoClient
       \/ /\ ~Tells(r, "ConnectionLost")
          /\ stage'[h] = IF Tells(r, "Connected") THEN "connected" ELSE stage[h]
          /\ id'[h] = id[h]

\* A server admits a connection, for the client whose PSK it was made with. It may fail
\* at once. No handle is born twice.
Born(h) ==
  /\ stage[h] = "unborn"
  /\ psk'[h] \in Client
  /\ \/ stage'[h] = "dialling" /\ id'[h] = psk'[h] /\ news'[h] = <<>>
     \/ stage'[h] = "lost" /\ id'[h] = NoClient /\ news'[h] = <<"ConnectionLost">>

Stays(h) == stage'[h] = stage[h] /\ psk'[h] = psk[h] /\ id'[h] = id[h] /\ news'[h] = news[h]

Next == \A h \in Handle : Stays(h) \/ Told(h) \/ Advances(h) \/ Born(h)

Spec == Init /\ [][Next]_life
=============================================================================
