---------------------------- MODULE EndpointLife ----------------------------
(***************************************************************************)
(* Endpoint implements ConnectionLife. A handle is unborn until it is      *)
(* allocated, lost once conn_mut returns None for it, and connected from   *)
(* the moment Connected is queued for it.                                  *)
(***************************************************************************)
EXTENDS Endpoint

StageOf(h) ==
  IF h \notin DOMAIN keyed THEN "unborn"
  ELSE IF h \notin Live(ep) THEN "lost"
  ELSE IF "Connected" \in heard[h] \/ \E i \in DOMAIN ep.events[h] : ep.events[h][i] = "Connected"
  THEN "connected" ELSE "dialling"

Get(f, h) == IF h \in DOMAIN f THEN f[h] ELSE NoClient

Life == INSTANCE ConnectionLife WITH
          stage <- [h \in Handle |-> StageOf(h)],
          psk <- [h \in Handle |-> Get(keyed, h)],
          id <- [h \in Handle |-> Get(ep.client_ids, h)],
          news <- ep.events

(* Whatever happens to slots, CIDs and the installed configuration, the    *)
(* holder of a handle sees one life: born once ("a handle retained after   *)
(* ConnectionLost can never name a later connection"), under the identity  *)
(* whose PSK made its keys, Connected before any stream, and its end told  *)
(* exactly once and last, as soon as conn_mut stops finding it.            *)
ImplementsConnectionLife == Life!Spec
=============================================================================
