------------------------- MODULE MCConnStateForget -------------------------
(***************************************************************************)
(* ConnState with the streams a caller has forgotten, to ask whether they  *)
(* stay so.                                                                *)
(***************************************************************************)
EXTENDS ConnState

VARIABLE forgotten

\* A caller that is done with a stream: it makes no further call on it.
DoneNext ==
  /\ \/ OpenBi \/ AcceptBi \/ ServicePass \/ PeerOpens
     \/ \E id \in (Known \cap Busy) \ forgotten : CallerUses(id)
     \/ \E id \in Open \cap Busy : PeerUses(id)
  /\ forgotten' = forgotten \cup {id \in Known \cap Busy : ForgetStream(id)}

DoneSpec == Init /\ forgotten = {} /\ [][DoneNext]_<<vars, forgotten>>

(* proto/src/conn.rs:391 and :401, on forget_stream: "Drop every trace of  *)
(* `id` from this connection's per-stream bookkeeping", "After this call,  *)
(* `id` is simply unknown". No entry may then come back: record_send_fin   *)
(* inserts one for an acknowledgement or a STOP_SENDING that arrives late. *)
ForgottenStaysForgotten == \A id \in forgotten : cs.send_fins[id] = NoFin
=============================================================================
