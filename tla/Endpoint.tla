------------------------------ MODULE Endpoint ------------------------------
(***************************************************************************)
(* proto/src/endpoint.rs: the sans-IO Endpoint that owns the connections,  *)
(* the connection IDs that route to them and the generation-tagged handles *)
(* its caller holds, with RecordingCidGenerator of proto/src/crypto.rs.    *)
(*                                                                         *)
(* Every public call of the code takes &mut self and runs to completion,   *)
(* so each is one action. Inside a call the stages are operators from      *)
(* endpoint to endpoint, composed in the order in which the code runs      *)
(* them. The fields slab, index, server_config and a connection's phase,   *)
(* armed and tx belong to quinn_proto, which is modelled by what the code  *)
(* relies on. What the pre-filter decides is module PreFilter's business:  *)
(* here a datagram of an inactive DCID comes with or without a grant.      *)
(***************************************************************************)
EXTENDS Integers, Sequences, FiniteSets

CONSTANTS
  Roles,           \* the roles to consider, of "server" and "client"
  Client,          \* the identities of the configured clients
  NoClient,        \* no server_config installed, no grant
  Cid,             \* connection IDs
  NoCid,           \* a DCID this endpoint never issued (a selector, junk)
  Slot,            \* indices of quinn_proto's connection slab
  MaxGeneration,   \* bound: connections ever made
  MaxOutbound,     \* bound: outbound backlog at which the network pauses
  MaxEvents        \* bound: stream events a caller leaves queued per connection

ASSUME RoleAssumption == Roles \subseteq {"server", "client"}
ASSUME ClientAssumption == NoClient \notin Client
ASSUME CidAssumption == NoCid \notin Cid
ASSUME BoundAssumption ==
  MaxGeneration \in Nat \ {0} /\ MaxOutbound \in Nat /\ MaxEvents \in Nat

VARIABLES
  ep,      \* the Endpoint
  heard,   \* history: the lifecycle events each handle's holder has polled
  keyed    \* history: for every handle made, whose configuration quinn made it with

vars == <<ep, heard, keyed>>

Handle == [quinn : Slot, generation : 1..MaxGeneration]
Phase == {"handshake", "open", "closing", "drained"}
Conn == [phase : Phase, dirty : BOOLEAN, tx : BOOLEAN, armed : BOOLEAN]

\* What quinn may have in store for the servicing pass of a connection: application
\* events, something to transmit, its own end, and the CIDs it asks for or retires.
Does == {"connected", "stream", "error", "drained", "send"}
Stimulus == [does : SUBSET Does, fresh : SUBSET Cid, retired : SUBSET Cid]
Quiet == [does |-> {}, fresh |-> {}, retired |-> {}]

\* HashMap::insert and HashMap::remove.
Put(f, k, v) == [x \in DOMAIN f \cup {k} |-> IF x = k THEN v ELSE f[x]]
Without(f, K) == [x \in DOMAIN f \ K |-> f[x]]
Empty == [x \in {} |-> x]

Live(e) == DOMAIN e.connections
OwnedBy(e, h) == IF h \in DOMAIN e.cids_by_conn THEN e.cids_by_conn[h] ELSE {}
RoutedTo(e, q) == {c \in DOMAIN e.index : e.index[c] = q}

-----------------------------------------------------------------------------
(* Connection IDs                                                          *)

\* RecordingCidGenerator::generate_cid, called by quinn for slot q: random CIDs do
\* not collide with ones that are in use.
Unused(e) == Cid \ (e.issued_cids \cup DOMAIN e.index)
Mint(e, cids) ==
  [e EXCEPT !.issued_cids = @ \cup cids, !.pending_cids = @ \cup cids]

\* A queue that is cleared instead of attributed.
ClearPendingCids(e, h) == [e EXCEPT !.pending_cids = {}]

DrainPendingCids(e, h) ==
  IF e.pending_cids = {} THEN e
  ELSE [e EXCEPT !.cids_by_conn = Put(@, h, OwnedBy(e, h) \cup e.pending_cids),
                 !.pending_cids = {}]

\* No sweep: a refused peer's CIDs stay in the routing set.
LeaveOrphanCids(e) == [e EXCEPT !.pending_cids = {}]

SweepOrphanCids(e) ==
  [e EXCEPT !.issued_cids = @ \ e.pending_cids, !.pending_cids = {}]

\* A prune that forgets the lists but not the routing set.
PruneListOnly(e, H) == [e EXCEPT !.cids_by_conn = Without(@, H)]

\* The CIDs of all connections in H, reaped before.
PruneConnectionCids(e, H) ==
  [e EXCEPT !.issued_cids = @ \ UNION {OwnedBy(e, h) : h \in H},
            !.cids_by_conn = Without(@, H)]

-----------------------------------------------------------------------------
(* Handles                                                                 *)

\* Handles without generations: a reused slot brings an old handle back to life.
SlotIsHandle(e, q) == [quinn |-> q, generation |-> 1]

NextHandle(e, q) == [quinn |-> q, generation |-> e.next_generation]

AllocateHandle(e, q) ==
  [e EXCEPT !.next_generation = @ + 1, !.by_quinn = Put(@, q, NextHandle(e, q))]

-----------------------------------------------------------------------------
(* service_connections                                                     *)

\* 1. Endpoint events. quinn mints the CIDs a connection needs and routes them to
\* its slot, stops routing the ones its peer retired, and frees the slot of a drained
\* connection. What is pending after an event goes to the connection whose event it
\* was, so anything pending before goes to whichever asks first.
RouteEndpointEvents(e, work) ==
  LET asking == {h \in Live(e) : \/ work[h].fresh # {} \/ work[h].retired # {}
                                 \/ "drained" \in work[h].does}
      first == CHOOSE h \in asking : TRUE
      taken == [h \in asking |-> work[h].fresh \cup IF h = first THEN e.pending_cids ELSE {}]
      freed == {h.quinn : h \in {k \in asking : "drained" \in work[k].does}}
      minted == UNION {work[h].fresh : h \in asking}
      retired == UNION {work[h].retired : h \in asking}
      kept == {c \in DOMAIN e.index \ retired : e.index[c] \notin freed}
  IN  IF asking = {} THEN e
      ELSE [e EXCEPT
              !.issued_cids = @ \cup minted,
              !.pending_cids = {},
              !.cids_by_conn =
                 [h \in DOMAIN @ \cup {k \in asking : taken[k] # {}} |->
                    OwnedBy(e, h) \cup IF h \in asking THEN taken[h] ELSE {}],
              !.index = [c \in kept \cup minted |->
                           IF c \in minted THEN (CHOOSE h \in asking : c \in work[h].fresh).quinn
                           ELSE e.index[c]],
              !.slab = @ \ freed]

\* quinn's own view of a connection by the time the pass polls it. A draining or
\* drained connection drops what it had to send; a failed one may send its close.
Settled(conn, does) ==
  [conn EXCEPT !.phase = IF "drained" \in does THEN "drained"
                         ELSE IF "connected" \in does THEN "open" ELSE @,
               !.tx = ("error" \notin does /\ "drained" \notin does /\ @) \/ "send" \in does]

\* progress.lost, or is_drained.
Lost(conn, does) == "error" \in does \/ conn.phase = "drained"

\* What the pass tells the holder of a connection, in the order of the code.
Progress(does) ==
  (IF "connected" \in does THEN <<"Connected">> ELSE <<>>)
    \o (IF "stream" \in does THEN <<"Stream">> ELSE <<>>)

\* Timers run from the first transmission on.
Flushed(conn) ==
  [conn EXCEPT !.tx = FALSE, !.dirty = FALSE,
               !.armed = (@ \/ conn.tx) /\ conn.phase # "drained"]

\* 2. Application events and transmits. How many datagrams the connections send in a
\* pass is of no consequence: one stands for all.
PollConnections(e, work) ==
  LET settled == [h \in Live(e) |-> Settled(e.connections[h], work[h].does)]
  IN  [e EXCEPT
        !.connections = [h \in Live(e) |-> Flushed(settled[h])],
        !.events = [h \in Handle |-> IF h \in Live(e) THEN @[h] \o Progress(work[h].does) ELSE @[h]],
        !.outbound = IF \E h \in Live(e) : settled[h].tx THEN Append(@, "conn") ELSE @]

\* A reap that tells nobody.
ReapUnreported(e, lost) ==
  PruneConnectionCids(
    [e EXCEPT !.connections = Without(@, lost),
              !.by_quinn = Without(@, {h.quinn : h \in lost}),
              !.client_ids = Without(@, lost)],
    lost)

\* 3. Reap.
Reap(e, lost) ==
  PruneConnectionCids(
    [e EXCEPT !.connections = Without(@, lost),
              !.by_quinn = Without(@, {h.quinn : h \in lost}),
              !.client_ids = Without(@, lost),
              !.events = [h \in Handle |-> IF h \in lost THEN Append(@[h], "ConnectionLost") ELSE @[h]]],
    lost)

RefreshNextTimeout(e) ==
  [e EXCEPT !.next_timeout = IF \E h \in Live(e) : e.connections[h].armed THEN "future" ELSE "none"]

ServiceConnections(e, work) ==
  LET polled == PollConnections(RouteEndpointEvents([e EXCEPT !.last_service = TRUE], work), work)
      lost == {h \in Live(polled) : Lost(polled.connections[h], work[h].does)}
  IN  RefreshNextTimeout(SweepOrphanCids(Reap(polled, lost)))

NoWork(e) == [h \in Live(e) |-> Quiet]
WorkOf(e, h, stimulus) == [NoWork(e) EXCEPT ![h] = stimulus]

-----------------------------------------------------------------------------
(* handle_datagram                                                         *)

\* What quinn may make of a datagram for connection h with this DCID. A peer cannot
\* retire the CID it is sending to, a stateless reset (error and drained) says nothing
\* else, and a closing connection at most repeats its close or is reset.
Stimuli(e, h, cid) ==
  LET conn == e.connections[h]
      few(S) == {{}} \cup {{c} : c \in S}
  IN  {s \in [does : SUBSET Does, fresh : few(Unused(e)),
              retired : few(RoutedTo(e, h.quinn) \ {cid})] :
         /\ "drained" \in s.does => s.does = {"error", "drained"} /\ s.fresh \cup s.retired = {}
         /\ "connected" \in s.does => conn.phase = "handshake"
         /\ "stream" \in s.does =>
              /\ conn.phase = "open" \/ "connected" \in s.does
              /\ Len(e.events[h]) < MaxEvents
         /\ s.retired # {} => conn.phase = "open"
         /\ s.fresh # {} => conn.phase = "handshake" \/ s.retired # {}
         /\ conn.phase = "closing" => s.does \in {{}, {"send"}, {"error", "drained"}}}

\* The pre-filter stands in the way of every datagram whose DCID is not active: it
\* passes with a grant, on a selector DCID, or not at all.
Passes(cid, client) ==
  \/ ep.role = "client" /\ client = NoClient
  \/ ep.role = "server" /\ cid \in ep.issued_cids /\ client = NoClient
  \/ ep.role = "server" /\ cid = NoCid /\ client \in Client

\* set_server_config on behalf of an admitted client.
Installed(client) == IF client = NoClient THEN ep ELSE [ep EXCEPT !.server_config = client]

\* Ground truth of who sent a datagram: someone who has proved to hold a PSK, on this
\* datagram or on the connection whose CID it uses.
Sender(cid, client) ==
  IF client # NoClient \/ \E h \in Live(ep) : cid \in OwnedBy(ep, h) THEN "peer" ELSE "stranger"

\* Both roles answer.
QueueAnyResponse(e, to) == [e EXCEPT !.outbound = Append(@, to)]

\* An endpoint-level response leaves a server only.
QueueResponse(e, to) == IF e.role = "server" THEN [e EXCEPT !.outbound = Append(@, to)] ELSE e

\* rate_limiter.check or prefilter says no.
DropSilently(cid) ==
  /\ ep.role = "server" /\ cid \notin ep.issued_cids
  /\ UNCHANGED vars

\* DatagramEvent::ConnectionEvent. The connection is found through by_quinn; quinn may
\* name a slot whose connection is gone.
FeedEvent(cid) ==
  /\ Passes(cid, NoClient)
  /\ cid \in DOMAIN ep.index
  /\ LET q == ep.index[cid]
         targets == {h \in Live(ep) : q \in DOMAIN ep.by_quinn /\ ep.by_quinn[q] = h}
     IN  \/ /\ targets = {}
            /\ ep' = ServiceConnections(SweepOrphanCids(ep), NoWork(ep))
         \/ \E h \in targets : \E s \in Stimuli(ep, h, cid) :
              ep' = ServiceConnections(SweepOrphanCids(ep), WorkOf(ep, h, s))
  /\ UNCHANGED <<heard, keyed>>

\* quinn knows no route for the DCID and, with a server config installed, may take
\* the packet for the first of a connection.
MaybeFirst(cid, client) ==
  /\ Passes(cid, client)
  /\ cid \notin DOMAIN ep.index
  /\ Installed(client).server_config # NoClient

\* Response or None. Some responses (initial_close) mint a CID of their own.
FeedResponse(cid, client, cids, answered) ==
  /\ Passes(cid, client) /\ cid \notin DOMAIN ep.index
  /\ cids # {} => answered /\ MaybeFirst(cid, client)
  /\ LET handled == Mint(Installed(client), cids)
         queued == IF answered THEN QueueResponse(handled, Sender(cid, client)) ELSE handled
     IN  ep' = ServiceConnections(SweepOrphanCids(queued), NoWork(ep))
  /\ UNCHANGED <<heard, keyed>>

\* admit is reached without a grant.
AdmitsAnyone(client) == TRUE

\* Only a datagram that came with a grant is admitted.
Admits(client) == client # NoClient

\* NewConnection for a datagram that came by its active DCID: feed returns before the
\* sweep, and quinn forgets the incoming connection.
FeedUnadmitted(cid, client) ==
  /\ MaybeFirst(cid, client) /\ ~Admits(client)
  /\ ep' = ServiceConnections(Installed(client), NoWork(ep))
  /\ UNCHANGED <<heard, keyed>>

\* accept fails: it has minted the connection's CID and that of its close packet, and
\* the close packet is dropped.
FeedRefused(cid, client, cids) ==
  /\ MaybeFirst(cid, client) /\ Admits(client)
  /\ ep' = ServiceConnections(SweepOrphanCids(Mint(Installed(client), cids)), NoWork(ep))
  /\ UNCHANGED <<heard, keyed>>

\* quinn makes a connection in slot q with the local CID c.
QuinnConnection(e, q, c) ==
  [Mint(e, {c}) EXCEPT !.slab = @ \cup {q}, !.index = Put(@, c, q)]

\* admit, accept having succeeded, perhaps with a first datagram to send.
Admit(e, q, c, client, early) ==
  LET h == NextHandle(e, q)
      drained == DrainPendingCids(AllocateHandle(QuinnConnection(e, q, c), q), h)
  IN  [drained EXCEPT
        !.connections = Put(@, h, [phase |-> "handshake", dirty |-> FALSE, tx |-> FALSE, armed |-> TRUE]),
        !.client_ids = Put(@, h, client),
        !.outbound = IF early THEN Append(@, "peer") ELSE @]

\* The first datagram cannot complete the handshake, but it may already fail it.
FeedAdmitted(cid, client, q, c, early) ==
  LET h == NextHandle(ep, q)
      admitted == SweepOrphanCids(Admit(Installed(client), q, c, client, early))
  IN  /\ MaybeFirst(cid, client) /\ Admits(client)
      /\ ep.next_generation <= MaxGeneration
      /\ \E s \in {t \in Stimuli(admitted, h, c) : t.does \subseteq {"send", "error"}} :
           ep' = ServiceConnections(admitted, WorkOf(admitted, h, s))
      /\ keyed' = Put(keyed, h, admitted.server_config)
      /\ UNCHANGED heard

HandleDatagram ==
  \/ \E cid \in Cid \cup {NoCid} : DropSilently(cid)
  \/ /\ Len(ep.outbound) < MaxOutbound
     /\ \/ \E cid \in Cid : FeedEvent(cid)
        \/ \E cid \in Cid \cup {NoCid}, client \in Client \cup {NoClient} :
             \/ FeedUnadmitted(cid, client)
             \/ \E cids \in {{}} \cup {{c} : c \in Unused(ep)}, answered \in BOOLEAN :
                  FeedResponse(cid, client, cids, answered)
             \/ \E c, d \in Unused(ep) : FeedRefused(cid, client, {c, d})
             \/ \E q \in Slot \ ep.slab, c \in Unused(ep), early \in BOOLEAN :
                  FeedAdmitted(cid, client, q, c, early)

-----------------------------------------------------------------------------
(* The rest of the interface                                               *)

NextTimeout(e) ==
  IF \E h \in Live(e) : e.connections[h].dirty
  THEN IF e.last_service THEN "past" ELSE e.next_timeout
  ELSE e.next_timeout

\* A drain of the queue that never services the connections.
PolledQueueOnly(e) == e

\* poll_transmit services the connections when the queue has run dry, then takes from it.
Polled(e) == IF e.outbound = <<>> THEN ServiceConnections(e, NoWork(e)) ELSE e

PollTransmit ==
  LET e == Polled(ep)
  IN  /\ ep' = IF e.outbound = <<>> THEN e ELSE [e EXCEPT !.outbound = Tail(@)]
      /\ UNCHANGED <<heard, keyed>>

\* The queue of events is kept per connection: the order between connections, which
\* a HashMap decides, is left open.
PollEvent(h) ==
  /\ ep.events[h] # <<>>
  /\ ep' = [ep EXCEPT !.events[h] = Tail(@)]
  /\ heard' = [heard EXCEPT ![h] = @ \cup ({Head(ep.events[h])} \ {"Stream"})]
  /\ UNCHANGED keyed

\* What the expiry of a timer does: the close timer of a closing connection drains
\* it without an error, the idle timer kills a connection, others retransmit.
Expiries(conn) ==
  IF conn.phase = "closing" THEN {[Quiet EXCEPT !.does = {"drained"}]}
  ELSE {[Quiet EXCEPT !.does = {"error", "drained"}]}
       \cup {s \in {[Quiet EXCEPT !.does = {"send"}]} : Len(ep.outbound) < MaxOutbound}

\* The caller calls when next_timeout says so; the timers of the connections in
\* expired have run out.
HandleTimeout(expired) ==
  /\ NextTimeout(ep) # "none"
  /\ NextTimeout(ep) = "future" => expired # {}
  /\ \A h \in expired : ep.connections[h].armed
  /\ \E work \in [Live(ep) -> UNION {Expiries(ep.connections[h]) : h \in Live(ep)} \cup {Quiet}] :
       /\ \A h \in Live(ep) :
            IF h \in expired THEN work[h] \in Expiries(ep.connections[h]) ELSE work[h] = Quiet
       /\ ep' = ServiceConnections(ep, work)
  /\ UNCHANGED <<heard, keyed>>

\* Any stream operation through conn_mut; it may or may not give quinn something to
\* send.
StreamOp(h, sends) ==
  /\ sends => ep.connections[h].phase # "closing" /\ Len(ep.outbound) < MaxOutbound
  /\ ep' = [ep EXCEPT !.connections[h].dirty = TRUE, !.connections[h].tx = @ \/ sends]
  /\ UNCHANGED <<heard, keyed>>

\* Connection::close through conn_mut: it arms the close timer and has a
\* CONNECTION_CLOSE to send, but does not mark the connection dirty.
Close(h) ==
  /\ ep.connections[h].phase # "closing"
  /\ ep' = [ep EXCEPT !.connections[h].phase = "closing", !.connections[h].tx = TRUE,
                      !.connections[h].armed = TRUE]
  /\ UNCHANGED <<heard, keyed>>

-----------------------------------------------------------------------------
NewEndpoint ==
  [role |-> "server", connections |-> Empty, cids_by_conn |-> Empty, client_ids |-> Empty, by_quinn |-> Empty,
   next_generation |-> 1, issued_cids |-> {}, pending_cids |-> {},
   outbound |-> <<>>, events |-> [h \in Handle |-> <<>>],
   next_timeout |-> "none", last_service |-> FALSE,
   slab |-> {}, index |-> Empty, server_config |-> NoClient]

\* new_client: the one connection it will ever have, dialling.
NewClient(q, c) ==
  LET h == NextHandle(NewEndpoint, q)
      drained == DrainPendingCids(AllocateHandle(QuinnConnection(NewEndpoint, q, c), q), h)
  IN  [drained EXCEPT
        !.connections = Put(@, h, [phase |-> "handshake", dirty |-> FALSE, tx |-> TRUE, armed |-> FALSE]),
        !.role = "client", !.last_service = TRUE]

Init ==
  /\ \/ "server" \in Roles /\ ep = NewEndpoint
     \/ "client" \in Roles /\ \E q \in Slot, c \in Cid : ep = RefreshNextTimeout(NewClient(q, c))
  /\ heard = [h \in Handle |-> {}]
  /\ keyed = [h \in Live(ep) |-> NoClient]

Next ==
  \/ HandleDatagram
  \/ PollTransmit
  \/ \E h \in Handle : PollEvent(h)
  \/ \E expired \in SUBSET Live(ep) : HandleTimeout(expired)
  \/ \E h \in Live(ep), sends \in BOOLEAN : StreamOp(h, sends)
  \/ \E h \in Live(ep) : Close(h)

Spec == Init /\ [][Next]_vars

-----------------------------------------------------------------------------
IsMap(f, D, R) == DOMAIN f \subseteq D /\ f \in [DOMAIN f -> R]

TypeOK ==
  /\ ep.role \in Roles
  /\ IsMap(ep.connections, Handle, Conn)
  /\ IsMap(ep.cids_by_conn, Handle, SUBSET Cid)
  /\ IsMap(ep.client_ids, Handle, Client)
  /\ IsMap(ep.by_quinn, Slot, Handle)
  /\ ep.next_generation \in 1..(MaxGeneration + 1)
  /\ ep.issued_cids \subseteq Cid /\ ep.pending_cids \subseteq Cid
  /\ ep.outbound \in Seq({"conn", "peer", "stranger"})
  /\ ep.events \in [Handle -> Seq({"Connected", "Stream", "ConnectionLost"})]
  /\ ep.next_timeout \in {"none", "future"} /\ ep.last_service \in BOOLEAN
  /\ ep.slab \subseteq Slot
  /\ IsMap(ep.index, Cid, Slot)
  /\ ep.server_config \in Client \cup {NoClient}
  /\ heard \in [Handle -> SUBSET {"Connected", "ConnectionLost"}]
  /\ IsMap(keyed, Handle, Client \cup {NoClient})

(* Between calls every CID in the routing set belongs to exactly one live  *)
(* connection and none is pending: whatever was minted for a connection    *)
(* that was refused or lost is gone again (the leak that cids_by_conn and  *)
(* the sweeps exist to prevent).                                           *)
CidsOwnedByLive ==
  /\ ep.pending_cids = {}
  /\ DOMAIN ep.cids_by_conn = Live(ep)
  /\ ep.issued_cids = UNION {ep.cids_by_conn[h] : h \in Live(ep)}
  /\ \A h, k \in Live(ep) : h # k => ep.cids_by_conn[h] \cap ep.cids_by_conn[k] = {}

(* Every datagram for a live connection finds it and no other, through     *)
(* three tables that change at different times: the routing set past the   *)
(* pre-filter, quinn's routes to its slots, by_quinn to the handle. No     *)
(* live connection is without a route, whatever was retired, reissued or   *)
(* reused meanwhile, and accept cannot hand out a slot still mapped ("live *)
(* Quinn handle unexpectedly reused").                                     *)
LiveReachable ==
  /\ \A h \in Live(ep) :
       /\ RoutedTo(ep, h.quinn) # {}
       /\ RoutedTo(ep, h.quinn) \subseteq OwnedBy(ep, h) \cap ep.issued_cids
       /\ \A c \in OwnedBy(ep, h) \cap DOMAIN ep.index : ep.index[c] = h.quinn
       /\ h.quinn \in DOMAIN ep.by_quinn /\ ep.by_quinn[h.quinn] = h
  /\ DOMAIN ep.by_quinn \subseteq ep.slab \cap {h.quinn : h \in Live(ep)}

(* Nothing is ever queued in answer to someone who has not proved to hold  *)
(* a PSK, and a client endpoint answers nobody.                            *)
SilentToStrangers ==
  \A i \in 1..Len(ep.outbound) :
    ep.outbound[i] # "stranger" /\ (ep.role = "client" => ep.outbound[i] = "conn")

(* "quinn-proto only frees the slab index at that same terminal            *)
(* transition" (src/server.rs): a slot is occupied only as long as its     *)
(* connection is live.                                                     *)
SlotFreedWhenReaped == ep.slab = DOMAIN ep.by_quinn
=============================================================================
