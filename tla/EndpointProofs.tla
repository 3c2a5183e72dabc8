--------------------------- MODULE EndpointProofs ---------------------------
(***************************************************************************)
(* Proofs about Endpoint, for any number of slots, connection IDs, clients *)
(* and generations. The argument has two halves. A servicing pass, the end *)
(* of nearly every call, takes a sound endpoint to a sound one             *)
(* (PassSound); every call hands a sound endpoint to such a pass, enrols a *)
(* connection before it, or leaves the books alone (StepKinds). The second *)
(* classification also carries the refinement of ConnectionLife. The last  *)
(* part is about PollLoop, which drives the endpoint.                      *)
(***************************************************************************)
EXTENDS EndpointLife, PollLoop, TLAPS

-----------------------------------------------------------------------------
(* Endpoints as records                                                    *)

\* An endpoint is the record of its fifteen fields.
Fields ==
  {"role", "connections", "cids_by_conn", "client_ids", "by_quinn", "next_generation",
   "issued_cids", "pending_cids", "outbound", "events", "next_timeout", "last_service",
   "slab", "index", "server_config"}
Shape(e) == e = [f \in Fields |-> e[f]]

\* What a call leaves alone.
Same(e, s, changed) == \A f \in Fields \ changed : s[f] = e[f]

\* TypeOK of an endpoint.
Typed(e) ==
  /\ e.role \in Roles
  /\ IsMap(e.connections, Handle, Conn)
  /\ IsMap(e.cids_by_conn, Handle, SUBSET Cid)
  /\ IsMap(e.client_ids, Handle, Client)
  /\ IsMap(e.by_quinn, Slot, Handle)
  /\ e.next_generation \in 1..(MaxGeneration + 1)
  /\ e.issued_cids \subseteq Cid /\ e.pending_cids \subseteq Cid
  /\ e.outbound \in Seq({"conn", "peer", "stranger"})
  /\ e.events \in [Handle -> Seq({"Connected", "Stream", "ConnectionLost"})]
  /\ e.next_timeout \in {"none", "future"} /\ e.last_service \in BOOLEAN
  /\ e.slab \subseteq Slot
  /\ IsMap(e.index, Cid, Slot)
  /\ e.server_config \in Client \cup {NoClient}

-----------------------------------------------------------------------------
(* The books of an endpoint between two calls                              *)

\* Who owns which CID, which slot is whose, and where quinn's routes lead.
Books(e) ==
  /\ e.pending_cids = {}
  /\ DOMAIN e.cids_by_conn = Live(e)
  /\ e.issued_cids = UNION {e.cids_by_conn[h] : h \in Live(e)}
  /\ \A h, k \in Live(e) : h # k => e.cids_by_conn[h] \cap e.cids_by_conn[k] = {}
  /\ \A h \in Live(e) : h.quinn \in DOMAIN e.by_quinn /\ e.by_quinn[h.quinn] = h
  /\ \A q \in DOMAIN e.by_quinn : q \in e.slab /\ \E h \in Live(e) : h.quinn = q
  /\ \A h \in Live(e) : \E c \in DOMAIN e.index : e.index[c] = h.quinn
  /\ \A c \in DOMAIN e.index :
       /\ e.index[c] \in e.slab
       /\ \A h \in Live(e) : e.index[c] = h.quinn <=> c \in e.cids_by_conn[h]
  /\ \A h \in Live(e) : h.generation < e.next_generation /\ e.connections[h].phase # "drained"

\* What a servicing pass may be given to do.
Fits(e, work) ==
  /\ work \in [Live(e) -> Stimulus]
  /\ \A h \in Live(e) :
       /\ work[h].fresh \cap (e.issued_cids \cup DOMAIN e.index) = {}
       /\ \A k \in Live(e) : k # h => work[h].fresh \cap work[k].fresh = {}
       /\ "drained" \in work[h].does => work[h].fresh = {}
       /\ work[h].retired \subseteq RoutedTo(e, h.quinn)
       /\ RoutedTo(e, h.quinn) \ work[h].retired # {}

\* The connections that a pass ends, and the slots it frees.
Dies(work, h) == "error" \in work[h].does \/ "drained" \in work[h].does
Freed(e, work) == {h.quinn : h \in {k \in Live(e) : "drained" \in work[k].does}}

\* Routing the endpoint events gives every connection the CIDs it asked for, frees the
\* slots of the drained ones and leaves nothing pending.
LEMMA RouteFacts ==
  ASSUME NEW e, Shape(e), Typed(e), Books(e), NEW work, Fits(e, work)
  PROVE  LET r == RouteEndpointEvents(e, work) IN
    /\ Shape(r)
    /\ Same(e, r, {"issued_cids", "pending_cids", "cids_by_conn", "index", "slab"})
    /\ r.issued_cids = e.issued_cids \cup UNION {work[h].fresh : h \in Live(e)}
    /\ r.pending_cids = {}
    /\ r.cids_by_conn = [h \in Live(e) |-> e.cids_by_conn[h] \cup work[h].fresh]
    /\ r.slab = e.slab \ Freed(e, work)
<1> DEFINE asking == {h \in Live(e) : \/ work[h].fresh # {} \/ work[h].retired # {}
                                      \/ "drained" \in work[h].does}
           r == RouteEndpointEvents(e, work)
<1>1. CASE asking = {}
  <2>1. r = e
    BY <1>1 DEF RouteEndpointEvents
  <2>2. \A h \in Live(e) : work[h].fresh = {} /\ work[h].retired = {} /\ "drained" \notin work[h].does
    BY <1>1
  <2>3. e.cids_by_conn = [h \in Live(e) |-> e.cids_by_conn[h] \cup work[h].fresh]
    <3>1. e.cids_by_conn = [h \in Live(e) |-> e.cids_by_conn[h]]
      BY DEF Books, Typed, IsMap
    <3>2. \A h \in Live(e) : e.cids_by_conn[h] = e.cids_by_conn[h] \cup work[h].fresh
      BY <2>2
    <3> QED BY <3>1, <3>2
  <2> QED BY <2>1, <2>2, <2>3 DEF Books, Same, Freed
<1>2. CASE asking # {}
  <2> DEFINE taken == [h \in asking |-> work[h].fresh \cup
                                         IF h = (CHOOSE k \in asking : TRUE) THEN e.pending_cids ELSE {}]
             minted == UNION {work[h].fresh : h \in asking}
             freed == {h.quinn : h \in {k \in asking : "drained" \in work[k].does}}
             owned == [h \in DOMAIN e.cids_by_conn \cup {k \in asking : taken[k] # {}} |->
                         OwnedBy(e, h) \cup IF h \in asking THEN taken[h] ELSE {}]
  <2>1. /\ Shape(r)
        /\ Same(e, r, {"issued_cids", "pending_cids", "cids_by_conn", "index", "slab"})
        /\ r.issued_cids = e.issued_cids \cup minted
        /\ r.pending_cids = {}
        /\ r.cids_by_conn = owned
        /\ r.slab = e.slab \ freed
    BY <1>2, ZenonT(40) DEF RouteEndpointEvents, Shape, Same, Fields
  <2>2. minted = UNION {work[h].fresh : h \in Live(e)}
    OBVIOUS
  <2>3. freed = Freed(e, work)
    BY DEF Freed
  <2>4. owned = [h \in Live(e) |-> e.cids_by_conn[h] \cup work[h].fresh]
    <3>1. \A h \in asking : taken[h] = work[h].fresh
      BY DEF Books
    <3> HIDE DEF taken
    <3>2. \A h \in Live(e) : h \notin asking => work[h].fresh = {}
      OBVIOUS
    <3> QED BY <3>1, <3>2 DEF Books, OwnedBy
  <2> QED BY <2>1, <2>2, <2>3, <2>4
<1> QED BY <1>1, <1>2

\* quinn's routes after the endpoint events: an old one that was neither retired nor
\* freed, or one to the slot of the connection that asked for it.
LEMMA RouteIndex ==
  ASSUME NEW e, Shape(e), Typed(e), Books(e), NEW work, Fits(e, work)
  PROVE  LET r == RouteEndpointEvents(e, work) IN
    /\ IsMap(r.index, Cid, Slot)
    /\ \A c \in DOMAIN r.index :
         \/ /\ c \in DOMAIN e.index /\ r.index[c] = e.index[c]
            /\ e.index[c] \notin Freed(e, work)
         \/ \E h \in Live(e) : c \in work[h].fresh /\ r.index[c] = h.quinn
    /\ \A c \in DOMAIN e.index :
         /\ e.index[c] \notin Freed(e, work)
         /\ \A h \in Live(e) : c \notin work[h].retired
         => c \in DOMAIN r.index /\ r.index[c] = e.index[c]
<1> DEFINE asking == {h \in Live(e) : \/ work[h].fresh # {} \/ work[h].retired # {}
                                      \/ "drained" \in work[h].does}
           r == RouteEndpointEvents(e, work)
           minted == UNION {work[h].fresh : h \in asking}
           retired == UNION {work[h].retired : h \in asking}
           freed == {h.quinn : h \in {k \in asking : "drained" \in work[k].does}}
           kept == {c \in DOMAIN e.index \ retired : e.index[c] \notin freed}
           asker(c) == CHOOSE h \in asking : c \in work[h].fresh
           routes == [c \in kept \cup minted |->
                        IF c \in minted THEN asker(c).quinn ELSE e.index[c]]
<1>1. freed = Freed(e, work)
  BY DEF Freed
<1>2. \A c \in minted : asker(c) \in asking /\ c \in work[asker(c)].fresh
  OBVIOUS
<1>3. \A c \in minted : c \in Cid /\ c \notin DOMAIN e.index
  BY DEF Fits, Stimulus
<1>4. \A h \in Live(e) : h \in Handle /\ h.quinn \in Slot
  BY DEF Typed, IsMap, Live, Handle
<1>5. CASE asking = {}
  <2>1. r = e
    BY <1>5 DEF RouteEndpointEvents
  <2>2. Freed(e, work) = {}
    BY <1>5 DEF Freed
  <2> QED BY <2>1, <2>2 DEF Typed
<1>6. CASE asking # {}
  <2>1. r.index = routes
    BY <1>6 DEF RouteEndpointEvents, Shape, Fields
  <2> HIDE DEF asker, freed
  <2>2. DOMAIN routes = kept \cup minted
    OBVIOUS
  <2>3. ASSUME NEW c \in kept \cup minted
        PROVE  \/ c \in DOMAIN e.index /\ routes[c] = e.index[c] /\ e.index[c] \notin freed
               \/ asker(c) \in Live(e) /\ c \in work[asker(c)].fresh /\ routes[c] = asker(c).quinn
    <3>1. CASE c \in minted
      BY <3>1, <1>2
    <3>2. CASE c \notin minted
      BY <3>2, <1>3
    <3> QED BY <3>1, <3>2
  <2>4. ASSUME NEW c \in DOMAIN e.index, e.index[c] \notin freed,
               \A h \in Live(e) : c \notin work[h].retired
        PROVE  c \in kept \cup minted /\ routes[c] = e.index[c]
    BY <2>4, <1>3
  <2>5. \A c \in kept \cup minted : c \in Cid /\ routes[c] \in Slot
    BY <1>3, <1>4, <2>3 DEF Typed, IsMap
  <2> HIDE DEF routes, kept, minted
  <2>6. IsMap(routes, Cid, Slot)
    <3>1. routes \in [kept \cup minted -> Slot]
      BY <2>5 DEF routes
    <3> QED BY <3>1, <2>2, <2>5 DEF IsMap
  <2> QED BY <1>1, <2>1, <2>2, <2>3, <2>4, <2>6
<1> QED BY <1>5, <1>6

\* What a pass makes of a connection, and whether anything is sent.
Serviced(e, work, h) == Flushed(Settled(e.connections[h], work[h].does))
Sends(e, work) == \E h \in Live(e) : Settled(e.connections[h], work[h].does).tx

\* What polling the connections does to each field.
LEMMA PollFacts ==
  ASSUME NEW e, Shape(e), NEW work
  PROVE  LET p == PollConnections(e, work) IN
    /\ Shape(p)
    /\ Same(e, p, {"connections", "events", "outbound"})
    /\ p.connections = [h \in Live(e) |-> Serviced(e, work, h)]
    /\ p.events = [h \in Handle |-> IF h \in Live(e) THEN e.events[h] \o Progress(work[h].does)
                                     ELSE e.events[h]]
    /\ p.outbound = IF Sends(e, work) THEN Append(e.outbound, "conn") ELSE e.outbound
<1> DEFINE settled == [h \in Live(e) |-> Settled(e.connections[h], work[h].does)]
           p == PollConnections(e, work)
<1>1. /\ Shape(p)
      /\ Same(e, p, {"connections", "events", "outbound"})
      /\ p.connections = [h \in Live(e) |-> Flushed(settled[h])]
      /\ p.events = [h \in Handle |-> IF h \in Live(e) THEN e.events[h] \o Progress(work[h].does)
                                       ELSE e.events[h]]
      /\ p.outbound = IF \E h \in Live(e) : settled[h].tx THEN Append(e.outbound, "conn") ELSE e.outbound
  BY DEF PollConnections, Shape, Same, Fields
<1>2. \A h \in Live(e) : settled[h] = Settled(e.connections[h], work[h].does)
  OBVIOUS
<1> HIDE DEF settled
<1> QED BY <1>1, <1>2 DEF Serviced, Sends

\* What reaping the lost connections does to each field.
LEMMA ReapFacts ==
  ASSUME NEW e, Shape(e), NEW lost
  PROVE  LET s == Reap(e, lost) IN
    /\ Shape(s)
    /\ Same(e, s, {"connections", "by_quinn", "client_ids", "events", "issued_cids", "cids_by_conn"})
    /\ s.connections = Without(e.connections, lost)
    /\ s.by_quinn = Without(e.by_quinn, {h.quinn : h \in lost})
    /\ s.client_ids = Without(e.client_ids, lost)
    /\ s.events = [h \in Handle |-> IF h \in lost THEN Append(e.events[h], "ConnectionLost")
                                     ELSE e.events[h]]
    /\ s.issued_cids = e.issued_cids \ UNION {OwnedBy(e, h) : h \in lost}
    /\ s.cids_by_conn = Without(e.cids_by_conn, lost)
<1> DEFINE told == [h \in Handle |-> IF h \in lost THEN Append(e.events[h], "ConnectionLost")
                                      ELSE e.events[h]]
           slots == {h.quinn : h \in lost}
           r == [e EXCEPT !.connections = Without(@, lost), !.by_quinn = Without(@, slots),
                          !.client_ids = Without(@, lost), !.events = told]
           gone == UNION {OwnedBy(e, h) : h \in lost}
           s == Reap(e, lost)
<1>1. s = PruneConnectionCids(r, lost)
  BY DEF Reap
<1> HIDE DEF told, slots
<1>2. /\ Shape(r) /\ Same(e, r, {"connections", "by_quinn", "client_ids", "events"})
      /\ r.connections = Without(e.connections, lost) /\ r.by_quinn = Without(e.by_quinn, slots)
      /\ r.client_ids = Without(e.client_ids, lost) /\ r.events = told
  BY DEF Shape, Same, Fields
<1> HIDE DEF r, s
<1>3. r.issued_cids = e.issued_cids /\ r.cids_by_conn = e.cids_by_conn
  BY <1>2 DEF Same, Fields
<1>4. UNION {OwnedBy(r, h) : h \in lost} = gone
  BY <1>3 DEF OwnedBy
<1> HIDE DEF gone
<1>5. s = [r EXCEPT !.issued_cids = @ \ gone, !.cids_by_conn = Without(@, lost)]
  BY <1>1, <1>4 DEF PruneConnectionCids
<1>6. /\ Shape(s) /\ Same(r, s, {"issued_cids", "cids_by_conn"})
      /\ s.issued_cids = r.issued_cids \ gone /\ s.cids_by_conn = Without(r.cids_by_conn, lost)
  BY <1>2, <1>5 DEF Shape, Same, Fields
<1>7. /\ s.connections = r.connections /\ s.by_quinn = r.by_quinn
      /\ s.client_ids = r.client_ids /\ s.events = r.events
      /\ Same(e, s, {"connections", "by_quinn", "client_ids", "events", "issued_cids", "cids_by_conn"})
  BY <1>2, <1>6 DEF Same, Fields
<1> QED BY <1>2, <1>3, <1>6, <1>7 DEF s, told, slots, gone

\* What the sweep of orphaned CIDs does to each field.
LEMMA SweepFacts ==
  ASSUME NEW e, Shape(e)
  PROVE  LET s == SweepOrphanCids(e) IN
    /\ Shape(s)
    /\ Same(e, s, {"issued_cids", "pending_cids"})
    /\ s.issued_cids = e.issued_cids \ e.pending_cids
    /\ s.pending_cids = {}
BY DEF SweepOrphanCids, Shape, Same, Fields

\* The deadline is recomputed from the connections' timers, nothing else.
LEMMA RefreshFacts ==
  ASSUME NEW e, Shape(e)
  PROVE  LET s == RefreshNextTimeout(e) IN
    /\ Shape(s)
    /\ Same(e, s, {"next_timeout"})
    /\ s.next_timeout = IF \E h \in Live(e) : e.connections[h].armed THEN "future" ELSE "none"
BY DEF RefreshNextTimeout, Shape, Same, Fields

\* The fields that the books are not about.
Aside == {"role", "client_ids", "outbound", "events", "next_timeout", "last_service", "server_config"}

\* The books do not depend on queues, deadlines, roles or configurations.
LEMMA BooksFrame ==
  ASSUME NEW e, NEW s, Books(e), Same(e, s, Aside)
  PROVE  /\ Books(s)
         /\ \A work : Fits(e, work) => Fits(s, work)
<1>1. /\ s.pending_cids = e.pending_cids /\ s.issued_cids = e.issued_cids
      /\ s.cids_by_conn = e.cids_by_conn /\ s.by_quinn = e.by_quinn
      /\ s.connections = e.connections /\ s.slab = e.slab /\ s.index = e.index
      /\ s.next_generation = e.next_generation
  BY DEF Same, Fields, Aside
<1>2. Live(s) = Live(e) /\ \A q : RoutedTo(s, q) = RoutedTo(e, q)
  BY <1>1 DEF Live, RoutedTo
<1>3. Books(s)
  BY <1>1, <1>2 DEF Books
<1>4. \A work : Fits(e, work) => Fits(s, work)
  BY <1>1, <1>2 DEF Fits
<1> QED BY <1>3, <1>4

\* A connection is reaped by a pass exactly if quinn failed or drained it, and no other
\* one has drained.
LEMMA ServicedPhase ==
  ASSUME NEW e, Typed(e), Books(e), NEW work, Fits(e, work), NEW h \in Live(e)
  PROVE  /\ Serviced(e, work, h) \in Conn
         /\ Lost(Serviced(e, work, h), work[h].does) <=> Dies(work, h)
         /\ ~Dies(work, h) => Serviced(e, work, h).phase # "drained"
<1>1. e.connections[h] \in Conn /\ e.connections[h].phase # "drained"
  BY DEF Typed, IsMap, Live, Books
<1> DEFINE does == work[h].does
           conn == e.connections[h]
           st == Settled(conn, does)
<1> HIDE DEF does, conn
<1>2. /\ st \in Conn
      /\ st.phase = IF "drained" \in does THEN "drained"
                    ELSE IF "connected" \in does THEN "open" ELSE conn.phase
  BY <1>1 DEF Settled, Conn, Phase, conn
<1> HIDE DEF st
<1>3. /\ Flushed(st) \in Conn
      /\ Flushed(st).phase = st.phase
  BY <1>2 DEF Flushed, Conn
<1>4. Serviced(e, work, h) = Flushed(st)
  BY DEF Serviced, st, conn, does
<1> QED BY <1>1, <1>2, <1>3, <1>4 DEF Lost, Dies, does, conn

Survivors(e, work) == {h \in Live(e) : ~Dies(work, h)}
Casualties(e, work) == {h \in Live(e) : Dies(work, h)}

\* What a servicing pass makes of every field.
ServiceResult(e, work, s) ==
  LET lost == Casualties(e, work) IN
    /\ Shape(s)
    /\ s.role = e.role /\ s.next_generation = e.next_generation /\ s.server_config = e.server_config
    /\ s.connections = [h \in Survivors(e, work) |-> Serviced(e, work, h)]
    /\ s.cids_by_conn = [h \in Survivors(e, work) |-> e.cids_by_conn[h] \cup work[h].fresh]
    /\ s.client_ids = Without(e.client_ids, lost)
    /\ s.by_quinn = Without(e.by_quinn, {h.quinn : h \in lost})
    /\ s.issued_cids = (e.issued_cids \cup UNION {work[h].fresh : h \in Live(e)})
                         \ UNION {e.cids_by_conn[h] \cup work[h].fresh : h \in lost}
    /\ s.pending_cids = {}
    /\ s.outbound = IF Sends(e, work) THEN Append(e.outbound, "conn") ELSE e.outbound
    /\ s.events = [h \in Handle |->
                     IF h \in lost THEN Append(e.events[h] \o Progress(work[h].does), "ConnectionLost")
                     ELSE IF h \in Live(e) THEN e.events[h] \o Progress(work[h].does)
                     ELSE e.events[h]]
    /\ s.last_service = TRUE
    /\ s.next_timeout = IF \E h \in Live(s) : s.connections[h].armed THEN "future" ELSE "none"
    /\ s.slab = e.slab \ Freed(e, work)
    /\ IsMap(s.index, Cid, Slot)
    /\ \A c \in DOMAIN s.index :
         \/ /\ c \in DOMAIN e.index /\ s.index[c] = e.index[c]
            /\ e.index[c] \notin Freed(e, work)
         \/ \E h \in Live(e) : c \in work[h].fresh /\ s.index[c] = h.quinn
    /\ \A c \in DOMAIN e.index :
         /\ e.index[c] \notin Freed(e, work)
         /\ \A h \in Live(e) : c \notin work[h].retired
         => c \in DOMAIN s.index /\ s.index[c] = e.index[c]

\* A servicing pass, as the composition of its stages, does what ServiceResult says.
LEMMA ServiceFacts ==
  ASSUME NEW e, Shape(e), Typed(e), Books(e), NEW work, Fits(e, work)
  PROVE  ServiceResult(e, work, ServiceConnections(e, work))
<1> DEFINE e0 == [e EXCEPT !.last_service = TRUE]
           r == RouteEndpointEvents(e0, work)
           p == PollConnections(r, work)
           lost == Casualties(e, work)
           reaped == Reap(p, lost)
           swept == SweepOrphanCids(reaped)
           s == RefreshNextTimeout(swept)
           surv == Survivors(e, work)
<1>1. Shape(e0) /\ Same(e, e0, {"last_service"}) /\ e0.last_service = TRUE
  BY DEF Shape, Same, Fields
<1> HIDE DEF e0
<1>2. /\ Same(e, e0, Aside) /\ Live(e0) = Live(e) /\ e0.cids_by_conn = e.cids_by_conn
      /\ e0.connections = e.connections /\ e0.index = e.index
  BY <1>1 DEF Same, Aside, Fields, Live
<1>3. Books(e0) /\ Fits(e0, work)
  BY <1>2, BooksFrame
<1>4. Typed(e0)
  BY <1>1 DEF Same, Fields, Typed
<1>5. Freed(e0, work) = Freed(e, work)
  BY <1>2 DEF Freed
<1>6. /\ Shape(r)
      /\ Same(e0, r, {"issued_cids", "pending_cids", "cids_by_conn", "index", "slab"})
      /\ r.issued_cids = e0.issued_cids \cup UNION {work[h].fresh : h \in Live(e0)}
      /\ r.pending_cids = {}
      /\ r.cids_by_conn = [h \in Live(e0) |-> e0.cids_by_conn[h] \cup work[h].fresh]
      /\ r.slab = e0.slab \ Freed(e0, work)
  BY <1>1, <1>3, <1>4, RouteFacts
<1>7. /\ IsMap(r.index, Cid, Slot)
      /\ \A c \in DOMAIN r.index :
           \/ /\ c \in DOMAIN e.index /\ r.index[c] = e.index[c]
              /\ e.index[c] \notin Freed(e, work)
           \/ \E h \in Live(e) : c \in work[h].fresh /\ r.index[c] = h.quinn
      /\ \A c \in DOMAIN e.index :
           /\ e.index[c] \notin Freed(e, work)
           /\ \A h \in Live(e) : c \notin work[h].retired
           => c \in DOMAIN r.index /\ r.index[c] = e.index[c]
  BY <1>1, <1>2, <1>3, <1>4, <1>5, RouteIndex
<1> HIDE DEF r
<1>8. /\ r.role = e.role /\ r.connections = e.connections /\ r.client_ids = e.client_ids
      /\ r.by_quinn = e.by_quinn /\ r.next_generation = e.next_generation
      /\ r.outbound = e.outbound /\ r.events = e.events /\ r.last_service = TRUE
      /\ r.server_config = e.server_config
      /\ r.issued_cids = e.issued_cids \cup UNION {work[h].fresh : h \in Live(e)}
      /\ r.cids_by_conn = [h \in Live(e) |-> e.cids_by_conn[h] \cup work[h].fresh]
      /\ r.slab = e.slab \ Freed(e, work)
      /\ Live(r) = Live(e)
  BY <1>1, <1>2, <1>5, <1>6 DEF Same, Fields, Live
<1>9. /\ Shape(p)
      /\ Same(r, p, {"connections", "events", "outbound"})
      /\ p.connections = [h \in Live(r) |-> Serviced(r, work, h)]
      /\ p.events = [h \in Handle |-> IF h \in Live(r) THEN r.events[h] \o Progress(work[h].does)
                                       ELSE r.events[h]]
      /\ p.outbound = IF Sends(r, work) THEN Append(r.outbound, "conn") ELSE r.outbound
  BY <1>6, PollFacts
<1> HIDE DEF p
<1>10. (\A h \in Live(e) : Serviced(r, work, h) = Serviced(e, work, h)) /\ Sends(r, work) = Sends(e, work)
  BY <1>8 DEF Serviced, Sends
<1>11. /\ p.connections = [h \in Live(e) |-> Serviced(e, work, h)]
       /\ Live(p) = Live(e)
  BY <1>8, <1>9, <1>10 DEF Live
<1>12. {h \in Live(p) : Lost(p.connections[h], work[h].does)} = lost
  <2>1. \A h \in Live(e) : p.connections[h] = Serviced(e, work, h)
    BY <1>11
  <2> QED BY <1>11, <2>1, ServicedPhase DEF Casualties
<1>13. ServiceConnections(e, work) = s
  BY <1>12 DEF ServiceConnections, e0, r, p
<1> HIDE DEF lost
<1>14. /\ Shape(reaped)
       /\ Same(p, reaped, {"connections", "by_quinn", "client_ids", "events", "issued_cids", "cids_by_conn"})
       /\ reaped.connections = Without(p.connections, lost)
       /\ reaped.by_quinn = Without(p.by_quinn, {h.quinn : h \in lost})
       /\ reaped.client_ids = Without(p.client_ids, lost)
       /\ reaped.events = [h \in Handle |-> IF h \in lost THEN Append(p.events[h], "ConnectionLost")
                                             ELSE p.events[h]]
       /\ reaped.issued_cids = p.issued_cids \ UNION {OwnedBy(p, h) : h \in lost}
       /\ reaped.cids_by_conn = Without(p.cids_by_conn, lost)
  BY <1>9, ReapFacts
<1> HIDE DEF reaped
<1>15. /\ Shape(swept)
       /\ Same(reaped, swept, {"issued_cids", "pending_cids"})
       /\ swept.issued_cids = reaped.issued_cids \ reaped.pending_cids
       /\ swept.pending_cids = {}
  BY <1>14, SweepFacts
<1> HIDE DEF swept
<1>16. /\ Shape(s)
       /\ Same(swept, s, {"next_timeout"})
       /\ s.next_timeout = IF \E h \in Live(swept) : swept.connections[h].armed THEN "future" ELSE "none"
  BY <1>15, RefreshFacts
<1> HIDE DEF s
<1>17. /\ p.role = r.role /\ p.next_generation = r.next_generation /\ p.server_config = r.server_config
       /\ p.cids_by_conn = r.cids_by_conn /\ p.client_ids = r.client_ids /\ p.by_quinn = r.by_quinn
       /\ p.issued_cids = r.issued_cids /\ p.pending_cids = r.pending_cids
       /\ p.last_service = r.last_service /\ p.slab = r.slab /\ p.index = r.index
  BY <1>9 DEF Same, Fields
<1>18. /\ reaped.role = p.role /\ reaped.next_generation = p.next_generation
       /\ reaped.server_config = p.server_config /\ reaped.pending_cids = p.pending_cids
       /\ reaped.outbound = p.outbound /\ reaped.last_service = p.last_service
       /\ reaped.slab = p.slab /\ reaped.index = p.index
  BY <1>14 DEF Same, Fields
<1>19. /\ s.role = reaped.role /\ s.next_generation = reaped.next_generation
       /\ s.server_config = reaped.server_config /\ s.connections = reaped.connections
       /\ s.cids_by_conn = reaped.cids_by_conn /\ s.client_ids = reaped.client_ids
       /\ s.by_quinn = reaped.by_quinn /\ s.outbound = reaped.outbound /\ s.events = reaped.events
       /\ s.last_service = reaped.last_service /\ s.slab = reaped.slab /\ s.index = reaped.index
       /\ s.issued_cids = reaped.issued_cids \ reaped.pending_cids /\ s.pending_cids = {}
       /\ s.connections = swept.connections /\ Live(s) = Live(swept)
  BY <1>15, <1>16 DEF Same, Fields, Live
<1>20. s.connections = [h \in surv |-> Serviced(e, work, h)]
  BY <1>11, <1>14, <1>19 DEF Without, Survivors, Casualties, lost
<1>21. s.cids_by_conn = [h \in surv |-> e.cids_by_conn[h] \cup work[h].fresh]
  BY <1>8, <1>14, <1>17, <1>19 DEF Without, Survivors, Casualties, lost
<1>22. s.issued_cids = (e.issued_cids \cup UNION {work[h].fresh : h \in Live(e)})
                         \ UNION {e.cids_by_conn[h] \cup work[h].fresh : h \in lost}
  <2>1. \A h \in lost : OwnedBy(p, h) = e.cids_by_conn[h] \cup work[h].fresh
    BY <1>8, <1>17 DEF OwnedBy, lost, Casualties
  <2>2. reaped.pending_cids = {}
    BY <1>6, <1>17, <1>18
  <2> QED BY <1>8, <1>14, <1>17, <1>19, <2>1, <2>2
<1>23. s.events = [h \in Handle |->
                     IF h \in lost THEN Append(e.events[h] \o Progress(work[h].does), "ConnectionLost")
                     ELSE IF h \in Live(e) THEN e.events[h] \o Progress(work[h].does)
                     ELSE e.events[h]]
  <2>1. \A h \in Handle : p.events[h] = IF h \in Live(e) THEN e.events[h] \o Progress(work[h].does)
                                         ELSE e.events[h]
    BY <1>8, <1>9
  <2>2. \A h \in lost : h \in Live(e)
    BY DEF lost, Casualties
  <2> QED BY <1>14, <1>19, <2>1, <2>2
<1>24. s.outbound = IF Sends(e, work) THEN Append(e.outbound, "conn") ELSE e.outbound
  BY <1>8, <1>9, <1>10, <1>18, <1>19
<1> HIDE DEF surv
<1>25. s.index = r.index /\ s.slab = r.slab /\ s.last_service = TRUE
  BY <1>8, <1>17, <1>18, <1>19
<1>26. /\ s.role = e.role /\ s.next_generation = e.next_generation /\ s.server_config = e.server_config
       /\ s.client_ids = Without(e.client_ids, lost)
       /\ s.by_quinn = Without(e.by_quinn, {h.quinn : h \in lost})
       /\ s.slab = e.slab \ Freed(e, work)
       /\ s.pending_cids = {}
  BY <1>8, <1>14, <1>17, <1>18, <1>19
<1>27. s.next_timeout = IF \E h \in Live(s) : s.connections[h].armed THEN "future" ELSE "none"
  BY <1>16, <1>19
<1>28. /\ IsMap(s.index, Cid, Slot)
       /\ \A c \in DOMAIN s.index :
            \/ /\ c \in DOMAIN e.index /\ s.index[c] = e.index[c]
               /\ e.index[c] \notin Freed(e, work)
            \/ \E h \in Live(e) : c \in work[h].fresh /\ s.index[c] = h.quinn
       /\ \A c \in DOMAIN e.index :
            /\ e.index[c] \notin Freed(e, work)
            /\ \A h \in Live(e) : c \notin work[h].retired
            => c \in DOMAIN s.index /\ s.index[c] = e.index[c]
  BY <1>7, <1>25
<1>29. ServiceResult(e, work, s)
  BY <1>16, <1>20, <1>21, <1>22, <1>23, <1>24, <1>25, <1>26, <1>27, <1>28
     DEF surv, lost, ServiceResult
<1> QED BY <1>13, <1>29

\* A servicing pass keeps the types.
LEMMA ServiceTyped ==
  ASSUME NEW e, Shape(e), Typed(e), Books(e), NEW work, Fits(e, work),
         NEW s, ServiceResult(e, work, s)
  PROVE  Typed(s)
<1> USE DEF ServiceResult
<1>1. Survivors(e, work) \subseteq Live(e) /\ Casualties(e, work) \subseteq Live(e) /\ Live(e) \subseteq Handle
  BY DEF Survivors, Casualties, Typed, IsMap, Live
<1>2. IsMap(s.connections, Handle, Conn)
  BY <1>1, ServicedPhase DEF IsMap
<1>3. IsMap(s.cids_by_conn, Handle, SUBSET Cid)
  <2>1. \A h \in Live(e) : e.cids_by_conn[h] \cup work[h].fresh \in SUBSET Cid
    BY DEF Typed, IsMap, Books, Fits, Stimulus
  <2> QED BY <1>1, <2>1 DEF IsMap
<1>4. IsMap(s.client_ids, Handle, Client) /\ IsMap(s.by_quinn, Slot, Handle)
  BY DEF Typed, IsMap, Without
<1>5. s.issued_cids \subseteq Cid /\ s.pending_cids \subseteq Cid /\ s.slab \subseteq Slot
  BY DEF Typed, Fits, Stimulus
<1>6. s.outbound \in Seq({"conn", "peer", "stranger"})
  BY DEF Typed
<1>7. s.events \in [Handle -> Seq({"Connected", "Stream", "ConnectionLost"})]
  <2> DEFINE E == {"Connected", "Stream", "ConnectionLost"}
  <2>1. \A does : Progress(does) \in Seq(E)
    <3>1. <<>> \in Seq(E) /\ <<"Connected">> \in Seq(E) /\ <<"Stream">> \in Seq(E)
      OBVIOUS
    <3> HIDE DEF E
    <3> QED BY <3>1 DEF Progress
  <2>2. \A h \in Handle : e.events[h] \in Seq(E)
    BY DEF Typed
  <2>3. "ConnectionLost" \in E
    OBVIOUS
  <2> HIDE DEF E
  <2>4. \A h \in Handle : e.events[h] \o Progress(work[h].does) \in Seq(E)
    BY <2>1, <2>2
  <2>5. \A h \in Handle : Append(e.events[h] \o Progress(work[h].does), "ConnectionLost") \in Seq(E)
    BY <2>3, <2>4
  <2>6. s.events \in [Handle -> Seq(E)]
    BY <2>2, <2>4, <2>5
  <2> QED BY <2>6 DEF E
<1>8. /\ s.next_timeout \in {"none", "future"} /\ s.last_service \in BOOLEAN
      /\ s.role \in Roles /\ s.next_generation \in 1..(MaxGeneration + 1)
      /\ s.server_config \in Client \cup {NoClient}
      /\ IsMap(s.index, Cid, Slot)
  BY DEF Typed
<1> HIDE DEF ServiceResult
<1> QED BY <1>2, <1>3, <1>4, <1>5, <1>6, <1>7, <1>8 DEF Typed

\* Live connections are in different slots.
LEMMA SlotsDiffer ==
  ASSUME NEW e, Books(e), NEW h \in Live(e), NEW k \in Live(e), h.quinn = k.quinn
  PROVE  h = k
BY DEF Books

\* A servicing pass keeps the books, whatever CIDs are asked for and retired and
\* whichever connections end in it.
LEMMA ServiceBooks ==
  ASSUME NEW e, Shape(e), Typed(e), Books(e), NEW work, Fits(e, work),
         NEW s, ServiceResult(e, work, s)
  PROVE  Books(s)
<1> DEFINE surv == Survivors(e, work)
           lost == Casualties(e, work)
           owned(h) == e.cids_by_conn[h] \cup work[h].fresh
<1>1. /\ surv \cup lost = Live(e) /\ surv \cap lost = {}
      /\ \A h \in surv : ~Dies(work, h)
      /\ \A h \in lost : Dies(work, h)
  BY DEF Survivors, Casualties
<1>2. Live(s) = surv /\ \A h \in surv : s.connections[h] = Serviced(e, work, h)
  BY DEF Live, ServiceResult
<1>3. DOMAIN s.cids_by_conn = surv /\ \A h \in surv : s.cids_by_conn[h] = owned(h)
  BY DEF ServiceResult
<1>4. s.issued_cids = (e.issued_cids \cup UNION {work[h].fresh : h \in Live(e)})
                         \ UNION {owned(h) : h \in lost}
  BY DEF ServiceResult
<1>5. s.by_quinn = Without(e.by_quinn, {h.quinn : h \in lost})
  BY DEF ServiceResult
<1>6. /\ s.slab = e.slab \ Freed(e, work) /\ s.next_generation = e.next_generation
      /\ s.pending_cids = {}
  BY DEF ServiceResult
<1>7. /\ \A c \in DOMAIN s.index :
           \/ /\ c \in DOMAIN e.index /\ s.index[c] = e.index[c]
              /\ e.index[c] \notin Freed(e, work)
           \/ \E h \in Live(e) : c \in work[h].fresh /\ s.index[c] = h.quinn
      /\ \A c \in DOMAIN e.index :
           /\ e.index[c] \notin Freed(e, work)
           /\ \A h \in Live(e) : c \notin work[h].retired
           => c \in DOMAIN s.index /\ s.index[c] = e.index[c]
  BY DEF ServiceResult
<1> HIDE DEF surv, lost
<1>8. \A h, k \in Live(e) : h # k => owned(h) \cap owned(k) = {}
  <2> SUFFICES ASSUME NEW h \in Live(e), NEW k \in Live(e), h # k, NEW c \in owned(h), c \in owned(k)
               PROVE  FALSE
    OBVIOUS
  <2>1. \A g \in Live(e) : e.cids_by_conn[g] \subseteq e.issued_cids
    BY DEF Books
  <2> QED BY <2>1 DEF Books, Fits
<1>9. s.issued_cids = UNION {s.cids_by_conn[h] : h \in Live(s)}
  <2>1. \A c : c \in e.issued_cids \cup UNION {work[h].fresh : h \in Live(e)}
                 <=> \E h \in Live(e) : c \in owned(h)
    BY DEF Books
  <2> HIDE DEF owned
  <2>2. \A c : c \in s.issued_cids <=> \E h \in surv : c \in owned(h)
    BY <1>1, <1>8, <1>4, <2>1
  <2> QED BY <1>2, <1>3, <2>2
<1>10. \A h \in surv : h.quinn \in DOMAIN s.by_quinn /\ s.by_quinn[h.quinn] = h
  <2> TAKE h \in surv
  <2>1. h \in Live(e) /\ h.quinn \notin {k.quinn : k \in lost}
    BY <1>1, SlotsDiffer
  <2> QED BY <1>5, <2>1 DEF Books, Without
<1>11. Freed(e, work) \subseteq {h.quinn : h \in lost}
  BY DEF Freed, lost, Casualties, Dies
<1>12. \A q \in DOMAIN s.by_quinn : q \in s.slab /\ \E h \in surv : h.quinn = q
  <2> TAKE q \in DOMAIN s.by_quinn
  <2>1. q \in DOMAIN e.by_quinn /\ q \notin {h.quinn : h \in lost}
    BY <1>5 DEF Without
  <2>2. q \in e.slab /\ \E h \in Live(e) : h.quinn = q
    BY <2>1 DEF Books
  <2> QED BY <1>1, <1>11, <1>6, <2>1, <2>2
<1>13. \A h \in surv : h.quinn \notin Freed(e, work)
  BY <1>1, <1>11, SlotsDiffer
<1>14. ASSUME NEW h \in surv PROVE \E c \in DOMAIN s.index : s.index[c] = h.quinn
  <2>1. PICK c \in DOMAIN e.index : e.index[c] = h.quinn /\ c \notin work[h].retired
    BY <1>1, <1>14 DEF Fits, RoutedTo
  <2>2. \A k \in Live(e) : c \in work[k].retired => k = h
    BY <1>1, <1>14, <2>1, SlotsDiffer DEF Fits, RoutedTo
  <2>3. e.index[c] \notin Freed(e, work) /\ \A k \in Live(e) : c \notin work[k].retired
    BY <1>13, <2>1, <2>2
  <2>4. c \in DOMAIN s.index /\ s.index[c] = e.index[c]
    BY <1>7, <2>1, <2>3
  <2> QED BY <2>1, <2>4
<1>15. ASSUME NEW c \in DOMAIN s.index PROVE s.index[c] \in s.slab
  <2>1. CASE c \in DOMAIN e.index /\ s.index[c] = e.index[c] /\ e.index[c] \notin Freed(e, work)
    BY <1>6, <2>1 DEF Books
  <2>2. ASSUME NEW h \in Live(e), c \in work[h].fresh, s.index[c] = h.quinn
        PROVE  s.index[c] \in s.slab
    <3>1. "drained" \notin work[h].does
      BY <2>2 DEF Fits
    <3>2. h.quinn \notin Freed(e, work)
      BY <3>1, SlotsDiffer DEF Freed
    <3>3. h.quinn \in e.slab
      BY DEF Books
    <3> QED BY <1>6, <2>2, <3>2, <3>3
  <2> QED BY <1>15, <1>7, <2>1, <2>2
<1>16. ASSUME NEW c \in DOMAIN s.index, NEW h \in surv
       PROVE  s.index[c] = h.quinn <=> c \in owned(h)
  <2>1. CASE c \in DOMAIN e.index /\ s.index[c] = e.index[c]
    BY <1>1, <2>1 DEF Books, Fits
  <2>2. ASSUME NEW k \in Live(e), c \in work[k].fresh, s.index[c] = k.quinn
        PROVE  s.index[c] = h.quinn <=> c \in owned(h)
    <3>1. c \notin e.cids_by_conn[h]
      BY <1>1, <2>2 DEF Books, Fits
    <3>2. c \in work[h].fresh <=> h = k
      BY <1>1, <2>2 DEF Fits
    <3>3. h.quinn = k.quinn <=> h = k
      BY <1>1, SlotsDiffer
    <3> QED BY <2>2, <3>1, <3>2, <3>3
  <2> QED BY <1>16, <1>7, <2>1, <2>2
<1>17. \A h \in surv : h.generation < s.next_generation /\ s.connections[h].phase # "drained"
  BY <1>1, <1>2, <1>6, ServicedPhase DEF Books
<1>18. /\ DOMAIN s.cids_by_conn = Live(s)
       /\ \A h, k \in Live(s) : h # k => s.cids_by_conn[h] \cap s.cids_by_conn[k] = {}
  BY <1>1, <1>2, <1>3, <1>8
<1>19. \A c \in DOMAIN s.index :
         /\ s.index[c] \in s.slab
         /\ \A h \in Live(s) : s.index[c] = h.quinn <=> c \in s.cids_by_conn[h]
  BY <1>2, <1>3, <1>15, <1>16
<1> QED BY <1>2, <1>9, <1>10, <1>12, <1>14, <1>17, <1>18, <1>6, <1>19 DEF Books

-----------------------------------------------------------------------------
(* What the calls do before they service the connections                   *)

\* quinn makes a connection, it gets a handle, and the CID minted for it is its own.
LEMMA EnrolFacts ==
  ASSUME NEW e, Shape(e), e.next_generation \in Nat, Books(e), NEW q \in Slot \ e.slab, NEW c \in Unused(e)
  PROVE  LET h == NextHandle(e, q)
             d == DrainPendingCids(AllocateHandle(QuinnConnection(e, q, c), q), h) IN
    /\ Shape(d)
    /\ Same(e, d, {"issued_cids", "pending_cids", "slab", "index", "next_generation",
                   "by_quinn", "cids_by_conn"})
    /\ d.issued_cids = e.issued_cids \cup {c} /\ d.pending_cids = {}
    /\ d.slab = e.slab \cup {q} /\ d.index = Put(e.index, c, q)
    /\ d.next_generation = e.next_generation + 1
    /\ d.by_quinn = Put(e.by_quinn, q, h)
    /\ d.cids_by_conn = Put(e.cids_by_conn, h, {c})
<1> DEFINE h == NextHandle(e, q)
           m == QuinnConnection(e, q, c)
           a == AllocateHandle(m, q)
           d == DrainPendingCids(a, h)
<1>1. h \notin Live(e)
  BY DEF Books, NextHandle
<1>2. /\ Shape(m)
      /\ Same(e, m, {"issued_cids", "pending_cids", "slab", "index"})
      /\ m.issued_cids = e.issued_cids \cup {c} /\ m.pending_cids = e.pending_cids \cup {c}
      /\ m.slab = e.slab \cup {q} /\ m.index = Put(e.index, c, q)
  BY DEF QuinnConnection, Mint, Shape, Same, Fields
<1> HIDE DEF m
<1>3. NextHandle(m, q) = h
  BY <1>2 DEF NextHandle, Same, Fields
<1>4. /\ Shape(a)
      /\ Same(m, a, {"next_generation", "by_quinn"})
      /\ a.next_generation = m.next_generation + 1
      /\ a.by_quinn = Put(m.by_quinn, q, h)
  BY <1>2, <1>3 DEF AllocateHandle, Shape, Same, Fields
<1> HIDE DEF a, h
<1>5. a.pending_cids = {c} /\ a.cids_by_conn = e.cids_by_conn
  BY <1>2, <1>4 DEF Same, Fields, Books
<1>6. OwnedBy(a, h) = {}
  BY <1>1, <1>5 DEF OwnedBy, Books
<1>7. d = [a EXCEPT !.cids_by_conn = Put(@, h, {c}), !.pending_cids = {}]
  BY <1>5, <1>6 DEF DrainPendingCids
<1>8. /\ Shape(d) /\ Same(a, d, {"cids_by_conn", "pending_cids"})
      /\ d.pending_cids = {} /\ d.cids_by_conn = Put(a.cids_by_conn, h, {c})
  BY <1>4, <1>7 DEF Shape, Same, Fields
<1> HIDE DEF d
<1>9. d.cids_by_conn = Put(e.cids_by_conn, h, {c})
  BY <1>5, <1>8
<1>10. /\ d.issued_cids = e.issued_cids \cup {c}
       /\ d.slab = e.slab \cup {q} /\ d.index = Put(e.index, c, q)
       /\ d.next_generation = e.next_generation + 1
       /\ d.by_quinn = Put(e.by_quinn, q, h)
  BY <1>2, <1>4, <1>8 DEF Same, Fields
<1>11. Same(e, d, {"issued_cids", "pending_cids", "slab", "index", "next_generation",
                   "by_quinn", "cids_by_conn"})
  BY <1>2, <1>4, <1>8 DEF Same
<1> QED BY <1>8, <1>9, <1>10, <1>11 DEF d, a, m, h

\* HashMap::insert of a key and a value of the right types.
LEMMA PutIsMap ==
  ASSUME NEW f, NEW D, NEW R, NEW k \in D, NEW v \in R, IsMap(f, D, R)
  PROVE  IsMap(Put(f, k, v), D, R)
BY DEF IsMap, Put

\* An endpoint into which a connection has been enrolled.
Enrolled(e, s, h, c, conn) ==
  /\ s.role \in Roles /\ s.server_config = e.server_config
  /\ s.events = e.events /\ s.next_timeout = e.next_timeout /\ s.last_service \in BOOLEAN
  /\ s.connections = Put(e.connections, h, conn)
  /\ s.issued_cids = e.issued_cids \cup {c} /\ s.pending_cids = {}
  /\ s.slab = e.slab \cup {h.quinn} /\ s.index = Put(e.index, c, h.quinn)
  /\ s.next_generation = e.next_generation + 1
  /\ s.by_quinn = Put(e.by_quinn, h.quinn, h)
  /\ s.cids_by_conn = Put(e.cids_by_conn, h, {c})

\* A connection in a free slot, with an unused CID and the next generation, fits the books.
LEMMA EnrolBooks ==
  ASSUME NEW e, Typed(e), Books(e), NEW q \in Slot \ e.slab, NEW c \in Unused(e),
         NEW h, h = NextHandle(e, q), NEW conn, conn.phase # "drained", NEW s, Enrolled(e, s, h, c, conn)
  PROVE  /\ Books(s)
         /\ h \notin Live(e) /\ Live(s) = Live(e) \cup {h} /\ RoutedTo(s, q) = {c}
         /\ \A k \in Live(e) : s.connections[k] = e.connections[k]
<1>1. h.quinn = q /\ h.generation = e.next_generation
  BY DEF NextHandle
<1>2. h \notin Live(e)
  BY <1>1 DEF Books, Typed
<1>3. Live(s) = Live(e) \cup {h} /\ s.connections[h] = conn
      /\ \A k \in Live(e) : s.connections[k] = e.connections[k]
  <2>1. s.connections = Put(e.connections, h, conn)
    BY DEF Enrolled
  <2> QED BY <1>2, <2>1 DEF Put, Live
<1>4. /\ DOMAIN s.cids_by_conn = Live(s) /\ s.cids_by_conn[h] = {c}
      /\ \A k \in Live(e) : s.cids_by_conn[k] = e.cids_by_conn[k]
  <2>1. s.cids_by_conn = Put(e.cids_by_conn, h, {c}) /\ DOMAIN e.cids_by_conn = Live(e)
    BY DEF Enrolled, Books
  <2> QED BY <1>2, <1>3, <2>1 DEF Put
<1>5. c \notin e.issued_cids /\ c \notin DOMAIN e.index
  BY DEF Unused
<1>6. /\ DOMAIN s.index = DOMAIN e.index \cup {c} /\ s.index[c] = q
      /\ \A d \in DOMAIN e.index : s.index[d] = e.index[d]
  <2>1. s.index = Put(e.index, c, q)
    BY <1>1 DEF Enrolled
  <2> QED BY <1>5, <2>1 DEF Put
<1>7. /\ DOMAIN s.by_quinn = DOMAIN e.by_quinn \cup {q} /\ s.by_quinn[q] = h
      /\ \A p \in DOMAIN e.by_quinn : s.by_quinn[p] = e.by_quinn[p]
  <2>1. q \notin DOMAIN e.by_quinn
    BY DEF Books
  <2>2. s.by_quinn = Put(e.by_quinn, q, h)
    BY <1>1 DEF Enrolled
  <2> QED BY <2>1, <2>2 DEF Put
<1>8. \A k \in Live(e) : k.quinn # q /\ c \notin e.cids_by_conn[k]
  BY <1>5 DEF Books
<1>9. \A d \in DOMAIN e.index : e.index[d] # q
  BY DEF Books
<1>10. s.issued_cids = UNION {s.cids_by_conn[k] : k \in Live(s)}
  <2>1. \A d : d \in s.issued_cids <=> d = c \/ \E k \in Live(e) : d \in e.cids_by_conn[k]
    BY DEF Enrolled, Books
  <2> QED BY <1>3, <1>4, <2>1
<1>11. \A k, l \in Live(s) : k # l => s.cids_by_conn[k] \cap s.cids_by_conn[l] = {}
  BY <1>3, <1>4, <1>8 DEF Books
<1>12. \A k \in Live(s) : k.quinn \in DOMAIN s.by_quinn /\ s.by_quinn[k.quinn] = k
  BY <1>1, <1>3, <1>7, <1>8 DEF Books
<1>13. s.slab = e.slab \cup {q} /\ s.next_generation = e.next_generation + 1 /\ s.pending_cids = {}
  BY <1>1 DEF Enrolled
<1>14. \A p \in DOMAIN s.by_quinn : p \in s.slab /\ \E k \in Live(s) : k.quinn = p
  BY <1>1, <1>3, <1>7, <1>13 DEF Books
<1>15. \A k \in Live(s) : \E d \in DOMAIN s.index : s.index[d] = k.quinn
  BY <1>1, <1>3, <1>6 DEF Books
<1>16. \A d \in DOMAIN s.index :
         /\ s.index[d] \in s.slab
         /\ \A k \in Live(s) : s.index[d] = k.quinn <=> d \in s.cids_by_conn[k]
  <2>1. ASSUME NEW d \in DOMAIN e.index
        PROVE  /\ s.index[d] \in s.slab
               /\ \A k \in Live(s) : s.index[d] = k.quinn <=> d \in s.cids_by_conn[k]
    BY <1>1, <1>3, <1>4, <1>5, <1>6, <1>9, <1>13, <2>1 DEF Books
  <2>2. /\ s.index[c] \in s.slab
        /\ \A k \in Live(s) : s.index[c] = k.quinn <=> c \in s.cids_by_conn[k]
    BY <1>1, <1>3, <1>4, <1>6, <1>8, <1>13
  <2> QED BY <1>6, <2>1, <2>2
<1>17. \A k \in Live(s) : k.generation < s.next_generation /\ s.connections[k].phase # "drained"
  <2>1. \A k \in Live(e) : k \in Handle /\ k.generation \in Nat
    BY BoundAssumption DEF Typed, IsMap, Live, Handle
  <2>2. e.next_generation \in Nat
    BY BoundAssumption DEF Typed
  <2> QED BY <1>1, <1>3, <1>13, <2>1, <2>2 DEF Books
<1>18. RoutedTo(s, q) = {c}
  BY <1>6, <1>9 DEF RoutedTo
<1> QED
  BY <1>2, <1>3, <1>4, <1>10, <1>11, <1>12, <1>13, <1>14, <1>15, <1>16, <1>17, <1>18 DEF Books

\* It has the right types as long as there is a generation left for it.
LEMMA EnrolTyped ==
  ASSUME NEW e, Typed(e), NEW q \in Slot, NEW c \in Cid, e.next_generation <= MaxGeneration,
         NEW h, h = NextHandle(e, q), NEW conn \in Conn, NEW s, Enrolled(e, s, h, c, conn),
         IsMap(s.client_ids, Handle, Client), s.outbound \in Seq({"conn", "peer", "stranger"})
  PROVE  h \in Handle /\ Typed(s)
<1>1. h \in Handle /\ h.quinn = q
  BY BoundAssumption DEF NextHandle, Handle, Typed
<1>2. /\ IsMap(s.connections, Handle, Conn)
      /\ IsMap(s.cids_by_conn, Handle, SUBSET Cid)
      /\ IsMap(s.by_quinn, Slot, Handle)
      /\ IsMap(s.index, Cid, Slot)
  BY <1>1, PutIsMap DEF Enrolled, Typed
<1>3. s.next_generation \in 1..(MaxGeneration + 1)
  BY BoundAssumption DEF Enrolled, Typed
<1>4. /\ s.issued_cids \subseteq Cid /\ s.pending_cids \subseteq Cid /\ s.slab \subseteq Slot
      /\ s.role \in Roles /\ s.server_config \in Client \cup {NoClient}
      /\ s.events \in [Handle -> Seq({"Connected", "Stream", "ConnectionLost"})]
      /\ s.next_timeout \in {"none", "future"} /\ s.last_service \in BOOLEAN
  BY <1>1 DEF Enrolled, Typed
<1> QED BY <1>1, <1>2, <1>3, <1>4 DEF Typed

-----------------------------------------------------------------------------
(* One pass keeps an endpoint sound                                        *)

\* SilentToStrangers of an endpoint.
Silent(e) ==
  \A i \in 1..Len(e.outbound) :
    e.outbound[i] # "stranger" /\ (e.role = "client" => e.outbound[i] = "conn")

Sound(e) == Shape(e) /\ Typed(e) /\ Books(e) /\ Silent(e)

\* One more datagram for somebody who may have it keeps the endpoint silent.
LEMMA SilentStays ==
  ASSUME NEW e, NEW x, NEW to \in {"conn", "peer"},
         e.outbound \in Seq({"conn", "peer", "stranger"}), Silent(e),
         x.role = e.role, e.role = "client" => to = "conn",
         x.outbound \in {e.outbound, Append(e.outbound, to)}
  PROVE  x.outbound \in Seq({"conn", "peer", "stranger"}) /\ Silent(x)
<1> DEFINE Party == {"conn", "peer", "stranger"}
           o == e.outbound
           r == Append(o, to)
<1>1. o \in Seq(Party) /\ to \in Party /\ to # "stranger"
  OBVIOUS
<1>2. \A i \in 1..Len(o) : o[i] # "stranger" /\ (e.role = "client" => o[i] = "conn")
  BY DEF Silent
<1>3. x.outbound = o \/ x.outbound = r
  OBVIOUS
<1> HIDE DEF Party, o
<1>4. /\ r \in Seq(Party) /\ Len(r) = Len(o) + 1 /\ Len(o) \in Nat
      /\ \A i \in 1..Len(o) : r[i] = o[i]
      /\ r[Len(o) + 1] = to
  BY <1>1
<1> HIDE DEF r
<1>5. \A i \in 1..Len(r) : r[i] # "stranger" /\ (e.role = "client" => r[i] = "conn")
  <2> SUFFICES ASSUME NEW i \in 1..Len(r)
               PROVE  r[i] # "stranger" /\ (e.role = "client" => r[i] = "conn")
    OBVIOUS
  <2>1. i \in 1..Len(o) \/ i = Len(o) + 1
    BY <1>4
  <2>2. CASE i \in 1..Len(o)
    BY <1>2, <1>4, <2>2
  <2>3. CASE i = Len(o) + 1
    BY <1>1, <1>4, <2>3
  <2> QED BY <2>1, <2>2, <2>3
<1>6. CASE x.outbound = o
  BY <1>1, <1>2, <1>6 DEF Silent, Party
<1>7. CASE x.outbound = r
  BY <1>4, <1>5, <1>7 DEF Silent, Party
<1> QED BY <1>3, <1>6, <1>7

\* A pass takes a sound endpoint to a sound one.
LEMMA PassSound ==
  ASSUME NEW e, Sound(e), NEW work, Fits(e, work)
  PROVE  Sound(ServiceConnections(e, work))
<1> DEFINE s == ServiceConnections(e, work)
<1>1. ServiceResult(e, work, s)
  BY ServiceFacts DEF Sound
<1> HIDE DEF s
<1>2. Typed(s) /\ Books(s)
  BY <1>1, ServiceTyped, ServiceBooks DEF Sound
<1>3. Shape(s) /\ s.role = e.role /\ s.outbound \in {e.outbound, Append(e.outbound, "conn")}
  BY <1>1 DEF ServiceResult
<1>4. Silent(s)
  <2>1. e.outbound \in Seq({"conn", "peer", "stranger"}) /\ Silent(e)
    BY DEF Sound, Typed
  <2> QED BY <1>3, <2>1, SilentStays
<1> QED BY <1>2, <1>3, <1>4 DEF Sound, s

\* A pass need not have anything to do.
LEMMA QuietFits ==
  ASSUME NEW e, Sound(e)
  PROVE  Fits(e, NoWork(e))
<1>1. NoWork(e) \in [Live(e) -> Stimulus] /\ \A h \in Live(e) : NoWork(e)[h] = Quiet
  BY DEF NoWork, Quiet, Stimulus
<1>2. \A h \in Live(e) : RoutedTo(e, h.quinn) # {}
  BY DEF Sound, Books, RoutedTo
<1> QED BY <1>1, <1>2 DEF Fits, Quiet

\* A datagram for connection h, whatever quinn makes of it.
LEMMA StimulusFits ==
  ASSUME NEW e, Sound(e), NEW h \in Live(e), NEW cid \in RoutedTo(e, h.quinn), NEW s \in Stimuli(e, h, cid)
  PROVE  Fits(e, WorkOf(e, h, s))
<1> DEFINE work == WorkOf(e, h, s)
<1>1. /\ s \in Stimulus
      /\ s.fresh \subseteq Unused(e) /\ s.retired \subseteq RoutedTo(e, h.quinn) \ {cid}
      /\ "drained" \in s.does => s.fresh = {}
  <2>1. /\ s \in [does : SUBSET Does, fresh : {{}} \cup {{c} : c \in Unused(e)},
                  retired : {{}} \cup {{c} : c \in RoutedTo(e, h.quinn) \ {cid}}]
        /\ "drained" \in s.does => s.does = {"error", "drained"} /\ s.fresh \cup s.retired = {}
    BY DEF Stimuli
  <2>2. Unused(e) \subseteq Cid /\ RoutedTo(e, h.quinn) \subseteq Cid
    BY DEF Unused, RoutedTo, Sound, Typed, IsMap
  <2> QED BY <2>1, <2>2 DEF Stimulus
<1>2. /\ work \in [Live(e) -> Stimulus]
      /\ \A k \in Live(e) : work[k] = IF k = h THEN s ELSE Quiet
  BY <1>1 DEF WorkOf, NoWork, Quiet, Stimulus
<1>3. \A k \in Live(e) : RoutedTo(e, k.quinn) # {}
  BY DEF Sound, Books, RoutedTo
<1> HIDE DEF work
<1>4. \A k \in Live(e) :
        /\ work[k].fresh \cap (e.issued_cids \cup DOMAIN e.index) = {}
        /\ \A l \in Live(e) : l # k => work[k].fresh \cap work[l].fresh = {}
        /\ "drained" \in work[k].does => work[k].fresh = {}
        /\ work[k].retired \subseteq RoutedTo(e, k.quinn)
        /\ RoutedTo(e, k.quinn) \ work[k].retired # {}
  BY <1>1, <1>2, <1>3 DEF Unused, Quiet
<1> QED BY <1>2, <1>4 DEF Fits, work

\* Timers ask for no connection IDs and retire none.
LEMMA ExpiryFits ==
  ASSUME NEW e, Sound(e), NEW work \in [Live(e) -> Stimulus],
         \A h \in Live(e) : work[h].fresh = {} /\ work[h].retired = {}
  PROVE  Fits(e, work)
<1>1. \A h \in Live(e) : RoutedTo(e, h.quinn) # {}
  BY DEF Sound, Books, RoutedTo
<1> QED BY <1>1 DEF Fits

-----------------------------------------------------------------------------
(* Every action hands an endpoint to a servicing pass, or leaves the books *)
(* alone                                                                   *)

\* What quinn reports of a connection fits how far it is.
Plausible(e, work) ==
  \A h \in Live(e) :
    /\ "connected" \in work[h].does => e.connections[h].phase = "handshake"
    /\ "stream" \in work[h].does => e.connections[h].phase = "open" \/ "connected" \in work[h].does

\* A call that has at most queued a response and installed a configuration.
Handed(e) == Sound(e) /\ Same(ep, e, {"outbound", "server_config"})

\* Such a call ends in a servicing pass.
Pass ==
  \E e, work : /\ Handed(e) /\ Fits(e, work) /\ Plausible(e, work)
               /\ ep' = ServiceConnections(e, work)
               /\ UNCHANGED <<heard, keyed>>

\* Where nothing is pending the sweep does nothing.
LEMMA SweepNothing ==
  ASSUME NEW e, Shape(e), e.pending_cids = {}
  PROVE  SweepOrphanCids(e) = e
BY DEF SweepOrphanCids, Shape, Fields

\* What was minted for nobody is swept.
LEMMA OrphansSwept ==
  ASSUME NEW e, Sound(e), NEW cids, cids \subseteq Unused(e), NEW m, Shape(m),
         Same(e, m, {"issued_cids", "pending_cids", "outbound"}),
         m.issued_cids = e.issued_cids \cup cids, m.pending_cids = e.pending_cids \cup cids,
         m.outbound \in Seq({"conn", "peer", "stranger"}), Silent(m)
  PROVE  /\ Sound(SweepOrphanCids(m))
         /\ Same(e, SweepOrphanCids(m), {"outbound"})
<1> DEFINE s == SweepOrphanCids(m)
<1>1. /\ Shape(s) /\ Same(m, s, {"issued_cids", "pending_cids"})
      /\ s.issued_cids = m.issued_cids \ m.pending_cids /\ s.pending_cids = {}
  BY SweepFacts
<1> HIDE DEF s
<1>2. e.pending_cids = {} /\ cids \cap e.issued_cids = {}
  BY DEF Sound, Books, Unused
<1>3. s.issued_cids = e.issued_cids /\ s.pending_cids = e.pending_cids
  BY <1>1, <1>2
<1>4. Same(e, s, {"outbound"}) /\ s.outbound = m.outbound /\ s.role = m.role
  BY <1>1, <1>3 DEF Same, Fields
<1>5. Books(s)
  <2>1. Same(e, s, Aside)
    BY <1>4 DEF Same, Aside
  <2> QED BY <2>1, BooksFrame DEF Sound
<1>6. Typed(s)
  BY <1>4 DEF Sound, Typed, Same, Fields
<1>7. Silent(s)
  BY <1>4 DEF Silent
<1> QED BY <1>1, <1>4, <1>5, <1>6, <1>7 DEF Sound, s

\* set_server_config touches nothing else.
LEMMA InstalledSound ==
  ASSUME Sound(ep), NEW client \in Client \cup {NoClient}
  PROVE  /\ Sound(Installed(client))
         /\ Same(ep, Installed(client), {"server_config"})
         /\ client # NoClient => Installed(client).server_config = client
<1>1. CASE client = NoClient
  BY <1>1 DEF Installed, Same
<1>2. CASE client # NoClient
  <2> DEFINE e == Installed(client)
  <2>1. Shape(e) /\ Same(ep, e, {"server_config"}) /\ e.server_config = client
    BY <1>2 DEF Installed, Sound, Shape, Same, Fields
  <2> HIDE DEF e
  <2>2. Books(e)
    <3>1. Same(ep, e, Aside)
      BY <2>1 DEF Same, Aside
    <3> QED BY <3>1, BooksFrame DEF Sound
  <2>3. Typed(e)
    BY <2>1 DEF Sound, Typed, Same, Fields
  <2>4. Silent(e)
    <3>1. e.outbound = ep.outbound /\ e.role = ep.role
      BY <2>1 DEF Same, Fields
    <3> QED BY <3>1 DEF Sound, Silent
  <2> QED BY <2>1, <2>2, <2>3, <2>4 DEF Sound, e
<1> QED BY <1>1, <1>2

\* A call with nothing for quinn to do still services the connections.
LEMMA QuietPass ==
  ASSUME NEW e, Handed(e), ep' = ServiceConnections(e, NoWork(ep)), UNCHANGED <<heard, keyed>>
  PROVE  Pass
<1>1. NoWork(ep) = NoWork(e)
  BY DEF NoWork, Live, Handed, Same, Fields
<1>2. Fits(e, NoWork(e))
  BY QuietFits DEF Handed
<1>3. Plausible(e, NoWork(e))
  BY DEF Plausible, NoWork, Quiet
<1> QED BY <1>1, <1>2, <1>3 DEF Pass

\* DatagramEvent::ConnectionEvent ends in a pass.
LEMMA FeedEventPasses ==
  ASSUME Sound(ep), NEW cid, FeedEvent(cid)
  PROVE  Pass
<1>1. Handed(ep)
  BY DEF Handed, Same
<1>2. SweepOrphanCids(ep) = ep
  BY SweepNothing DEF Sound, Books
<1>3. CASE ep' = ServiceConnections(ep, NoWork(ep))
  BY <1>1, <1>3, QuietPass DEF FeedEvent
<1>4. ASSUME NEW h \in Live(ep), ep.index[cid] \in DOMAIN ep.by_quinn, ep.by_quinn[ep.index[cid]] = h,
             NEW s \in Stimuli(ep, h, cid), ep' = ServiceConnections(ep, WorkOf(ep, h, s))
      PROVE  Pass
  <2>1. cid \in RoutedTo(ep, h.quinn)
    <3>1. cid \in DOMAIN ep.index
      BY DEF FeedEvent
    <3>2. ep.index[cid] = h.quinn
      BY <1>4 DEF Sound, Books
    <3> QED BY <3>1, <3>2 DEF RoutedTo
  <2>2. Fits(ep, WorkOf(ep, h, s))
    BY <2>1, StimulusFits
  <2>3. /\ "connected" \in s.does => ep.connections[h].phase = "handshake"
        /\ "stream" \in s.does => ep.connections[h].phase = "open" \/ "connected" \in s.does
    BY DEF Stimuli
  <2>4. Plausible(ep, WorkOf(ep, h, s))
    <3>1. \A k \in Live(ep) : WorkOf(ep, h, s)[k] = IF k = h THEN s ELSE Quiet
      BY DEF WorkOf, NoWork
    <3> QED BY <2>3, <3>1 DEF Plausible, Quiet
  <2> QED BY <1>1, <1>4, <2>2, <2>4 DEF Pass, FeedEvent
<1> QED BY <1>2, <1>3, <1>4 DEF FeedEvent

\* DatagramEvent::Response and None end in a pass; the response goes to a peer that has
\* proved to hold a PSK, and a CID minted for it is swept before the pass.
LEMMA FeedResponsePasses ==
  ASSUME Sound(ep), NEW cid, NEW client \in Client \cup {NoClient}, NEW cids, cids \subseteq Unused(ep),
         NEW answered \in BOOLEAN, FeedResponse(cid, client, cids, answered)
  PROVE  Pass
<1> DEFINE e == Installed(client)
           m == Mint(e, cids)
           x == IF answered THEN QueueResponse(m, Sender(cid, client)) ELSE m
<1>1. Sound(e) /\ Same(ep, e, {"server_config"})
  BY InstalledSound
<1> HIDE DEF e
<1>2. /\ Shape(m) /\ Same(e, m, {"issued_cids", "pending_cids"})
      /\ m.issued_cids = e.issued_cids \cup cids /\ m.pending_cids = e.pending_cids \cup cids
  BY <1>1 DEF Sound, Mint, Shape, Same, Fields
<1> HIDE DEF m
<1>3. cids \subseteq Unused(e)
  BY <1>1 DEF Unused, Same, Fields
<1>4. m.role = e.role /\ e.role = ep.role /\ m.outbound = e.outbound
  BY <1>1, <1>2 DEF Same, Fields
<1>5. ep.role = "server" => Sender(cid, client) = "peer"
  <2>1. ep.role = "server" => client # NoClient \/ cid \in ep.issued_cids
    BY ClientAssumption DEF FeedResponse, Passes
  <2>2. ASSUME cid \in ep.issued_cids PROVE \E h \in Live(ep) : cid \in OwnedBy(ep, h)
    BY <2>2 DEF Sound, Books, OwnedBy
  <2> QED BY <2>1, <2>2 DEF Sender
<1>6. x = m \/ (ep.role = "server" /\ x = [m EXCEPT !.outbound = Append(@, "peer")])
  BY <1>4, <1>5 DEF QueueResponse
<1> HIDE DEF x
<1>7. e.outbound \in Seq({"conn", "peer", "stranger"}) /\ Silent(e)
  BY <1>1 DEF Sound, Typed
<1>8. /\ Shape(x) /\ Same(e, x, {"issued_cids", "pending_cids", "outbound"})
      /\ x.issued_cids = e.issued_cids \cup cids /\ x.pending_cids = e.pending_cids \cup cids
      /\ x.role = e.role
      /\ x.outbound = e.outbound \/ (e.role = "server" /\ x.outbound = Append(e.outbound, "peer"))
  <2>1. CASE x = m
    BY <1>2, <1>4, <2>1 DEF Same
  <2>2. CASE ep.role = "server" /\ x = [m EXCEPT !.outbound = Append(@, "peer")]
    BY <1>2, <1>4, <2>2 DEF Shape, Same, Fields
  <2> QED BY <1>6, <2>1, <2>2
<1>9. x.outbound \in Seq({"conn", "peer", "stranger"}) /\ Silent(x)
  <2>1. CASE x.outbound = e.outbound
    BY <1>7, <1>8, <2>1 DEF Silent
  <2>2. CASE e.role = "server" /\ x.outbound = Append(e.outbound, "peer")
    BY <1>7, <1>8, <2>2, SilentStays
  <2> QED BY <1>8, <2>1, <2>2
<1>10. Sound(SweepOrphanCids(x)) /\ Same(e, SweepOrphanCids(x), {"outbound"})
  BY <1>1, <1>3, <1>8, <1>9, OrphansSwept
<1>11. Handed(SweepOrphanCids(x))
  BY <1>1, <1>10 DEF Handed, Same
<1>12. ep' = ServiceConnections(SweepOrphanCids(x), NoWork(ep)) /\ UNCHANGED <<heard, keyed>>
  BY DEF FeedResponse, x, m, e
<1> QED BY <1>11, <1>12, QuietPass

\* A failed accept ends in a pass, its two CIDs swept.
LEMMA FeedRefusedPasses ==
  ASSUME Sound(ep), NEW cid, NEW client \in Client \cup {NoClient}, NEW cids, cids \subseteq Unused(ep),
         FeedRefused(cid, client, cids)
  PROVE  Pass
<1> DEFINE e == Installed(client)
           m == Mint(e, cids)
<1>1. Sound(e) /\ Same(ep, e, {"server_config"})
  BY InstalledSound
<1> HIDE DEF e
<1>2. /\ Shape(m) /\ Same(e, m, {"issued_cids", "pending_cids"})
      /\ m.issued_cids = e.issued_cids \cup cids /\ m.pending_cids = e.pending_cids \cup cids
  BY <1>1 DEF Sound, Mint, Shape, Same, Fields
<1> HIDE DEF m
<1>3. cids \subseteq Unused(e)
  BY <1>1 DEF Unused, Same, Fields
<1>4. m.outbound \in Seq({"conn", "peer", "stranger"}) /\ Silent(m)
  <2>1. m.role = e.role /\ m.outbound = e.outbound
    BY <1>2 DEF Same, Fields
  <2> QED BY <1>1, <2>1 DEF Sound, Typed, Silent
<1>5. Sound(SweepOrphanCids(m)) /\ Same(e, SweepOrphanCids(m), {"outbound"})
  <2>1. Same(e, m, {"issued_cids", "pending_cids", "outbound"})
    BY <1>2 DEF Same
  <2> QED BY <1>1, <1>2, <1>3, <1>4, <2>1, OrphansSwept
<1>6. Handed(SweepOrphanCids(m))
  BY <1>1, <1>5 DEF Handed, Same
<1>7. ep' = ServiceConnections(SweepOrphanCids(m), NoWork(ep)) /\ UNCHANGED <<heard, keyed>>
  BY DEF FeedRefused, m, e
<1> QED BY <1>6, <1>7, QuietPass

\* A new connection without a grant ends in a pass.
LEMMA FeedUnadmittedPasses ==
  ASSUME Sound(ep), NEW cid, NEW client, FeedUnadmitted(cid, client)
  PROVE  Pass
<1>1. Handed(ep)
  BY DEF Handed, Same
<1>2. Installed(client) = ep
  BY DEF FeedUnadmitted, Admits, Installed
<1> QED BY <1>1, <1>2, QuietPass DEF FeedUnadmitted

\* A connection under a new handle, admitted for the client whose configuration quinn
\* made it with.
Joined(e, h, client) ==
  /\ Sound(e)
  /\ h \in Handle /\ h \notin Live(ep) /\ h.generation = ep.next_generation
  /\ Live(e) = Live(ep) \cup {h}
  /\ \A k \in Live(ep) : e.connections[k] = ep.connections[k]
  /\ e.connections[h] = [phase |-> "handshake", dirty |-> FALSE, tx |-> FALSE, armed |-> TRUE]
  /\ e.client_ids = Put(ep.client_ids, h, client)
  /\ e.events = ep.events
  /\ e.role = "server" /\ ep.role = "server"
  /\ e.next_generation = ep.next_generation + 1

Admission ==
  \E client \in Client : \E e, h, work :
    /\ Joined(e, h, client) /\ Fits(e, work) /\ Plausible(e, work)
    /\ work[h].does \subseteq {"send", "error"}
    /\ ep' = ServiceConnections(e, work)
    /\ keyed' = Put(keyed, h, client) /\ UNCHANGED heard

\* An accepted connection joins under a new handle, keyed with the configuration of the
\* client it is admitted for.
LEMMA FeedAdmittedJoins ==
  ASSUME Sound(ep), NEW cid, NEW client \in Client \cup {NoClient}, NEW q \in Slot \ ep.slab,
         NEW c \in Unused(ep), NEW early \in BOOLEAN, FeedAdmitted(cid, client, q, c, early)
  PROVE  Admission
<1> DEFINE x == Installed(client)
           h == NextHandle(x, q)
           d == DrainPendingCids(AllocateHandle(QuinnConnection(x, q, c), q), h)
           conn == [phase |-> "handshake", dirty |-> FALSE, tx |-> FALSE, armed |-> TRUE]
           a == Admit(x, q, c, client, early)
<1>1. client \in Client /\ ep.role = "server" /\ ep.next_generation <= MaxGeneration
  BY DEF FeedAdmitted, MaybeFirst, Admits, Passes
<1>2. Sound(x) /\ Same(ep, x, {"server_config"}) /\ x.server_config = client
  BY <1>1, InstalledSound, ClientAssumption
<1> HIDE DEF x
<1>3. /\ x.role = "server" /\ x.connections = ep.connections /\ x.client_ids = ep.client_ids
      /\ x.events = ep.events /\ x.next_generation = ep.next_generation /\ x.slab = ep.slab
      /\ x.issued_cids = ep.issued_cids /\ x.index = ep.index
  BY <1>1, <1>2 DEF Same, Fields
<1>4. c \in Unused(x) /\ q \in Slot \ x.slab /\ c \in Cid
  BY <1>3 DEF Unused
<1>5. h = NextHandle(ep, q) /\ h.quinn = q /\ h.generation = ep.next_generation
  BY <1>3 DEF NextHandle
<1>6. /\ Shape(d)
      /\ Same(x, d, {"issued_cids", "pending_cids", "slab", "index", "next_generation",
                     "by_quinn", "cids_by_conn"})
      /\ d.issued_cids = x.issued_cids \cup {c} /\ d.pending_cids = {}
      /\ d.slab = x.slab \cup {q} /\ d.index = Put(x.index, c, q)
      /\ d.next_generation = x.next_generation + 1
      /\ d.by_quinn = Put(x.by_quinn, q, h)
      /\ d.cids_by_conn = Put(x.cids_by_conn, h, {c})
  <2>1. Shape(x) /\ Books(x) /\ x.next_generation \in Nat
    BY <1>2, BoundAssumption DEF Sound, Typed
  <2> QED BY <1>4, <2>1, EnrolFacts
<1>7. a = [d EXCEPT !.connections = Put(@, h, conn), !.client_ids = Put(@, h, client),
                    !.outbound = IF early THEN Append(@, "peer") ELSE @]
  BY DEF Admit
<1> HIDE DEF d, h, a
<1>8. /\ Shape(a) /\ Same(d, a, {"connections", "client_ids", "outbound"})
      /\ a.connections = Put(d.connections, h, conn) /\ a.client_ids = Put(d.client_ids, h, client)
      /\ a.outbound = IF early THEN Append(d.outbound, "peer") ELSE d.outbound
  BY <1>6, <1>7 DEF Shape, Same, Fields
<1>9. /\ d.connections = x.connections /\ d.client_ids = x.client_ids /\ d.outbound = x.outbound
      /\ d.role = x.role
  BY <1>6 DEF Same, Fields
<1>10. x.role \in Roles /\ x.last_service \in BOOLEAN
  BY <1>2 DEF Sound, Typed
<1>11. Enrolled(x, a, h, c, conn) /\ a.role = x.role
  BY <1>5, <1>6, <1>8, <1>9, <1>10 DEF Enrolled, Same, Fields
<1>12. /\ x.outbound \in Seq({"conn", "peer", "stranger"}) /\ Silent(x)
       /\ IsMap(x.client_ids, Handle, Client)
  BY <1>2 DEF Sound, Typed
<1>13. a.outbound \in Seq({"conn", "peer", "stranger"}) /\ Silent(a)
  <2>1. a.outbound = x.outbound \/ a.outbound = Append(x.outbound, "peer")
    BY <1>8, <1>9
  <2>2. a.role = "server" /\ x.role = "server"
    BY <1>3, <1>11
  <2>3. x.outbound \in Seq({"conn", "peer", "stranger"}) /\ Silent(x)
    BY <1>12
  <2> QED BY <2>1, <2>2, <2>3, SilentStays
<1>14. h = NextHandle(x, q) /\ conn \in Conn /\ conn.phase # "drained"
  BY DEF h, Conn, Phase
<1>15. h \in Handle
  BY <1>1, <1>2, <1>3, <1>5, BoundAssumption DEF NextHandle, Handle, Sound, Typed
<1>16. Typed(a)
  <2>1. IsMap(a.client_ids, Handle, Client)
    BY <1>1, <1>8, <1>9, <1>12, <1>15, PutIsMap
  <2>2. x.next_generation <= MaxGeneration /\ Typed(x)
    BY <1>1, <1>2, <1>3 DEF Sound
  <2> HIDE DEF conn
  <2> QED BY <1>4, <1>11, <1>13, <1>14, <2>1, <2>2, EnrolTyped
<1>17. /\ Books(a) /\ h \notin Live(x) /\ Live(a) = Live(x) \cup {h} /\ RoutedTo(a, q) = {c}
       /\ \A k \in Live(x) : a.connections[k] = x.connections[k]
  <2>1. Typed(x) /\ Books(x)
    BY <1>2 DEF Sound
  <2> HIDE DEF conn
  <2> QED BY <1>4, <1>11, <1>14, <2>1, EnrolBooks
<1>18. Sound(a)
  BY <1>8, <1>13, <1>16, <1>17 DEF Sound
<1>19. a.connections[h] = conn
  BY <1>8 DEF Put
<1>20. Joined(a, h, client)
  <2>1. Live(x) = Live(ep)
    BY <1>3 DEF Live
  <2>2. a.events = ep.events /\ a.next_generation = ep.next_generation + 1
    BY <1>3, <1>11 DEF Enrolled
  <2>3. a.client_ids = Put(ep.client_ids, h, client) /\ a.role = "server"
    BY <1>3, <1>8, <1>9, <1>11
  <2> QED BY <1>1, <1>3, <1>5, <1>15, <1>17, <1>18, <1>19, <2>1, <2>2, <2>3 DEF Joined
<1>21. SweepOrphanCids(a) = a
  BY <1>18, SweepNothing DEF Sound, Books
<1>22. PICK s \in Stimuli(a, h, c) :
         /\ s.does \subseteq {"send", "error"}
         /\ ep' = ServiceConnections(a, WorkOf(a, h, s))
         /\ keyed' = Put(keyed, h, a.server_config) /\ UNCHANGED heard
  BY <1>5, <1>21 DEF FeedAdmitted, a, x
<1>23. h \in Live(a) /\ c \in RoutedTo(a, h.quinn)
  BY <1>5, <1>17
<1>24. Fits(a, WorkOf(a, h, s))
  BY <1>18, <1>23, StimulusFits
<1>25. /\ WorkOf(a, h, s)[h] = s
       /\ \A k \in Live(a) : WorkOf(a, h, s)[k] = IF k = h THEN s ELSE Quiet
  BY <1>23 DEF WorkOf, NoWork
<1>26. Plausible(a, WorkOf(a, h, s))
  BY <1>22, <1>25 DEF Plausible, Quiet
<1>27. a.server_config = client
  BY <1>2, <1>11 DEF Enrolled
<1> QED BY <1>1, <1>20, <1>22, <1>24, <1>25, <1>26, <1>27 DEF Admission

\* poll_transmit: with a pass when the queue has run dry, then the head of the queue.
Transmission ==
  /\ UNCHANGED <<heard, keyed>>
  /\ \E e : /\ e = ep \/ e = ServiceConnections(ep, NoWork(ep))
            /\ \/ ep' = e
               \/ e.outbound # <<>> /\ ep' = [e EXCEPT !.outbound = Tail(@)]

\* poll_transmit keeps an endpoint sound.
LEMMA TransmitSound ==
  ASSUME Sound(ep), Transmission
  PROVE  Sound(ep')
<1>1. PICK e : /\ e = ep \/ e = ServiceConnections(ep, NoWork(ep))
               /\ \/ ep' = e
                  \/ e.outbound # <<>> /\ ep' = [e EXCEPT !.outbound = Tail(@)]
  BY DEF Transmission
<1>2. Sound(e)
  BY <1>1, QuietFits, PassSound
<1>3. ASSUME e.outbound # <<>>, NEW s, s = [e EXCEPT !.outbound = Tail(@)]
      PROVE  Sound(s)
  <2>1. Shape(s) /\ Same(e, s, {"outbound"}) /\ s.outbound = Tail(e.outbound)
    BY <1>2, <1>3 DEF Sound, Shape, Same, Fields
  <2>2. e.outbound \in Seq({"conn", "peer", "stranger"}) /\ s.role = e.role
    BY <1>2, <2>1 DEF Sound, Typed, Same, Fields
  <2>3. /\ s.outbound \in Seq({"conn", "peer", "stranger"})
        /\ Len(s.outbound) = Len(e.outbound) - 1
        /\ \A i \in 1..Len(s.outbound) : s.outbound[i] = e.outbound[i + 1]
    BY <1>3, <2>1, <2>2
  <2>4. Silent(s)
    <3>1. Len(e.outbound) \in Nat
      BY <2>2
    <3>2. \A i \in 1..Len(s.outbound) : i + 1 \in 1..Len(e.outbound)
      BY <2>3, <3>1
    <3> QED BY <1>2, <2>2, <2>3, <3>2 DEF Sound, Silent
  <2>5. Books(s)
    <3>1. Same(e, s, Aside)
      BY <2>1 DEF Same, Aside
    <3> QED BY <1>2, <3>1, BooksFrame DEF Sound
  <2>6. Typed(s)
    BY <1>2, <2>1, <2>3 DEF Sound, Typed, Same, Fields
  <2> QED BY <2>1, <2>4, <2>5, <2>6 DEF Sound
<1> QED BY <1>1, <1>2, <1>3

\* poll_event keeps an endpoint sound, and takes the head of one queue.
LEMMA PollEventSound ==
  ASSUME Sound(ep), heard \in [Handle -> SUBSET {"Connected", "ConnectionLost"}],
         NEW h \in Handle, PollEvent(h)
  PROVE  /\ Sound(ep') /\ Same(ep, ep', {"events"})
         /\ ep'.events = [ep.events EXCEPT ![h] = Tail(@)]
         /\ heard' \in [Handle -> SUBSET {"Connected", "ConnectionLost"}]
<1>1. ep' = [ep EXCEPT !.events[h] = Tail(@)] /\ ep.events[h] # <<>>
  BY DEF PollEvent
<1>2. Shape(ep') /\ Same(ep, ep', {"events"}) /\ ep'.events = [ep.events EXCEPT ![h] = Tail(@)]
  BY <1>1 DEF Sound, Shape, Same, Fields
<1>3. Books(ep')
  <2>1. Same(ep, ep', Aside)
    BY <1>2 DEF Same, Aside
  <2> QED BY <2>1, BooksFrame DEF Sound
<1>4. ep.events \in [Handle -> Seq({"Connected", "Stream", "ConnectionLost"})]
  BY DEF Sound, Typed
<1>5. ep'.events \in [Handle -> Seq({"Connected", "Stream", "ConnectionLost"})]
  BY <1>1, <1>2, <1>4
<1>6. Typed(ep')
  BY <1>2, <1>5 DEF Sound, Typed, Same, Fields
<1>7. Silent(ep')
  <2>1. ep'.outbound = ep.outbound /\ ep'.role = ep.role
    BY <1>2 DEF Same, Fields
  <2> QED BY <2>1 DEF Sound, Silent
<1>8. heard' \in [Handle -> SUBSET {"Connected", "ConnectionLost"}]
  <2>1. Head(ep.events[h]) \in {"Connected", "Stream", "ConnectionLost"}
    BY <1>1, <1>4
  <2>2. heard' = [heard EXCEPT ![h] = @ \cup ({Head(ep.events[h])} \ {"Stream"})]
    BY DEF PollEvent
  <2> QED BY <2>1, <2>2
<1> QED BY <1>2, <1>3, <1>6, <1>7, <1>8 DEF Sound

\* Stream operations and close change a connection, but not its place in the books.
Touch ==
  /\ UNCHANGED <<heard, keyed>>
  /\ \E h \in Live(ep), conn \in Conn :
       /\ conn.phase \in {ep.connections[h].phase, "closing"}
       /\ ep' = [ep EXCEPT !.connections = [ep.connections EXCEPT ![h] = conn]]

\* A connection may change under its handle.
LEMMA TouchSound ==
  ASSUME Sound(ep), NEW h \in Live(ep), NEW conn \in Conn,
         conn.phase \in {ep.connections[h].phase, "closing"},
         NEW s, s = [ep EXCEPT !.connections = [ep.connections EXCEPT ![h] = conn]]
  PROVE  Sound(s) /\ Same(ep, s, {"connections"}) /\ Live(s) = Live(ep)
<1>1. /\ Shape(s) /\ Same(ep, s, {"connections"})
      /\ s.connections = [ep.connections EXCEPT ![h] = conn]
  BY DEF Sound, Shape, Same, Fields
<1>2. IsMap(ep.connections, Handle, Conn) /\ Live(ep) = DOMAIN ep.connections
  BY DEF Sound, Typed, Live
<1>3. IsMap(s.connections, Handle, Conn) /\ Live(s) = Live(ep)
  BY <1>1, <1>2 DEF IsMap, Live
<1>4. \A k \in Live(ep) : s.connections[k].phase # "drained"
  <2>1. \A k \in Live(ep) : ep.connections[k].phase # "drained"
    BY DEF Sound, Books
  <2>2. \A k \in Live(ep) : s.connections[k] = IF k = h THEN conn ELSE ep.connections[k]
    BY <1>1, <1>2
  <2> QED BY <2>1, <2>2
<1>5. Typed(s)
  BY <1>1, <1>3 DEF Sound, Typed, Same, Fields
<1>6. Books(s)
  <2>1. /\ s.pending_cids = ep.pending_cids /\ s.issued_cids = ep.issued_cids
        /\ s.cids_by_conn = ep.cids_by_conn /\ s.by_quinn = ep.by_quinn
        /\ s.slab = ep.slab /\ s.index = ep.index /\ s.next_generation = ep.next_generation
    BY <1>1 DEF Same, Fields
  <2>2. Books(ep)
    BY DEF Sound
  <2> QED BY ONLY <1>3, <1>4, <2>1, <2>2 DEF Books
<1>7. Silent(s)
  <2>1. s.outbound = ep.outbound /\ s.role = ep.role
    BY <1>1 DEF Same, Fields
  <2>2. Silent(ep)
    BY DEF Sound
  <2> QED BY <2>1, <2>2 DEF Silent
<1> QED BY <1>1, <1>3, <1>5, <1>6, <1>7 DEF Sound

\* handle_timeout is a pass.
LEMMA TimeoutPasses ==
  ASSUME Sound(ep), NEW expired, HandleTimeout(expired)
  PROVE  Pass
<1>1. PICK work \in [Live(ep) -> UNION {Expiries(ep.connections[h]) : h \in Live(ep)} \cup {Quiet}] :
         /\ \A h \in Live(ep) :
              IF h \in expired THEN work[h] \in Expiries(ep.connections[h]) ELSE work[h] = Quiet
         /\ ep' = ServiceConnections(ep, work)
  BY DEF HandleTimeout
<1>2. \A h \in Live(ep) :
        /\ work[h] \in Stimulus /\ work[h].fresh = {} /\ work[h].retired = {}
        /\ "connected" \notin work[h].does /\ "stream" \notin work[h].does
  <2>1. \A conn : \A s \in Expiries(conn) :
          /\ s \in Stimulus /\ s.fresh = {} /\ s.retired = {}
          /\ "connected" \notin s.does /\ "stream" \notin s.does
    BY DEF Expiries, Quiet, Stimulus, Does
  <2>2. /\ Quiet \in Stimulus /\ Quiet.fresh = {} /\ Quiet.retired = {}
        /\ "connected" \notin Quiet.does /\ "stream" \notin Quiet.does
    BY DEF Quiet, Stimulus
  <2> QED BY <1>1, <2>1, <2>2
<1>3. Fits(ep, work)
  <2>1. work \in [Live(ep) -> Stimulus]
    BY <1>1, <1>2
  <2> QED BY <1>2, <2>1, ExpiryFits
<1>4. Plausible(ep, work)
  BY <1>2 DEF Plausible
<1>5. Handed(ep) /\ UNCHANGED <<heard, keyed>>
  BY DEF Handed, Same, HandleTimeout
<1> QED BY <1>1, <1>3, <1>4, <1>5 DEF Pass

\* Stream operations and close touch one connection.
LEMMA TouchOps ==
  ASSUME Sound(ep), NEW h \in Live(ep), (\E sends \in BOOLEAN : StreamOp(h, sends)) \/ Close(h)
  PROVE  Touch
<1>1. ep.connections[h] \in Conn /\ h \in DOMAIN ep.connections /\ Shape(ep)
  BY DEF Sound, Typed, IsMap, Live
<1>2. ASSUME NEW sends \in BOOLEAN, StreamOp(h, sends)
      PROVE  Touch
  <2> DEFINE conn == [ep.connections[h] EXCEPT !.dirty = TRUE, !.tx = @ \/ sends]
  <2>1. conn \in Conn /\ conn.phase = ep.connections[h].phase
    BY <1>1 DEF Conn
  <2>2. ep' = [ep EXCEPT !.connections = [ep.connections EXCEPT ![h] = conn]]
    BY <1>1, <1>2, ZenonT(40) DEF StreamOp, Shape, Fields
  <2> HIDE DEF conn
  <2> QED BY <1>2, <2>1, <2>2 DEF Touch, StreamOp
<1>3. ASSUME Close(h)
      PROVE  Touch
  <2> DEFINE conn == [ep.connections[h] EXCEPT !.phase = "closing", !.tx = TRUE, !.armed = TRUE]
  <2>1. conn \in Conn /\ conn.phase = "closing"
    BY <1>1 DEF Conn, Phase
  <2>2. ep' = [ep EXCEPT !.connections = [ep.connections EXCEPT ![h] = conn]]
    BY <1>1, <1>3, ZenonT(40) DEF Close, Shape, Fields
  <2> HIDE DEF conn
  <2> QED BY <1>3, <2>1, <2>2 DEF Touch, Close
<1> QED BY <1>2, <1>3

\* handle_datagram ends in a pass, unless the datagram is dropped.
LEMMA DatagramKinds ==
  ASSUME Sound(ep), HandleDatagram
  PROVE  Pass \/ Admission \/ UNCHANGED vars
<1>1. ASSUME NEW cid, DropSilently(cid) PROVE UNCHANGED vars
  BY <1>1 DEF DropSilently
<1>2. ASSUME NEW cid, FeedEvent(cid) PROVE Pass
  BY <1>2, FeedEventPasses
<1>3. ASSUME NEW cid, NEW client, FeedUnadmitted(cid, client) PROVE Pass
  BY <1>3, FeedUnadmittedPasses
<1>4. ASSUME NEW cid, NEW client \in Client \cup {NoClient},
             NEW cids \in {{}} \cup {{c} : c \in Unused(ep)}, NEW answered \in BOOLEAN,
             FeedResponse(cid, client, cids, answered)
      PROVE  Pass
  <2>1. cids \subseteq Unused(ep)
    OBVIOUS
  <2> QED BY <1>4, <2>1, FeedResponsePasses
<1>5. ASSUME NEW cid, NEW client \in Client \cup {NoClient}, NEW c \in Unused(ep), NEW d \in Unused(ep),
             FeedRefused(cid, client, {c, d})
      PROVE  Pass
  <2>1. {c, d} \subseteq Unused(ep)
    OBVIOUS
  <2> QED BY <1>5, <2>1, FeedRefusedPasses
<1>6. ASSUME NEW cid, NEW client \in Client \cup {NoClient}, NEW q \in Slot \ ep.slab,
             NEW c \in Unused(ep), NEW early \in BOOLEAN, FeedAdmitted(cid, client, q, c, early)
      PROVE  Admission
  BY <1>6, FeedAdmittedJoins
<1> QED BY <1>1, <1>2, <1>3, <1>4, <1>5, <1>6 DEF HandleDatagram

\* The whole interface, in five kinds of step.
LEMMA StepKinds ==
  ASSUME Sound(ep), [Next]_vars
  PROVE  \/ UNCHANGED vars
         \/ Pass
         \/ Admission
         \/ Transmission
         \/ \E h \in Handle : PollEvent(h)
         \/ Touch
<1>1. CASE HandleDatagram
  BY <1>1, DatagramKinds
<1>2. CASE PollTransmit
  <2> DEFINE e == Polled(ep)
  <2>1. e = ep \/ e = ServiceConnections(ep, NoWork(ep))
    BY DEF Polled
  <2>2. /\ UNCHANGED <<heard, keyed>>
        /\ ep' = IF e.outbound = <<>> THEN e ELSE [e EXCEPT !.outbound = Tail(@)]
    BY <1>2 DEF PollTransmit
  <2> HIDE DEF e
  <2> QED BY <2>1, <2>2 DEF Transmission
<1>3. ASSUME NEW expired, HandleTimeout(expired) PROVE Pass
  BY <1>3, TimeoutPasses
<1>4. ASSUME NEW h \in Live(ep), (\E sends \in BOOLEAN : StreamOp(h, sends)) \/ Close(h) PROVE Touch
  BY <1>4, TouchOps
<1> QED BY <1>1, <1>2, <1>3, <1>4 DEF Next

-----------------------------------------------------------------------------
(* The invariant                                                           *)

\* An endpoint is sound between two calls.
IInv ==
  /\ Sound(ep)
  /\ heard \in [Handle -> SUBSET {"Connected", "ConnectionLost"}]
  /\ IsMap(keyed, Handle, Client \cup {NoClient})

\* An empty HashMap has every type.
LEMMA EmptyIsMap ==
  ASSUME NEW D, NEW R
  PROVE  IsMap(Empty, D, R) /\ DOMAIN Empty = {}
BY DEF Empty, IsMap

\* What both constructors start from.
Blank(e) ==
  /\ e.connections = Empty /\ e.cids_by_conn = Empty /\ e.client_ids = Empty
  /\ e.by_quinn = Empty /\ e.index = Empty /\ e.slab = {}
  /\ e.issued_cids = {} /\ e.pending_cids = {}
  /\ e.outbound = <<>> /\ e.events = [h \in Handle |-> <<>>]
  /\ e.next_generation = 1 /\ e.next_timeout = "none" /\ e.last_service = FALSE
  /\ e.server_config = NoClient

\* An endpoint without connections keeps the books.
LEMMA BlankFacts ==
  ASSUME NEW e, Blank(e)
  PROVE  Books(e) /\ Silent(e) /\ Live(e) = {} /\ (e.role \in Roles => Typed(e))
<1>1. Live(e) = {}
  BY EmptyIsMap DEF Blank, Live
<1>2. Books(e)
  BY <1>1, EmptyIsMap DEF Blank, Books
<1>3. Silent(e)
  BY DEF Blank, Silent
<1>4. ASSUME e.role \in Roles PROVE Typed(e)
  <2>1. /\ IsMap(e.connections, Handle, Conn)
        /\ IsMap(e.cids_by_conn, Handle, SUBSET Cid)
        /\ IsMap(e.client_ids, Handle, Client)
        /\ IsMap(e.by_quinn, Slot, Handle)
        /\ IsMap(e.index, Cid, Slot)
    BY EmptyIsMap DEF Blank
  <2>2. e.next_generation \in 1..(MaxGeneration + 1)
    BY BoundAssumption DEF Blank
  <2>3. e.events \in [Handle -> Seq({"Connected", "Stream", "ConnectionLost"})]
    BY DEF Blank
  <2>4. e.outbound \in Seq({"conn", "peer", "stranger"})
    BY DEF Blank
  <2>5. /\ e.issued_cids \subseteq Cid /\ e.pending_cids \subseteq Cid /\ e.slab \subseteq Slot
        /\ e.next_timeout \in {"none", "future"} /\ e.last_service \in BOOLEAN
        /\ e.server_config \in Client \cup {NoClient}
    BY DEF Blank
  <2> QED BY <1>4, <2>1, <2>2, <2>3, <2>4, <2>5 DEF Typed
<1> QED BY <1>1, <1>2, <1>3, <1>4

\* new_server starts blank.
LEMMA NewEndpointBlank == Shape(NewEndpoint) /\ Blank(NewEndpoint) /\ NewEndpoint.role = "server"
BY DEF NewEndpoint, Shape, Fields, Blank

\* new_client: like an admission, into an empty endpoint.
LEMMA NewClientSound ==
  ASSUME "client" \in Roles, NEW q \in Slot, NEW c \in Cid
  PROVE  LET s == RefreshNextTimeout(NewClient(q, c)) IN
         /\ Sound(s)
         /\ Live(s) = {NextHandle(NewEndpoint, q)} /\ NextHandle(NewEndpoint, q) \in Handle
         /\ s.connections[NextHandle(NewEndpoint, q)].phase = "handshake"
         /\ s.connections[NextHandle(NewEndpoint, q)].tx
         /\ s.client_ids = Empty /\ s.events = [h \in Handle |-> <<>>]
         /\ s.role = "client" /\ s.next_generation = 2
<1> DEFINE e == NewEndpoint
           h == NextHandle(e, q)
           n == [e EXCEPT !.role = "client"]
           d == DrainPendingCids(AllocateHandle(QuinnConnection(e, q, c), q), h)
           conn == [phase |-> "handshake", dirty |-> FALSE, tx |-> TRUE, armed |-> FALSE]
           x == NewClient(q, c)
           s == RefreshNextTimeout(x)
<1>1. Shape(e) /\ Blank(e)
  BY NewEndpointBlank
<1>2. Shape(n) /\ Same(e, n, {"role"}) /\ n.role = "client"
  BY <1>1 DEF Shape, Same, Fields
<1> HIDE DEF e, n
<1>3. Blank(n)
  BY <1>1, <1>2 DEF Blank, Same, Fields
<1>4. Typed(n) /\ Books(n) /\ Live(n) = {} /\ Books(e)
  BY <1>1, <1>2, <1>3, BlankFacts
<1>5. /\ q \in Slot \ e.slab /\ q \in Slot \ n.slab /\ c \in Unused(e) /\ c \in Unused(n)
      /\ h = NextHandle(n, q) /\ h.quinn = q /\ e.next_generation \in Nat
  BY <1>1, <1>3, EmptyIsMap DEF Blank, Unused, NextHandle
<1>6. /\ Shape(d)
      /\ Same(e, d, {"issued_cids", "pending_cids", "slab", "index", "next_generation",
                     "by_quinn", "cids_by_conn"})
      /\ d.issued_cids = e.issued_cids \cup {c} /\ d.pending_cids = {}
      /\ d.slab = e.slab \cup {q} /\ d.index = Put(e.index, c, q)
      /\ d.next_generation = e.next_generation + 1
      /\ d.by_quinn = Put(e.by_quinn, q, h)
      /\ d.cids_by_conn = Put(e.cids_by_conn, h, {c})
  BY <1>1, <1>4, <1>5, EnrolFacts
<1>7. x = [d EXCEPT !.connections = Put(@, h, conn), !.role = "client", !.last_service = TRUE]
  BY DEF NewClient, e
<1> HIDE DEF d, h, x
<1>8. /\ Shape(x) /\ Same(d, x, {"connections", "role", "last_service"})
      /\ x.connections = Put(d.connections, h, conn) /\ x.role = "client" /\ x.last_service = TRUE
  BY <1>6, <1>7 DEF Shape, Same, Fields
<1>9. Enrolled(n, x, h, c, conn) /\ x.outbound = <<>> /\ x.client_ids = Empty
      /\ x.events = [k \in Handle |-> <<>>] /\ x.next_generation = 2
  <2>1. /\ d.connections = Empty /\ d.outbound = <<>> /\ d.client_ids = Empty
        /\ d.events = [k \in Handle |-> <<>>] /\ d.next_timeout = "none"
        /\ d.server_config = NoClient
    BY <1>1, <1>6 DEF Same, Fields, Blank
  <2>2. /\ x.outbound = d.outbound /\ x.client_ids = d.client_ids /\ x.events = d.events
        /\ x.next_timeout = d.next_timeout /\ x.server_config = d.server_config
        /\ x.issued_cids = d.issued_cids /\ x.pending_cids = d.pending_cids
        /\ x.slab = d.slab /\ x.index = d.index /\ x.next_generation = d.next_generation
        /\ x.by_quinn = d.by_quinn /\ x.cids_by_conn = d.cids_by_conn
    BY <1>8 DEF Same, Fields
  <2>3. /\ e.issued_cids = n.issued_cids /\ e.slab = n.slab /\ e.index = n.index
        /\ e.by_quinn = n.by_quinn /\ e.cids_by_conn = n.cids_by_conn
        /\ e.next_generation = 1 /\ n.next_generation = 1
    BY <1>1, <1>2, <1>3 DEF Same, Fields, Blank
  <2>4. /\ n.connections = Empty /\ n.events = [k \in Handle |-> <<>>]
        /\ n.next_timeout = "none" /\ n.server_config = NoClient
    BY <1>3 DEF Blank
  <2> HIDE DEF conn
  <2>5. x.events = n.events /\ x.connections = Put(n.connections, h, conn)
    BY <1>8, <2>1, <2>2, <2>4
  <2>6. /\ x.issued_cids = n.issued_cids \cup {c} /\ x.pending_cids = {}
        /\ x.slab = n.slab \cup {h.quinn} /\ x.index = Put(n.index, c, h.quinn)
        /\ x.by_quinn = Put(n.by_quinn, h.quinn, h) /\ x.cids_by_conn = Put(n.cids_by_conn, h, {c})
    BY <1>5, <1>6, <2>2, <2>3
  <2>7. x.next_generation = n.next_generation + 1 /\ x.next_generation = 2
    BY <1>6, <2>2, <2>3
  <2>8. Enrolled(n, x, h, c, conn)
    BY <1>8, <2>1, <2>2, <2>4, <2>5, <2>6, <2>7 DEF Enrolled
  <2> QED BY <2>1, <2>2, <2>7, <2>8
<1>10. conn \in Conn /\ conn.phase = "handshake" /\ conn.tx
  BY DEF Conn, Phase
<1>11. Typed(x) /\ h \in Handle
  <2>1. x.outbound \in Seq({"conn", "peer", "stranger"})
    BY <1>9
  <2>2. IsMap(x.client_ids, Handle, Client)
    BY <1>9 DEF IsMap, Empty
  <2>3. n.next_generation <= MaxGeneration
    <3>1. n.next_generation = 1
      BY <1>3 DEF Blank
    <3> QED BY <3>1, BoundAssumption
  <2> HIDE DEF conn
  <2> QED BY <1>4, <1>5, <1>9, <1>10, <2>1, <2>2, <2>3, EnrolTyped
<1>12. Books(x) /\ Live(x) = Live(n) \cup {h}
  <2> HIDE DEF conn
  <2> QED BY <1>4, <1>5, <1>9, <1>10, EnrolBooks
<1>13. Live(x) = {h}
  BY <1>4, <1>12
<1>14. /\ Shape(s) /\ Same(x, s, {"next_timeout"}) /\ s.next_timeout \in {"none", "future"}
  BY <1>8, RefreshFacts
<1> HIDE DEF s
<1>15. Books(s)
  <2>1. Same(x, s, Aside)
    BY <1>14 DEF Same, Aside
  <2> QED BY <1>12, <2>1, BooksFrame
<1>16. Typed(s)
  BY <1>11, <1>14 DEF Typed, Same, Fields
<1>17. s.outbound = <<>> /\ s.connections = x.connections /\ s.client_ids = Empty
       /\ s.events = [k \in Handle |-> <<>>] /\ s.role = "client" /\ s.next_generation = 2
  BY <1>8, <1>9, <1>14 DEF Same, Fields
<1>18. Silent(s)
  BY <1>17 DEF Silent
<1>19. Live(s) = {h} /\ s.connections[h].phase = "handshake" /\ s.connections[h].tx
  BY <1>8, <1>10, <1>13, <1>17 DEF Live, Put
<1> QED BY <1>11, <1>14, <1>15, <1>16, <1>17, <1>18, <1>19 DEF Sound, s, x, h, e

\* The constructors establish the invariant.
LEMMA InitIInv == Init => IInv
<1> SUFFICES ASSUME Init PROVE IInv
  OBVIOUS
<1>1. Sound(ep) /\ Live(ep) \subseteq Handle
  <2>1. CASE "server" \in Roles /\ ep = NewEndpoint
    BY <2>1, NewEndpointBlank, BlankFacts DEF Sound
  <2>2. CASE "client" \in Roles /\ \E q \in Slot, c \in Cid : ep = RefreshNextTimeout(NewClient(q, c))
    BY <2>2, NewClientSound
  <2> QED BY <2>1, <2>2 DEF Init
<1>2. heard \in [Handle -> SUBSET {"Connected", "ConnectionLost"}]
  BY DEF Init
<1>3. IsMap(keyed, Handle, Client \cup {NoClient})
  BY <1>1 DEF Init, IsMap
<1> QED BY <1>1, <1>2, <1>3 DEF IInv

\* Every call keeps the invariant.
LEMMA StepIInv == IInv /\ [Next]_vars => IInv'
<1> SUFFICES ASSUME IInv, [Next]_vars PROVE IInv'
  OBVIOUS
<1>1. CASE UNCHANGED vars
  BY <1>1 DEF IInv, vars
<1>2. CASE Pass
  <2>1. Sound(ep')
    BY <1>2, PassSound DEF Pass, Handed
  <2> QED BY <1>2, <2>1 DEF Pass, IInv
<1>3. CASE Admission
  <2>1. PICK client \in Client : \E e, h, work :
           /\ Joined(e, h, client) /\ Fits(e, work)
           /\ ep' = ServiceConnections(e, work)
           /\ keyed' = Put(keyed, h, client) /\ UNCHANGED heard
    BY <1>3 DEF Admission
  <2>2. PICK e, h, work :
           /\ Joined(e, h, client) /\ Fits(e, work)
           /\ ep' = ServiceConnections(e, work)
           /\ keyed' = Put(keyed, h, client) /\ UNCHANGED heard
    BY <2>1
  <2>3. Sound(ep')
    BY <2>2, PassSound DEF Joined
  <2>4. IsMap(keyed', Handle, Client \cup {NoClient})
    BY <2>2, PutIsMap DEF Joined, IInv
  <2> QED BY <2>2, <2>3, <2>4 DEF IInv
<1>4. CASE Transmission
  <2>1. Sound(ep')
    BY <1>4, TransmitSound DEF IInv
  <2> QED BY <1>4, <2>1 DEF Transmission, IInv
<1>5. ASSUME NEW h \in Handle, PollEvent(h) PROVE IInv'
  BY <1>5, PollEventSound DEF IInv, PollEvent
<1>6. CASE Touch
  <2>1. Sound(ep')
    BY <1>6, TouchSound DEF Touch, IInv
  <2> QED BY <1>6, <2>1 DEF Touch, IInv
<1> QED BY <1>1, <1>2, <1>3, <1>4, <1>5, <1>6, StepKinds DEF IInv

(* Whatever the network and the caller do, an endpoint stays sound between *)
(* two calls of its interface: typed, its books in order, silent to        *)
(* strangers.                                                              *)
THEOREM Invariance == Spec => []IInv
BY InitIInv, StepIInv, PTL DEF Spec

-----------------------------------------------------------------------------
(* What the invariant says                                                 *)

(* Every field keeps its type, for every size of the constants.            *)
THEOREM TypeCorrect == Spec => []TypeOK
<1>1. IInv => TypeOK
  BY DEF IInv, Sound, Typed, TypeOK
<1> QED BY <1>1, Invariance, PTL

(* No connection ID leaks: between calls each one in the routing set belongs*)
(* to exactly one live connection, however connections were refused, lost, *)
(* drained or given new IDs (cids_by_conn, pending_cids, sweep_orphan_cids *)
(* of endpoint.rs).                                                        *)
THEOREM CidBooks == Spec => []CidsOwnedByLive
<1>1. IInv => CidsOwnedByLive
  BY DEF IInv, Sound, Books, CidsOwnedByLive
<1> QED BY <1>1, Invariance, PTL

(* Every live connection has a route, through issued_cids, quinn's index and*)
(* by_quinn, and its routes lead to it only; no freed slot stays mapped.   *)
THEOREM Reachable == Spec => []LiveReachable
<1>1. IInv => LiveReachable
  <2> SUFFICES ASSUME Books(ep) PROVE LiveReachable
    BY DEF IInv, Sound
  <2>1. ASSUME NEW h \in Live(ep)
        PROVE  /\ RoutedTo(ep, h.quinn) # {}
               /\ RoutedTo(ep, h.quinn) \subseteq OwnedBy(ep, h) \cap ep.issued_cids
               /\ \A c \in OwnedBy(ep, h) \cap DOMAIN ep.index : ep.index[c] = h.quinn
               /\ h.quinn \in DOMAIN ep.by_quinn /\ ep.by_quinn[h.quinn] = h
    <3>1. OwnedBy(ep, h) = ep.cids_by_conn[h] /\ ep.cids_by_conn[h] \subseteq ep.issued_cids
      BY DEF Books, OwnedBy
    <3>2. h.quinn \in DOMAIN ep.by_quinn /\ ep.by_quinn[h.quinn] = h
      BY DEF Books
    <3>3. \E c \in DOMAIN ep.index : ep.index[c] = h.quinn
      BY DEF Books
    <3>4. \A c \in DOMAIN ep.index : ep.index[c] = h.quinn <=> c \in ep.cids_by_conn[h]
      BY DEF Books
    <3> QED BY <3>1, <3>2, <3>3, <3>4 DEF RoutedTo
  <2>2. DOMAIN ep.by_quinn \subseteq ep.slab \cap {h.quinn : h \in Live(ep)}
    BY DEF Books
  <2> QED BY <2>1, <2>2 DEF LiveReachable
<1> QED BY <1>1, Invariance, PTL

(* Nothing is ever queued in answer to someone who has not proved to hold a*)
(* PSK, and a client endpoint answers nobody.                              *)
THEOREM Silence == Spec => []SilentToStrangers
<1>1. IInv => SilentToStrangers
  BY DEF IInv, Sound, Silent, SilentToStrangers
<1> QED BY <1>1, Invariance, PTL

-----------------------------------------------------------------------------
(* Endpoint implements ConnectionLife                                      *)

\* Abbreviations for what the refinement mapping says of a handle.
Says(s, kind) == \E i \in DOMAIN s : s[i] = kind
Named(h) == Get(ep.client_ids, h)
Keys(h) == Get(keyed, h)

\* Nothing about a handle changes.
LEMMA StaysIs ==
  ASSUME NEW h \in Handle, StageOf(h)' = StageOf(h), Keys(h)' = Keys(h), Named(h)' = Named(h),
         ep'.events[h] = ep.events[h]
  PROVE  Life!Stays(h)
BY DEF Life!Stays, Keys, Named

\* The holder of a handle polls an event.
LEMMA ToldIs ==
  ASSUME NEW h \in Handle, StageOf(h)' = StageOf(h), Keys(h)' = Keys(h), Named(h)' = Named(h),
         ep.events[h] # <<>>, ep'.events[h] = Tail(ep.events[h])
  PROVE  Life!Told(h)
BY DEF Life!Told, Keys, Named

\* The connection of a handle advances or is lost, with a report r.
LEMMA AdvancesIs ==
  ASSUME NEW h \in Handle, NEW r \in Life!Reports, StageOf(h) \in {"dialling", "connected"},
         ep'.events[h] = ep.events[h] \o r, Keys(h)' = Keys(h),
         Says(r, "Connected") => StageOf(h) = "dialling",
         Says(r, "Stream") => StageOf(h) = "connected" \/ Says(r, "Connected"),
         \/ Says(r, "ConnectionLost") /\ StageOf(h)' = "lost" /\ Named(h)' = NoClient
         \/ /\ ~Says(r, "ConnectionLost")
            /\ StageOf(h)' = IF Says(r, "Connected") THEN "connected" ELSE StageOf(h)
            /\ Named(h)' = Named(h)
  PROVE  Life!Advances(h)
<1>1. Life!Tells(r, "Connected") <=> Says(r, "Connected")
  BY DEF Life!Tells, Says
<1>2. Life!Tells(r, "Stream") <=> Says(r, "Stream")
  BY DEF Life!Tells, Says
<1>3. Life!Tells(r, "ConnectionLost") <=> Says(r, "ConnectionLost")
  BY DEF Life!Tells, Says
<1> QED BY <1>1, <1>2, <1>3 DEF Life!Advances, Keys, Named

\* A handle is allocated.
LEMMA BornIs ==
  ASSUME NEW h \in Handle, StageOf(h) = "unborn", Keys(h)' \in Client,
         \/ StageOf(h)' = "dialling" /\ Named(h)' = Keys(h)' /\ ep'.events[h] = <<>>
         \/ StageOf(h)' = "lost" /\ Named(h)' = NoClient /\ ep'.events[h] = <<"ConnectionLost">>
  PROVE  Life!Born(h)
BY DEF Life!Born, Keys, Named

\* A queue says what its parts say.
LEMMA ConcatSays ==
  ASSUME NEW S, NEW a \in Seq(S), NEW b \in Seq(S), NEW k
  PROVE  Says(a \o b, k) <=> Says(a, k) \/ Says(b, k)
<1>1. ASSUME NEW i \in DOMAIN (a \o b), (a \o b)[i] = k PROVE Says(a, k) \/ Says(b, k)
  <2>1. CASE i <= Len(a)
    BY <1>1, <2>1 DEF Says
  <2>2. CASE i > Len(a)
    <3>1. i - Len(a) \in DOMAIN b /\ b[i - Len(a)] = k
      BY <1>1, <2>2
    <3> QED BY <3>1 DEF Says
  <2> QED BY <2>1, <2>2
<1>2. ASSUME NEW i \in DOMAIN a, a[i] = k PROVE Says(a \o b, k)
  <2>1. i \in DOMAIN (a \o b) /\ (a \o b)[i] = k
    BY <1>2
  <2> QED BY <2>1 DEF Says
<1>3. ASSUME NEW i \in DOMAIN b, b[i] = k PROVE Says(a \o b, k)
  <2>1. i + Len(a) \in DOMAIN (a \o b) /\ (a \o b)[i + Len(a)] = k
    BY <1>3
  <2> QED BY <2>1 DEF Says
<1> QED BY <1>1, <1>2, <1>3 DEF Says

\* The report of a pass about one connection.
Ends(does) == "error" \in does \/ "drained" \in does
Report(does) == Progress(does) \o (IF Ends(does) THEN <<"ConnectionLost">> ELSE <<>>)

\* The report of a pass is one that ConnectionLife allows, and says just what happened.
LEMMA ReportFacts ==
  ASSUME NEW does
  PROVE  LET r == Report(does) IN
         /\ r \in Life!Reports
         /\ r \in Seq({"Connected", "Stream", "ConnectionLost"})
         /\ Progress(does) \in Seq({"Connected", "Stream", "ConnectionLost"})
         /\ Says(r, "Connected") <=> "connected" \in does
         /\ Says(r, "Stream") <=> "stream" \in does
         /\ Says(r, "ConnectionLost") <=> Ends(does)
<1> DEFINE c == IF "connected" \in does THEN <<"Connected">> ELSE <<>>
           s == IF "stream" \in does THEN <<"Stream">> ELSE <<>>
           l == IF Ends(does) THEN <<"ConnectionLost">> ELSE <<>>
           K == {"Connected", "Stream", "ConnectionLost"}
<1>1. c \in {<<>>, <<"Connected">>} /\ s \in {<<>>, <<"Stream">>} /\ l \in {<<>>, <<"ConnectionLost">>}
  OBVIOUS
<1>2. /\ \A k : Says(c, k) <=> k = "Connected" /\ "connected" \in does
      /\ \A k : Says(s, k) <=> k = "Stream" /\ "stream" \in does
      /\ \A k : Says(l, k) <=> k = "ConnectionLost" /\ Ends(does)
  BY DEF Says
<1>3. Report(does) = c \o s \o l /\ Progress(does) = c \o s
  BY DEF Report, Progress
<1> HIDE DEF c, s, l
<1>4. c \in Seq(K) /\ s \in Seq(K) /\ l \in Seq(K)
  <2>1. /\ <<>> \in Seq(K) /\ <<"Connected">> \in Seq(K) /\ <<"Stream">> \in Seq(K)
        /\ <<"ConnectionLost">> \in Seq(K)
    OBVIOUS
  <2> QED BY <1>1, <2>1
<1> HIDE DEF K
<1>5. Report(does) \in Life!Reports
  <2>1. c \in Life!Maybe("Connected") /\ s \in Life!Maybe("Stream") /\ l \in Life!Maybe("ConnectionLost")
    BY <1>1 DEF Life!Maybe
  <2>2. c \o s \o l \in Life!Reports
    BY <2>1 DEF Life!Reports
  <2> QED BY <1>3, <2>2
<1>6. c \o s \in Seq(K) /\ c \o s \o l \in Seq(K)
  BY <1>4
<1>7. ASSUME NEW k PROVE Says(c \o s \o l, k) <=> Says(c, k) \/ Says(s, k) \/ Says(l, k)
  <2>1. Says(c \o s \o l, k) <=> Says(c \o s, k) \/ Says(l, k)
    BY <1>4, <1>6, ConcatSays
  <2>2. Says(c \o s, k) <=> Says(c, k) \/ Says(s, k)
    BY <1>4, ConcatSays
  <2> QED BY <2>1, <2>2
<1>8. /\ Says(Report(does), "Connected") <=> "connected" \in does
      /\ Says(Report(does), "Stream") <=> "stream" \in does
      /\ Says(Report(does), "ConnectionLost") <=> Ends(does)
  BY <1>2, <1>3, <1>7
<1> QED BY <1>3, <1>5, <1>6, <1>8 DEF K

\* Pushing one more event after a report.
LEMMA ConcatThenAppend ==
  ASSUME NEW S, NEW a \in Seq(S), NEW b \in Seq(S), NEW x \in S
  PROVE  Append(a \o b, x) = a \o (b \o <<x>>)
BY SMTT(30)

\* Reporting nothing.
LEMMA ConcatNothing ==
  ASSUME NEW S, NEW a \in Seq(S)
  PROVE  a \o <<>> = a /\ <<>> \o a = a
OBVIOUS

\* What a servicing pass means to the holder of a handle.
Sees(e, work, s, h) ==
  /\ h \in Live(s) <=> h \in Live(e) /\ ~Dies(work, h)
  /\ h \in Live(e) => s.events[h] = e.events[h] \o Report(work[h].does)
  /\ h \notin Live(e) => s.events[h] = e.events[h]
  /\ Get(s.client_ids, h) = IF h \in Live(e) /\ Dies(work, h) THEN NoClient ELSE Get(e.client_ids, h)
  /\ h \in Live(s) => s.connections[h].phase =
       IF "connected" \in work[h].does THEN "open" ELSE e.connections[h].phase

\* What the holder of a handle sees of a servicing pass.
LEMMA PassTells ==
  ASSUME NEW e, Sound(e), NEW work, Fits(e, work), NEW s, ServiceResult(e, work, s), NEW h \in Handle
  PROVE  Sees(e, work, s, h)
<1>1. Live(s) = Survivors(e, work)
  <2>1. s.connections = [k \in Survivors(e, work) |-> Serviced(e, work, k)]
    BY DEF ServiceResult
  <2> QED BY <2>1 DEF Live
<1>2. h \in Live(s) <=> h \in Live(e) /\ ~Dies(work, h)
  BY <1>1 DEF Survivors
<1>3. s.events[h] = IF h \in Casualties(e, work)
                    THEN Append(e.events[h] \o Progress(work[h].does), "ConnectionLost")
                    ELSE IF h \in Live(e) THEN e.events[h] \o Progress(work[h].does)
                    ELSE e.events[h]
  BY DEF ServiceResult
<1>4. e.events[h] \in Seq({"Connected", "Stream", "ConnectionLost"})
  BY DEF Sound, Typed
<1>5. Progress(work[h].does) \in Seq({"Connected", "Stream", "ConnectionLost"})
  BY ReportFacts
<1>6. ASSUME h \in Live(e)
      PROVE  s.events[h] = e.events[h] \o Report(work[h].does)
  <2>1. CASE Dies(work, h)
    <3>1. s.events[h] = Append(e.events[h] \o Progress(work[h].does), "ConnectionLost")
      BY <1>3, <1>6, <2>1 DEF Casualties
    <3>2. Report(work[h].does) = Progress(work[h].does) \o <<"ConnectionLost">>
      BY <2>1 DEF Report, Ends, Dies
    <3> DEFINE K == {"Connected", "Stream", "ConnectionLost"}
    <3>3. e.events[h] \in Seq(K) /\ Progress(work[h].does) \in Seq(K) /\ "ConnectionLost" \in K
      BY <1>4, <1>5
    <3> HIDE DEF K
    <3>4. Append(e.events[h] \o Progress(work[h].does), "ConnectionLost")
            = e.events[h] \o (Progress(work[h].does) \o <<"ConnectionLost">>)
      BY <3>3, ConcatThenAppend
    <3> QED BY <3>1, <3>2, <3>4
  <2>2. CASE ~Dies(work, h)
    <3>1. s.events[h] = e.events[h] \o Progress(work[h].does)
      BY <1>3, <1>6, <2>2 DEF Casualties
    <3>2. Report(work[h].does) = Progress(work[h].does) \o <<>>
      BY <2>2 DEF Report, Ends, Dies
    <3> QED BY <1>4, <1>5, <3>1, <3>2, ConcatNothing
  <2> QED BY <2>1, <2>2
<1>7. h \notin Live(e) => s.events[h] = e.events[h]
  BY <1>3 DEF Casualties
<1>8. Get(s.client_ids, h) = IF h \in Live(e) /\ Dies(work, h) THEN NoClient ELSE Get(e.client_ids, h)
  <2>1. s.client_ids = Without(e.client_ids, Casualties(e, work))
    BY DEF ServiceResult
  <2> QED BY <2>1 DEF Without, Get, Casualties
<1>9. ASSUME h \in Live(s)
      PROVE  s.connections[h].phase = IF "connected" \in work[h].does THEN "open" ELSE e.connections[h].phase
  <2>1. h \in Live(e) /\ ~Dies(work, h) /\ s.connections[h] = Serviced(e, work, h)
    BY <1>1, <1>2, <1>9 DEF ServiceResult
  <2>2. e.connections[h] \in Conn
    BY <2>1 DEF Sound, Typed, IsMap, Live
  <2>3. Serviced(e, work, h).phase = IF "connected" \in work[h].does THEN "open" ELSE e.connections[h].phase
    BY <2>1, <2>2 DEF Serviced, Flushed, Settled, Dies, Conn
  <2> QED BY <2>1, <2>3
<1> QED BY <1>2, <1>6, <1>7, <1>8, <1>9 DEF Sees

-----------------------------------------------------------------------------
\* Connected has been told, or is about to be.
Met(h) == "Connected" \in heard[h] \/ Says(ep.events[h], "Connected")

\* What the refinement needs beyond soundness: handles are as old as their generation,
\* an unborn one has no history, and quinn's phase agrees with what its holder was told.
LInv ==
  /\ IInv
  /\ Live(ep) \subseteq DOMAIN keyed
  /\ \A h \in DOMAIN keyed : h.generation < ep.next_generation
  /\ \A h \in Handle : h \notin DOMAIN keyed => ep.events[h] = <<>> /\ heard[h] = {}
  /\ \A h \in Live(ep) :
       /\ ep.connections[h].phase = "handshake" => ~Met(h)
       /\ ep.connections[h].phase = "open" => Met(h)

\* The stage of a handle, in terms of what its holder has met.
LEMMA StageIs ==
  ASSUME NEW h
  PROVE  StageOf(h) = IF h \notin DOMAIN keyed THEN "unborn"
                      ELSE IF h \notin Live(ep) THEN "lost"
                      ELSE IF Met(h) THEN "connected" ELSE "dialling"
BY DEF StageOf, Met, Says

\* A pass over an endpoint e that the connection of h entered as it was: its holder is
\* told what happened, and only that.
LEMMA PassAdvances ==
  ASSUME LInv, NEW e, NEW work, Plausible(e, work), heard' = heard,
         NEW h \in Live(ep), Sees(e, work, ep', h), h \in Live(e), e.connections[h] = ep.connections[h],
         e.events[h] = ep.events[h], Get(e.client_ids, h) = Get(ep.client_ids, h),
         h \in DOMAIN keyed', keyed'[h] = keyed[h]
  PROVE  /\ Life!Advances(h)
         /\ h \in Live(ep') => /\ ep'.connections[h].phase = "handshake" => ~Met(h)'
                               /\ ep'.connections[h].phase = "open" => Met(h)'
<1> DEFINE r == Report(work[h].does)
<1>1. h \in Handle /\ h \in DOMAIN keyed
  BY DEF LInv, IInv, IsMap
<1>2. Dies(work, h) <=> Ends(work[h].does)
  BY DEF Dies, Ends
<1>3. /\ r \in Life!Reports
      /\ r \in Seq({"Connected", "Stream", "ConnectionLost"})
      /\ Says(r, "Connected") <=> "connected" \in work[h].does
      /\ Says(r, "Stream") <=> "stream" \in work[h].does
      /\ Says(r, "ConnectionLost") <=> Dies(work, h)
  BY <1>2, ReportFacts
<1>4. /\ h \in Live(ep') <=> ~Dies(work, h)
      /\ ep'.events[h] = ep.events[h] \o r
      /\ Get(ep'.client_ids, h) = IF Dies(work, h) THEN NoClient ELSE Get(ep.client_ids, h)
      /\ h \in Live(ep') => ep'.connections[h].phase =
           IF "connected" \in work[h].does THEN "open" ELSE ep.connections[h].phase
  BY DEF Sees
<1> HIDE DEF r
<1>5. /\ ep.connections[h].phase = "handshake" => ~Met(h)
      /\ ep.connections[h].phase = "open" => Met(h)
  BY DEF LInv
<1>6. /\ "connected" \in work[h].does => ep.connections[h].phase = "handshake"
      /\ "stream" \in work[h].does => ep.connections[h].phase = "open" \/ "connected" \in work[h].does
  BY DEF Plausible
<1>7. Met(h)' <=> Met(h) \/ "connected" \in work[h].does
  <2>1. ep.events[h] \in Seq({"Connected", "Stream", "ConnectionLost"})
    BY <1>1 DEF LInv, IInv, Sound, Typed
  <2>2. Says(ep.events[h] \o r, "Connected") <=> Says(ep.events[h], "Connected") \/ Says(r, "Connected")
    BY <1>3, <2>1, ConcatSays
  <2> QED BY <1>3, <1>4, <2>2 DEF Met
<1>8. StageOf(h) = IF Met(h) THEN "connected" ELSE "dialling"
  BY <1>1, StageIs
<1>9. StageOf(h)' = IF h \notin Live(ep') THEN "lost" ELSE IF Met(h)' THEN "connected" ELSE "dialling"
  BY StageIs DEF StageOf, Met, Says
<1>10. Keys(h)' = Keys(h)
  BY <1>1 DEF Keys, Get
<1>11. Named(h)' = IF Dies(work, h) THEN NoClient ELSE Named(h)
  BY <1>4 DEF Named
<1>12. Life!Advances(h)
  BY <1>1, <1>3, <1>4, <1>5, <1>6, <1>7, <1>8, <1>9, <1>10, <1>11, AdvancesIs
<1>13. h \in Live(ep') => /\ ep'.connections[h].phase = "handshake" => ~Met(h)'
                          /\ ep'.connections[h].phase = "open" => Met(h)'
  BY <1>4, <1>5, <1>6, <1>7
<1> QED BY <1>12, <1>13

\* Of a handle without a connection a pass says nothing.
LEMMA PassSpares ==
  ASSUME LInv, NEW e, NEW work, heard' = heard,
         NEW h \in Handle, Sees(e, work, ep', h), h \notin Live(e), h \notin Live(ep),
         e.events[h] = ep.events[h], Get(e.client_ids, h) = Get(ep.client_ids, h),
         h \in DOMAIN keyed' <=> h \in DOMAIN keyed, Get(keyed', h) = Get(keyed, h)
  PROVE  Life!Stays(h) /\ h \notin Live(ep') /\ ep'.events[h] = ep.events[h]
<1>1. h \notin Live(ep') /\ ep'.events[h] = ep.events[h] /\ Named(h)' = Named(h)
  BY DEF Sees, Named
<1>2. StageOf(h)' = StageOf(h)
  BY <1>1 DEF StageOf
<1>3. Keys(h)' = Keys(h)
  BY DEF Keys
<1> QED BY <1>1, <1>2, <1>3, StaysIs

\* A pass over an endpoint with the same connections.
LEMMA PassLife ==
  ASSUME LInv, IInv', NEW e, NEW work, Plausible(e, work), \A h \in Handle : Sees(e, work, ep', h),
         UNCHANGED <<heard, keyed>>, Same(ep, e, {"outbound", "server_config"}),
         ep'.next_generation = ep.next_generation
  PROVE  Life!Next /\ LInv'
<1>1. /\ e.connections = ep.connections /\ e.events = ep.events /\ e.client_ids = ep.client_ids
      /\ Live(e) = Live(ep)
  BY DEF Same, Fields, Live
<1>2. Live(ep) \subseteq DOMAIN keyed /\ DOMAIN keyed \subseteq Handle /\ Live(ep) \subseteq Handle
  BY DEF LInv, IInv, IsMap
<1>3. ASSUME NEW h \in Live(ep)
      PROVE  /\ Life!Advances(h)
             /\ h \in Live(ep') => /\ ep'.connections[h].phase = "handshake" => ~Met(h)'
                                   /\ ep'.connections[h].phase = "open" => Met(h)'
  BY <1>1, <1>2, PassAdvances
<1>4. ASSUME NEW h \in Handle, h \notin Live(ep)
      PROVE  Life!Stays(h) /\ h \notin Live(ep') /\ ep'.events[h] = ep.events[h]
  BY <1>1, <1>4, PassSpares
<1>5. Life!Next
  BY <1>3, <1>4 DEF Life!Next
<1>6. Live(ep') \subseteq Live(ep)
  <2>1. Live(ep') \subseteq Handle
    BY DEF IInv, Sound, Typed, IsMap, Live
  <2> QED BY <1>4, <2>1
<1>7. LInv'
  <2>1. (Live(ep) \subseteq DOMAIN keyed)'
    BY <1>2, <1>6
  <2>2. (\A h \in DOMAIN keyed : h.generation < ep.next_generation)'
    BY DEF LInv
  <2>3. (\A h \in Handle : h \notin DOMAIN keyed => ep.events[h] = <<>> /\ heard[h] = {})'
    BY <1>2, <1>4 DEF LInv
  <2>4. (\A h \in Live(ep) :
           /\ ep.connections[h].phase = "handshake" => ~Met(h)
           /\ ep.connections[h].phase = "open" => Met(h))'
    BY <1>3, <1>6
  <2> QED BY <2>1, <2>2, <2>3, <2>4 DEF LInv
<1> QED BY <1>5, <1>7

\* An admission brings one handle to life, under the identity of the keys it was made
\* with; the others only see a pass.
LEMMA AdmissionLife ==
  ASSUME LInv, IInv', Admission
  PROVE  Life!Next /\ LInv'
<1>1. PICK client \in Client : \E e, b, work :
         /\ Joined(e, b, client) /\ Fits(e, work) /\ Plausible(e, work)
         /\ work[b].does \subseteq {"send", "error"}
         /\ ep' = ServiceConnections(e, work)
         /\ keyed' = Put(keyed, b, client) /\ UNCHANGED heard
  BY DEF Admission
<1>2. PICK e, b, work :
         /\ Joined(e, b, client) /\ Fits(e, work) /\ Plausible(e, work)
         /\ work[b].does \subseteq {"send", "error"}
         /\ ep' = ServiceConnections(e, work)
         /\ keyed' = Put(keyed, b, client) /\ UNCHANGED heard
  BY <1>1
<1>3. ServiceResult(e, work, ep')
  BY <1>2, ServiceFacts DEF Joined, Sound
<1>4. \A h \in Handle : Sees(e, work, ep', h)
  BY <1>2, <1>3, PassTells DEF Joined
<1>5. /\ b \in Handle /\ b \notin Live(ep) /\ b.generation = ep.next_generation
      /\ Live(e) = Live(ep) \cup {b} /\ e.events = ep.events
      /\ e.client_ids = Put(ep.client_ids, b, client)
      /\ \A k \in Live(ep) : e.connections[k] = ep.connections[k]
      /\ e.connections[b].phase = "handshake" /\ e.next_generation = ep.next_generation + 1
  BY <1>2 DEF Joined
<1>6. Live(ep) \subseteq DOMAIN keyed /\ DOMAIN keyed \subseteq Handle /\ Live(ep) \subseteq Handle
  BY DEF LInv, IInv, IsMap
<1>7. ep.next_generation \in Nat /\ \A h \in Handle : h.generation \in Nat
  BY BoundAssumption DEF LInv, IInv, Sound, Typed, Handle
<1>8. b \notin DOMAIN keyed /\ ep.events[b] = <<>> /\ heard[b] = {}
  BY <1>5, <1>7 DEF LInv
<1>9. /\ DOMAIN keyed' = DOMAIN keyed \cup {b} /\ keyed'[b] = client
      /\ \A h \in DOMAIN keyed : keyed'[h] = keyed[h]
  BY <1>2, <1>8 DEF Put
<1>10. ep'.next_generation = ep.next_generation + 1
  BY <1>3, <1>5 DEF ServiceResult
<1>11. Get(e.client_ids, b) = client /\ \A h : h # b => Get(e.client_ids, h) = Get(ep.client_ids, h)
  BY <1>5 DEF Put, Get
<1>12. ASSUME NEW h \in Live(ep)
       PROVE  /\ Life!Advances(h)
              /\ h \in Live(ep') => /\ ep'.connections[h].phase = "handshake" => ~Met(h)'
                                    /\ ep'.connections[h].phase = "open" => Met(h)'
  <2>1. h \in Live(e) /\ h # b /\ h \in DOMAIN keyed' /\ keyed'[h] = keyed[h] /\ h \in Handle
    BY <1>5, <1>6, <1>9
  <2>2. Sees(e, work, ep', h) /\ Plausible(e, work) /\ heard' = heard
    BY <1>2, <1>4, <2>1
  <2> QED BY <1>5, <1>11, <2>1, <2>2, PassAdvances
<1>13. ASSUME NEW h \in Handle, h \notin Live(ep), h # b
       PROVE  Life!Stays(h) /\ h \notin Live(ep') /\ ep'.events[h] = ep.events[h]
  <2>1. /\ h \notin Live(e)
        /\ h \in DOMAIN keyed' <=> h \in DOMAIN keyed
        /\ Get(keyed', h) = Get(keyed, h)
    BY <1>5, <1>9, <1>13 DEF Get
  <2>2. Sees(e, work, ep', h) /\ heard' = heard
    BY <1>2, <1>4
  <2>3. e.events[h] = ep.events[h] /\ Get(e.client_ids, h) = Get(ep.client_ids, h)
    BY <1>5, <1>11, <1>13
  <2> QED BY <1>13, <2>1, <2>2, <2>3, PassSpares
<1>14. /\ Life!Born(b)
       /\ b \in Live(ep') => /\ ep'.connections[b].phase = "handshake" /\ ~Met(b)'
  <2>1. /\ "connected" \notin work[b].does /\ "stream" \notin work[b].does
        /\ "drained" \notin work[b].does
    BY <1>2
  <2>2. /\ b \in Live(ep') <=> ~Dies(work, b)
        /\ ep'.events[b] = <<>> \o Report(work[b].does)
        /\ Get(ep'.client_ids, b) = IF Dies(work, b) THEN NoClient ELSE client
        /\ b \in Live(ep') => ep'.connections[b].phase = "handshake"
    <3>1. Sees(e, work, ep', b) /\ b \in Live(e)
      BY <1>4, <1>5
    <3> QED BY <1>5, <1>8, <1>11, <2>1, <3>1 DEF Sees
  <2>3. Progress(work[b].does) = <<>>
    BY <2>1 DEF Progress
  <2>4. ep'.events[b] = IF Dies(work, b) THEN <<"ConnectionLost">> ELSE <<>>
    BY <2>2, <2>3 DEF Report, Dies, Ends
  <2>5. ~Met(b)'
    BY <1>2, <1>8, <2>4 DEF Met, Says
  <2>6. StageOf(b) = "unborn"
    BY <1>8 DEF StageOf
  <2>7. StageOf(b)' = IF Dies(work, b) THEN "lost" ELSE "dialling"
    BY <1>9, <2>2, <2>5 DEF StageOf, Met, Says
  <2>8. Keys(b)' = client /\ Named(b)' = IF Dies(work, b) THEN NoClient ELSE client
    BY <1>9, <2>2 DEF Keys, Named, Get
  <2>9. Life!Born(b)
    BY <1>5, <2>4, <2>6, <2>7, <2>8, BornIs
  <2> QED BY <2>2, <2>5, <2>9
<1>15. Life!Next
  BY <1>12, <1>13, <1>14 DEF Life!Next
<1>16. Live(ep') \subseteq Live(ep) \cup {b}
  <2>1. Live(ep') \subseteq Handle
    BY DEF IInv, Sound, Typed, IsMap, Live
  <2> QED BY <1>13, <2>1
<1>17. LInv'
  <2>1. (Live(ep) \subseteq DOMAIN keyed)'
    BY <1>6, <1>9, <1>16
  <2>2. (\A h \in DOMAIN keyed : h.generation < ep.next_generation)'
    BY <1>5, <1>6, <1>7, <1>9, <1>10 DEF LInv
  <2>3. (\A h \in Handle : h \notin DOMAIN keyed => ep.events[h] = <<>> /\ heard[h] = {})'
    BY <1>2, <1>6, <1>9, <1>13 DEF LInv
  <2>4. (\A h \in Live(ep) :
           /\ ep.connections[h].phase = "handshake" => ~Met(h)
           /\ ep.connections[h].phase = "open" => Met(h))'
    BY <1>12, <1>14, <1>16
  <2> QED BY <2>1, <2>2, <2>3, <2>4 DEF LInv
<1> QED BY <1>15, <1>17

\* A polled event moves from the queue to its holder, and with it what has been told.
LEMMA PollEventLife ==
  ASSUME LInv, IInv', NEW b \in Handle, PollEvent(b)
  PROVE  Life!Next /\ LInv'
<1>1. /\ Same(ep, ep', {"events"}) /\ ep'.events = [ep.events EXCEPT ![b] = Tail(@)]
      /\ ep.events[b] # <<>> /\ keyed' = keyed
      /\ heard' = [heard EXCEPT ![b] = @ \cup ({Head(ep.events[b])} \ {"Stream"})]
  BY PollEventSound DEF LInv, IInv, PollEvent
<1>2. /\ ep'.connections = ep.connections /\ ep'.client_ids = ep.client_ids
      /\ ep'.next_generation = ep.next_generation /\ Live(ep') = Live(ep)
  BY <1>1 DEF Same, Fields, Live
<1>3. /\ ep.events \in [Handle -> Seq({"Connected", "Stream", "ConnectionLost"})]
      /\ heard \in [Handle -> SUBSET {"Connected", "ConnectionLost"}]
  BY DEF LInv, IInv, Sound, Typed
<1>4. ASSUME NEW h \in Handle, h # b
      PROVE  ep'.events[h] = ep.events[h] /\ heard'[h] = heard[h]
  BY <1>1, <1>3, <1>4
<1>5. Met(b)' <=> Met(b)
  <2> DEFINE s == ep.events[b]
  <2>1. /\ s \in Seq({"Connected", "Stream", "ConnectionLost"}) /\ s # <<>>
        /\ ep'.events[b] = Tail(s) /\ heard'[b] = heard[b] \cup ({Head(s)} \ {"Stream"})
    BY <1>1, <1>3
  <2> HIDE DEF s
  <2>2. Says(s, "Connected") <=> Head(s) = "Connected" \/ Says(Tail(s), "Connected")
    <3>1. ASSUME NEW i \in DOMAIN s, s[i] = "Connected", i # 1
          PROVE  Says(Tail(s), "Connected")
      <4>1. i - 1 \in DOMAIN Tail(s) /\ Tail(s)[i - 1] = "Connected"
        BY <2>1, <3>1
      <4> QED BY <4>1 DEF Says
    <3>2. ASSUME NEW i \in DOMAIN Tail(s), Tail(s)[i] = "Connected"
          PROVE  Says(s, "Connected")
      <4>1. i + 1 \in DOMAIN s /\ s[i + 1] = "Connected"
        BY <2>1, <3>2
      <4> QED BY <4>1 DEF Says
    <3>3. 1 \in DOMAIN s /\ s[1] = Head(s)
      BY <2>1
    <3> QED BY <3>1, <3>2, <3>3 DEF Says
  <2> QED BY <2>1, <2>2 DEF Met, s
<1>6. \A h \in Handle : Met(h)' <=> Met(h)
  BY <1>4, <1>5 DEF Met
<1>7. \A h \in Handle : StageOf(h)' = StageOf(h) /\ Keys(h)' = Keys(h) /\ Named(h)' = Named(h)
  <2> TAKE h \in Handle
  <2>1. StageOf(h)' = IF h \notin DOMAIN keyed' THEN "unborn"
                      ELSE IF h \notin Live(ep') THEN "lost"
                      ELSE IF Met(h)' THEN "connected" ELSE "dialling"
    BY DEF StageOf, Met, Says
  <2>2. StageOf(h)' = StageOf(h)
    BY <1>1, <1>2, <1>6, <2>1, StageIs
  <2> QED BY <1>1, <1>2, <2>2 DEF Keys, Named
<1>8. Life!Next
  <2>1. Life!Told(b)
    <3>1. ep'.events[b] = Tail(ep.events[b])
      BY <1>1, <1>3
    <3> QED BY <1>1, <1>7, <3>1, ToldIs
  <2>2. ASSUME NEW h \in Handle, h # b PROVE Life!Stays(h)
    BY <1>4, <1>7, <2>2, StaysIs
  <2> QED BY <2>1, <2>2 DEF Life!Next
<1>9. LInv'
  <2>1. (Live(ep) \subseteq DOMAIN keyed)' /\ (\A h \in DOMAIN keyed : h.generation < ep.next_generation)'
    BY <1>1, <1>2 DEF LInv
  <2>2. (\A h \in Handle : h \notin DOMAIN keyed => ep.events[h] = <<>> /\ heard[h] = {})'
    BY <1>1, <1>4 DEF LInv
  <2>3. Live(ep) \subseteq Handle
    BY DEF LInv, IInv, Sound, Typed, IsMap, Live
  <2>4. (\A h \in Live(ep) :
           /\ ep.connections[h].phase = "handshake" => ~Met(h)
           /\ ep.connections[h].phase = "open" => Met(h))'
    BY <1>2, <1>6, <2>3 DEF LInv
  <2> QED BY <2>1, <2>2, <2>4 DEF LInv
<1> QED BY <1>8, <1>9

\* Stream operations and close are invisible to the life of a handle.
LEMMA TouchLife ==
  ASSUME LInv, IInv', Touch
  PROVE  Life!Next /\ LInv'
<1>1. PICK b \in Live(ep), conn \in Conn :
        /\ conn.phase \in {ep.connections[b].phase, "closing"}
        /\ ep' = [ep EXCEPT !.connections = [ep.connections EXCEPT ![b] = conn]]
  BY DEF Touch
<1>2. Same(ep, ep', {"connections"}) /\ Live(ep') = Live(ep)
  BY <1>1, TouchSound DEF LInv, IInv
<1>3. /\ ep'.events = ep.events /\ ep'.client_ids = ep.client_ids
      /\ ep'.next_generation = ep.next_generation /\ heard' = heard /\ keyed' = keyed
  BY <1>2 DEF Same, Fields, Touch
<1>4. \A h : Met(h)' <=> Met(h)
  BY <1>3 DEF Met
<1>5. \A h \in Handle : StageOf(h)' = StageOf(h) /\ Keys(h)' = Keys(h) /\ Named(h)' = Named(h)
  BY <1>2, <1>3 DEF StageOf, Keys, Named
<1>6. Life!Next
  BY <1>3, <1>5, StaysIs DEF Life!Next
<1>7. \A h \in Live(ep) : ep'.connections[h].phase \in {ep.connections[h].phase, "closing"}
  <2>1. ep'.connections = [ep.connections EXCEPT ![b] = conn]
    BY <1>1 DEF LInv, IInv, Sound, Shape, Fields
  <2> QED BY <1>1, <2>1 DEF Live
<1>8. LInv'
  BY <1>2, <1>3, <1>4, <1>7 DEF LInv
<1> QED BY <1>6, <1>8

\* poll_transmit is a pass or nothing to the life of a handle.
LEMMA TransmissionLife ==
  ASSUME LInv, IInv', Transmission
  PROVE  Life!Next /\ LInv'
<1>1. PICK e : /\ e = ep \/ e = ServiceConnections(ep, NoWork(ep))
               /\ \/ ep' = e
                  \/ e.outbound # <<>> /\ ep' = [e EXCEPT !.outbound = Tail(@)]
  BY DEF Transmission
<1>2. Sound(ep) /\ Sound(e)
  BY <1>1, QuietFits, PassSound DEF LInv, IInv
<1>3. Same(e, ep', {"outbound"})
  BY <1>1, <1>2 DEF Sound, Shape, Same, Fields
<1>4. /\ ep'.events = e.events /\ ep'.client_ids = e.client_ids /\ ep'.connections = e.connections
      /\ ep'.next_generation = e.next_generation /\ Live(ep') = Live(e)
  BY <1>3 DEF Same, Fields, Live
<1>5. UNCHANGED <<heard, keyed>>
  BY DEF Transmission
<1>6. CASE e = ep
  <2>1. \A h : Met(h)' <=> Met(h)
    BY <1>4, <1>5, <1>6 DEF Met
  <2>2. \A h \in Handle : StageOf(h)' = StageOf(h) /\ Keys(h)' = Keys(h) /\ Named(h)' = Named(h)
    BY <1>4, <1>5, <1>6 DEF StageOf, Keys, Named
  <2>3. Life!Next
    BY <1>4, <1>6, <2>2, StaysIs DEF Life!Next
  <2> QED BY <1>4, <1>5, <1>6, <2>1, <2>3 DEF LInv
<1>7. CASE e = ServiceConnections(ep, NoWork(ep))
  <2> DEFINE work == NoWork(ep)
  <2>1. Fits(ep, work) /\ Plausible(ep, work)
    BY <1>2, QuietFits DEF Plausible, NoWork, Quiet
  <2>2. ServiceResult(ep, work, e)
    BY <1>2, <1>7, <2>1, ServiceFacts DEF Sound
  <2> HIDE DEF work
  <2>3. ep'.next_generation = ep.next_generation
    BY <1>4, <2>2 DEF ServiceResult
  <2>4. \A h \in Handle : Sees(ep, work, ep', h)
    <3> TAKE h \in Handle
    <3>1. Sees(ep, work, e, h)
      BY <1>2, <2>1, <2>2, PassTells
    <3> QED BY <1>4, <3>1 DEF Sees
  <2>5. Same(ep, ep, {"outbound", "server_config"})
    BY DEF Same
  <2> QED BY <1>5, <2>1, <2>3, <2>4, <2>5, PassLife
<1> QED BY <1>1, <1>6, <1>7

\* Every call is a step of ConnectionLife, or none.
LEMMA StepLife ==
  ASSUME LInv, [Next]_vars
  PROVE  [Life!Next]_(Life!life) /\ LInv'
<1>1. IInv'
  BY StepIInv DEF LInv
<1>2. CASE UNCHANGED vars
  <2>1. \A h : Met(h)' <=> Met(h)
    BY <1>2 DEF Met, vars
  <2>2. \A h \in Handle : StageOf(h)' = StageOf(h) /\ Keys(h)' = Keys(h) /\ Named(h)' = Named(h)
    BY <1>2 DEF StageOf, Keys, Named, vars
  <2>3. Life!Next
    BY <1>2, <2>2, StaysIs DEF Life!Next, vars
  <2> QED BY <1>1, <1>2, <2>1, <2>3 DEF LInv, vars
<1>3. CASE Pass
  <2>1. PICK e, work : /\ Handed(e) /\ Fits(e, work) /\ Plausible(e, work)
                       /\ ep' = ServiceConnections(e, work)
                       /\ UNCHANGED <<heard, keyed>>
    BY <1>3 DEF Pass
  <2>2. ServiceResult(e, work, ep')
    BY <2>1, ServiceFacts DEF Handed, Sound
  <2>3. \A h \in Handle : Sees(e, work, ep', h)
    BY <2>1, <2>2, PassTells DEF Handed
  <2>4. ep'.next_generation = ep.next_generation
    <3>1. ep'.next_generation = e.next_generation
      BY <2>2 DEF ServiceResult
    <3> QED BY <2>1, <3>1 DEF Handed, Same, Fields
  <2> QED BY <1>1, <2>1, <2>3, <2>4, PassLife DEF Handed
<1>4. CASE Admission
  BY <1>1, <1>4, AdmissionLife
<1>5. CASE Transmission
  BY <1>1, <1>5, TransmissionLife
<1>6. ASSUME NEW h \in Handle, PollEvent(h) PROVE Life!Next /\ LInv'
  BY <1>1, <1>6, PollEventLife
<1>7. CASE Touch
  BY <1>1, <1>7, TouchLife
<1> QED BY <1>2, <1>3, <1>4, <1>5, <1>6, <1>7, StepKinds DEF LInv, IInv

\* The constructors map to an initial state of ConnectionLife.
LEMMA InitLife == Init => Life!Init /\ LInv
<1> SUFFICES ASSUME Init PROVE Life!Init /\ LInv
  OBVIOUS
<1>1. IInv
  BY InitIInv
<1>2. /\ Live(ep) \subseteq Handle
      /\ \A h \in Live(ep) : h.generation < ep.next_generation /\ ep.connections[h].phase = "handshake"
      /\ ep.client_ids = Empty /\ ep.events = [h \in Handle |-> <<>>]
  <2>1. CASE ep = NewEndpoint
    BY <2>1, NewEndpointBlank, BlankFacts DEF Blank
  <2>2. ASSUME NEW q \in Slot, NEW c \in Cid, "client" \in Roles, ep = RefreshNextTimeout(NewClient(q, c))
        PROVE  /\ Live(ep) \subseteq Handle
               /\ \A h \in Live(ep) : /\ h.generation < ep.next_generation
                                      /\ ep.connections[h].phase = "handshake"
               /\ ep.client_ids = Empty /\ ep.events = [h \in Handle |-> <<>>]
    <3>1. NextHandle(NewEndpoint, q).generation = 1
      BY NewEndpointBlank DEF NextHandle, Blank
    <3> QED BY <2>2, <3>1, NewClientSound
  <2> QED BY <2>1, <2>2 DEF Init
<1>3. heard = [h \in Handle |-> {}] /\ keyed = [h \in Live(ep) |-> NoClient]
  BY DEF Init
<1>4. \A h \in Handle : ~Met(h)
  BY <1>2, <1>3 DEF Met, Says
<1>5. \A h \in Handle : /\ StageOf(h) \in {"unborn", "dialling"}
                        /\ Get(keyed, h) = NoClient /\ Get(ep.client_ids, h) = NoClient
  <2>1. \A h : h \notin DOMAIN Empty
    BY EmptyIsMap
  <2> QED BY <1>2, <1>3, <1>4, <2>1, StageIs DEF Get
<1>6. Life!Init
  BY <1>2, <1>5 DEF Life!Init
<1>7. LInv
  BY <1>1, <1>2, <1>3, <1>4 DEF LInv
<1> QED BY <1>6, <1>7

(* Endpoint implements ConnectionLife: the holder of a handle sees one life,*)
(* born once, under the identity whose PSK made its keys, with its end told*)
(* once and last.                                                          *)
THEOREM Refinement == Spec => ImplementsConnectionLife
<1>1. Init => Life!Init /\ LInv
  BY InitLife
<1>2. LInv /\ [Next]_vars => [Life!Next]_(Life!life) /\ LInv'
  BY StepLife
<1> QED BY <1>1, <1>2, PTL DEF Spec, ImplementsConnectionLife, Life!Spec

-----------------------------------------------------------------------------
(* The reference loop (PollLoop) never sleeps on work. A connection that   *)
(* has nothing to send has its timers running (Armed), and the flush that  *)
(* ends a turn of the loop leaves every connection with nothing to send, a *)
(* deadline computed after it, and only dirty connections to change that   *)
(* (Rested).                                                               *)

\* A connection waits for a timer or for its turn to send.
Armed(e) == \A h \in Live(e) : e.connections[h].armed \/ e.connections[h].tx

\* All that the connections want done is known to next_timeout.
Rested(e) ==
  /\ e.last_service = TRUE
  /\ \A h \in Live(e) : e.connections[h].armed /\ (e.connections[h].tx => e.connections[h].dirty)
  /\ Live(e) # {} => e.next_timeout = "future"

\* The loop's invariant.
LoopInv ==
  /\ IInv
  /\ Armed(ep)
  /\ step \in Step
  /\ step \in {"other", "sleep"} => Rested(ep)

\* Every connection that survives a pass has sent what it had and runs a timer.
LEMMA PassRests ==
  ASSUME NEW e, Sound(e), Armed(e), NEW work, Fits(e, work), NEW s, ServiceResult(e, work, s)
  PROVE  Armed(s) /\ Rested(s)
<1>1. Live(s) = Survivors(e, work) /\ \A h \in Live(s) : s.connections[h] = Serviced(e, work, h)
  <2>1. s.connections = [k \in Survivors(e, work) |-> Serviced(e, work, k)]
    BY DEF ServiceResult
  <2> QED BY <2>1 DEF Live
<1>2. ASSUME NEW h \in Live(s)
      PROVE  s.connections[h].armed /\ ~s.connections[h].tx
  <2>1. h \in Live(e) /\ ~Dies(work, h) /\ s.connections[h] = Serviced(e, work, h)
    BY <1>1 DEF Survivors
  <2>2. e.connections[h] \in Conn /\ e.connections[h].phase # "drained"
    BY <2>1 DEF Sound, Typed, IsMap, Live, Books
  <2>3. e.connections[h].armed \/ e.connections[h].tx
    BY <2>1 DEF Armed
  <2> DEFINE conn == e.connections[h]
             does == work[h].does
             st == Settled(conn, does)
  <2>4. conn \in Conn /\ conn.phase # "drained" /\ (conn.armed \/ conn.tx)
    BY <2>2, <2>3
  <2>5. "error" \notin does /\ "drained" \notin does
    BY <2>1 DEF Dies
  <2> HIDE DEF conn, does
  <2>6. /\ st \in Conn /\ st.phase # "drained" /\ st.armed = conn.armed
        /\ conn.tx => st.tx
    BY <2>4, <2>5 DEF Settled, Conn, Phase
  <2> HIDE DEF st
  <2>7. Flushed(st).armed /\ ~Flushed(st).tx
    BY <2>4, <2>6 DEF Flushed, Conn
  <2>8. s.connections[h] = Flushed(st)
    BY <2>1 DEF Serviced, st, conn, does
  <2> QED BY <2>7, <2>8
<1>3. /\ s.last_service = TRUE
      /\ s.next_timeout = IF \E h \in Live(s) : s.connections[h].armed THEN "future" ELSE "none"
  BY DEF ServiceResult
<1> QED BY <1>2, <1>3 DEF Armed, Rested

\* Stream operations and close leave a connection armed, a stream operation also rested.
LEMMA TouchRests ==
  ASSUME Sound(ep), Armed(ep), NEW h \in Live(ep)
  PROVE  /\ (\E sends \in BOOLEAN : StreamOp(h, sends)) => Armed(ep') /\ (Rested(ep) => Rested(ep'))
         /\ Close(h) => Armed(ep')
<1>1. /\ ep.connections[h] \in Conn /\ IsMap(ep.connections, Handle, Conn) /\ Shape(ep)
      /\ Live(ep) = DOMAIN ep.connections
  BY DEF Sound, Typed, IsMap, Live
<1>2. ASSUME NEW sends \in BOOLEAN, StreamOp(h, sends)
      PROVE  Armed(ep') /\ (Rested(ep) => Rested(ep'))
  <2> DEFINE conn == [ep.connections[h] EXCEPT !.dirty = TRUE, !.tx = @ \/ sends]
  <2>1. /\ conn \in Conn /\ conn.armed = ep.connections[h].armed
        /\ conn.dirty /\ (ep.connections[h].tx => conn.tx)
    BY <1>1 DEF Conn
  <2>2. /\ ep'.connections = [ep.connections EXCEPT ![h] = conn]
        /\ ep'.last_service = ep.last_service /\ ep'.next_timeout = ep.next_timeout
    BY <1>1, <1>2, ZenonT(40) DEF StreamOp, Shape, Fields
  <2> HIDE DEF conn
  <2>3. Live(ep') = Live(ep) /\ \A k \in Live(ep) : ep'.connections[k] = IF k = h THEN conn ELSE ep.connections[k]
    BY <1>1, <2>2 DEF Live
  <2> QED BY <2>1, <2>2, <2>3 DEF Armed, Rested
<1>3. ASSUME Close(h)
      PROVE  Armed(ep')
  <2> DEFINE conn == [ep.connections[h] EXCEPT !.phase = "closing", !.tx = TRUE, !.armed = TRUE]
  <2>1. conn.armed
    BY <1>1 DEF Conn
  <2>2. ep'.connections = [ep.connections EXCEPT ![h] = conn]
    BY <1>1, <1>3, ZenonT(40) DEF Close, Shape, Fields
  <2> HIDE DEF conn
  <2>3. Live(ep') = Live(ep) /\ \A k \in Live(ep) : ep'.connections[k] = IF k = h THEN conn ELSE ep.connections[k]
    BY <1>1, <2>2 DEF Live
  <2> QED BY <2>1, <2>3 DEF Armed
<1> QED BY <1>2, <1>3

\* A pass over the connections as they were keeps them armed.
LEMMA PassArms ==
  ASSUME Sound(ep), Armed(ep), Pass \/ Admission
  PROVE  Armed(ep')
<1>1. CASE Pass
  <2>1. PICK e, work : Handed(e) /\ Fits(e, work) /\ ep' = ServiceConnections(e, work)
    BY <1>1 DEF Pass
  <2>2. Armed(e)
    BY <2>1 DEF Handed, Same, Fields, Armed, Live
  <2> QED BY <2>1, <2>2, ServiceFacts, PassRests DEF Handed, Sound
<1>2. CASE Admission
  <2>1. PICK client \in Client : \E e, h, work :
           Joined(e, h, client) /\ Fits(e, work) /\ ep' = ServiceConnections(e, work)
    BY <1>2 DEF Admission
  <2>2. PICK e, h, work : Joined(e, h, client) /\ Fits(e, work) /\ ep' = ServiceConnections(e, work)
    BY <2>1
  <2>3. Armed(e)
    <3>1. /\ Live(e) = Live(ep) \cup {h} /\ e.connections[h].armed
          /\ \A k \in Live(ep) : e.connections[k] = ep.connections[k]
      BY <2>2 DEF Joined
    <3> QED BY <3>1 DEF Armed
  <2> QED BY <2>2, <2>3, ServiceFacts, PassRests DEF Joined, Sound
<1> QED BY <1>1, <1>2

\* poll_transmit keeps connections armed; when it finds nothing to send, they rest.
LEMMA TransmitRests ==
  ASSUME Sound(ep), Armed(ep), PollTransmit
  PROVE  Armed(ep') /\ (Polled(ep).outbound = <<>> => Rested(ep'))
<1> DEFINE e == Polled(ep)
<1>1. CASE ep.outbound = <<>>
  <2>1. e = ServiceConnections(ep, NoWork(ep))
    BY <1>1 DEF Polled
  <2>2. Sound(e)
    BY <2>1, QuietFits, PassSound
  <2>3. Armed(e) /\ Rested(e)
    BY <2>1, QuietFits, ServiceFacts, PassRests DEF Sound
  <2>4. ep' = IF e.outbound = <<>> THEN e ELSE [e EXCEPT !.outbound = Tail(@)]
    BY DEF PollTransmit
  <2> HIDE DEF e
  <2>5. ep'.connections = e.connections
    BY <2>2, <2>4 DEF Sound, Shape, Fields
  <2>6. Armed(ep')
    BY <2>3, <2>5 DEF Armed, Live
  <2> QED BY <2>3, <2>4, <2>6 DEF e
<1>2. CASE ep.outbound # <<>>
  <2>1. ep' = [ep EXCEPT !.outbound = Tail(@)] /\ e.outbound # <<>>
    BY <1>2 DEF PollTransmit, Polled
  <2>2. ep'.connections = ep.connections
    BY <2>1 DEF Sound, Shape, Fields
  <2> QED BY <2>1, <2>2 DEF Armed, Live
<1> QED BY <1>1, <1>2

\* A new connection is armed or has its first flight to send.
LEMMA InitLoopInv == LoopInit => LoopInv
<1> SUFFICES ASSUME LoopInit PROVE LoopInv
  OBVIOUS
<1>1. IInv /\ step = "ingest"
  BY InitIInv DEF LoopInit
<1>2. Armed(ep)
  <2>1. CASE ep = NewEndpoint
    BY <2>1, NewEndpointBlank, BlankFacts DEF Armed
  <2>2. ASSUME NEW q \in Slot, NEW c \in Cid, "client" \in Roles, ep = RefreshNextTimeout(NewClient(q, c))
        PROVE  Armed(ep)
    <3>1. Live(ep) = {NextHandle(NewEndpoint, q)} /\ ep.connections[NextHandle(NewEndpoint, q)].tx
      BY <2>2, NewClientSound
    <3> QED BY <3>1 DEF Armed
  <2> QED BY <2>1, <2>2 DEF LoopInit, Init
<1> QED BY <1>1, <1>2 DEF LoopInv, Step

\* Every step of the loop is a call of the endpoint, or none, and keeps the connections
\* armed; the loop only comes to rest by a flush that found nothing to send.
LEMMA StepLoopInv == LoopInv /\ [LoopNext]_loopVars => LoopInv'
<1> SUFFICES ASSUME LoopInv, [LoopNext]_loopVars PROVE LoopInv'
  OBVIOUS
<1>1. Sound(ep) /\ Armed(ep) /\ step \in Step /\ (step \in {"other", "sleep"} => Rested(ep))
  BY DEF LoopInv, IInv
<1>2. ASSUME [Next]_vars PROVE IInv'
  BY <1>2, StepIInv DEF LoopInv
<1>3. ASSUME UNCHANGED vars, step' \in Step, step' \in {"other", "sleep"} => step \in {"other", "sleep"}
      PROVE  LoopInv'
  <2>1. ep' = ep
    BY <1>3 DEF vars
  <2> QED BY <1>1, <1>2, <1>3, <2>1 DEF LoopInv
<1>4. ASSUME Next, Pass \/ Admission, step' \in Step \ {"other", "sleep"} PROVE LoopInv'
  BY <1>1, <1>2, <1>4, PassArms DEF LoopInv
<1>5. CASE UNCHANGED loopVars
  BY <1>1, <1>3, <1>5 DEF loopVars, vars
<1>6. CASE Dry \/ NotDue \/ WorkDone \/ Sleep \/ WakeForDatagram \/ WakeForDeadline
  BY <1>3, <1>6 DEF Dry, NotDue, WorkDone, Sleep, WakeForDatagram, WakeForDeadline, At, Step
<1>7. CASE Ingest
  <2>1. HandleDatagram /\ step' = "ingest"
    BY <1>7 DEF Ingest, At
  <2>2. Next /\ step' \in Step \ {"other", "sleep"}
    BY <2>1 DEF Next, Step
  <2>3. Pass \/ Admission \/ UNCHANGED vars
    BY <1>1, <2>1, DatagramKinds
  <2> QED BY <1>3, <1>4, <2>2, <2>3
<1>8. ASSUME NEW expired \in SUBSET Live(ep), Timer(expired) PROVE LoopInv'
  <2>1. HandleTimeout(expired) /\ step' = "work"
    BY <1>8 DEF Timer, At
  <2>2. Next /\ step' \in Step \ {"other", "sleep"}
    BY <2>1 DEF Next, Step
  <2> QED BY <1>1, <1>4, <2>1, <2>2, TimeoutPasses
<1>9. ASSUME NEW h \in Handle, Drain(h) PROVE LoopInv'
  <2>1. PollEvent(h) /\ step' = "work"
    BY <1>9 DEF Drain, At
  <2>2. Next /\ Same(ep, ep', {"events"})
    BY <2>1, PollEventSound DEF Next, LoopInv, IInv
  <2>3. Armed(ep')
    BY <1>1, <2>2 DEF Same, Fields, Armed, Live
  <2> QED BY <1>2, <2>1, <2>2, <2>3 DEF LoopInv, Step
<1>10. ASSUME NEW h \in Live(ep), NEW sends \in BOOLEAN, StreamWork(h, sends) \/ OtherWork(h, sends)
       PROVE  LoopInv'
  <2>1. StreamOp(h, sends) /\ step' = step
    BY <1>10 DEF StreamWork, OtherWork, At
  <2>2. Next
    BY <2>1 DEF Next
  <2>3. Armed(ep') /\ (Rested(ep) => Rested(ep'))
    BY <1>1, <2>1, TouchRests
  <2> QED BY <1>1, <1>2, <2>1, <2>2, <2>3 DEF LoopInv
<1>11. ASSUME NEW h \in Live(ep), CloseWork(h) PROVE LoopInv'
  <2>1. Close(h) /\ step' = "work"
    BY <1>11 DEF CloseWork, At
  <2>2. Next
    BY <2>1 DEF Next
  <2>3. Armed(ep')
    BY <1>1, <2>1, TouchRests
  <2> QED BY <1>2, <2>1, <2>2, <2>3 DEF LoopInv, Step
<1>12. CASE Flush
  <2>1. PollTransmit /\ step' = IF Polled(ep).outbound = <<>> THEN "other" ELSE "flush"
    BY <1>12 DEF Flush
  <2>2. Next
    BY <2>1 DEF Next
  <2>3. Armed(ep') /\ (Polled(ep).outbound = <<>> => Rested(ep'))
    BY <1>1, <2>1, TransmitRests
  <2> QED BY <1>2, <2>1, <2>2, <2>3 DEF LoopInv, Step
<1> QED
  BY <1>5, <1>6, <1>7, <1>8, <1>9, <1>10, <1>11, <1>12 DEF LoopNext

(* The loop never goes to sleep on work: with a connection there is a      *)
(* deadline, and if a connection has something to send it has passed ("the *)
(* dirty guarantee" of next_timeout and the loop order of poll_loop.rs).   *)
THEOREM NeverSleepsOnWork == LoopSpec => []SafeToSleep
<1>1. LoopInv => SafeToSleep
  BY DEF LoopInv, Rested, SafeToSleep, NextTimeout
<1>2. LoopInit /\ [][LoopNext]_loopVars => []LoopInv
  BY InitLoopInv, StepLoopInv, PTL
<1> QED BY <1>1, <1>2, PTL DEF LoopSpec
=============================================================================
