----------------------------- MODULE Handshake -----------------------------
(***************************************************************************)
(* A cloaked handshake from end to end: clients that dial (new_client of   *)
(* proto/src/endpoint.rs, Client::connect), a server that filters, admits  *)
(* and surfaces (handle_datagram, src/server.rs), the Initial keys that    *)
(* both derive (module InitialKeys), the pre-filter (module PreFilter),    *)
(* and between them a network that loses, damages, repeats, reorders and   *)
(* delays, and a server that may be restarted.                             *)
(*                                                                         *)
(* quinn_proto appears through what the code leaves to it: retransmission  *)
(* on its PTO, the limit on what is sent to an unvalidated address, and    *)
(* the TLS handshake, of which one server flight and one client answer     *)
(* stand for all messages. All clients share an address, as they do when   *)
(* ClientConfigFile::bind fixes the source port, so that an attempt may    *)
(* receive the late answers to an earlier one.                             *)
(***************************************************************************)
EXTENDS InitialKeys, Sequences, FiniteSets

CONSTANTS
  NumClients, Key, Psk, Nonce, NoSelector, NoParts,        \* as in PreFilter
  WINDOW_MINUTES, MaxMinute, MaxStepBack, MaxDials,
  Amplification,   \* server flights that one received datagram pays for
  Bounds,          \* bound: the numbers <<dials, restarts>> that occur together
  Dialler          \* bound: the clients that may make the first dial, the second, ...

ASSUME FilterAssumption ==
  /\ NumClients \in Nat /\ MaxDials \in Nat
  /\ WINDOW_MINUTES \in Nat /\ MaxMinute \in Nat /\ MaxStepBack \in Nat
\* build_clients refuses a configuration in which two clients share a PSK.
ASSUME PskAssumption ==
  Psk \in [1..NumClients -> Key] /\ \A c, d \in 1..NumClients : Psk[c] = Psk[d] => c = d
ASSUME DialAssumption == Nonce = 1..MaxDials
ASSUME FlightAssumption == Amplification \in 1..2   \* packet numbers have two bits
ASSUME BoundsAssumption ==
  /\ Bounds \subseteq (0..MaxDials) \X Nat /\ IsFiniteSet(Bounds) /\ <<0, 0>> \in Bounds
  /\ Dialler \in [1..MaxDials -> SUBSET (1..NumClients)]

VARIABLES
  minute, replay, dialled, dials, admissions,   \* of PreFilter
  attempt,   \* the dials made so far, one client endpoint each
  conns,     \* the connections of all servers; the index is the CID the peer is given
  boots,     \* for every restart, how many connections there had been
  net        \* the datagrams that got through; each may arrive any number of times

filter == <<minute, replay, dialled, dials, admissions>>
vars == <<filter, attempt, conns, boots, net>>

PF == INSTANCE PreFilter

Attempt == DOMAIN attempt
MaxConns == CHOOSE n \in {b[1] * (b[2] + 1) : b \in Bounds} :
              \A b \in Bounds : b[1] * (b[2] + 1) <= n
NoConn == 0
Stage == {"dialling", "connected", "over"}
State == {"handshake", "open", "lost"}

-----------------------------------------------------------------------------
(* Datagrams: the packet on the wire, and whether it is as it was sent,    *)
(* which no receiver can see.                                              *)

SelectorOf(parts) == [parts |-> parts, cid |-> NoConn]
CidOf(k) == [parts |-> NoParts, cid |-> k]
ClientCid == [parts |-> NoParts, cid |-> NoConn]

\* A plain long header. quinn uses one byte or more for the packet number.
Plain(dcid, pn, len) ==
  LET byte(n) == {b \in 0..1 : (n \div 2^b) % 2 = 1}
  IN  [first |-> {7, 6} \cup byte(len - 1), dcid |-> dcid,
       four |-> [i \in 0..3 |-> IF i = len - 1 THEN byte(pn) ELSE {}], rest |-> <<>>]

\* PskSession::initial_keys on either side: the PSK, and the selector that was the DCID
\* of the first Initial.
ClientKeys(a) == InitialKeysFromPsk(Psk[attempt[a].client], attempt[a].dcid, "client")
ServerKeys(c, parts) == InitialKeysFromPsk(Psk[c], parts, "server")

\* A client's Initial; a server's flight, which names the new CID; and a client's answer
\* on that CID, sealed with keys that only the two TLS sessions have.
ClientInitial(a) ==
  Protect(ClientKeys(a).local, Plain(SelectorOf(attempt[a].dcid), 0, 2), [by |-> "client", of |-> a])
ServerFlight(k) ==
  LET pn == conns[k].sent
  IN  Protect(ServerKeys(conns[k].client, conns[k].dcid).local,
              Plain(ClientCid, pn % 4, 1 + (pn % 2)), [by |-> "server", of |-> k])
ClientAnswer(a) == Plain(CidOf(attempt[a].peer), 0, 1)

IsInitial(d) == d.packet.dcid.cid = NoConn

\* A datagram is lost, arrives as it is, or arrives with a bit of its header flipped.
Fate == {"lost", "whole", "damaged"}
Sent(fate, packet) ==
  net \cup CASE fate = "lost" -> {}
             [] fate = "whole" -> {[packet |-> packet, whole |-> TRUE]}
             [] fate = "damaged" -> {[packet |-> [packet EXCEPT !.first = Xor(@, {2})], whole |-> FALSE]}

-----------------------------------------------------------------------------
(* Clients                                                                 *)

\* Endpoint::new_client, for the next of a sequence of calls of connect.
Dial(c) ==
  /\ \A a \in Attempt : attempt[a].stage = "over"
  /\ <<dials + 1, Len(boots)>> \in Bounds /\ c \in Dialler[dials + 1]
  /\ PF!Dial(c, dials + 1, minute)
  /\ attempt' = Append(attempt, [client |-> c, dcid |-> PF!BuildDcid(Psk[c], dials + 1, minute),
                                 stage |-> "dialling", peer |-> NoConn])
  /\ UNCHANGED <<conns, boots, net>>

\* Every Initial of an attempt has the selector for its DCID, also those that the PTO
\* repeats. (A repeat has a packet number of its own, but nobody asks for it.)
SendInitial(a, fate) ==
  /\ UNCHANGED <<filter, attempt, conns, boots>>
  /\ attempt[a].stage = "dialling"
  /\ net' = Sent(fate, ClientInitial(a))

\* A client feeds quinn whatever arrives. quinn drops what does not open, and stays
\* with the connection ID that the first flight came from.
ClientReceives(a, d) ==
  /\ UNCHANGED <<filter, conns, boots, net>>
  /\ attempt[a].stage = "dialling"
  /\ IsInitial(d) /\ Opens(ClientKeys(a).remote, d.packet)
  /\ attempt' = [attempt EXCEPT ![a].stage = "connected", ![a].peer = d.packet.rest.body.of]

SendAnswer(a, fate) ==
  /\ attempt[a].stage = "connected"
  /\ net' = Sent(fate, ClientAnswer(a))
  /\ UNCHANGED <<filter, attempt, conns, boots>>

\* connect times out and the endpoint is dropped; the caller may dial again.
GivesUp(a) ==
  /\ attempt[a].stage = "dialling"
  /\ attempt' = [attempt EXCEPT ![a].stage = "over"]
  /\ UNCHANGED <<filter, conns, boots, net>>

-----------------------------------------------------------------------------
(* The server                                                              *)

\* The connections in the maps of the endpoint that is running.
LiveConns == {k \in DOMAIN conns : conns[k].state # "lost"}

\* README.md's naive "fix": the selector of an admitted connection routes to it.
RoutesSelectors(dcid) ==
  {k \in LiveConns : dcid = CidOf(k) \/ dcid = SelectorOf(conns[k].dcid)}

\* is_active_dcid: only a CID the endpoint itself issued routes to a connection.
ActiveFor(dcid) == {k \in LiveConns : dcid = CidOf(k)}

\* A connection that is surfaced as soon as it is admitted.
AdmittedSurfaced(parts, c) ==
  [dcid |-> parts, client |-> c, state |-> "handshake", received |-> 1, sent |-> 0, surfaced |-> TRUE]

\* A connection whose client is not remembered.
AdmittedNameless(parts, c) ==
  [dcid |-> parts, client |-> PF!NoClient, state |-> "handshake", received |-> 1, sent |-> 0,
   surfaced |-> FALSE]

\* Endpoint::admit.
Admitted(parts, c) ==
  [dcid |-> parts, client |-> c, state |-> "handshake", received |-> 1, sent |-> 0, surfaced |-> FALSE]

\* The pre-filter lets a selector in, its client's config is installed, and quinn tries
\* the keys of PskServerConfig::initial_keys on the packet. What does not open is
\* dropped, but the guard has recorded the pair.
FeedFirst(packet) ==
  LET parts == packet.dcid.parts
      c == PF!SelectPsk(parts)
      isNew == <<parts.nonce, parts.freshness>> \notin PF!Retained(replay[c], minute)
  IN  /\ parts # NoParts /\ ~PF!TurnedAway(parts)
      /\ PF!Consult(parts)
      /\ IF isNew /\ Opens(ServerKeys(c, parts).remote, packet)
         THEN conns' = Append(conns, Admitted(parts, c))
         ELSE UNCHANGED conns

\* A datagram for a connection: it pays for more flights (two are as good as many), and
\* the client's answer completes the handshake. On Event::Connected the driver surfaces
\* the connection.
Feed(k, packet) ==
  LET done == packet.dcid = CidOf(k)
  IN  /\ conns' = [conns EXCEPT ![k].received = 2,
                                ![k].state = IF done THEN "open" ELSE @,
                                ![k].surfaced = @ \/ done]
      /\ UNCHANGED filter

\* handle_datagram.
ServerReceives(d) ==
  LET active == ActiveFor(d.packet.dcid)
  IN  /\ UNCHANGED <<attempt, boots, net>>
      /\ \/ \E k \in active : Feed(k, d.packet)
         \/ active = {} /\ FeedFirst(d.packet)

\* No limit on what an unvalidated address is sent.
SendFlightFreely(k, fate) ==
  /\ UNCHANGED <<filter, attempt, boots>>
  /\ conns[k].state = "handshake"
  /\ conns' = [conns EXCEPT ![k].sent = @ + 1]
  /\ net' = Sent(fate, ServerFlight(k))

\* quinn answers the first Initial, and again on its PTO, as far as the limit on
\* unvalidated addresses lets it.
SendFlight(k, fate) ==
  /\ UNCHANGED <<filter, attempt, boots>>
  /\ conns[k].state = "handshake"
  /\ conns[k].sent < Amplification * conns[k].received
  /\ conns' = [conns EXCEPT ![k].sent = @ + 1]
  /\ net' = Sent(fate, ServerFlight(k))

\* Nothing is left of a connection but, for the record, who made it and whether it was
\* surfaced.
Gone(conn) == [conn EXCEPT !.state = "lost", !.received = 1, !.sent = 0]

\* The idle timer, or the peer's close.
ConnLost(k) ==
  /\ conns' = [conns EXCEPT ![k] = Gone(@)]
  /\ UNCHANGED <<filter, attempt, boots, net>>

\* The process ends and new_server starts over: no connections, empty guards. The
\* admissions that are counted are those of the new one.
Restart ==
  /\ <<dials, Len(boots) + 1>> \in Bounds /\ conns # <<>>
  /\ boots' = Append(boots, Len(conns))
  /\ conns' = [k \in DOMAIN conns |-> Gone(conns[k])]
  /\ replay' = [c \in PF!Client |-> {}]
  /\ admissions' = [x \in PF!Client \X PF!Stamp |-> 0]
  /\ UNCHANGED <<minute, dialled, dials, attempt, net>>

Tick == \E m \in PF!Minute : PF!SetClock(m) /\ UNCHANGED <<attempt, conns, boots, net>>

-----------------------------------------------------------------------------
Init ==
  /\ PF!Init
  /\ attempt = <<>> /\ conns = <<>> /\ boots = <<>> /\ net = {}

Next ==
  \/ \E c \in PF!Client : Dial(c)
  \/ \E a \in Attempt : \/ \E fate \in Fate : SendInitial(a, fate)
                        \/ \E fate \in {"lost", "whole"} : SendAnswer(a, fate)
                        \/ \E d \in net : ClientReceives(a, d)
                        \/ GivesUp(a)
  \/ \E d \in net : ServerReceives(d)
  \/ \E k \in LiveConns : \/ \E fate \in {"lost", "whole"} : SendFlight(k, fate)
                          \/ ConnLost(k)
  \/ Restart \/ Tick

Spec == Init /\ [][Next]_vars

\* Endpoints and drivers run, the PTO fires again and again, and a network to which a
\* datagram is entrusted again and again delivers it in the end.
Fairness ==
  /\ SF_vars(\E a \in Attempt : SendInitial(a, "whole"))
  /\ WF_vars(\E a \in Attempt, d \in net : ClientReceives(a, d))
  /\ WF_vars(\E d \in net : ServerReceives(d))
  /\ WF_vars(\E k \in LiveConns, fate \in {"lost", "whole"} : SendFlight(k, fate))

FairSpec == Spec /\ Fairness
-----------------------------------------------------------------------------
TypeOK ==
  /\ PF!TypeOK
  /\ attempt \in Seq([client : PF!Client, dcid : PF!DcidParts, stage : Stage, peer : 0..MaxConns])
  /\ conns \in Seq([dcid : PF!DcidParts, client : PF!Client, state : State, received : 1..2,
                    sent : 0..(2 * Amplification), surfaced : BOOLEAN])
  /\ Len(conns) <= MaxConns
  /\ boots \in Seq(1..MaxConns) /\ <<dials, Len(boots)>> \in Bounds

Of(a) == {k \in DOMAIN conns : conns[k].dcid = attempt[a].dcid}

(* What a side takes for its peer's is its peer's: an Initial that opens   *)
(* under an attempt's keys is a flight of a connection made for that very  *)
(* attempt, never its own Initial come back, the late answer to another    *)
(* attempt or something damaged; and what a server opens under the keys of *)
(* the selector on it was sent by the attempt that built the selector.     *)
OpenedWasSealed ==
  \A d \in {e \in net : IsInitial(e)}, a \in Attempt :
    LET body == d.packet.rest.body
    IN  /\ Opens(ClientKeys(a).remote, d.packet) => d.whole /\ body.by = "server" /\ body.of \in Of(a)
        /\ Opens(ServerKeys(attempt[a].client, attempt[a].dcid).remote, d.packet) =>
             d.whole /\ body = [by |-> "client", of |-> a]

(* "Any refinement must preserve capture-replay silence" (HISTORY.md):     *)
(* however often an Initial reaches a server, it gets one connection from  *)
(* it and no more flights than the first one paid for.                     *)
RepeatsElicitNothing ==
  \A a \in Attempt :
    /\ Cardinality(Of(a)) <= Len(boots) + 1
    /\ Cardinality({k \in Of(a) : \A i \in DOMAIN boots : k > boots[i]}) <= 1
    /\ \A k \in Of(a) : ~conns[k].surfaced => conns[k].sent <= Amplification

(* A server's application is handed a connection only when the client of   *)
(* that name has completed that very connection, and one dial gives it no  *)
(* more than one, although a restart empties the replay guards and the     *)
(* dial's Initial may then be admitted again.                              *)
SurfacedOnce ==
  \A k \in DOMAIN conns : conns[k].surfaced =>
    \E a \in Attempt : /\ k \in Of(a) /\ attempt[a].peer = k
                       /\ attempt[a].client = conns[k].client
                       /\ \A j \in Of(a) \ {k} : ~conns[j].surfaced

(* The attempts that cannot succeed any more: their minute has passed; a   *)
(* damaged Initial was the first to arrive and has used up the selector;   *)
(* the connection is gone; or every flight that the limit allowed was lost *)
(* (dropped repeats pay for no further flights).                           *)
Hopeless(a) ==
  LET parts == attempt[a].dcid
      current == {k \in Of(a) : k \in LiveConns}
      recorded == <<parts.nonce, parts.freshness>> \in PF!Retained(replay[attempt[a].client], minute)
      damaged == \E d \in net : d.packet.dcid = SelectorOf(parts) /\ ~d.whole
  IN  /\ ~\E d \in net : d.packet.dcid = ClientCid /\ d.packet.rest.body.of \in Of(a)
      /\ \/ current = {} /\ ~PF!IsFresh(parts.freshness, minute)
         \/ current = {} /\ recorded /\ (damaged \/ Of(a) # {})
         \/ \E k \in current : conns[k].sent = Amplification

(* "Handshakes still converge" (README.md, limitation 5): an attempt that  *)
(* is not given up connects, by the server's PTO and not by the client's   *)
(* repeated Initials, unless it has become hopeless.                       *)
HandshakeConverges ==
  []<>(\A a \in Attempt : attempt[a].stage = "dialling" => Hopeless(a))
=============================================================================
