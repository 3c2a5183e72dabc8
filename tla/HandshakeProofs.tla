-------------------------- MODULE HandshakeProofs --------------------------
(***************************************************************************)
(* The cloaked handshake, for every number of clients, dials and restarts, *)
(* every mask and whatever the network does.                               *)
(***************************************************************************)
EXTENDS Handshake, Recursion, FiniteSetTheorems

-----------------------------------------------------------------------------
(* Header protection                                                       *)

\* Exclusive or with the same bits undoes itself.
LEMMA XorTwice ==
  ASSUME NEW a, NEW b
  PROVE  Xor(Xor(a, b), b) = a
BY DEF Xor

\* The bits that are masked are the same before and after.
LEMMA XorKeeps ==
  ASSUME NEW a, NEW b, NEW x, x \notin b
  PROVE  x \in Xor(a, b) <=> x \in a
BY DEF Xor

\* A packet as a record, the bits of its first byte that are under the mask, and the four
\* bytes with len of them masked.
PacketOf(first, dcid, four, rest) == [first |-> first, dcid |-> dcid, four |-> four, rest |-> rest]
Hidden(hp, first, rest) == Mask(hp, rest)[0] \cap (IF 7 \in first THEN 0..3 ELSE 0..4)
Masked(hp, four, rest, len) ==
  [i \in 0..3 |-> IF i < len THEN Xor(four[i], Mask(hp, rest)[i + 1]) ELSE four[i]]

\* HeaderKey::encrypt and HeaderKey::decrypt.
Hide(hp, packet) == Apply(hp, packet, FALSE)
Unhide(hp, packet) == Apply(hp, packet, TRUE)

\* A packet with another first byte and other bytes from pn_offset on, or another rest.
Reheaded(p, first, four) == [p EXCEPT !.first = first, !.four = four]
Carrying(p, rest) == [p EXCEPT !.rest = rest]

\* They are packets.
LEMMA PacketExcept ==
  ASSUME NEW first, NEW dcid, NEW four, NEW rest, NEW f, NEW g, NEW r
  PROVE  /\ Reheaded(PacketOf(first, dcid, four, rest), f, g) = PacketOf(f, dcid, g, rest)
         /\ Carrying(PacketOf(first, dcid, four, rest), r) = PacketOf(first, dcid, four, r)
<1>1. Reheaded(PacketOf(first, dcid, four, rest), f, g) = PacketOf(f, dcid, g, rest)
  <2> DEFINE p == PacketOf(first, dcid, four, rest)
             q == [p EXCEPT !.first = f]
  <2>1. q = PacketOf(f, dcid, four, rest)
    BY DEF PacketOf
  <2>2. Reheaded(p, f, g) = [q EXCEPT !.four = g]
    BY DEF Reheaded
  <2> HIDE DEF q
  <2>3. [q EXCEPT !.four = g] = PacketOf(f, dcid, g, rest)
    BY <2>1 DEF PacketOf
  <2> QED BY <2>2, <2>3
<1>2. Carrying(PacketOf(first, dcid, four, rest), r) = PacketOf(first, dcid, four, r)
  BY DEF PacketOf, Carrying
<1> QED BY <1>1, <1>2

\* Its fields.
LEMMA PacketFields ==
  ASSUME NEW first, NEW dcid, NEW four, NEW rest
  PROVE  /\ PacketOf(first, dcid, four, rest).first = first
         /\ PacketOf(first, dcid, four, rest).dcid = dcid
         /\ PacketOf(first, dcid, four, rest).four = four
         /\ PacketOf(first, dcid, four, rest).rest = rest
BY DEF PacketOf

\* What apply makes of a packet.
LEMMA ApplyIs ==
  ASSUME NEW first, NEW dcid, NEW four, NEW rest, NEW hp, NEW other,
         other = Xor(first, Hidden(hp, first, rest))
  PROVE  /\ Hide(hp, PacketOf(first, dcid, four, rest)) =
              PacketOf(other, dcid, Masked(hp, four, rest, PnLen(first)), rest)
         /\ Unhide(hp, PacketOf(first, dcid, four, rest)) =
              PacketOf(other, dcid, Masked(hp, four, rest, PnLen(other)), rest)
<1> DEFINE p == PacketOf(first, dcid, four, rest)
<1>1. p.first = first /\ p.four = four /\ p.rest = rest
  BY PacketFields
<1> HIDE DEF p
<1>2. Hide(hp, p) = Reheaded(p, other, Masked(hp, four, rest, PnLen(first)))
  BY <1>1 DEF Reheaded, Hide, Apply, Hidden, Masked
<1>3. Unhide(hp, p) = Reheaded(p, other, Masked(hp, four, rest, PnLen(other)))
  BY <1>1 DEF Reheaded, Unhide, Apply, Hidden, Masked
<1> QED BY <1>2, <1>3, PacketExcept DEF p

\* apply is its own inverse: whoever has the key sees the header as it was, the length
\* of the packet number included, which is itself under the mask.
THEOREM HeaderProtection ==
  ASSUME NEW first, NEW dcid, NEW four, four = [i \in 0..3 |-> four[i]], NEW rest, NEW hp
  PROVE  Unhide(hp, Hide(hp, PacketOf(first, dcid, four, rest))) = PacketOf(first, dcid, four, rest)
<1> DEFINE hidden == Hidden(hp, first, rest)
           other == Xor(first, hidden)
           n == PnLen(first)
           masked == Masked(hp, four, rest, n)
<1>1. Hide(hp, PacketOf(first, dcid, four, rest)) = PacketOf(other, dcid, masked, rest)
  BY ApplyIs
<1>2. 7 \in other <=> 7 \in first
  <2>1. 7 \notin hidden
    BY DEF Hidden
  <2> QED BY <2>1, XorKeeps
<1>3. Hidden(hp, other, rest) = hidden
  BY <1>2 DEF Hidden
<1>4. Xor(other, hidden) = first
  BY XorTwice
<1>5. Masked(hp, masked, rest, n) = four
  <2> DEFINE mask == Mask(hp, rest)
  <2> HIDE DEF n
  <2>1. \A i \in 0..3 : Xor(Xor(four[i], mask[i + 1]), mask[i + 1]) = four[i]
    BY XorTwice
  <2>2. \A i \in 0..3 : Masked(hp, masked, rest, n)[i] = four[i]
    BY <2>1 DEF Masked
  <2>3. Masked(hp, masked, rest, n) = [i \in 0..3 |-> Masked(hp, masked, rest, n)[i]]
    BY DEF Masked
  <2> HIDE DEF masked
  <2> QED BY <2>2, <2>3
<1>6. Unhide(hp, PacketOf(other, dcid, masked, rest)) = PacketOf(first, dcid, four, rest)
  <2> HIDE DEF other, masked, hidden
  <2>1. first = Xor(other, Hidden(hp, other, rest))
    BY <1>3, <1>4
  <2>2. Unhide(hp, PacketOf(other, dcid, masked, rest)) =
          PacketOf(first, dcid, Masked(hp, masked, rest, PnLen(first)), rest)
    BY <2>1, ApplyIs
  <2> QED BY <1>5, <2>2
<1> QED BY <1>1, <1>6

\* What is sealed under the plain header of a packet.
SealedAs(keys, packet, body) ==
  [key |-> keys.key, nonce |-> NonceOf(keys.iv, PnOf(packet)), aad |-> HeaderOf(packet), body |-> body]

\* The packet that carries it.
LEMMA ProtectIs ==
  ASSUME NEW first, NEW dcid, NEW four, NEW rest, NEW keys, NEW body, NEW sealed,
         sealed = SealedAs(keys, PacketOf(first, dcid, four, rest), body)
  PROVE  Protect(keys, PacketOf(first, dcid, four, rest), body) =
           Hide(keys.hp, PacketOf(first, dcid, four, sealed))
<1> DEFINE p == PacketOf(first, dcid, four, rest)
<1> HIDE DEF p
<1>1. Protect(keys, p, body) = Hide(keys.hp, Carrying(p, sealed))
  BY DEF Carrying, Protect, SealedAs, Hide, p
<1> QED BY <1>1, PacketExcept DEF p

\* What one side protects, the other opens, for every mask, header and packet number:
\* encrypt and decrypt of InitialHeaderKey and InitialPacketKey fit together.
THEOREM SealedOpens ==
  ASSUME NEW first, NEW dcid, NEW four, four = [i \in 0..3 |-> four[i]], NEW rest, NEW keys, NEW body
  PROVE  Opens(keys, Protect(keys, PacketOf(first, dcid, four, rest), body))
<1> DEFINE p == PacketOf(first, dcid, four, rest)
           sealed == SealedAs(keys, p, body)
           plain == PacketOf(first, dcid, four, sealed)
           sent == Protect(keys, p, body)
<1>1. sent = Hide(keys.hp, plain)
  BY ProtectIs
<1>2. Unhide(keys.hp, sent) = plain
  <2> HIDE DEF sealed, sent
  <2> QED BY <1>1, HeaderProtection
<1>3. sent.rest = sealed /\ plain.rest = sealed
  <2> HIDE DEF sealed, sent
  <2>1. sent = PacketOf(Xor(first, Hidden(keys.hp, first, sealed)), dcid,
                        Masked(keys.hp, four, sealed, PnLen(first)), sealed)
    BY <1>1, ApplyIs
  <2> QED BY <2>1, PacketFields
<1>4. /\ sealed.key = keys.key /\ sealed.nonce = NonceOf(keys.iv, PnOf(p)) /\ sealed.aad = HeaderOf(p)
  BY DEF SealedAs
<1>5. PnOf(plain) = PnOf(p) /\ HeaderOf(plain) = HeaderOf(p)
  <2>1. plain.first = p.first /\ plain.dcid = p.dcid /\ plain.four = p.four
    BY PacketFields
  <2> HIDE DEF plain, p
  <2> QED BY <2>1 DEF PnOf, HeaderOf
<1> HIDE DEF sealed, sent, plain, p
<1>6. Opens(keys, sent)
  BY <1>2, <1>3, <1>4, <1>5 DEF Opens, Unhide
<1> QED BY <1>6 DEF sent, p

-----------------------------------------------------------------------------
(* The inductive invariant                                                 *)

AttemptType == [client : PF!Client, dcid : PF!DcidParts, stage : Stage, peer : Nat]
ConnType == [dcid : PF!DcidParts, client : PF!Client, state : State, received : 1..2,
             sent : 0..(2 * Amplification), surfaced : BOOLEAN]

\* TypeOK but for the bound on the number of connections.
Typed ==
  /\ PF!TypeOK
  /\ attempt \in Seq(AttemptType) /\ Len(attempt) = dials
  /\ conns \in Seq(ConnType)
  /\ boots \in Seq(Nat) /\ <<dials, Len(boots)>> \in Bounds

\* A dial is known by its nonce, and its selector is its client's. It has no peer before
\* its handshake is complete, and then one that was admitted for it.
Attempts ==
  \A a \in 1..Len(attempt) :
    /\ attempt[a].dcid.nonce = a
    /\ attempt[a].dcid.selector = <<Psk[attempt[a].client], a, attempt[a].dcid.freshness>>
    /\ attempt[a].peer # NoConn =>
         attempt[a].peer \in 1..Len(conns) /\ conns[attempt[a].peer].dcid = attempt[a].dcid
    /\ attempt[a].stage = "dialling" => attempt[a].peer = NoConn
    /\ attempt[a].stage = "connected" => attempt[a].peer # NoConn

\* A connection was admitted for a dial and in the name of who made it; it is surfaced
\* when the dial has completed it; and only a datagram on its own CID pays for more.
Connections ==
  \A k \in 1..Len(conns) :
    LET a == conns[k].dcid.nonce
    IN  /\ a \in 1..Len(attempt) /\ conns[k].dcid = attempt[a].dcid /\ conns[k].client = attempt[a].client
        /\ conns[k].surfaced => attempt[a].peer = k
        /\ ~conns[k].surfaced => conns[k].received = 1
        /\ conns[k].sent <= Amplification * conns[k].received

\* The keys of one direction.
ClientIn == "client in"
ServerIn == "server in"
KeysOf(psk, dcid, label) == DirectionalKeys(ExpandLabel(ExpandLabel(psk, dcid), label))
Outbound(a) == KeysOf(Psk[attempt[a].client], attempt[a].dcid, ClientIn)
Inbound(k) == KeysOf(Psk[conns[k].client], conns[k].dcid, ServerIn)

\* What is on the wire: an Initial of a dial, a flight of a connection, or an answer.
FromClient(d, a) ==
  /\ d.packet.dcid = SelectorOf(attempt[a].dcid)
  /\ d.packet.rest.key = Outbound(a).key /\ d.packet.rest.body = [by |-> "client", of |-> a]
  /\ Opens(Outbound(a), d.packet) => d.whole
FromServer(d, k) ==
  /\ d.packet.dcid = ClientCid
  /\ d.packet.rest.key = Inbound(k).key /\ d.packet.rest.body = [by |-> "server", of |-> k]
  /\ d.whole
Answers(d, a) == attempt[a].peer # NoConn /\ d.packet.dcid = CidOf(attempt[a].peer)
Wire ==
  \A d \in net : \/ \E a \in 1..Len(attempt) : FromClient(d, a) \/ Answers(d, a)
                 \/ \E k \in 1..Len(conns) : FromServer(d, k)

IInv == Typed /\ Attempts /\ Connections /\ Wire

\* The connections of the server that is running, and those of the ones before it.
Now(k) == \A i \in 1..Len(boots) : k > boots[i]
Before == {k \in 1..Len(conns) : ~Now(k)}

\* The guard remembers what it let in, until the dial is too old for the window.
Remembered ==
  \A k \in 1..Len(conns) : Now(k) =>
    \/ <<conns[k].dcid.nonce, conns[k].dcid.freshness>> \in replay[conns[k].client]
    \/ conns[k].dcid.freshness < PF!SaturatingSub(minute, WINDOW_MINUTES)

\* A server has one connection for a dial, and so had each before it.
OnePerBoot ==
  /\ \A j, k \in 1..Len(conns) : Now(j) /\ Now(k) /\ conns[j].dcid = conns[k].dcid => j = k
  /\ \A i \in 1..Len(boots) : boots[i] \in 1..Len(conns)
  /\ Cardinality(Before) <= dials * Len(boots)
  /\ \A a \in 1..Len(attempt) :
       Cardinality({k \in Before : conns[k].dcid = attempt[a].dcid}) <= Len(boots)

EpochInv == IInv /\ Remembered /\ OnePerBoot

-----------------------------------------------------------------------------
(* Keys                                                                    *)

\* The keys that a side seals with are those that the other opens with.
LEMMA KeysPair ==
  ASSUME NEW psk, NEW dcid
  PROVE  /\ InitialKeysFromPsk(psk, dcid, "client").local = KeysOf(psk, dcid, ClientIn)
         /\ InitialKeysFromPsk(psk, dcid, "client").remote = KeysOf(psk, dcid, ServerIn)
         /\ InitialKeysFromPsk(psk, dcid, "server").local = KeysOf(psk, dcid, ServerIn)
         /\ InitialKeysFromPsk(psk, dcid, "server").remote = KeysOf(psk, dcid, ClientIn)
<1> DEFINE client == KeysOf(psk, dcid, ClientIn)
           server == KeysOf(psk, dcid, ServerIn)
<1>1. InitialKeysFromPsk(psk, dcid, "client") = [local |-> client, remote |-> server]
  BY DEF InitialKeysFromPsk, KeysOf, ClientIn, ServerIn
<1>2. InitialKeysFromPsk(psk, dcid, "server") = [local |-> server, remote |-> client]
  BY DEF InitialKeysFromPsk, KeysOf, ClientIn, ServerIn
<1> HIDE DEF client, server
<1>3. InitialKeysFromPsk(psk, dcid, "client").local = client /\ InitialKeysFromPsk(psk, dcid, "client").remote = server
  BY <1>1
<1>4. InitialKeysFromPsk(psk, dcid, "server").local = server /\ InitialKeysFromPsk(psk, dcid, "server").remote = client
  BY <1>2
<1> QED BY <1>3, <1>4 DEF client, server

\* Keys that agree were derived from the same PSK and selector for the same direction.
LEMMA KeysDiffer ==
  ASSUME NEW p, NEW d, NEW l, NEW q, NEW e, NEW m, KeysOf(p, d, l).key = KeysOf(q, e, m).key
  PROVE  p = q /\ d = e /\ l = m
<1>1. /\ KeysOf(p, d, l).key = <<<<<<p, d>>, l>>, "quic key">>
      /\ KeysOf(q, e, m).key = <<<<<<q, e>>, m>>, "quic key">>
  BY DEF KeysOf, DirectionalKeys, ExpandLabel
<1> DEFINE x == <<p, d>>
           y == <<q, e>>
           u == <<x, l>>
           v == <<y, m>>
<1>2. <<u, "quic key">> = <<v, "quic key">>
  BY <1>1
<1> HIDE DEF u, v
<1>3. u = v
  BY <1>2
<1> HIDE DEF x, y
<1>4. x = y /\ l = m
  BY <1>3 DEF u, v
<1> QED BY <1>4 DEF x, y

\* The types that the proofs below start from.
LEMMA Parts ==
  ASSUME IInv
  PROVE  /\ attempt \in Seq(AttemptType) /\ conns \in Seq(ConnType) /\ boots \in Seq(Nat)
         /\ Len(attempt) \in Nat /\ Len(conns) \in Nat /\ Len(boots) \in Nat /\ Len(attempt) = dials
         /\ \A a \in 1..Len(attempt) : attempt[a] \in AttemptType
         /\ \A k \in 1..Len(conns) : conns[k] \in ConnType
         /\ DOMAIN attempt = 1..Len(attempt) /\ DOMAIN conns = 1..Len(conns)
BY DEF IInv, Typed

\* The fields of a dial.
LEMMA AttemptFields ==
  ASSUME NEW x \in AttemptType
  PROVE  x.client \in PF!Client /\ x.dcid \in PF!DcidParts /\ x.stage \in Stage /\ x.peer \in Nat
BY DEF AttemptType

\* The fields of a connection.
LEMMA ConnFields ==
  ASSUME NEW x \in ConnType
  PROVE  /\ x.client \in PF!Client /\ x.dcid \in PF!DcidParts /\ x.state \in State
         /\ x.received \in 1..2 /\ x.sent \in 0..(2 * Amplification) /\ x.surfaced \in BOOLEAN
BY DEF ConnType

\* Dials have different selectors.
LEMMA DialsDiffer ==
  ASSUME IInv, NEW a \in 1..Len(attempt), NEW b \in 1..Len(attempt), attempt[a].dcid = attempt[b].dcid
  PROVE  a = b
<1>1. attempt[a].dcid.nonce = a /\ attempt[b].dcid.nonce = b
  BY DEF IInv, Attempts
<1> QED BY <1>1

\* What a side opens is its peer's.
LEMMA Genuine ==
  ASSUME IInv, NEW d \in net, IsInitial(d), NEW a \in 1..Len(attempt)
  PROVE  /\ Opens(ClientKeys(a).remote, d.packet) =>
              /\ d.whole /\ d.packet.rest.body.by = "server"
              /\ d.packet.rest.body.of \in 1..Len(conns)
              /\ conns[d.packet.rest.body.of].dcid = attempt[a].dcid
         /\ Opens(ServerKeys(attempt[a].client, attempt[a].dcid).remote, d.packet) =>
              d.whole /\ d.packet.rest.body = [by |-> "client", of |-> a]
<1> DEFINE p == d.packet
<1>1. /\ ClientKeys(a).remote = KeysOf(Psk[attempt[a].client], attempt[a].dcid, ServerIn)
      /\ ServerKeys(attempt[a].client, attempt[a].dcid).remote = Outbound(a)
  BY KeysPair DEF ClientKeys, ServerKeys, Outbound
<1>2. /\ Opens(ClientKeys(a).remote, p) =>
           p.rest.key = KeysOf(Psk[attempt[a].client], attempt[a].dcid, ServerIn).key
      /\ Opens(ServerKeys(attempt[a].client, attempt[a].dcid).remote, p) => p.rest.key = Outbound(a).key
  BY <1>1 DEF Opens
<1>3. ClientIn # ServerIn
  BY DEF ClientIn, ServerIn
<1>4. ASSUME NEW b \in 1..Len(attempt), FromClient(d, b)
      PROVE  /\ ~Opens(ClientKeys(a).remote, p)
             /\ Opens(ServerKeys(attempt[a].client, attempt[a].dcid).remote, p) =>
                  d.whole /\ p.rest.body = [by |-> "client", of |-> a]
  <2>1. p.rest.key = Outbound(b).key /\ p.rest.body = [by |-> "client", of |-> b]
    BY <1>4 DEF FromClient
  <2>2. ~Opens(ClientKeys(a).remote, p)
    <3> SUFFICES ASSUME Opens(ClientKeys(a).remote, p) PROVE FALSE
      OBVIOUS
    <3>1. KeysOf(Psk[attempt[a].client], attempt[a].dcid, ServerIn).key =
            KeysOf(Psk[attempt[b].client], attempt[b].dcid, ClientIn).key
      BY <1>2, <2>1 DEF Outbound
    <3> QED BY ONLY <1>3, <3>1, KeysDiffer
  <2>3. ASSUME p.rest.key = Outbound(a).key PROVE a = b
    <3>1. KeysOf(Psk[attempt[a].client], attempt[a].dcid, ClientIn).key =
            KeysOf(Psk[attempt[b].client], attempt[b].dcid, ClientIn).key
      BY <2>1, <2>3 DEF Outbound
    <3>2. attempt[a].dcid = attempt[b].dcid
      BY ONLY <3>1, KeysDiffer
    <3> QED BY <3>2, DialsDiffer
  <2>4. ASSUME Opens(ServerKeys(attempt[a].client, attempt[a].dcid).remote, p)
        PROVE  d.whole /\ p.rest.body = [by |-> "client", of |-> a]
    <3>1. a = b
      BY <1>2, <2>3, <2>4
    <3>2. Opens(Outbound(b), p)
      BY <1>1, <2>4, <3>1
    <3> QED BY <1>4, <2>1, <3>1, <3>2 DEF FromClient
  <2> QED BY <2>2, <2>4
<1>5. ASSUME NEW k \in 1..Len(conns), FromServer(d, k)
      PROVE  /\ ~Opens(ServerKeys(attempt[a].client, attempt[a].dcid).remote, p)
             /\ Opens(ClientKeys(a).remote, p) =>
                  /\ d.whole /\ p.rest.body.by = "server" /\ p.rest.body.of = k
                  /\ conns[k].dcid = attempt[a].dcid
  <2>1. p.rest.key = Inbound(k).key /\ p.rest.body = [by |-> "server", of |-> k] /\ d.whole
    BY <1>5 DEF FromServer
  <2>2. p.rest.body.by = "server" /\ p.rest.body.of = k
    BY <2>1
  <2>3. ~Opens(ServerKeys(attempt[a].client, attempt[a].dcid).remote, p)
    <3> SUFFICES ASSUME Opens(ServerKeys(attempt[a].client, attempt[a].dcid).remote, p) PROVE FALSE
      OBVIOUS
    <3>1. KeysOf(Psk[attempt[a].client], attempt[a].dcid, ClientIn).key =
            KeysOf(Psk[conns[k].client], conns[k].dcid, ServerIn).key
      BY <1>2, <2>1 DEF Outbound, Inbound
    <3> QED BY ONLY <1>3, <3>1, KeysDiffer
  <2>4. Opens(ClientKeys(a).remote, p) => conns[k].dcid = attempt[a].dcid
    <3> SUFFICES ASSUME Opens(ClientKeys(a).remote, p) PROVE conns[k].dcid = attempt[a].dcid
      OBVIOUS
    <3>1. KeysOf(Psk[attempt[a].client], attempt[a].dcid, ServerIn).key =
            KeysOf(Psk[conns[k].client], conns[k].dcid, ServerIn).key
      BY <1>2, <2>1 DEF Inbound
    <3> QED BY ONLY <3>1, KeysDiffer
  <2> QED BY <2>1, <2>2, <2>3, <2>4
<1>6. ASSUME NEW b \in 1..Len(attempt), Answers(d, b) PROVE FALSE
  <2>1. p.dcid = CidOf(attempt[b].peer) /\ attempt[b].peer # NoConn
    BY <1>6 DEF Answers
  <2>2. p.dcid.cid = attempt[b].peer
    BY <2>1 DEF CidOf
  <2> QED BY <2>1, <2>2 DEF IsInitial
<1>7. \/ \E b \in 1..Len(attempt) : FromClient(d, b) \/ Answers(d, b)
      \/ \E k \in 1..Len(conns) : FromServer(d, k)
  BY DEF IInv, Wire
<1>8. CASE \E b \in 1..Len(attempt) : FromClient(d, b)
  BY <1>4, <1>8
<1>9. CASE \E k \in 1..Len(conns) : FromServer(d, k)
  BY <1>5, <1>9
<1> QED BY <1>6, <1>7, <1>8, <1>9

-----------------------------------------------------------------------------
(* Datagrams                                                               *)

\* A plain header is a packet that carries nothing.
LEMMA PlainIs ==
  ASSUME NEW dcid, NEW pn, NEW len
  PROVE  \E first, four : Plain(dcid, pn, len) = PacketOf(first, dcid, four, <<>>)
<1> DEFINE byte(n) == {b \in 0..1 : (n \div 2^b) % 2 = 1}
           first == {7, 6} \cup byte(len - 1)
           four == [i \in 0..3 |-> IF i = len - 1 THEN byte(pn) ELSE {}]
<1>1. Plain(dcid, pn, len) = PacketOf(first, dcid, four, <<>>)
  BY DEF Plain, PacketOf
<1> HIDE DEF first, four
<1> QED BY <1>1

\* A bit of the header flipped.
Damaged(packet) == [packet EXCEPT !.first = Xor(@, {2})]

\* A protected packet shows its DCID and carries what was sealed; with a bit of its
\* header flipped it does not open any more.
LEMMA ProtectedPacket ==
  ASSUME NEW keys, NEW dcid, NEW pn, NEW len, NEW body, NEW packet,
         packet = Protect(keys, Plain(dcid, pn, len), body)
  PROVE  /\ packet.dcid = dcid /\ packet.rest.key = keys.key /\ packet.rest.body = body
         /\ Damaged(packet).dcid = dcid /\ Damaged(packet).rest = packet.rest
         /\ ~Opens(keys, Damaged(packet))
<1>1. PICK first, four : Plain(dcid, pn, len) = PacketOf(first, dcid, four, <<>>)
  BY PlainIs
<1> DEFINE p == PacketOf(first, dcid, four, <<>>)
           sealed == SealedAs(keys, p, body)
           hidden == Hidden(keys.hp, first, sealed)
           other == Xor(first, hidden)
           masked == Masked(keys.hp, four, sealed, PnLen(first))
           bad == Xor(other, {2})
<1>2. packet = PacketOf(other, dcid, masked, sealed)
  <2>1. packet = Hide(keys.hp, PacketOf(first, dcid, four, sealed))
    BY <1>1, ProtectIs
  <2> HIDE DEF sealed
  <2> QED BY <2>1, ApplyIs
<1>3. sealed.key = keys.key /\ sealed.body = body /\ sealed.aad = HeaderOf(p)
  BY DEF SealedAs
<1>4. p.first = first
  BY PacketFields
<1>5. sealed.aad.first = first
  <2> HIDE DEF p, sealed
  <2> QED BY <1>3, <1>4 DEF HeaderOf
<1>6. Xor(bad, Hidden(keys.hp, bad, sealed)) # first
  <2>1. 7 \notin hidden /\ 7 \notin {2}
    BY DEF Hidden
  <2>2. 7 \in bad <=> 7 \in first
    <3> HIDE DEF hidden
    <3> QED BY <2>1, XorKeeps
  <2>3. Hidden(keys.hp, bad, sealed) = hidden
    <3> HIDE DEF bad
    <3> QED BY <2>2 DEF Hidden
  <2> HIDE DEF hidden
  <2>4. Xor(Xor(Xor(first, hidden), {2}), hidden) # first
    BY DEF Xor
  <2> QED BY <2>3, <2>4
<1> HIDE DEF other, masked, sealed, p
<1>7. Damaged(packet) = PacketOf(bad, dcid, masked, sealed)
  BY <1>2 DEF Damaged, PacketOf
<1>8. /\ packet.dcid = dcid /\ packet.rest = sealed
      /\ Damaged(packet).dcid = dcid /\ Damaged(packet).rest = sealed
  BY <1>2, <1>7, PacketFields
<1>9. ~Opens(keys, Damaged(packet))
  <2> SUFFICES ASSUME Opens(keys, Damaged(packet)) PROVE FALSE
    OBVIOUS
  <2> DEFINE plain == Unhide(keys.hp, Damaged(packet))
             shown == Xor(bad, Hidden(keys.hp, bad, sealed))
  <2>1. plain.rest.aad = HeaderOf(plain)
    BY DEF Opens, Unhide
  <2>2. plain = PacketOf(shown, dcid, Masked(keys.hp, masked, sealed, PnLen(shown)), sealed)
    <3> HIDE DEF bad
    <3> QED BY <1>7, ApplyIs
  <2>3. plain.first = shown /\ plain.rest = sealed
    <3> HIDE DEF plain, shown
    <3> QED BY <2>2, PacketFields
  <2>4. HeaderOf(plain).first = plain.first
    <3> HIDE DEF plain
    <3> QED BY DEF HeaderOf
  <2> HIDE DEF plain, shown
  <2>5. first = shown
    BY <1>5, <2>1, <2>3, <2>4
  <2> QED BY <1>6, <2>5 DEF shown
<1> QED BY <1>3, <1>8, <1>9

\* What the network makes of a datagram that is sent.
LEMMA SentIs ==
  ASSUME NEW fate \in Fate, NEW packet, NEW d \in Sent(fate, packet)
  PROVE  \/ d \in net
         \/ fate # "lost" /\ d.packet = packet /\ d.whole
         \/ fate = "damaged" /\ d.packet = Damaged(packet)
<1>1. CASE fate = "lost"
  BY <1>1 DEF Sent
<1>2. CASE fate = "whole"
  <2>1. d \in net \/ d = [packet |-> packet, whole |-> TRUE]
    BY <1>2 DEF Sent
  <2>2. ASSUME d = [packet |-> packet, whole |-> TRUE] PROVE d.packet = packet /\ d.whole
    <3>1. d.packet = packet
      BY <2>2
    <3>2. d.whole
      BY <2>2
    <3> QED BY <3>1, <3>2
  <2> QED BY <1>2, <2>1, <2>2
<1>3. CASE fate = "damaged"
  <2>1. d \in net \/ d = [packet |-> Damaged(packet), whole |-> FALSE]
    BY <1>3 DEF Sent, Damaged
  <2>2. ASSUME d = [packet |-> Damaged(packet), whole |-> FALSE] PROVE d.packet = Damaged(packet)
    BY <2>2
  <2> QED BY <1>3, <2>1, <2>2
<1> QED BY <1>1, <1>2, <1>3 DEF Fate

-----------------------------------------------------------------------------
(* What no step changes                                                    *)

\* Dials and connections stay what they are, and a dial that has a peer keeps it.
Steady ==
  /\ \A a \in 1..Len(attempt) :
       /\ a \in 1..Len(attempt')
       /\ attempt'[a].client = attempt[a].client /\ attempt'[a].dcid = attempt[a].dcid
       /\ attempt[a].peer # NoConn => attempt'[a].peer = attempt[a].peer
  /\ \A k \in 1..Len(conns) :
       /\ k \in 1..Len(conns')
       /\ conns'[k].client = conns[k].client /\ conns'[k].dcid = conns[k].dcid

\* So they do, no connection is added, and neither the guards nor the clock move.
Calm ==
  /\ Steady /\ Len(conns') = Len(conns) /\ boots' = boots
  /\ replay' = replay /\ minute' = minute /\ dials <= dials'

\* A datagram that is accounted for.
Known(d) ==
  \/ \E a \in 1..Len(attempt) : FromClient(d, a) \/ Answers(d, a)
  \/ \E k \in 1..Len(conns) : FromServer(d, k)

\* What is accounted for stays so.
LEMMA WireGrows ==
  ASSUME IInv, Steady, \A d \in net' : d \in net \/ Known(d)
  PROVE  Wire'
<1>1. ASSUME NEW d \in net' PROVE Known(d)
  BY DEF IInv, Wire, Known
<1>2. ASSUME NEW d, NEW a \in 1..Len(attempt), FromClient(d, a)
      PROVE  a \in 1..Len(attempt') /\ FromClient(d, a)'
  <2>1. /\ a \in 1..Len(attempt') /\ attempt'[a].client = attempt[a].client
        /\ attempt'[a].dcid = attempt[a].dcid
    BY DEF Steady
  <2>2. Outbound(a)' = Outbound(a)
    BY <2>1 DEF Outbound
  <2> QED BY <1>2, <2>1, <2>2 DEF FromClient
<1>3. ASSUME NEW d, NEW a \in 1..Len(attempt), Answers(d, a)
      PROVE  a \in 1..Len(attempt') /\ Answers(d, a)'
  BY <1>3 DEF Steady, Answers
<1>4. ASSUME NEW d, NEW k \in 1..Len(conns), FromServer(d, k)
      PROVE  k \in 1..Len(conns') /\ FromServer(d, k)'
  <2>1. /\ k \in 1..Len(conns') /\ conns'[k].client = conns[k].client
        /\ conns'[k].dcid = conns[k].dcid
    BY DEF Steady
  <2>2. Inbound(k)' = Inbound(k)
    BY <2>1 DEF Inbound
  <2> QED BY <1>4, <2>1, <2>2 DEF FromServer
<1> QED BY <1>1, <1>2, <1>3, <1>4 DEF Wire, Known

\* A step that leaves the variables of the pre-filter alone.
LEMMA FilterSame ==
  ASSUME IInv, UNCHANGED filter
  PROVE  PF!TypeOK' /\ minute' = minute /\ replay' = replay /\ dials' = dials
<1>1. /\ minute' = minute /\ replay' = replay /\ dialled' = dialled /\ dials' = dials
      /\ admissions' = admissions
  BY DEF filter
<1>2. PF!TypeOK
  BY DEF IInv, Typed
<1> QED BY <1>1, <1>2 DEF PF!TypeOK

\* A step that leaves everything but the network alone.
LEMMA NetStep ==
  ASSUME IInv, UNCHANGED <<filter, attempt, conns, boots>>, \A d \in net' : d \in net \/ Known(d)
  PROVE  IInv' /\ Calm
<1>1. attempt' = attempt /\ conns' = conns /\ boots' = boots /\ UNCHANGED filter
  OBVIOUS
<1>2. Typed'
  BY <1>1, FilterSame DEF IInv, Typed
<1>3. Attempts' /\ Connections'
  BY <1>1 DEF IInv, Attempts, Connections
<1>4. Steady
  BY <1>1 DEF Steady
<1>5. Wire'
  BY <1>4, WireGrows
<1>6. Calm
  BY <1>1, <1>4, FilterSame, Parts DEF Calm
<1> QED BY <1>2, <1>3, <1>5, <1>6 DEF IInv

\* An Initial of a dial.
LEMMA SendInitialKeeps ==
  ASSUME IInv, NEW a \in 1..Len(attempt), NEW fate \in Fate, SendInitial(a, fate)
  PROVE  IInv' /\ Calm
<1> DEFINE packet == ClientInitial(a)
           body == [by |-> "client", of |-> a]
<1>1. UNCHANGED <<filter, attempt, conns, boots>> /\ net' = Sent(fate, packet)
  BY DEF SendInitial
<1>2. ClientKeys(a).local = Outbound(a)
  BY KeysPair DEF ClientKeys, Outbound
<1>3. packet = Protect(Outbound(a), Plain(SelectorOf(attempt[a].dcid), 0, 2), body)
  BY <1>2 DEF ClientInitial
<1> HIDE DEF packet, body
<1>4. /\ packet.dcid = SelectorOf(attempt[a].dcid) /\ packet.rest.key = Outbound(a).key
      /\ packet.rest.body = body
      /\ Damaged(packet).dcid = SelectorOf(attempt[a].dcid) /\ Damaged(packet).rest = packet.rest
      /\ ~Opens(Outbound(a), Damaged(packet))
  BY <1>3, ProtectedPacket
<1>5. ASSUME NEW d \in net' PROVE d \in net \/ Known(d)
  <2>1. \/ d \in net
        \/ d.packet = packet /\ d.whole
        \/ d.packet = Damaged(packet)
    BY <1>1, SentIs
  <2>2. CASE d.packet = packet /\ d.whole
    <3>1. FromClient(d, a)
      BY <1>4, <2>2 DEF FromClient, body
    <3> QED BY <3>1 DEF Known
  <2>3. CASE d.packet = Damaged(packet)
    <3>1. FromClient(d, a)
      BY <1>4, <2>3 DEF FromClient, body
    <3> QED BY <3>1 DEF Known
  <2> QED BY <2>1, <2>2, <2>3
<1> QED BY <1>1, <1>5, NetStep

\* The answer of a dial that has a peer.
LEMMA SendAnswerKeeps ==
  ASSUME IInv, NEW a \in 1..Len(attempt), NEW fate \in {"lost", "whole"}, SendAnswer(a, fate)
  PROVE  IInv' /\ Calm
<1> DEFINE packet == ClientAnswer(a)
<1>1. /\ UNCHANGED <<filter, attempt, conns, boots>> /\ net' = Sent(fate, packet)
      /\ attempt[a].stage = "connected" /\ fate \in Fate /\ fate # "damaged"
  BY DEF SendAnswer, Fate
<1>2. attempt[a].peer # NoConn
  BY <1>1 DEF IInv, Attempts
<1>3. packet.dcid = CidOf(attempt[a].peer)
  <2>1. PICK first, four : packet = PacketOf(first, CidOf(attempt[a].peer), four, <<>>)
    BY PlainIs DEF ClientAnswer
  <2> HIDE DEF packet
  <2> QED BY <2>1, PacketFields
<1> HIDE DEF packet
<1>4. ASSUME NEW d \in net' PROVE d \in net \/ Known(d)
  <2>1. d \in net \/ d.packet = packet
    BY <1>1, SentIs
  <2>2. CASE d.packet = packet
    BY <1>2, <1>3, <2>2 DEF Known, Answers
  <2> QED BY <2>1, <2>2
<1> QED BY <1>1, <1>4, NetStep

\* A client gives up.
LEMMA GivesUpKeeps ==
  ASSUME IInv, NEW a \in 1..Len(attempt), GivesUp(a)
  PROVE  IInv' /\ Calm
<1> DEFINE x == [attempt[a] EXCEPT !.stage = "over"]
<1>1. /\ attempt' = [attempt EXCEPT ![a] = x] /\ UNCHANGED filter /\ conns' = conns /\ boots' = boots
      /\ net' = net /\ attempt[a].stage = "dialling"
  BY DEF GivesUp
<1>2. /\ x \in AttemptType /\ x.client = attempt[a].client /\ x.dcid = attempt[a].dcid
      /\ x.peer = attempt[a].peer /\ x.stage = "over"
  <2>1. attempt[a] \in AttemptType
    BY Parts
  <2> QED BY <2>1 DEF AttemptType, Stage
<1> HIDE DEF x
<1>3. /\ attempt' \in Seq(AttemptType) /\ Len(attempt') = Len(attempt) /\ attempt'[a] = x
      /\ \A b \in 1..Len(attempt) : b # a => attempt'[b] = attempt[b]
  BY <1>1, <1>2, Parts
<1>4. Typed'
  BY <1>1, <1>3, FilterSame DEF IInv, Typed
<1>5. \A b \in 1..Len(attempt) : /\ attempt'[b].client = attempt[b].client
                                 /\ attempt'[b].dcid = attempt[b].dcid
                                 /\ attempt'[b].peer = attempt[b].peer
                                 /\ attempt'[b].stage \in {attempt[b].stage, "over"}
  BY <1>2, <1>3
<1>6. Attempts'
  BY <1>1, <1>3, <1>5 DEF IInv, Attempts
<1>7. Connections'
  BY <1>1, <1>3, <1>5 DEF IInv, Connections
<1>8. Steady
  BY <1>1, <1>3, <1>5 DEF Steady
<1>9. Wire'
  BY <1>1, <1>8, WireGrows
<1>10. Calm
  BY <1>1, <1>8, FilterSame, Parts DEF Calm
<1> QED BY <1>4, <1>6, <1>7, <1>9, <1>10 DEF IInv

\* A client takes the first flight that opens for its peer's.
LEMMA ClientReceivesKeeps ==
  ASSUME IInv, NEW a \in 1..Len(attempt), NEW d \in net, ClientReceives(a, d)
  PROVE  IInv' /\ Calm
<1> DEFINE k == d.packet.rest.body.of
           x == [attempt[a] EXCEPT !.stage = "connected", !.peer = k]
<1>1. /\ attempt' = [attempt EXCEPT ![a] = x] /\ UNCHANGED filter /\ conns' = conns /\ boots' = boots
      /\ net' = net /\ attempt[a].stage = "dialling"
      /\ IsInitial(d) /\ Opens(ClientKeys(a).remote, d.packet)
  BY DEF ClientReceives
<1>2. k \in 1..Len(conns) /\ conns[k].dcid = attempt[a].dcid
  BY <1>1, Genuine
<1>3. k \in Nat /\ k # NoConn
  BY <1>2, Parts DEF NoConn
<1> HIDE DEF k
<1>4. /\ x \in AttemptType /\ x.client = attempt[a].client /\ x.dcid = attempt[a].dcid
      /\ x.peer = k /\ x.stage = "connected"
  <2>1. attempt[a] \in AttemptType
    BY Parts
  <2> QED BY <1>3, <2>1 DEF AttemptType, Stage
<1> HIDE DEF x
<1>5. /\ attempt' \in Seq(AttemptType) /\ Len(attempt') = Len(attempt) /\ attempt'[a] = x
      /\ \A b \in 1..Len(attempt) : b # a => attempt'[b] = attempt[b]
  BY <1>1, <1>4, Parts
<1>6. Typed'
  BY <1>1, <1>5, FilterSame DEF IInv, Typed
<1>7. attempt[a].peer = NoConn
  BY <1>1 DEF IInv, Attempts
<1>8. \A b \in 1..Len(attempt) : /\ attempt'[b].client = attempt[b].client
                                 /\ attempt'[b].dcid = attempt[b].dcid
                                 /\ attempt[b].peer # NoConn => attempt'[b].peer = attempt[b].peer
  BY <1>4, <1>5, <1>7
<1>9. Attempts'
  <2>1. ASSUME NEW b \in 1..Len(attempt)
        PROVE  /\ attempt'[b].peer # NoConn =>
                    attempt'[b].peer \in 1..Len(conns) /\ conns[attempt'[b].peer].dcid = attempt'[b].dcid
               /\ attempt'[b].stage = "dialling" => attempt'[b].peer = NoConn
               /\ attempt'[b].stage = "connected" => attempt'[b].peer # NoConn
    <3>1. CASE b = a
      BY <1>2, <1>3, <1>4, <1>5, <3>1
    <3>2. CASE b # a
      BY <1>5, <3>2 DEF IInv, Attempts
    <3> QED BY <3>1, <3>2
  <2>2. ASSUME NEW b \in 1..Len(attempt)
        PROVE  /\ attempt'[b].dcid.nonce = b
               /\ attempt'[b].dcid.selector = <<Psk[attempt'[b].client], b, attempt'[b].dcid.freshness>>
    BY <1>8 DEF IInv, Attempts
  <2> QED BY <1>1, <1>5, <2>1, <2>2 DEF Attempts
<1>10. Connections'
  <2>1. ASSUME NEW j \in 1..Len(conns), conns[j].surfaced
        PROVE  attempt'[conns[j].dcid.nonce].peer = j
    <3>1. attempt[conns[j].dcid.nonce].peer = j /\ conns[j].dcid.nonce \in 1..Len(attempt) /\ j # NoConn
      BY <2>1 DEF IInv, Connections, NoConn
    <3> QED BY <1>8, <3>1
  <2> QED BY <1>1, <1>5, <1>8, <2>1 DEF IInv, Connections
<1>11. Steady
  BY <1>1, <1>5, <1>8 DEF Steady
<1>12. Wire'
  BY <1>1, <1>11, WireGrows
<1>13. Calm
  BY <1>1, <1>11, FilterSame, Parts DEF Calm
<1> QED BY <1>6, <1>9, <1>10, <1>12, <1>13 DEF IInv

-----------------------------------------------------------------------------
(* The server                                                              *)

\* A connection changes and stays in order.
LEMMA ConnStep ==
  ASSUME IInv, UNCHANGED <<filter, attempt, boots>>, \A d \in net' : d \in net \/ Known(d),
         NEW k \in 1..Len(conns), NEW y \in ConnType, conns' = [conns EXCEPT ![k] = y],
         y.dcid = conns[k].dcid, y.client = conns[k].client,
         y.surfaced => attempt[conns[k].dcid.nonce].peer = k,
         ~y.surfaced => y.received = 1,
         y.sent <= Amplification * y.received
  PROVE  IInv' /\ Calm
<1>1. attempt' = attempt /\ boots' = boots /\ UNCHANGED filter
  OBVIOUS
<1>2. /\ conns' \in Seq(ConnType) /\ Len(conns') = Len(conns) /\ conns'[k] = y
      /\ \A j \in 1..Len(conns) : j # k => conns'[j] = conns[j]
  BY Parts
<1>3. Typed'
  BY <1>1, <1>2, FilterSame DEF IInv, Typed
<1>4. \A j \in 1..Len(conns) : conns'[j].dcid = conns[j].dcid /\ conns'[j].client = conns[j].client
  BY <1>2
<1>5. Attempts'
  BY <1>1, <1>2, <1>4 DEF IInv, Attempts
<1>6. Connections'
  <2>1. ASSUME NEW j \in 1..Len(conns)
        PROVE  /\ conns'[j].surfaced => attempt[conns[j].dcid.nonce].peer = j
               /\ ~conns'[j].surfaced => conns'[j].received = 1
               /\ conns'[j].sent <= Amplification * conns'[j].received
    <3>1. CASE j = k
      BY <1>2, <3>1
    <3>2. CASE j # k
      BY <1>2, <3>2 DEF IInv, Connections
    <3> QED BY <3>1, <3>2
  <2>2. ASSUME NEW j \in 1..Len(conns)
        PROVE  LET a == conns[j].dcid.nonce
               IN  a \in 1..Len(attempt) /\ conns[j].dcid = attempt[a].dcid /\ conns[j].client = attempt[a].client
    BY DEF IInv, Connections
  <2> QED BY <1>1, <1>2, <1>4, <2>1, <2>2 DEF Connections
<1>7. Steady
  BY <1>1, <1>2, <1>4 DEF Steady
<1>8. Wire'
  BY <1>7, WireGrows
<1>9. Calm
  BY <1>1, <1>2, <1>7, FilterSame, Parts DEF Calm
<1> QED BY <1>3, <1>5, <1>6, <1>8, <1>9 DEF IInv

\* A datagram for a connection comes from the dial that has completed it.
LEMMA FeedKeeps ==
  ASSUME IInv, NEW d \in net, NEW k \in ActiveFor(d.packet.dcid), Feed(k, d.packet),
         UNCHANGED <<attempt, boots, net>>
  PROVE  IInv' /\ Calm
<1> DEFINE done == d.packet.dcid = CidOf(k)
           x == conns[k]
           x1 == [x EXCEPT !.received = 2]
           x2 == [x1 EXCEPT !.state = "open"]
           y == [x2 EXCEPT !.surfaced = TRUE]
<1>1. k \in 1..Len(conns) /\ d.packet.dcid = CidOf(k)
  BY Parts DEF ActiveFor, LiveConns
<1>2. k # NoConn /\ CidOf(k).cid = k
  BY <1>1, Parts DEF NoConn, CidOf
<1>3. attempt[conns[k].dcid.nonce].peer = k
  <2>1. ~\E a \in 1..Len(attempt) : FromClient(d, a)
    <3>1. \A a \in 1..Len(attempt) : SelectorOf(attempt[a].dcid).cid = NoConn
      BY DEF SelectorOf
    <3> QED BY <1>1, <1>2, <3>1 DEF FromClient
  <2>2. ~\E j \in 1..Len(conns) : FromServer(d, j)
    <3>1. ClientCid.cid = NoConn
      BY DEF ClientCid
    <3> QED BY <1>1, <1>2, <3>1 DEF FromServer
  <2>3. PICK a \in 1..Len(attempt) : Answers(d, a)
    BY <2>1, <2>2 DEF IInv, Wire
  <2>4. CidOf(attempt[a].peer).cid = attempt[a].peer
    BY DEF CidOf
  <2>5. attempt[a].peer = k
    BY <1>1, <1>2, <2>3, <2>4 DEF Answers
  <2>6. conns[k].dcid = attempt[a].dcid /\ attempt[a].dcid.nonce = a
    BY <1>2, <2>5 DEF IInv, Attempts
  <2> QED BY <2>5, <2>6
<1>4. x \in ConnType
  BY <1>1, Parts
<1>5. conns' = [conns EXCEPT ![k].received = 2, ![k].state = "open", ![k].surfaced = TRUE] /\ UNCHANGED filter
  BY <1>1 DEF Feed
<1>6. conns' = [conns EXCEPT ![k] = y]
  BY <1>1, <1>5, Parts
<1> HIDE DEF x
<1>7. x1 \in ConnType /\ x1.received = 2 /\ x1.dcid = x.dcid /\ x1.client = x.client /\ x1.sent = x.sent
  BY <1>4 DEF ConnType
<1> HIDE DEF x1
<1>8. x2 \in ConnType /\ x2.received = 2 /\ x2.dcid = x.dcid /\ x2.client = x.client /\ x2.sent = x.sent
  BY <1>7 DEF ConnType, State
<1> HIDE DEF x2
<1>9. y \in ConnType /\ y.received = 2 /\ y.dcid = x.dcid /\ y.client = x.client /\ y.sent = x.sent
  BY <1>8 DEF ConnType
<1>10. y.surfaced
  <2>1. y.surfaced = TRUE
    BY <1>8 DEF ConnType
  <2> QED BY <2>1
<1>11. y.sent <= Amplification * y.received
  BY <1>4, <1>9, ConnFields, FlightAssumption
<1> HIDE DEF y
<1> QED BY <1>1, <1>3, <1>5, <1>6, <1>9, <1>10, <1>11, ConnStep DEF x

\* A flight.
LEMMA SendFlightKeeps ==
  ASSUME IInv, NEW k \in LiveConns, NEW fate \in {"lost", "whole"}, SendFlight(k, fate)
  PROVE  IInv' /\ Calm
<1> DEFINE x == conns[k]
           y == [x EXCEPT !.sent = x.sent + 1]
           packet == ServerFlight(k)
           body == [by |-> "server", of |-> k]
<1>1. k \in 1..Len(conns) /\ x \in ConnType
  BY Parts DEF LiveConns
<1>2. /\ UNCHANGED <<filter, attempt, boots>> /\ x.sent < Amplification * x.received
      /\ net' = Sent(fate, packet) /\ fate \in Fate /\ fate # "damaged"
  BY DEF SendFlight, Fate
<1>3. conns' = [conns EXCEPT ![k] = y]
  BY DEF SendFlight
<1>4. /\ x.sent \in Nat /\ x.received \in 1..2 /\ x.sent + 1 <= Amplification * x.received
      /\ x.sent + 1 \in 0..(2 * Amplification)
  BY <1>1, <1>2, ConnFields, FlightAssumption
<1> HIDE DEF x
<1>5. /\ y \in ConnType /\ y.dcid = x.dcid /\ y.client = x.client
      /\ y.received = x.received /\ y.sent = x.sent + 1
  BY <1>1, <1>4 DEF ConnType
<1>6. y.surfaced = x.surfaced
  BY <1>1 DEF ConnType
<1>7. /\ x.surfaced => attempt[x.dcid.nonce].peer = k
      /\ ~x.surfaced => x.received = 1
  BY <1>1 DEF IInv, Connections, x
<1>8. packet.dcid = ClientCid /\ packet.rest.key = Inbound(k).key /\ packet.rest.body = body
  <2> DEFINE pn == conns[k].sent
  <2>1. ServerKeys(conns[k].client, conns[k].dcid).local = Inbound(k)
    BY KeysPair DEF ServerKeys, Inbound
  <2>2. packet = Protect(Inbound(k), Plain(ClientCid, pn % 4, 1 + (pn % 2)), body)
    BY <2>1 DEF ServerFlight
  <2> HIDE DEF packet, body
  <2> QED BY <2>2, ProtectedPacket
<1> HIDE DEF y, packet
<1>9. ASSUME NEW d \in net' PROVE d \in net \/ Known(d)
  <2>1. d \in net \/ (d.packet = packet /\ d.whole)
    BY <1>2, SentIs
  <2>2. CASE d.packet = packet /\ d.whole
    <3>1. FromServer(d, k)
      BY <1>8, <2>2 DEF FromServer
    <3> QED BY <1>1, <3>1 DEF Known
  <2> QED BY <2>1, <2>2
<1> QED BY <1>1, <1>2, <1>3, <1>4, <1>5, <1>6, <1>7, <1>9, ConnStep DEF x

\* What is left of a connection that is gone.
LEMMA GoneFields ==
  ASSUME NEW x \in ConnType
  PROVE  /\ Gone(x) \in ConnType /\ Gone(x).dcid = x.dcid /\ Gone(x).client = x.client
         /\ Gone(x).received = 1 /\ Gone(x).sent = 0 /\ Gone(x).surfaced = x.surfaced
<1> DEFINE x1 == [x EXCEPT !.state = "lost"]
           x2 == [x1 EXCEPT !.received = 1]
           y == [x2 EXCEPT !.sent = 0]
<1>1. Gone(x) = y
  BY DEF Gone
<1>2. x1 \in ConnType /\ x1.dcid = x.dcid /\ x1.client = x.client
  BY DEF ConnType, State
<1>3. x1.surfaced = x.surfaced
  BY DEF ConnType
<1> HIDE DEF x1
<1>4. x2 \in ConnType /\ x2.dcid = x.dcid /\ x2.client = x.client /\ x2.received = 1
  BY <1>2 DEF ConnType
<1>5. x2.surfaced = x.surfaced
  BY <1>2, <1>3 DEF ConnType
<1> HIDE DEF x2
<1>6. /\ y \in ConnType /\ y.dcid = x.dcid /\ y.client = x.client
      /\ y.received = 1 /\ y.sent = 0
  BY <1>4, FlightAssumption DEF ConnType
<1>7. y.surfaced = x.surfaced
  BY <1>4, <1>5 DEF ConnType
<1> QED BY <1>1, <1>6, <1>7

\* A connection is lost.
LEMMA ConnLostKeeps ==
  ASSUME IInv, NEW k \in LiveConns, ConnLost(k)
  PROVE  IInv' /\ Calm
<1> DEFINE y == Gone(conns[k])
<1>1. k \in 1..Len(conns) /\ conns[k] \in ConnType
  BY Parts DEF LiveConns
<1>2. conns' = [conns EXCEPT ![k] = y] /\ UNCHANGED <<filter, attempt, boots>> /\ net' = net
  BY DEF ConnLost
<1>3. /\ y \in ConnType /\ y.dcid = conns[k].dcid /\ y.client = conns[k].client
      /\ y.received = 1 /\ y.sent = 0 /\ y.surfaced = conns[k].surfaced
  BY <1>1, GoneFields
<1>4. conns[k].surfaced => attempt[conns[k].dcid.nonce].peer = k
  BY <1>1 DEF IInv, Connections
<1> HIDE DEF y
<1>5. y.sent <= Amplification * y.received
  BY <1>3, FlightAssumption
<1> QED BY <1>1, <1>2, <1>3, <1>4, <1>5, ConnStep

-----------------------------------------------------------------------------
(* Dials and admissions                                                    *)

\* A client dials: the selector is its own and the nonce tells it from every other dial.
LEMMA DialKeeps ==
  ASSUME IInv, NEW c \in PF!Client, Dial(c)
  PROVE  IInv' /\ Calm
<1> DEFINE n == dials + 1
           parts == PF!BuildDcid(Psk[c], n, minute)
           x == [client |-> c, dcid |-> parts, stage |-> "dialling", peer |-> NoConn]
<1>1. /\ attempt' = Append(attempt, x) /\ conns' = conns /\ boots' = boots /\ net' = net
      /\ <<n, Len(boots)>> \in Bounds /\ PF!Dial(c, n, minute)
  BY DEF Dial
<1>2. /\ dials < MaxDials /\ dials' = n /\ dialled' = dialled \cup {parts}
      /\ minute' = minute /\ replay' = replay /\ admissions' = admissions
  BY <1>1 DEF PF!Dial
<1>3. /\ minute \in PF!Minute /\ replay \in [PF!Client -> SUBSET PF!Stamp]
      /\ dialled \subseteq PF!DcidParts /\ dials \in 0..MaxDials
      /\ admissions \in [PF!Client \X PF!Stamp -> Nat]
  BY DEF IInv, Typed, PF!TypeOK
<1>4. n \in Nonce /\ n \in 0..MaxDials /\ Len(attempt) + 1 = n /\ Len(attempt) \in Nat /\ n \in Nat
  BY <1>2, <1>3, Parts, DialAssumption, FilterAssumption
<1> HIDE DEF n
<1>5. Psk[c] \in Key
  BY PskAssumption DEF PF!Client
<1>6. /\ parts \in PF!DcidParts /\ parts.nonce = n /\ parts.freshness = minute
      /\ parts.selector = <<Psk[c], n, minute>>
  BY <1>3, <1>4, <1>5 DEF PF!BuildDcid, PF!ComputeSelector, PF!DcidParts, PF!Selector
<1> HIDE DEF parts
<1>7. x \in AttemptType /\ x.client = c /\ x.dcid = parts /\ x.peer = NoConn /\ x.stage = "dialling"
  BY <1>6 DEF AttemptType, Stage, NoConn
<1> HIDE DEF x
<1>8. /\ attempt' \in Seq(AttemptType) /\ Len(attempt') = n /\ attempt'[n] = x
      /\ \A b \in 1..Len(attempt) : attempt'[b] = attempt[b]
  BY <1>1, <1>4, <1>7, Parts
<1>9. 1..Len(attempt') = (1..Len(attempt)) \cup {n} /\ n \notin 1..Len(attempt)
  BY <1>4, <1>8
<1>10. Typed'
  <2>1. PF!TypeOK'
    BY <1>2, <1>3, <1>4, <1>6 DEF PF!TypeOK
  <2>2. Len(attempt') = dials'
    BY <1>2, <1>8
  <2>3. <<dials', Len(boots')>> \in Bounds
    BY <1>1, <1>2
  <2> QED BY <1>1, <1>8, <2>1, <2>2, <2>3 DEF IInv, Typed
<1>11. Attempts'
  <2>1. ASSUME NEW b \in 1..Len(attempt')
        PROVE  /\ attempt'[b].dcid.nonce = b
               /\ attempt'[b].dcid.selector = <<Psk[attempt'[b].client], b, attempt'[b].dcid.freshness>>
               /\ attempt'[b].peer # NoConn =>
                    attempt'[b].peer \in 1..Len(conns) /\ conns[attempt'[b].peer].dcid = attempt'[b].dcid
               /\ attempt'[b].stage = "dialling" => attempt'[b].peer = NoConn
               /\ attempt'[b].stage = "connected" => attempt'[b].peer # NoConn
    <3>1. CASE b = n
      BY <1>6, <1>7, <1>8, <3>1
    <3>2. CASE b \in 1..Len(attempt)
      BY <1>8, <3>2 DEF IInv, Attempts
    <3> QED BY <1>9, <3>1, <3>2
  <2> QED BY <1>1, <2>1 DEF Attempts
<1>12. Connections'
  <2>1. \A k \in 1..Len(conns) : conns[k].dcid.nonce \in 1..Len(attempt)
    BY DEF IInv, Connections
  <2> QED BY <1>1, <1>8, <1>9, <2>1 DEF IInv, Connections
<1>13. Steady
  BY <1>1, <1>8, <1>9 DEF Steady
<1>14. Wire'
  BY <1>1, <1>13, WireGrows
<1>15. Calm
  <2>1. dials <= n
    BY <1>3 DEF n
  <2> QED BY <1>1, <1>2, <1>13, <2>1 DEF Calm
<1> QED BY <1>10, <1>11, <1>12, <1>14, <1>15 DEF IInv

\* The selector of a dial selects the client that dialled.
LEMMA SelectsDialler ==
  ASSUME IInv, NEW a \in 1..Len(attempt)
  PROVE  PF!SelectPsk(attempt[a].dcid) = attempt[a].client
<1> DEFINE parts == attempt[a].dcid
           c == attempt[a].client
           matching == {e \in PF!Client : PF!SelectorMatches(Psk[e], parts)}
<1>1. c \in PF!Client
  BY Parts, AttemptFields
<1>2. parts.nonce = a /\ parts.selector = <<Psk[c], a, parts.freshness>>
  BY DEF IInv, Attempts
<1>3. ASSUME NEW e \in PF!Client PROVE PF!SelectorMatches(Psk[e], parts) <=> e = c
  <2>1. PF!SelectorMatches(Psk[e], parts) <=> <<Psk[e], a, parts.freshness>> = <<Psk[c], a, parts.freshness>>
    BY <1>2 DEF PF!SelectorMatches, PF!ComputeSelector
  <2>2. Psk[e] = Psk[c] => e = c
    BY <1>1, PskAssumption DEF PF!Client
  <2> HIDE DEF parts, c
  <2> QED BY <2>1, <2>2
<1>4. matching = {c}
  <2> HIDE DEF parts, c
  <2> QED BY <1>1, <1>3
<1>5. PF!SelectPsk(parts) = CHOOSE e \in {c} : \A f \in {c} : e <= f
  <2> HIDE DEF parts, c
  <2> QED BY <1>4 DEF PF!SelectPsk
<1>6. c <= c
  BY <1>1, FilterAssumption DEF PF!Client
<1> HIDE DEF c
<1>7. (CHOOSE e \in {c} : \A f \in {c} : e <= f) = c
  BY <1>6
<1> QED BY <1>5, <1>7 DEF c

\* A datagram whose DCID is a selector is the Initial of a dial.
LEMMA SelectorMeansDial ==
  ASSUME IInv, NEW d \in net, d.packet.dcid.parts # NoParts
  PROVE  \E a \in 1..Len(attempt) : d.packet.dcid.parts = attempt[a].dcid
<1>1. ASSUME NEW a \in 1..Len(attempt), Answers(d, a) PROVE FALSE
  <2>1. CidOf(attempt[a].peer).parts = NoParts
    BY DEF CidOf
  <2> QED BY <1>1, <2>1 DEF Answers
<1>2. ASSUME NEW k \in 1..Len(conns), FromServer(d, k) PROVE FALSE
  <2>1. ClientCid.parts = NoParts
    BY DEF ClientCid
  <2> QED BY <1>2, <2>1 DEF FromServer
<1>3. PICK a \in 1..Len(attempt) : FromClient(d, a)
  BY <1>1, <1>2 DEF IInv, Wire
<1>4. SelectorOf(attempt[a].dcid).parts = attempt[a].dcid
  BY DEF SelectorOf
<1> QED BY <1>3, <1>4 DEF FromClient

\* What the guard does with it.
LEMMA Consulted ==
  ASSUME IInv, NEW a \in 1..Len(attempt), PF!Consult(attempt[a].dcid),
         NEW stamp, stamp = <<a, attempt[a].dcid.freshness>>,
         NEW c, c = attempt[a].client
  PROVE  /\ PF!TypeOK' /\ dials' = dials /\ minute' = minute
         /\ PF!IsFresh(attempt[a].dcid.freshness, minute)
         /\ replay' = [replay EXCEPT ![c] = PF!Retained(replay[c], minute) \cup {stamp}]
<1> DEFINE parts == attempt[a].dcid
           kept == PF!Retained(replay[c], minute)
<1>1. /\ minute \in PF!Minute /\ replay \in [PF!Client -> SUBSET PF!Stamp]
      /\ dialled \subseteq PF!DcidParts /\ dials \in 0..MaxDials
      /\ admissions \in [PF!Client \X PF!Stamp -> Nat]
  BY DEF IInv, Typed, PF!TypeOK
<1>2. parts \in PF!DcidParts /\ c \in PF!Client /\ parts.nonce = a /\ PF!SelectPsk(parts) = c
  BY Parts, AttemptFields, SelectsDialler DEF IInv, Attempts
<1>3. stamp = <<parts.nonce, parts.freshness>>
  BY <1>2
<1>4. stamp \in PF!Stamp
  BY <1>2, <1>3 DEF PF!DcidParts, PF!Stamp
<1>5. kept \subseteq PF!Stamp
  BY <1>1, <1>2 DEF PF!Retained
<1> HIDE DEF parts
<1>6. /\ PF!IsFresh(parts.freshness, minute)
      /\ replay' = [replay EXCEPT ![c] = kept \cup {stamp}]
      /\ admissions' = IF stamp \in kept THEN admissions
                       ELSE [admissions EXCEPT ![<<c, stamp>>] = @ + 1]
      /\ minute' = minute /\ dialled' = dialled /\ dials' = dials
  BY <1>2, <1>3 DEF PF!Consult, parts
<1> HIDE DEF kept
<1>7. replay' \in [PF!Client -> SUBSET PF!Stamp]
  BY <1>1, <1>4, <1>5, <1>6
<1>8. admissions' \in [PF!Client \X PF!Stamp -> Nat]
  <2> DEFINE P == PF!Client \X PF!Stamp
             key == <<c, stamp>>
  <2>1. key \in P
    BY <1>2, <1>4
  <2> HIDE DEF P, key
  <2>2. admissions \in [P -> Nat]
    BY <1>1 DEF P
  <2>3. admissions' = admissions \/ admissions' = [admissions EXCEPT ![key] = admissions[key] + 1]
    BY <1>6 DEF key
  <2>4. admissions' \in [P -> Nat]
    BY <2>1, <2>2, <2>3
  <2> QED BY <2>4 DEF P
<1>9. PF!TypeOK'
  BY <1>1, <1>6, <1>7, <1>8 DEF PF!TypeOK
<1> QED BY <1>6, <1>9 DEF parts, kept

\* A new connection for a dial.
LEMMA AdmittedFields ==
  ASSUME NEW parts \in PF!DcidParts, NEW c \in PF!Client
  PROVE  /\ Admitted(parts, c) \in ConnType
         /\ Admitted(parts, c).dcid = parts /\ Admitted(parts, c).client = c
         /\ Admitted(parts, c).received = 1 /\ Admitted(parts, c).sent = 0
         /\ ~Admitted(parts, c).surfaced
<1> DEFINE y == Admitted(parts, c)
<1>1. y \in ConnType
  BY FlightAssumption DEF Admitted, ConnType, State
<1>2. y.dcid = parts /\ y.client = c /\ y.received = 1 /\ y.sent = 0
  BY DEF Admitted
<1>3. y.surfaced = FALSE
  BY DEF Admitted
<1> QED BY <1>1, <1>2, <1>3

\* What the first datagram of a dial does: the guard records it, and it may be admitted.
LEMMA FeedFirstIs ==
  ASSUME IInv, NEW d \in net, FeedFirst(d.packet)
  PROVE  \E a \in 1..Len(attempt) :
           /\ d.packet.dcid.parts = attempt[a].dcid
           /\ PF!Consult(attempt[a].dcid)
           /\ \/ conns' = conns
              \/ /\ <<a, attempt[a].dcid.freshness>> \notin PF!Retained(replay[attempt[a].client], minute)
                 /\ conns' = Append(conns, Admitted(attempt[a].dcid, attempt[a].client))
<1> DEFINE parts == d.packet.dcid.parts
           c == PF!SelectPsk(parts)
<1>1. parts # NoParts /\ PF!Consult(parts)
  BY DEF FeedFirst
<1>2. \/ conns' = conns
      \/ /\ <<parts.nonce, parts.freshness>> \notin PF!Retained(replay[c], minute)
         /\ conns' = Append(conns, Admitted(parts, c))
  BY DEF FeedFirst
<1>3. PICK a \in 1..Len(attempt) : parts = attempt[a].dcid
  BY <1>1, SelectorMeansDial
<1> HIDE DEF parts
<1>4. c = attempt[a].client
  BY <1>3, SelectsDialler
<1>5. attempt[a].dcid.nonce = a
  BY DEF IInv, Attempts
<1> HIDE DEF c
<1> QED BY <1>1, <1>2, <1>3, <1>4, <1>5 DEF parts

\* A datagram that is for no connection.
LEMMA FeedFirstKeeps ==
  ASSUME IInv, NEW d \in net, FeedFirst(d.packet), UNCHANGED <<attempt, boots, net>>
  PROVE  IInv'
<1>1. PICK a \in 1..Len(attempt) :
           /\ PF!Consult(attempt[a].dcid)
           /\ \/ conns' = conns
              \/ conns' = Append(conns, Admitted(attempt[a].dcid, attempt[a].client))
  BY FeedFirstIs
<1> DEFINE y == Admitted(attempt[a].dcid, attempt[a].client)
           n == Len(conns) + 1
<1>2. PF!TypeOK' /\ dials' = dials
  BY <1>1, Consulted
<1>3. attempt' = attempt /\ boots' = boots /\ net' = net
  OBVIOUS
<1>4. attempt[a].dcid \in PF!DcidParts /\ attempt[a].client \in PF!Client /\ attempt[a].dcid.nonce = a
  BY Parts, AttemptFields DEF IInv, Attempts
<1>5. /\ y \in ConnType /\ y.dcid = attempt[a].dcid /\ y.client = attempt[a].client
      /\ y.received = 1 /\ y.sent = 0 /\ ~y.surfaced
  BY <1>4, AdmittedFields
<1> HIDE DEF y
<1>6. CASE conns' = conns
  <2>1. Typed'
    BY <1>2, <1>3, <1>6 DEF IInv, Typed
  <2>2. Attempts' /\ Connections'
    BY <1>3, <1>6 DEF IInv, Attempts, Connections
  <2>3. Steady
    BY <1>3, <1>6 DEF Steady
  <2>4. Wire'
    BY <1>3, <2>3, WireGrows
  <2> QED BY <2>1, <2>2, <2>4 DEF IInv
<1>7. CASE conns' = Append(conns, y)
  <2>1. /\ conns' \in Seq(ConnType) /\ Len(conns') = n /\ conns'[n] = y
        /\ \A k \in 1..Len(conns) : conns'[k] = conns[k]
    BY <1>5, <1>7, Parts
  <2>2. 1..Len(conns') = (1..Len(conns)) \cup {n}
    BY <2>1, Parts
  <2> HIDE DEF n
  <2>3. Typed'
    BY <1>2, <1>3, <2>1 DEF IInv, Typed
  <2>4. Attempts'
    BY <1>3, <2>1, <2>2 DEF IInv, Attempts
  <2>5. Connections'
    <3>1. ASSUME NEW k \in 1..Len(conns')
          PROVE  /\ conns'[k].dcid.nonce \in 1..Len(attempt)
                 /\ conns'[k].dcid = attempt[conns'[k].dcid.nonce].dcid
                 /\ conns'[k].client = attempt[conns'[k].dcid.nonce].client
                 /\ conns'[k].surfaced => attempt[conns'[k].dcid.nonce].peer = k
                 /\ ~conns'[k].surfaced => conns'[k].received = 1
                 /\ conns'[k].sent <= Amplification * conns'[k].received
      <4>1. CASE k = n
        <5>1. y.sent <= Amplification * y.received
          BY <1>5, FlightAssumption
        <5> QED BY <1>4, <1>5, <2>1, <4>1, <5>1
      <4>2. CASE k \in 1..Len(conns)
        <5>1. conns'[k] = conns[k]
          BY <2>1, <4>2
        <5> QED BY <4>2, <5>1 DEF IInv, Connections
      <4> QED BY <2>2, <4>1, <4>2
    <3> QED BY <1>3, <3>1 DEF Connections
  <2>6. Steady
    BY <1>3, <2>1, <2>2 DEF Steady
  <2>7. Wire'
    BY <1>3, <2>6, WireGrows
  <2> QED BY <2>3, <2>4, <2>5, <2>7 DEF IInv
<1> QED BY <1>1, <1>6, <1>7 DEF y

\* The server is restarted.
LEMMA RestartKeeps ==
  ASSUME IInv, Restart
  PROVE  IInv'
<1>1. /\ <<dials, Len(boots) + 1>> \in Bounds /\ boots' = Append(boots, Len(conns))
      /\ conns' = [k \in 1..Len(conns) |-> Gone(conns[k])]
      /\ replay' = [c \in PF!Client |-> {}] /\ admissions' = [x \in PF!Client \X PF!Stamp |-> 0]
      /\ minute' = minute /\ dialled' = dialled /\ dials' = dials /\ attempt' = attempt /\ net' = net
  BY Parts DEF Restart
<1>2. PF!TypeOK'
  <2>1. minute \in PF!Minute /\ dialled \subseteq PF!DcidParts /\ dials \in 0..MaxDials
    BY DEF IInv, Typed, PF!TypeOK
  <2>2. replay' \in [PF!Client -> SUBSET PF!Stamp] /\ admissions' \in [PF!Client \X PF!Stamp -> Nat]
    BY <1>1
  <2> QED BY <1>1, <2>1, <2>2 DEF PF!TypeOK
<1>3. boots' \in Seq(Nat) /\ Len(boots') = Len(boots) + 1
  BY <1>1, Parts
<1>4. ASSUME NEW k \in 1..Len(conns)
      PROVE  /\ conns'[k] \in ConnType /\ conns'[k].dcid = conns[k].dcid
             /\ conns'[k].client = conns[k].client /\ conns'[k].received = 1 /\ conns'[k].sent = 0
             /\ conns'[k].surfaced = conns[k].surfaced
  <2>1. conns[k] \in ConnType
    BY Parts
  <2> QED BY <1>1, <2>1, GoneFields
<1>5. conns' \in Seq(ConnType) /\ Len(conns') = Len(conns)
  <2>1. conns' \in [1..Len(conns) -> ConnType]
    BY <1>1, <1>4
  <2> DEFINE s == conns'
             n == Len(conns)
  <2>2. n \in Nat
    BY Parts
  <2> HIDE DEF s, n
  <2>3. s \in [1..n -> ConnType]
    BY <2>1 DEF s, n
  <2>4. s \in Seq(ConnType) /\ Len(s) = n
    BY <2>2, <2>3
  <2> QED BY <2>4 DEF s, n
<1>6. Typed'
  BY <1>1, <1>2, <1>3, <1>5 DEF IInv, Typed
<1>7. Attempts'
  <2>1. \A k \in 1..Len(conns) : conns'[k].dcid = conns[k].dcid
    BY <1>4
  <2>2. attempt' = attempt /\ Len(conns') = Len(conns)
    BY <1>1, <1>5
  <2> QED BY <2>1, <2>2 DEF IInv, Attempts
<1>8. Connections'
  <2>1. ASSUME NEW k \in 1..Len(conns)
        PROVE  /\ conns'[k].surfaced => attempt[conns[k].dcid.nonce].peer = k
               /\ conns'[k].received = 1
               /\ conns'[k].sent <= Amplification * conns'[k].received
    <3>1. conns'[k].received = 1 /\ conns'[k].sent = 0 /\ conns'[k].surfaced = conns[k].surfaced
      BY <1>4
    <3>2. conns[k].surfaced => attempt[conns[k].dcid.nonce].peer = k
      BY DEF IInv, Connections
    <3> QED BY <3>1, <3>2, FlightAssumption
  <2>2. ASSUME NEW k \in 1..Len(conns)
        PROVE  LET a == conns[k].dcid.nonce
               IN  a \in 1..Len(attempt) /\ conns[k].dcid = attempt[a].dcid /\ conns[k].client = attempt[a].client
    BY DEF IInv, Connections
  <2>3. /\ attempt' = attempt /\ Len(conns') = Len(conns)
        /\ \A k \in 1..Len(conns) : conns'[k].dcid = conns[k].dcid /\ conns'[k].client = conns[k].client
    BY <1>1, <1>4, <1>5
  <2> QED BY <2>1, <2>2, <2>3 DEF Connections
<1>9. Wire'
  <2>1. Steady
    BY <1>1, <1>4, <1>5 DEF Steady
  <2> QED BY <1>1, <2>1, WireGrows
<1> QED BY <1>6, <1>7, <1>8, <1>9 DEF IInv

\* The clock is set, forward or back.
LEMMA TickKeeps ==
  ASSUME IInv, Tick
  PROVE  IInv'
<1>1. PICK m \in PF!Minute : PF!SetClock(m) /\ UNCHANGED <<attempt, conns, boots, net>>
  BY DEF Tick
<1>2. /\ minute' = m /\ replay' = replay /\ dialled' = dialled /\ dials' = dials
      /\ admissions' = admissions
  BY <1>1 DEF PF!SetClock
<1>3. PF!TypeOK'
  BY <1>2 DEF IInv, Typed, PF!TypeOK
<1>4. attempt' = attempt /\ conns' = conns /\ boots' = boots /\ net' = net
  BY <1>1
<1>5. Typed'
  BY <1>2, <1>3, <1>4 DEF IInv, Typed
<1>6. Attempts' /\ Connections'
  BY <1>4 DEF IInv, Attempts, Connections
<1>7. Wire'
  <2>1. Steady
    BY <1>4 DEF Steady
  <2> QED BY <1>4, <2>1, WireGrows
<1> QED BY <1>5, <1>6, <1>7 DEF IInv

\* The steps there are.
LEMMA Steps ==
  ASSUME IInv, Next
  PROVE  \/ \E c \in PF!Client : Dial(c)
         \/ \E a \in 1..Len(attempt) : \/ \E fate \in Fate : SendInitial(a, fate)
                                       \/ \E fate \in {"lost", "whole"} : SendAnswer(a, fate)
                                       \/ \E d \in net : ClientReceives(a, d)
                                       \/ GivesUp(a)
         \/ \E d \in net : /\ UNCHANGED <<attempt, boots, net>>
                           /\ \/ \E k \in ActiveFor(d.packet.dcid) : Feed(k, d.packet)
                              \/ FeedFirst(d.packet)
         \/ \E k \in LiveConns : \/ \E fate \in {"lost", "whole"} : SendFlight(k, fate)
                                 \/ ConnLost(k)
         \/ Restart \/ Tick
<1>1. Attempt = 1..Len(attempt)
  BY Parts DEF Attempt
<1>2. \A d \in net : ServerReceives(d) =>
        /\ UNCHANGED <<attempt, boots, net>>
        /\ \/ \E k \in ActiveFor(d.packet.dcid) : Feed(k, d.packet)
           \/ FeedFirst(d.packet)
  BY DEF ServerReceives
<1> QED BY <1>1, <1>2 DEF Next

\* The invariant holds at the start.
LEMMA InitInv == Init => IInv
<1> SUFFICES ASSUME Init PROVE IInv
  OBVIOUS
<1>1. PF!Init /\ attempt = <<>> /\ conns = <<>> /\ boots = <<>> /\ net = {}
  BY DEF Init
<1>2. PF!TypeOK /\ dials = 0
  <2>1. /\ minute \in PF!Minute /\ dialled = {} /\ dials = 0
        /\ replay = [c \in PF!Client |-> {}] /\ admissions = [a \in PF!Client \X PF!Stamp |-> 0]
    BY <1>1 DEF PF!Init
  <2>2. replay \in [PF!Client -> SUBSET PF!Stamp] /\ admissions \in [PF!Client \X PF!Stamp -> Nat]
    BY <2>1
  <2> QED BY <2>1, <2>2, FilterAssumption DEF PF!TypeOK
<1>3. Len(attempt) = 0 /\ Len(conns) = 0 /\ Len(boots) = 0
  BY <1>1
<1>4. Typed
  <2>1. attempt \in Seq(AttemptType) /\ conns \in Seq(ConnType) /\ boots \in Seq(Nat)
    BY <1>1
  <2> QED BY <1>2, <1>3, <2>1, BoundsAssumption DEF Typed
<1>5. Attempts /\ Connections
  BY <1>3 DEF Attempts, Connections
<1>6. Wire
  BY <1>1 DEF Wire
<1> QED BY <1>4, <1>5, <1>6 DEF IInv

\* A selector arrives at the server.
SelectorArrives == \E d \in net : UNCHANGED <<attempt, boots, net>> /\ FeedFirst(d.packet)

\* Every step keeps it, and most of them are calm.
LEMMA NextInv ==
  ASSUME IInv, [Next]_vars
  PROVE  IInv' /\ (Calm \/ SelectorArrives \/ Restart \/ Tick)
<1>1. CASE UNCHANGED vars
  <2>1. UNCHANGED <<filter, attempt, conns, boots>> /\ net' = net
    BY <1>1 DEF vars
  <2> QED BY <2>1, NetStep
<1>2. CASE Next
  <2>1. CASE \E c \in PF!Client : Dial(c)
    BY <2>1, DialKeeps
  <2>2. CASE \E a \in 1..Len(attempt), fate \in Fate : SendInitial(a, fate)
    BY <2>2, SendInitialKeeps
  <2>3. CASE \E a \in 1..Len(attempt), fate \in {"lost", "whole"} : SendAnswer(a, fate)
    BY <2>3, SendAnswerKeeps
  <2>4. CASE \E a \in 1..Len(attempt), d \in net : ClientReceives(a, d)
    BY <2>4, ClientReceivesKeeps
  <2>5. CASE \E a \in 1..Len(attempt) : GivesUp(a)
    BY <2>5, GivesUpKeeps
  <2>6. CASE \E d \in net : /\ UNCHANGED <<attempt, boots, net>>
                            /\ \E k \in ActiveFor(d.packet.dcid) : Feed(k, d.packet)
    BY <2>6, FeedKeeps
  <2>7. CASE \E d \in net : UNCHANGED <<attempt, boots, net>> /\ FeedFirst(d.packet)
    BY <2>7, FeedFirstKeeps DEF SelectorArrives
  <2>8. CASE \E k \in LiveConns, fate \in {"lost", "whole"} : SendFlight(k, fate)
    BY <2>8, SendFlightKeeps
  <2>9. CASE \E k \in LiveConns : ConnLost(k)
    BY <2>9, ConnLostKeeps
  <2>10. CASE Restart
    BY <2>10, RestartKeeps
  <2>11. CASE Tick
    BY <2>11, TickKeeps
  <2> QED BY <1>2, <2>1, <2>2, <2>3, <2>4, <2>5, <2>6, <2>7, <2>8, <2>9, <2>10, <2>11, Steps
<1> QED BY <1>1, <1>2

\* The inductive invariant holds in every reachable state, however the clock is set.
THEOREM Invariance == Spec => []IInv
<1>1. Init => IInv
  BY InitInv
<1>2. IInv /\ [Next]_vars => IInv'
  BY NextInv
<1> QED BY <1>1, <1>2, PTL DEF Spec

\* An Initial that a side opens was sealed by its peer for that very dial, whatever the
\* network loses, damages, repeats or delays and however often the server is restarted.
THEOREM Opened == Spec => []OpenedWasSealed
<1>1. IInv => OpenedWasSealed
  <2> SUFFICES ASSUME IInv, NEW d \in net, IsInitial(d), NEW a \in Attempt
               PROVE  /\ Opens(ClientKeys(a).remote, d.packet) =>
                           d.whole /\ d.packet.rest.body.by = "server" /\ d.packet.rest.body.of \in Of(a)
                      /\ Opens(ServerKeys(attempt[a].client, attempt[a].dcid).remote, d.packet) =>
                           d.whole /\ d.packet.rest.body = [by |-> "client", of |-> a]
    BY DEF OpenedWasSealed
  <2>1. a \in 1..Len(attempt) /\ Of(a) = {k \in 1..Len(conns) : conns[k].dcid = attempt[a].dcid}
    BY Parts DEF Attempt, Of
  <2> QED BY <2>1, Genuine
<1> QED BY <1>1, Invariance, PTL

\* A connection is handed to the application when its dial has completed it, in the name
\* of the client that dialled, and once per dial over all restarts.
THEOREM Surfaced == Spec => []SurfacedOnce
<1>1. IInv => SurfacedOnce
  <2> SUFFICES ASSUME IInv, NEW k \in 1..Len(conns), conns[k].surfaced
               PROVE  \E a \in Attempt : /\ k \in Of(a) /\ attempt[a].peer = k
                                         /\ attempt[a].client = conns[k].client
                                         /\ \A j \in Of(a) \ {k} : ~conns[j].surfaced
    BY Parts DEF SurfacedOnce
  <2> DEFINE a == conns[k].dcid.nonce
  <2>1. /\ a \in 1..Len(attempt) /\ conns[k].dcid = attempt[a].dcid
        /\ conns[k].client = attempt[a].client /\ attempt[a].peer = k
    BY DEF IInv, Connections
  <2>2. a \in Attempt /\ Of(a) = {j \in 1..Len(conns) : conns[j].dcid = attempt[a].dcid}
    BY <2>1, Parts DEF Attempt, Of
  <2>3. ASSUME NEW j \in Of(a) \ {k}, conns[j].surfaced PROVE FALSE
    <3>1. j \in 1..Len(conns) /\ conns[j].dcid = conns[k].dcid /\ j # k
      BY <2>1, <2>2
    <3>2. attempt[conns[j].dcid.nonce].peer = j
      BY <2>3, <3>1 DEF IInv, Connections
    <3> QED BY <2>1, <3>1, <3>2
  <2> HIDE DEF a
  <2> QED BY <2>1, <2>2, <2>3
<1> QED BY <1>1, Invariance, PTL

-----------------------------------------------------------------------------
(* Repeats, when the clock is not set back                                 *)

\* Two finite sets have no more elements together than each for itself.
LEMMA UnionCount ==
  ASSUME NEW S, NEW T, IsFiniteSet(S), IsFiniteSet(T)
  PROVE  Cardinality(S \cup T) <= Cardinality(S) + Cardinality(T) /\ IsFiniteSet(S \cup T)
<1>1. /\ IsFiniteSet(S \cup T)
      /\ Cardinality(S \cup T) = Cardinality(S) + Cardinality(T) - Cardinality(S \cap T)
  BY FS_Union
<1>2. IsFiniteSet(S \cap T)
  <2>1. S \cap T \in SUBSET S
    OBVIOUS
  <2> QED BY <2>1, FS_Subset
<1>3. Cardinality(S) \in Nat /\ Cardinality(T) \in Nat /\ Cardinality(S \cap T) \in Nat
  BY <1>2, FS_CardinalityType
<1> QED BY <1>1, <1>3

\* A set no two of whose elements differ has at most one.
LEMMA AtMostOne ==
  ASSUME NEW S, \A x, y \in S : x = y
  PROVE  IsFiniteSet(S) /\ Cardinality(S) <= 1
<1>1. CASE S = {}
  BY <1>1, FS_EmptySet
<1>2. CASE S # {}
  <2>1. PICK x : S = {x}
    BY <1>2
  <2>2. IsFiniteSet({x}) /\ Cardinality({x}) = 1
    BY FS_Singleton
  <2> QED BY <2>1, <2>2
<1> QED BY <1>1, <1>2

\* The connections of the server that is running, and of it those of one dial.
Current == {k \in 1..Len(conns) : Now(k)}
CurrentOf(dcid) == {k \in Current : conns[k].dcid = dcid}
BeforeOf(dcid) == {k \in Before : conns[k].dcid = dcid}

\* Each server has at most one connection per dial, and so how many there are in all.
LEMMA Count ==
  ASSUME EpochInv
  PROVE  /\ Len(conns) <= dials * Len(boots) + dials
         /\ \A a \in 1..Len(attempt) :
              /\ Cardinality(CurrentOf(attempt[a].dcid)) <= 1
              /\ Cardinality({k \in 1..Len(conns) : conns[k].dcid = attempt[a].dcid}) <= Len(boots) + 1
<1>1. IInv /\ OnePerBoot
  BY DEF EpochInv
<1>2. Len(conns) \in Nat /\ Len(boots) \in Nat /\ dials \in Nat /\ Len(attempt) = dials
  BY <1>1, Parts
<1>3. 1..Len(conns) = Before \cup Current
  BY DEF Before, Current
<1>4. IsFiniteSet(1..Len(conns)) /\ Cardinality(1..Len(conns)) = Len(conns)
  <2> DEFINE n == Len(conns)
  <2>1. n \in Nat
    BY <1>2
  <2> HIDE DEF n
  <2>2. IsFiniteSet(1..n) /\ Cardinality(1..n) = IF 1 > n THEN 0 ELSE n - 1 + 1
    BY <2>1, FS_Interval
  <2>3. Cardinality(1..n) = n
    BY <2>1, <2>2
  <2> QED BY <2>2, <2>3 DEF n
<1>5. IsFiniteSet(Before) /\ IsFiniteSet(Current)
  <2>1. Before \in SUBSET (1..Len(conns)) /\ Current \in SUBSET (1..Len(conns))
    BY DEF Before, Current
  <2> QED BY <1>4, <2>1, FS_Subset
<1>6. Cardinality(Current) <= dials
  <2> DEFINE f == [k \in Current |-> conns[k].dcid.nonce]
             n == dials
             C == Current
  <2>1. ASSUME NEW k \in C PROVE conns[k].dcid.nonce \in 1..n
    BY <1>1, <1>2 DEF IInv, Connections, Current
  <2>2. ASSUME NEW j \in C, NEW k \in C, conns[j].dcid.nonce = conns[k].dcid.nonce PROVE j = k
    <3>1. j \in 1..Len(conns) /\ k \in 1..Len(conns) /\ Now(j) /\ Now(k)
      BY DEF Current
    <3>2. conns[j].dcid = conns[k].dcid
      BY <1>1, <2>2, <3>1 DEF IInv, Connections
    <3> QED BY <1>1, <3>1, <3>2 DEF OnePerBoot
  <2>3. f \in [C -> 1..n] /\ \A j, k \in C : f[j] = f[k] => j = k
    BY <2>1, <2>2
  <2>4. n \in Nat
    BY <1>2
  <2> HIDE DEF f, n, C
  <2>5. f \in Injection(C, 1..n)
    BY <2>3 DEF Injection, IsInjective
  <2>6. IsFiniteSet(1..n) /\ Cardinality(1..n) = IF 1 > n THEN 0 ELSE n - 1 + 1
    BY <2>4, FS_Interval
  <2>7. Cardinality(1..n) = n
    BY <2>4, <2>6
  <2>8. Cardinality(C) <= Cardinality(1..n)
    BY <2>5, <2>6, FS_Injection
  <2> QED BY <2>7, <2>8 DEF C, n
<1>7. Len(conns) <= dials * Len(boots) + dials
  <2>1. Cardinality(Before) <= dials * Len(boots)
    BY <1>1 DEF OnePerBoot
  <2>2. Len(conns) <= Cardinality(Before) + Cardinality(Current)
    BY <1>3, <1>4, <1>5, UnionCount
  <2>3. Cardinality(Before) \in Nat /\ Cardinality(Current) \in Nat
    BY <1>5, FS_CardinalityType
  <2>4. dials * Len(boots) \in Nat
    BY <1>2
  <2> QED BY <1>2, <1>6, <2>1, <2>2, <2>3, <2>4
<1>8. ASSUME NEW a \in 1..Len(attempt)
      PROVE  /\ Cardinality(CurrentOf(attempt[a].dcid)) <= 1
             /\ Cardinality({k \in 1..Len(conns) : conns[k].dcid = attempt[a].dcid}) <= Len(boots) + 1
  <2> DEFINE dcid == attempt[a].dcid
             B == BeforeOf(dcid)
             C == CurrentOf(dcid)
  <2>1. {k \in 1..Len(conns) : conns[k].dcid = dcid} = B \cup C
    BY <1>3 DEF BeforeOf, CurrentOf
  <2>2. \A j, k \in C : j = k
    BY <1>1 DEF CurrentOf, Current, OnePerBoot
  <2>3. IsFiniteSet(C) /\ Cardinality(C) <= 1
    <3> HIDE DEF C
    <3> QED BY <2>2, AtMostOne
  <2>4. IsFiniteSet(B)
    <3>1. B \in SUBSET Before
      BY DEF BeforeOf
    <3> HIDE DEF B
    <3> QED BY <1>5, <3>1, FS_Subset
  <2>5. Cardinality(B) <= Len(boots)
    BY <1>1 DEF OnePerBoot, BeforeOf
  <2>6. Cardinality(B) \in Nat /\ Cardinality(C) \in Nat /\ Cardinality(B \cup C) \in Nat
    <3> HIDE DEF B, C
    <3> QED BY <2>3, <2>4, UnionCount, FS_CardinalityType
  <2>7. Cardinality(B \cup C) <= Cardinality(B) + Cardinality(C)
    <3> HIDE DEF B, C
    <3> QED BY <2>3, <2>4, UnionCount
  <2>8. Cardinality(B \cup C) <= Len(boots) + 1
    <3> HIDE DEF B, C
    <3> QED BY <1>2, <2>3, <2>5, <2>6, <2>7
  <2> QED BY <2>1, <2>3, <2>8
<1> QED BY <1>7, <1>8

\* Steps that add no connection and do not set the clock back.
LEMMA NothingNew ==
  ASSUME EpochInv, IInv', Steady, Len(conns') = Len(conns), boots' = boots, replay' = replay,
         minute <= minute', dials <= dials'
  PROVE  EpochInv'
<1>1. IInv /\ Remembered /\ OnePerBoot
  BY DEF EpochInv
<1>2. \A k \in 1..Len(conns) : conns'[k].dcid = conns[k].dcid /\ conns'[k].client = conns[k].client
  BY DEF Steady
<1>3. \A k : Now(k)' <=> Now(k)
  BY DEF Now
<1>4. Before' = Before
  BY <1>3 DEF Before
<1>5. Remembered'
  <2> SUFFICES ASSUME NEW k \in 1..Len(conns), Now(k)
               PROVE  \/ <<conns[k].dcid.nonce, conns[k].dcid.freshness>> \in replay[conns[k].client]
                      \/ conns[k].dcid.freshness < PF!SaturatingSub(minute', WINDOW_MINUTES)
    BY <1>2, <1>3 DEF Remembered
  <2>1. CASE <<conns[k].dcid.nonce, conns[k].dcid.freshness>> \in replay[conns[k].client]
    BY <2>1
  <2>2. CASE conns[k].dcid.freshness < PF!SaturatingSub(minute, WINDOW_MINUTES)
    <3>1. minute \in Nat /\ minute' \in Nat
      BY <1>1, FilterAssumption DEF IInv, Typed, PF!TypeOK, PF!Minute
    <3>2. conns[k].dcid.freshness \in Nat
      BY <1>1, Parts, ConnFields, FilterAssumption DEF PF!DcidParts, PF!Minute
    <3>3. PF!SaturatingSub(minute, WINDOW_MINUTES) <= PF!SaturatingSub(minute', WINDOW_MINUTES)
      <4> DEFINE m == minute
                 n == minute'
      <4>1. m \in Nat /\ n \in Nat /\ m <= n /\ WINDOW_MINUTES \in Nat
        BY <3>1, FilterAssumption
      <4> HIDE DEF m, n
      <4>2. PF!SaturatingSub(m, WINDOW_MINUTES) <= PF!SaturatingSub(n, WINDOW_MINUTES)
        BY <4>1 DEF PF!SaturatingSub
      <4> QED BY <4>2 DEF m, n
    <3>4. /\ PF!SaturatingSub(minute, WINDOW_MINUTES) \in Nat
          /\ PF!SaturatingSub(minute', WINDOW_MINUTES) \in Nat
      <4>1. \A m \in Nat : PF!SaturatingSub(m, WINDOW_MINUTES) \in Nat
        BY FilterAssumption DEF PF!SaturatingSub
      <4> QED BY <3>1, <4>1
    <3> QED BY <2>2, <3>2, <3>3, <3>4
  <2> QED BY <1>1, <2>1, <2>2 DEF Remembered
<1>6. OnePerBoot'
  <2>1. \A j, k \in 1..Len(conns) :
          Now(j)' /\ Now(k)' /\ conns'[j].dcid = conns'[k].dcid => j = k
    BY <1>1, <1>2, <1>3 DEF OnePerBoot
  <2>2. \A i \in 1..Len(boots) : boots[i] \in 1..Len(conns)
    BY <1>1 DEF OnePerBoot
  <2>3. Cardinality(Before) <= dials' * Len(boots)
    <3>1. Cardinality(Before) <= dials * Len(boots)
      BY <1>1 DEF OnePerBoot
    <3>2. dials \in Nat /\ dials' \in Nat /\ Len(boots) \in Nat
      BY <1>1, Parts, FilterAssumption DEF IInv, Typed, PF!TypeOK
    <3>3. IsFiniteSet(Before)
      <4>1. Before \in SUBSET (1..Len(conns)) /\ Len(conns) \in Nat
        BY <1>1, Parts DEF Before
      <4>2. IsFiniteSet(1..Len(conns))
        BY <4>1, FS_Interval
      <4> QED BY <4>1, <4>2, FS_Subset
    <3>4. Cardinality(Before) \in Nat
      BY <3>3, FS_CardinalityType
    <3>5. dials * Len(boots) <= dials' * Len(boots)
      <4> DEFINE m == dials
                 n == dials'
                 b == Len(boots)
      <4>1. m \in Nat /\ n \in Nat /\ b \in Nat /\ m <= n
        BY <3>2
      <4> HIDE DEF m, n, b
      <4>2. (n - m) * b \in Nat /\ n * b = m * b + (n - m) * b
        BY <4>1
      <4>3. m * b \in Nat /\ n * b \in Nat
        BY <4>1
      <4>4. m * b <= n * b
        BY <4>2, <4>3
      <4> QED BY <4>4 DEF m, n, b
    <3>6. dials * Len(boots) \in Nat /\ dials' * Len(boots) \in Nat
      BY <3>2
    <3> QED BY <3>1, <3>4, <3>5, <3>6
  <2>4. ASSUME NEW a \in 1..Len(attempt')
        PROVE  Cardinality({k \in Before : conns'[k].dcid = attempt'[a].dcid}) <= Len(boots)
    <3>1. CASE a \in 1..Len(attempt)
      <4>1. attempt'[a].dcid = attempt[a].dcid
        BY <3>1 DEF Steady
      <4>2. {k \in Before : conns'[k].dcid = attempt'[a].dcid} = {k \in Before : conns[k].dcid = attempt[a].dcid}
        BY <1>2, <4>1 DEF Before
      <4>3. Cardinality({k \in Before : conns[k].dcid = attempt[a].dcid}) <= Len(boots)
        BY <1>1, <3>1 DEF OnePerBoot
      <4> QED BY <4>2, <4>3
    <3>2. CASE a \notin 1..Len(attempt)
      <4>1. attempt'[a].dcid.nonce = a
        BY DEF IInv, Attempts
      <4>2. \A k \in 1..Len(conns) : conns[k].dcid.nonce \in 1..Len(attempt)
        BY <1>1 DEF IInv, Connections
      <4>3. {k \in Before : conns'[k].dcid = attempt'[a].dcid} = {}
        BY <1>2, <3>2, <4>1, <4>2 DEF Before
      <4>4. Len(boots) \in Nat
        BY <1>1, Parts
      <4> QED BY <4>3, <4>4, FS_EmptySet
    <3> QED BY <3>1, <3>2
  <2> QED BY <1>4, <2>1, <2>2, <2>3, <2>4 DEF OnePerBoot
<1> QED BY <1>5, <1>6 DEF EpochInv

\* The server is restarted: what was current is now before.
LEMMA RestartEpoch ==
  ASSUME EpochInv, Restart, IInv'
  PROVE  EpochInv'
<1>1. IInv
  BY DEF EpochInv
<1>2. /\ boots' = Append(boots, Len(conns)) /\ conns # <<>>
      /\ conns' = [k \in 1..Len(conns) |-> Gone(conns[k])]
      /\ dials' = dials /\ attempt' = attempt
  BY <1>1, Parts DEF Restart
<1>3. Len(conns) \in Nat /\ Len(boots) \in Nat /\ dials \in Nat
  BY <1>1, Parts
<1>4. Len(conns) # 0
  BY <1>1, <1>2, Parts
<1>5. Len(conns') = Len(conns)
  <2>1. DOMAIN conns' = 1..Len(conns) /\ DOMAIN conns' = 1..Len(conns') /\ Len(conns') \in Nat
    BY <1>2 DEF IInv, Typed
  <2> DEFINE m == Len(conns)
             n == Len(conns')
  <2>2. 1..m = 1..n /\ m \in Nat /\ n \in Nat
    BY <1>3, <2>1
  <2> HIDE DEF m, n
  <2>3. m = n
    <3>1. m \in 1..m \/ m = 0
      BY <2>2
    <3>2. n \in 1..n \/ n = 0
      BY <2>2
    <3> QED BY <2>2, <3>1, <3>2
  <2> QED BY <2>3 DEF m, n
<1>6. \A k \in 1..Len(conns) : conns'[k].dcid = conns[k].dcid
  BY <1>1, <1>2, Parts, GoneFields
<1>7. /\ Len(boots') = Len(boots) + 1 /\ boots'[Len(boots) + 1] = Len(conns)
      /\ \A i \in 1..Len(boots) : boots'[i] = boots[i]
  BY <1>1, <1>2, Parts
<1>8. \A k \in 1..Len(conns) : ~Now(k)'
  <2> SUFFICES ASSUME NEW k \in 1..Len(conns), Now(k)' PROVE FALSE
    OBVIOUS
  <2>1. Len(boots) + 1 \in 1..Len(boots')
    BY <1>3, <1>7
  <2>2. k > Len(conns)
    BY <1>7, <2>1 DEF Now
  <2> QED BY <1>3, <2>2
<1>9. Before' = 1..Len(conns)
  BY <1>5, <1>8 DEF Before
<1>10. Remembered'
  BY <1>5, <1>8 DEF Remembered
<1>11. OnePerBoot'
  <2>1. ASSUME NEW i \in 1..Len(boots') PROVE boots'[i] \in 1..Len(conns)
    <3>1. CASE i = Len(boots) + 1
      BY <1>3, <1>4, <1>7, <3>1
    <3>2. CASE i # Len(boots) + 1
      <4>1. i \in 1..Len(boots)
        BY <1>3, <1>7, <3>2
      <4> QED BY <1>7, <4>1 DEF EpochInv, OnePerBoot
    <3> QED BY <3>1, <3>2
  <2>2. Cardinality(Before') <= dials * Len(boots')
    <3>1. Cardinality(1..Len(conns)) = Len(conns)
      <4> DEFINE n == Len(conns)
      <4>1. n \in Nat
        BY <1>3
      <4> HIDE DEF n
      <4>2. Cardinality(1..n) = IF 1 > n THEN 0 ELSE n - 1 + 1
        BY <4>1, FS_Interval
      <4>3. Cardinality(1..n) = n
        BY <4>1, <4>2
      <4> QED BY <4>3 DEF n
    <3>2. Len(conns) <= dials * Len(boots) + dials
      BY Count
    <3>3. dials * Len(boots') = dials * Len(boots) + dials
      BY <1>3, <1>7
    <3> QED BY <1>9, <3>1, <3>2, <3>3
  <2>3. ASSUME NEW a \in 1..Len(attempt)
        PROVE  Cardinality({k \in Before' : conns'[k].dcid = attempt[a].dcid}) <= Len(boots')
    <3>1. {k \in Before' : conns'[k].dcid = attempt[a].dcid} =
            {k \in 1..Len(conns) : conns[k].dcid = attempt[a].dcid}
      BY <1>6, <1>9
    <3>2. Cardinality({k \in 1..Len(conns) : conns[k].dcid = attempt[a].dcid}) <= Len(boots) + 1
      BY Count
    <3> QED BY <1>7, <3>1, <3>2
  <2> QED BY <1>2, <1>5, <1>8, <2>1, <2>2, <2>3 DEF OnePerBoot
<1> QED BY <1>10, <1>11 DEF EpochInv

\* A selector that the guard remembers gets nothing, one that it does not has no
\* connection here.
LEMMA SelectorEpoch ==
  ASSUME EpochInv, NEW d \in net, FeedFirst(d.packet), UNCHANGED <<attempt, boots, net>>, IInv'
  PROVE  EpochInv'
<1>1. IInv /\ Remembered /\ OnePerBoot
  BY DEF EpochInv
<1>2. PICK a \in 1..Len(attempt) :
        /\ PF!Consult(attempt[a].dcid)
        /\ \/ conns' = conns
           \/ /\ <<a, attempt[a].dcid.freshness>> \notin PF!Retained(replay[attempt[a].client], minute)
              /\ conns' = Append(conns, Admitted(attempt[a].dcid, attempt[a].client))
  BY <1>1, FeedFirstIs
<1> DEFINE dcid == attempt[a].dcid
           c == attempt[a].client
           stamp == <<a, dcid.freshness>>
           kept == PF!Retained(replay[c], minute)
           low == PF!SaturatingSub(minute, WINDOW_MINUTES)
           y == Admitted(dcid, c)
           n == Len(conns) + 1
<1>3. /\ dials' = dials /\ minute' = minute /\ PF!IsFresh(dcid.freshness, minute)
      /\ replay' = [replay EXCEPT ![c] = kept \cup {stamp}]
  BY <1>1, <1>2, Consulted
<1>4. /\ c \in PF!Client /\ dcid \in PF!DcidParts /\ dcid.nonce = a
      /\ replay \in [PF!Client -> SUBSET PF!Stamp]
  BY <1>1, Parts, AttemptFields DEF IInv, Attempts, Typed, PF!TypeOK
<1>5. attempt' = attempt /\ boots' = boots
  OBVIOUS
<1>6. Len(conns) \in Nat
  BY <1>1, Parts
<1>7. dcid.freshness \in Nat /\ dcid.freshness >= low /\ low \in Nat
  <2>1. minute \in Nat
    BY <1>1, FilterAssumption DEF IInv, Typed, PF!TypeOK, PF!Minute
  <2>2. dcid.freshness \in Nat
    BY <1>4, FilterAssumption DEF PF!DcidParts, PF!Minute
  <2>3. low \in Nat
    BY <2>1, FilterAssumption DEF PF!SaturatingSub
  <2>4. dcid.freshness >= low
    BY <1>3 DEF PF!IsFresh
  <2> QED BY <2>2, <2>3, <2>4
<1>8. ASSUME NEW k \in 1..Len(conns), Now(k)
      PROVE  \/ <<conns[k].dcid.nonce, conns[k].dcid.freshness>> \in replay'[conns[k].client]
             \/ conns[k].dcid.freshness < low
  <2> DEFINE s == <<conns[k].dcid.nonce, conns[k].dcid.freshness>>
             e == conns[k].client
  <2>1. CASE conns[k].dcid.freshness < low
    BY <2>1
  <2>2. CASE s \in replay[e] /\ ~(conns[k].dcid.freshness < low)
    <3>1. e \in PF!Client /\ conns[k].dcid.freshness \in Nat
      BY <1>1, Parts, ConnFields, FilterAssumption DEF PF!DcidParts, PF!Minute
    <3>2. s[2] = conns[k].dcid.freshness
      OBVIOUS
    <3>3. s \in PF!Retained(replay[e], minute)
      <4>1. s[2] >= low
        BY <1>7, <2>2, <3>1, <3>2
      <4> HIDE DEF s, e
      <4> QED BY <2>2, <4>1 DEF PF!Retained
    <3>4. replay'[e] = IF e = c THEN kept \cup {stamp} ELSE replay[e]
      <4> HIDE DEF e, kept, stamp, c
      <4> QED BY <1>3, <1>4, <3>1
    <3>5. s \in replay'[e]
      <4> HIDE DEF s, e, stamp, c
      <4> QED BY <2>2, <3>3, <3>4
    <3> QED BY <3>5
  <2> QED BY <1>1, <1>8, <2>1, <2>2 DEF Remembered
<1>9. stamp \in replay'[c]
  <2> HIDE DEF stamp, c, kept
  <2> QED BY <1>3, <1>4
<1>10. CASE conns' = conns
  <2>1. Now(1)' = Now(1) /\ Before' = Before /\ \A k : Now(k)' <=> Now(k)
    BY <1>5, <1>10 DEF Now, Before
  <2>2. Remembered'
    BY <1>3, <1>8, <1>10, <2>1 DEF Remembered
  <2>3. OnePerBoot'
    BY <1>1, <1>3, <1>5, <1>10, <2>1 DEF OnePerBoot
  <2> QED BY <2>2, <2>3 DEF EpochInv
<1>11. CASE stamp \notin kept /\ conns' = Append(conns, y)
  <2>1. y \in ConnType /\ y.dcid = dcid /\ y.client = c
    BY <1>4, AdmittedFields
  <2> HIDE DEF y
  <2>2. /\ Len(conns') = n /\ conns'[n] = y
        /\ \A k \in 1..Len(conns) : conns'[k] = conns[k]
    BY <1>1, <1>11, <2>1, Parts
  <2>3. 1..Len(conns') = (1..Len(conns)) \cup {n} /\ n \notin 1..Len(conns)
    BY <1>6, <2>2
  <2>4. \A k : Now(k)' <=> Now(k)
    BY <1>5 DEF Now
  <2>5. Now(n)
    BY <1>1, <1>6 DEF OnePerBoot, Now
  <2> HIDE DEF n
  <2>6. Before' = Before
    BY <2>3, <2>4, <2>5 DEF Before
  <2>7. Remembered'
    <3> SUFFICES ASSUME NEW k \in 1..Len(conns'), Now(k)
                 PROVE  \/ <<conns'[k].dcid.nonce, conns'[k].dcid.freshness>> \in replay'[conns'[k].client]
                        \/ conns'[k].dcid.freshness < low
      BY <1>3, <2>4 DEF Remembered
    <3>1. CASE k = n
      <4>1. conns'[k].dcid = dcid /\ conns'[k].client = c
        BY <2>1, <2>2, <3>1
      <4> QED BY <1>4, <1>9, <4>1
    <3>2. CASE k \in 1..Len(conns)
      <4>1. conns'[k] = conns[k]
        BY <2>2, <3>2
      <4> QED BY <1>8, <3>2, <4>1
    <3> QED BY <2>3, <3>1, <3>2
  <2>8. ASSUME NEW k \in 1..Len(conns), Now(k), conns[k].dcid = dcid PROVE FALSE
    <3>1. conns[k].client = c /\ conns[k].dcid.nonce = a
      BY <1>1, <1>4, <2>8 DEF IInv, Connections
    <3>2. stamp \in replay[c] \/ dcid.freshness < low
      BY <1>1, <2>8, <3>1 DEF Remembered
    <3>3. stamp \in replay[c]
      BY <1>7, <3>2
    <3>4. stamp[2] >= low
      BY <1>7
    <3>5. stamp \in kept
      <4> HIDE DEF stamp, c
      <4> QED BY <3>3, <3>4 DEF PF!Retained
    <3> QED BY <1>11, <3>5
  <2>9. OnePerBoot'
    <3>1. ASSUME NEW j \in 1..Len(conns'), NEW k \in 1..Len(conns'), Now(j), Now(k),
                 conns'[j].dcid = conns'[k].dcid
          PROVE  j = k
      <4>1. CASE j \in 1..Len(conns) /\ k \in 1..Len(conns)
        <5>1. conns[j].dcid = conns[k].dcid
          BY <2>2, <3>1, <4>1
        <5> QED BY <1>1, <3>1, <4>1, <5>1 DEF OnePerBoot
      <4>2. CASE j = n /\ k \in 1..Len(conns)
        BY <2>1, <2>2, <2>8, <3>1, <4>2
      <4>3. CASE k = n /\ j \in 1..Len(conns)
        BY <2>1, <2>2, <2>8, <3>1, <4>3
      <4> QED BY <2>3, <4>1, <4>2, <4>3
    <3>2. \A i \in 1..Len(boots) : boots[i] \in 1..Len(conns')
      BY <1>1, <2>3 DEF OnePerBoot
    <3>3. ASSUME NEW b \in 1..Len(attempt)
          PROVE  Cardinality({k \in Before : conns'[k].dcid = attempt[b].dcid}) <= Len(boots)
      <4>1. \A k \in Before : conns'[k] = conns[k]
        BY <2>2 DEF Before
      <4>2. {k \in Before : conns'[k].dcid = attempt[b].dcid} = {k \in Before : conns[k].dcid = attempt[b].dcid}
        BY <4>1
      <4> QED BY <1>1, <4>2 DEF OnePerBoot
    <3> QED BY <1>1, <1>3, <1>5, <2>4, <2>6, <3>1, <3>2, <3>3 DEF OnePerBoot
  <2> QED BY <2>7, <2>9 DEF EpochInv
<1> QED BY <1>2, <1>10, <1>11

\* The clock is set forward.
LEMMA TickEpoch ==
  ASSUME MaxStepBack = 0, EpochInv, Tick, IInv'
  PROVE  EpochInv'
<1>1. PICK m \in PF!Minute : PF!SetClock(m) /\ UNCHANGED <<attempt, conns, boots, net>>
  BY DEF Tick
<1>2. m >= minute - MaxStepBack /\ minute' = m /\ replay' = replay /\ dials' = dials
  BY <1>1 DEF PF!SetClock
<1>3. IInv /\ minute \in Nat /\ m \in Nat /\ dials \in Nat
  BY Parts, FilterAssumption DEF EpochInv, IInv, Typed, PF!TypeOK, PF!Minute
<1>4. minute <= minute' /\ dials <= dials'
  BY <1>2, <1>3
<1>5. attempt' = attempt /\ conns' = conns /\ boots' = boots
  BY <1>1
<1>6. Steady
  BY <1>5 DEF Steady
<1> QED BY <1>2, <1>4, <1>5, <1>6, NothingNew

\* One connection per dial and server, when the clock is not set back.
LEMMA Epochs ==
  ASSUME MaxStepBack = 0
  PROVE  Spec => []EpochInv
<1>1. Init => EpochInv
  <2> SUFFICES ASSUME Init PROVE EpochInv
    OBVIOUS
  <2>1. IInv /\ conns = <<>> /\ boots = <<>> /\ attempt = <<>> /\ dials = 0
    BY InitInv DEF Init, PF!Init
  <2>2. Len(conns) = 0 /\ Len(boots) = 0 /\ Len(attempt) = 0
    BY <2>1
  <2>3. Before = {}
    BY <2>2 DEF Before
  <2>4. Cardinality(Before) <= dials * Len(boots)
    BY <2>1, <2>2, <2>3, FS_EmptySet
  <2>5. Remembered
    BY <2>2 DEF Remembered
  <2>6. OnePerBoot
    BY <2>2, <2>4 DEF OnePerBoot
  <2> QED BY <2>1, <2>5, <2>6 DEF EpochInv
<1>2. ASSUME EpochInv, [Next]_vars PROVE EpochInv'
  <2>1. IInv /\ IInv' /\ (Calm \/ SelectorArrives \/ Restart \/ Tick)
    BY <1>2, NextInv DEF EpochInv
  <2>2. CASE Calm
    <3>1. minute <= minute'
      BY <2>1, <2>2, FilterAssumption DEF Calm, IInv, Typed, PF!TypeOK, PF!Minute
    <3>2. Steady /\ Len(conns') = Len(conns) /\ boots' = boots /\ replay' = replay /\ dials <= dials'
      BY <2>2 DEF Calm
    <3> QED BY <1>2, <2>1, <3>1, <3>2, NothingNew
  <2>3. CASE SelectorArrives
    BY <1>2, <2>1, <2>3, SelectorEpoch DEF SelectorArrives
  <2>4. CASE Restart
    BY <1>2, <2>1, <2>4, RestartEpoch
  <2>5. CASE Tick
    BY <1>2, <2>1, <2>5, TickEpoch
  <2> QED BY <2>1, <2>2, <2>3, <2>4, <2>5
<1>3. EpochInv /\ [Next]_vars => EpochInv'
  BY <1>2
<1> QED BY <1>1, <1>3, PTL DEF Spec

\* Repeats of an Initial elicit nothing: one connection per dial and server, and no more
\* flights than the first datagram paid for, however often the Initial arrives and
\* whenever the guard purges its entry, as long as the clock is not set back.
THEOREM Repeats ==
  ASSUME MaxStepBack = 0
  PROVE  Spec => []RepeatsElicitNothing
<1>1. EpochInv => RepeatsElicitNothing
  <2> SUFFICES ASSUME EpochInv, NEW a \in Attempt
               PROVE  /\ Cardinality(Of(a)) <= Len(boots) + 1
                      /\ Cardinality({k \in Of(a) : \A i \in DOMAIN boots : k > boots[i]}) <= 1
                      /\ \A k \in Of(a) : ~conns[k].surfaced => conns[k].sent <= Amplification
    BY DEF RepeatsElicitNothing
  <2>1. IInv
    BY DEF EpochInv
  <2>2. /\ a \in 1..Len(attempt) /\ DOMAIN boots = 1..Len(boots)
        /\ Of(a) = {k \in 1..Len(conns) : conns[k].dcid = attempt[a].dcid}
    BY <2>1, Parts DEF Attempt, Of
  <2>3. {k \in Of(a) : \A i \in DOMAIN boots : k > boots[i]} = CurrentOf(attempt[a].dcid)
    BY <2>2 DEF CurrentOf, Current, Now
  <2>4. ASSUME NEW k \in Of(a), ~conns[k].surfaced PROVE conns[k].sent <= Amplification
    <3>1. k \in 1..Len(conns) /\ conns[k].received = 1 /\ conns[k].sent <= Amplification * conns[k].received
      BY <2>1, <2>2, <2>4 DEF IInv, Connections
    <3> QED BY <3>1, FlightAssumption
  <2> QED BY <2>2, <2>3, <2>4, Count
<1>2. Spec => []EpochInv
  BY Epochs
<1> QED BY <1>1, <1>2, PTL

-----------------------------------------------------------------------------
(* The bound on the number of connections                                  *)

\* A finite set of numbers that is not empty has a largest.
LEMMA LargestNat ==
  ASSUME NEW S, S \subseteq Nat, S # {}, IsFiniteSet(S)
  PROVE  \E m \in S : \A x \in S : x <= m
<1>1. PICK n \in Nat : ExistsSurjection(1..n, S)
  BY FS_NatSurjection
<1>2. PICK f : f \in [1..n -> S] /\ \A x \in S : \E i \in 1..n : f[i] = x
  BY <1>1 DEF ExistsSurjection, Surjection
<1> DEFINE T == {k \in 0..n : \E m \in Nat : \A i \in 1..k : f[i] <= m}
<1>3. 0 \in T
  OBVIOUS
<1>4. ASSUME NEW k \in 0..n, k \in T, k < n PROVE k + 1 \in T
  <2>1. PICK m \in Nat : \A i \in 1..k : f[i] <= m
    BY <1>4
  <2>2. f[k + 1] \in Nat /\ \A i \in 1..k : f[i] \in Nat
    <3>1. k + 1 \in 1..n /\ 1..k \subseteq 1..n
      BY <1>4
    <3>2. \A i \in 1..n : f[i] \in Nat
      BY <1>2
    <3> HIDE DEF T
    <3> QED BY <3>1, <3>2
  <2>3. m + f[k + 1] \in Nat /\ \A i \in 1..(k + 1) : f[i] <= m + f[k + 1]
    BY <2>1, <2>2
  <2>4. k + 1 \in 0..n
    BY <1>4
  <2> QED BY <2>3, <2>4
<1> HIDE DEF T
<1>5. n \in T
  BY <1>3, <1>4, UpTo
<1>6. PICK b \in Nat : \A i \in 1..n : f[i] <= b
  BY <1>5 DEF T
<1> DEFINE U == {u \in Nat : \A x \in S : x <= u}
<1>7. b \in U
  BY <1>2, <1>6
<1>8. PICK m \in U : \A u \in U : m <= u
  <2>1. U \subseteq Nat /\ U # {}
    BY <1>7
  <2> HIDE DEF U
  <2> QED BY <2>1, LeastNat
<1>9. m \in S
  <2> SUFFICES ASSUME m \notin S PROVE FALSE
    OBVIOUS
  <2>1. \A x \in S : x <= m - 1 /\ x \in Nat
    BY <1>8
  <2>2. m - 1 \in Nat
    <3>1. PICK x \in S : x <= m - 1 /\ x \in Nat
      BY <2>1
    <3>2. m \in Nat
      BY <1>8
    <3> QED BY <3>1, <3>2
  <2>3. m - 1 \in U
    BY <2>1, <2>2
  <2> QED BY <1>8, <2>3
<1> QED BY <1>8, <1>9

\* MaxConns is what its name says.
LEMMA MaxConnsBounds ==
  /\ MaxConns \in Nat
  /\ \A b \in Bounds : b[1] * (b[2] + 1) <= MaxConns
<1> DEFINE S == {b[1] * (b[2] + 1) : b \in Bounds}
<1>1. ASSUME NEW b \in Bounds PROVE b[1] \in Nat /\ b[2] \in Nat /\ b[1] * (b[2] + 1) \in Nat
  <2>1. b[1] \in Nat /\ b[2] \in Nat
    BY BoundsAssumption, FilterAssumption
  <2> QED BY <2>1
<1>2. S \subseteq Nat /\ S # {}
  BY <1>1, BoundsAssumption
<1>3. IsFiniteSet(S)
  <2> DEFINE f == [b \in Bounds |-> b[1] * (b[2] + 1)]
  <2>1. f \in Surjection(Bounds, S)
    BY DEF Surjection
  <2> HIDE DEF f, S
  <2> QED BY <2>1, BoundsAssumption, FS_Surjection
<1>4. \E m \in S : \A x \in S : x <= m
  <2> HIDE DEF S
  <2> QED BY <1>2, <1>3, LargestNat
<1>5. \E n \in S : \A b \in Bounds : b[1] * (b[2] + 1) <= n
  BY <1>4
<1>6. MaxConns \in S /\ \A b \in Bounds : b[1] * (b[2] + 1) <= MaxConns
  BY <1>5 DEF MaxConns
<1> QED BY <1>2, <1>6

\* Type correctness, the number of connections included: a server of which there is one
\* per restart has at most one connection per dial.
THEOREM TypeCorrect ==
  ASSUME MaxStepBack = 0
  PROVE  Spec => []TypeOK
<1>1. EpochInv => TypeOK
  <2> SUFFICES ASSUME EpochInv PROVE TypeOK
    OBVIOUS
  <2>1. IInv /\ OnePerBoot
    BY DEF EpochInv
  <2>2. Len(conns) <= MaxConns
    <3> DEFINE b == <<dials, Len(boots)>>
    <3>1. b \in Bounds /\ b[1] = dials /\ b[2] = Len(boots)
      BY <2>1 DEF IInv, Typed
    <3> HIDE DEF b
    <3>2. dials * (Len(boots) + 1) <= MaxConns
      BY <3>1, MaxConnsBounds
    <3>3. Len(conns) <= dials * Len(boots) + dials
      BY Count
    <3>4. /\ dials \in Nat /\ Len(boots) \in Nat /\ Len(conns) \in Nat /\ MaxConns \in Nat
          /\ dials * Len(boots) \in Nat
      BY <2>1, Parts, MaxConnsBounds
    <3>5. dials * (Len(boots) + 1) = dials * Len(boots) + dials
      BY <3>4
    <3> QED BY <3>2, <3>3, <3>4, <3>5
  <2>3. Len(conns) \in Nat /\ MaxConns \in Nat /\ 1..Len(conns) \subseteq 1..MaxConns
    BY <2>1, <2>2, Parts, MaxConnsBounds
  <2>4. attempt \in Seq([client : PF!Client, dcid : PF!DcidParts, stage : Stage, peer : 0..MaxConns])
    <3> DEFINE D == [client : PF!Client, dcid : PF!DcidParts, stage : Stage, peer : 0..MaxConns]
    <3>1. ASSUME NEW a \in 1..Len(attempt) PROVE attempt[a] \in D
      <4>1. attempt[a] \in AttemptType
        BY <2>1, Parts
      <4>2. attempt[a].peer \in 0..MaxConns
        <5>1. attempt[a].peer = 0 \/ attempt[a].peer \in 1..Len(conns)
          BY <2>1 DEF IInv, Attempts, NoConn
        <5> QED BY <2>3, <5>1
      <4> QED BY <4>1, <4>2 DEF AttemptType
    <3> HIDE DEF D
    <3>2. attempt \in Seq(D)
      BY <2>1, <3>1, Parts
    <3> QED BY <3>2 DEF D
  <2>5. boots \in Seq(1..MaxConns)
    <3> DEFINE S == 1..MaxConns
    <3>1. \A i \in 1..Len(boots) : boots[i] \in S
      BY <2>1, <2>3 DEF OnePerBoot
    <3> HIDE DEF S
    <3>2. boots \in Seq(Nat)
      BY <2>1, Parts
    <3>3. boots \in Seq(S)
      BY ONLY <3>1, <3>2
    <3> QED BY <3>3 DEF S
  <2>6. /\ PF!TypeOK /\ <<dials, Len(boots)>> \in Bounds /\ conns \in Seq(ConnType)
    BY <2>1 DEF IInv, Typed
  <2> QED BY <2>2, <2>4, <2>5, <2>6 DEF TypeOK, ConnType
<1>2. Spec => []EpochInv
  BY Epochs
<1> QED BY <1>1, <1>2, PTL
=============================================================================
