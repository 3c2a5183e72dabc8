---------------------------- MODULE InitialKeys ----------------------------
(***************************************************************************)
(* proto/src/initial_keys.rs: the protection of QUIC Initial packets with  *)
(* keys derived from a pre-shared key and the client's first DCID.         *)
(*                                                                         *)
(* HKDF and AES-GCM are symbolic: a secret is the tuple of what it was     *)
(* derived from, a sealed payload opens under the key, the nonce and the   *)
(* header it was sealed with and under no other. Header protection, which  *)
(* the code does by hand, is modelled bit by bit: a byte is the set of its *)
(* one bits.                                                               *)
(***************************************************************************)
EXTENDS Integers

CONSTANT Mask(_, _)   \* HeaderProtectionKey::new_mask: five bytes, numbered from 0

Byte == SUBSET (0..7)
Xor(a, b) == (a \ b) \cup (b \ a)

-----------------------------------------------------------------------------
(* Key derivation                                                          *)

\* HKDF-Expand-Label.
ExpandLabel(secret, label) == <<secret, label>>

DirectionalKeys(secret) ==
  [key |-> ExpandLabel(secret, "quic key"),
   iv  |-> ExpandLabel(secret, "quic iv"),
   hp  |-> ExpandLabel(secret, "quic hp")]

\* The PSK alone: every connection of a client gets the same keys.
KeysWithoutDcid(psk, dcid, side) ==
  LET client == DirectionalKeys(ExpandLabel(psk, "client in"))
      server == DirectionalKeys(ExpandLabel(psk, "server in"))
  IN  IF side = "client" THEN [local |-> client, remote |-> server]
      ELSE [local |-> server, remote |-> client]

\* Both sides take the client's keys for their own.
KeysOneSided(psk, dcid, side) ==
  LET initial == ExpandLabel(psk, dcid)
      client == DirectionalKeys(ExpandLabel(initial, "client in"))
      server == DirectionalKeys(ExpandLabel(initial, "server in"))
  IN  [local |-> client, remote |-> server]

\* initial_keys_from_psk: HKDF-Extract salted with the PSK over the client's DCID;
\* local is what a side seals with, remote what it opens with.
InitialKeysFromPsk(psk, dcid, side) ==
  LET initial == ExpandLabel(psk, dcid)
      client == DirectionalKeys(ExpandLabel(initial, "client in"))
      server == DirectionalKeys(ExpandLabel(initial, "server in"))
  IN  IF side = "client" THEN [local |-> client, remote |-> server]
      ELSE [local |-> server, remote |-> client]

-----------------------------------------------------------------------------
(* Header protection. Of a packet's bytes these count: the first, the four *)
(* from pn_offset on, where the packet number is and, if it is shorter,    *)
(* the payload begins, and the rest, whose start is the mask's sample.     *)

\* The number in the two low bits of a byte.
LowBits(byte) == (IF 0 \in byte THEN 1 ELSE 0) + (IF 1 \in byte THEN 2 ELSE 0)

PnLen(first) == LowBits(first) + 1

\* InitialHeaderKey::apply with the length taken from the byte as it stands.
ApplyBlindly(hp, packet, masked) ==
  LET mask == Mask(hp, packet.rest)
      bits == IF 7 \in packet.first THEN 0..3 ELSE 0..4
  IN  [packet EXCEPT
         !.first = Xor(@, mask[0] \cap bits),
         !.four = [i \in 0..3 |-> IF i < PnLen(packet.first) THEN Xor(@[i], mask[i + 1]) ELSE @[i]]]

\* InitialHeaderKey::apply: a long header hides four bits of its first byte, a short
\* one five; the length of the packet number is in the first byte's plain form.
Apply(hp, packet, masked) ==
  LET mask == Mask(hp, packet.rest)
      bits == IF 7 \in packet.first THEN 0..3 ELSE 0..4
      plain == IF masked THEN Xor(packet.first, mask[0] \cap bits) ELSE packet.first
  IN  [packet EXCEPT
         !.first = Xor(@, mask[0] \cap bits),
         !.four = [i \in 0..3 |-> IF i < PnLen(plain) THEN Xor(@[i], mask[i + 1]) ELSE @[i]]]

-----------------------------------------------------------------------------
(* Packet protection                                                       *)

\* InitialPacketKey::nonce: the IV xor the packet number, one nonce per number.
NonceOf(iv, pn) == <<iv, pn>>

\* quinn's view of a packet without header protection: the header that is the
\* associated data, and the packet number in it (a handshake needs few of them).
HeaderOf(packet) ==
  [first |-> packet.first, dcid |-> packet.dcid,
   pn |-> [i \in 0..(PnLen(packet.first) - 1) |-> packet.four[i]]]
PnOf(packet) == LowBits(packet.four[PnLen(packet.first) - 1])

\* PacketKey::encrypt and HeaderKey::encrypt, in quinn's order: the payload is sealed
\* under the plain header, then the header is masked with a sample of the result.
Protect(keys, packet, body) ==
  LET sealed == [key |-> keys.key, nonce |-> NonceOf(keys.iv, PnOf(packet)),
                 aad |-> HeaderOf(packet), body |-> body]
  IN  Apply(keys.hp, [packet EXCEPT !.rest = sealed], FALSE)

\* HeaderKey::decrypt, then PacketKey::decrypt with the number the header now shows.
Opens(keys, packet) ==
  /\ packet.rest.key = keys.key
  /\ \E plain \in {Apply(keys.hp, packet, TRUE)} :
       /\ plain.rest.nonce = NonceOf(keys.iv, PnOf(plain))
       /\ plain.rest.aad = HeaderOf(plain)
=============================================================================
