----------------------------- MODULE PreFilter -----------------------------
(***************************************************************************)
(* The silence pre-filter of a server endpoint: Endpoint::prefilter of     *)
(* proto/src/endpoint.rs with selector.rs, freshness.rs and replay.rs,     *)
(* fed by the selector DCIDs that clients build when they dial and that    *)
(* the network may delay, reorder, repeat, or mix up.                      *)
(*                                                                         *)
(* A selector is keyed BLAKE3 over nonce and freshness; it is modelled as  *)
(* the tuple it is computed from, which is to say that nobody without the  *)
(* PSK can make one up and that different inputs do not collide.           *)
(***************************************************************************)
EXTENDS Integers

CONSTANTS
  NumClients,      \* number of configured clients, indexed from 1 in file order
  Key,             \* pre-shared keys
  Psk,             \* the key of each configured client
  Nonce,           \* nonces
  NoSelector,      \* selector bytes that no key produces
  NoParts,         \* a datagram with no selector DCID to parse
  WINDOW_MINUTES,  \* freshness::WINDOW_MINUTES
  MaxMinute,       \* u32::MAX, the largest minute there is
  MaxStepBack,     \* how far the wall clock may be set back in one step
  MaxDials         \* bound: connection attempts

Client == 1..NumClients
Minute == 0..MaxMinute

ASSUME ClientAssumption == NumClients \in Nat
\* build_clients refuses a configuration in which two clients share a PSK.
ASSUME PskAssumption ==
  Psk \in [Client -> Key] /\ \A c, d \in Client : Psk[c] = Psk[d] => c = d
ASSUME WindowAssumption == WINDOW_MINUTES \in Nat /\ MaxMinute \in Nat
ASSUME BoundAssumption == MaxStepBack \in Nat /\ MaxDials \in Nat
ASSUME SelectorAssumption == NoSelector \notin (Key \X Nonce \X Minute)
ASSUME PartsAssumption == NoParts \notin [nonce : Nonce, freshness : Minute,
                                          selector : (Key \X Nonce \X Minute) \cup {NoSelector}]

VARIABLES
  minute,      \* what now_minutes() reads from the server's wall clock
  replay,      \* the ReplayGuard of each client: the (nonce, freshness) seen
  dialled,     \* the selector DCIDs clients have put on the wire
  dials,       \* bound on Dial
  admissions   \* history: how often each (client, nonce, freshness) was let in

vars == <<minute, replay, dialled, dials, admissions>>

Stamp == Nonce \X Minute
Selector == (Key \X Nonce \X Minute) \cup {NoSelector}
DcidParts == [nonce : Nonce, freshness : Minute, selector : Selector]
NoClient == 0

-----------------------------------------------------------------------------
(* freshness.rs: u32 arithmetic that saturates at both ends                *)

SaturatingSub(a, b) == IF a >= b THEN a - b ELSE 0
SaturatingAdd(a, b) == IF a + b <= MaxMinute THEN a + b ELSE MaxMinute

\* The window with an exclusive lower bound.
IsFreshExclusive(freshness, now) ==
  /\ freshness > SaturatingSub(now, WINDOW_MINUTES)
  /\ freshness <= SaturatingAdd(now, WINDOW_MINUTES)

\* A window without the upper bound.
IsFreshUnbounded(freshness, now) == freshness >= SaturatingSub(now, WINDOW_MINUTES)

IsFresh(freshness, now) ==
  /\ freshness >= SaturatingSub(now, WINDOW_MINUTES)
  /\ freshness <= SaturatingAdd(now, WINDOW_MINUTES)

-----------------------------------------------------------------------------
(* selector.rs                                                             *)

\* A selector that does not cover the freshness minute: a captured one
\* could be re-dated.
ComputeUndated(psk, nonce, freshness) == <<psk, nonce, 0>>

ComputeSelector(psk, nonce, freshness) == <<psk, nonce, freshness>>

\* The minute rounded up after the selector was made.
BuildDcidRoundedUp(psk, nonce, freshness) ==
  [nonce |-> nonce, freshness |-> freshness + 1,
   selector |-> ComputeSelector(psk, nonce, freshness)]

BuildDcid(psk, nonce, freshness) ==
  [nonce |-> nonce, freshness |-> freshness,
   selector |-> ComputeSelector(psk, nonce, freshness)]

SelectorMatches(psk, parts) ==
  ComputeSelector(psk, parts.nonce, parts.freshness) = parts.selector

\* The first client, in file order, whose key made the selector.
SelectPsk(parts) ==
  LET matching == {c \in Client : SelectorMatches(Psk[c], parts)}
  IN  IF matching = {} THEN NoClient
      ELSE CHOOSE c \in matching : \A d \in matching : c <= d

-----------------------------------------------------------------------------
(* replay.rs                                                               *)

\* A purge that lets go of entries one minute too early.
RetainedShort(seen, now) == {s \in seen : s[2] > SaturatingSub(now, WINDOW_MINUTES)}

\* Entries the guard keeps when it is consulted at minute now.
Retained(seen, now) == {s \in seen : s[2] >= SaturatingSub(now, WINDOW_MINUTES)}

-----------------------------------------------------------------------------
Init ==
  /\ minute \in Minute
  /\ replay = [c \in Client |-> {}]
  /\ dialled = {}
  /\ dials = 0
  /\ admissions = [a \in Client \X Stamp |-> 0]

\* Endpoint::new_client: the client stamps a nonce with its own clock's minute.
Dial(c, nonce, freshness) ==
  /\ dials < MaxDials
  /\ dials' = dials + 1
  /\ dialled' = dialled \cup {BuildDcid(Psk[c], nonce, freshness)}
  /\ UNCHANGED <<minute, replay, admissions>>

\* What may arrive: anything sent, any of its fields recombined, or bytes that
\* hold no selector DCID at all (a short header, a bad length, a truncation).
OnTheWire ==
  {[nonce |-> n, freshness |-> f, selector |-> s] :
      n \in Nonce, f \in Minute, s \in {d.selector : d \in dialled} \cup {NoSelector}}
    \cup {NoParts}

\* prefilter returns None before the replay guard is consulted: an unparsable
\* DCID, a stale or future minute, or a selector no configured key matches.
TurnedAway(parts) ==
  \/ parts = NoParts
  \/ parts # NoParts /\ ~IsFresh(parts.freshness, minute)
  \/ parts # NoParts /\ SelectPsk(parts) = NoClient

DropEarly(parts) == TurnedAway(parts) /\ UNCHANGED vars

\* prefilter with steps 3 and 5 swapped: the guard records before freshness is
\* checked.
ConsultBeforeFreshness(parts) ==
  LET c == SelectPsk(parts)
      stamp == <<parts.nonce, parts.freshness>>
      kept == Retained(replay[c], minute)
      admit == stamp \notin kept /\ IsFresh(parts.freshness, minute)
  IN  /\ replay' = [replay EXCEPT ![c] = kept \cup {stamp}]
      /\ admissions' = IF admit THEN [admissions EXCEPT ![<<c, stamp>>] = @ + 1] ELSE admissions
      /\ UNCHANGED <<minute, dialled, dials>>

\* ReplayGuard::check_and_record at the end of prefilter: expired entries go,
\* the pair is recorded, and the datagram is let in if it was not there yet.
Consult(parts) ==
  LET c == SelectPsk(parts)
      stamp == <<parts.nonce, parts.freshness>>
      kept == Retained(replay[c], minute)
  IN  /\ IsFresh(parts.freshness, minute)
      /\ replay' = [replay EXCEPT ![c] = kept \cup {stamp}]
      /\ admissions' = IF stamp \in kept THEN admissions
                       ELSE [admissions EXCEPT ![<<c, stamp>>] = @ + 1]
      /\ UNCHANGED <<minute, dialled, dials>>

Arrive(parts) ==
  \/ DropEarly(parts)
  \/ parts # NoParts /\ SelectPsk(parts) # NoClient /\ Consult(parts)

\* The wall clock: it runs, jumps ahead, or is set back by at most MaxStepBack.
SetClock(m) ==
  /\ m # minute
  /\ m >= minute - MaxStepBack
  /\ minute' = m
  /\ UNCHANGED <<replay, dialled, dials, admissions>>

Next ==
  \/ \E c \in Client, n \in Nonce, f \in Minute : Dial(c, n, f)
  \/ \E parts \in OnTheWire : Arrive(parts)
  \/ \E m \in Minute : SetClock(m)

Spec == Init /\ [][Next]_vars
-----------------------------------------------------------------------------
TypeOK ==
  /\ minute \in Minute
  /\ replay \in [Client -> SUBSET Stamp]
  /\ dialled \subseteq DcidParts
  /\ dials \in 0..MaxDials
  /\ admissions \in [Client \X Stamp -> Nat]

(* "Repeats are dropped silently" (docs/specs/wire-protocol.md): a dial    *)
(* gets past the pre-filter at most once, however often its Initial is     *)
(* repeated and whenever the guard purges its entry.                       *)
AdmittedAtMostOnce == \A a \in Client \X Stamp : admissions[a] <= 1

(* Whoever is let in as client c did dial as client c with that nonce and  *)
(* that minute: neither another client's selector nor a re-dated or        *)
(* recombined one is admitted.                                             *)
AdmittedWasDialled ==
  \A c \in Client, s \in Stamp :
    admissions[<<c, s>>] > 0 => BuildDcid(Psk[c], s[1], s[2]) \in dialled

(* Whenever a guard changes, all it then holds is inside the acceptance    *)
(* window: neither expired nor future-dated nonces pile up. ("Order is     *)
(* load-bearing: freshness is checked BEFORE the replay guard".)           *)
GuardHoldsOnlyFresh ==
  [][\A c \in Client : replay'[c] # replay[c] =>
       \A s \in replay'[c] :
         /\ s[2] >= minute - WINDOW_MINUTES
         /\ s[2] <= minute + WINDOW_MINUTES]_vars

(* No client is locked out: the first arrival of a dial whose minute is at *)
(* most WINDOW_MINUTES off the server's is admitted, whatever other        *)
(* clients sent under the same nonce and minute.                           *)
FirstArrivalAdmitted ==
  \A c \in Client, s \in Stamp :
    LET d == BuildDcid(Psk[c], s[1], s[2])
    IN  /\ d \in dialled
        /\ s[2] \in (minute - WINDOW_MINUTES)..(minute + WINDOW_MINUTES)
        /\ admissions[<<c, s>>] = 0
        => /\ ~TurnedAway(d)
           /\ SelectPsk(d) = c
           /\ s \notin Retained(replay[c], minute)
=============================================================================
