-------------------------- MODULE PreFilterProofs --------------------------
(***************************************************************************)
(* At-most-once admission and authenticity of the pre-filter, for every    *)
(* number of clients, every window, and every sequence of arrivals.        *)
(***************************************************************************)
EXTENDS PreFilter, TLAPS

\* Distinct PSKs make the selected client the only one that matches: it is a
\* configured client and its key made the selector.
LEMMA SelectPskSound ==
  ASSUME NEW parts, SelectPsk(parts) # NoClient
  PROVE  SelectPsk(parts) \in Client /\ SelectorMatches(Psk[SelectPsk(parts)], parts)
<1> DEFINE matching == {c \in Client : SelectorMatches(Psk[c], parts)}
<1>1. matching # {}
  BY DEF SelectPsk
<1>2. PICK c \in matching : TRUE
  BY <1>1
<1>3. \A d \in matching : d = c
  BY <1>2, PskAssumption DEF SelectorMatches, ComputeSelector
<1>4. \A d \in matching : c <= d
  BY <1>2, <1>3, ClientAssumption DEF Client
<1>5. SelectPsk(parts) \in matching
  BY <1>1, <1>2, <1>4 DEF SelectPsk
<1> QED BY <1>5

\* What is on the wire is either unparsable or has the parts of a DCID.
LEMMA WireType ==
  ASSUME TypeOK, NEW parts \in OnTheWire, parts # NoParts
  PROVE  parts \in DcidParts
<1>1. \A d \in dialled : d.selector \in Selector
  BY DEF TypeOK, DcidParts
<1>2. NoSelector \in Selector
  BY DEF Selector
<1> QED BY <1>1, <1>2 DEF OnTheWire, DcidParts

LEMMA SaturatingType ==
  ASSUME NEW m \in Minute
  PROVE  SaturatingSub(m, WINDOW_MINUTES) \in Nat
BY WindowAssumption DEF SaturatingSub, Minute

-----------------------------------------------------------------------------
LEMMA InitTypeOK == Init => TypeOK
BY BoundAssumption DEF Init, TypeOK, Stamp

LEMMA ConsultTypeOK ==
  ASSUME TypeOK, NEW parts \in OnTheWire, parts # NoParts,
         SelectPsk(parts) # NoClient, Consult(parts)
  PROVE  TypeOK'
<1> DEFINE c == SelectPsk(parts)
           stamp == <<parts.nonce, parts.freshness>>
           kept == Retained(replay[c], minute)
<1>1. c \in Client
  BY SelectPskSound
<1>2. stamp \in Stamp
  BY WireType DEF DcidParts, Stamp
<1>3. replay' \in [Client -> SUBSET Stamp]
  <2>1. kept \cup {stamp} \subseteq Stamp
    BY <1>1, <1>2 DEF Retained, TypeOK
  <2> QED BY <1>1, <2>1 DEF Consult, TypeOK
<1>4. admissions' \in [Client \X Stamp -> Nat]
  <2>1. <<c, stamp>> \in Client \X Stamp
    BY <1>1, <1>2
  <2>2. admissions' \in {admissions, [admissions EXCEPT ![<<c, stamp>>] = @ + 1]}
    BY DEF Consult
  <2> HIDE DEF c, stamp
  <2> QED BY <2>1, <2>2 DEF TypeOK
<1>5. minute' \in Minute /\ dialled' \subseteq DcidParts /\ dials' \in 0..MaxDials
  BY DEF Consult, TypeOK
<1> QED BY <1>3, <1>4, <1>5 DEF TypeOK

LEMMA DialTypeOK ==
  ASSUME TypeOK, NEW c \in Client, NEW n \in Nonce, NEW f \in Minute, Dial(c, n, f)
  PROVE  TypeOK'
<1>1. BuildDcid(Psk[c], n, f) \in DcidParts
  BY PskAssumption DEF BuildDcid, ComputeSelector, DcidParts, Selector
<1>2. dialled' \subseteq DcidParts
  BY <1>1 DEF Dial, TypeOK
<1>3. dials' \in 0..MaxDials
  BY BoundAssumption DEF Dial, TypeOK
<1> QED BY <1>2, <1>3 DEF Dial, TypeOK

LEMMA NextTypeOK == TypeOK /\ [Next]_vars => TypeOK'
<1> SUFFICES ASSUME TypeOK, [Next]_vars PROVE TypeOK'
  OBVIOUS
<1>1. ASSUME NEW c \in Client, NEW n \in Nonce, NEW f \in Minute, Dial(c, n, f)
      PROVE  TypeOK'
  BY <1>1, DialTypeOK
<1>2. ASSUME NEW parts \in OnTheWire, Arrive(parts)
      PROVE  TypeOK'
  <2>1. CASE DropEarly(parts)
    BY <2>1 DEF DropEarly, vars, TypeOK
  <2>2. CASE parts # NoParts /\ SelectPsk(parts) # NoClient /\ Consult(parts)
    BY <2>2, ConsultTypeOK
  <2> QED BY <1>2, <2>1, <2>2 DEF Arrive
<1>3. ASSUME NEW m \in Minute, SetClock(m)
      PROVE  TypeOK'
  BY <1>3 DEF SetClock, TypeOK
<1>4. CASE UNCHANGED vars
  BY <1>4 DEF vars, TypeOK
<1> QED BY <1>1, <1>2, <1>3, <1>4 DEF Next

(* Every reachable state of the pre-filter is well typed.                  *)
THEOREM TypeCorrect == Spec => []TypeOK
BY InitTypeOK, NextTypeOK, PTL DEF Spec

-----------------------------------------------------------------------------
\* Why the guard may forget: what was admitted is still in the guard, or is
\* older than anything the freshness check will ever let through again.
Remembered ==
  \A c \in Client, s \in Stamp :
    admissions[<<c, s>>] > 0 =>
      s \in replay[c] \/ s[2] < SaturatingSub(minute, WINDOW_MINUTES)

OnceInv == TypeOK /\ AdmittedAtMostOnce /\ Remembered

LEMMA ConsultOnce ==
  ASSUME OnceInv, NEW parts \in OnTheWire, parts # NoParts,
         SelectPsk(parts) # NoClient, Consult(parts)
  PROVE  AdmittedAtMostOnce' /\ Remembered'
<1> DEFINE c == SelectPsk(parts)
           stamp == <<parts.nonce, parts.freshness>>
           kept == Retained(replay[c], minute)
           lo == SaturatingSub(minute, WINDOW_MINUTES)
<1>0. TypeOK /\ AdmittedAtMostOnce /\ Remembered
  BY DEF OnceInv
<1>1. c \in Client /\ stamp \in Stamp
  BY <1>0, SelectPskSound, WireType DEF DcidParts, Stamp
<1>2. lo \in Nat
  BY <1>0, SaturatingType DEF TypeOK
<1>3. stamp[2] >= lo
  BY DEF Consult, IsFresh
<1>4. /\ replay' = [replay EXCEPT ![c] = kept \cup {stamp}]
      /\ admissions' = IF stamp \in kept THEN admissions
                       ELSE [admissions EXCEPT ![<<c, stamp>>] = @ + 1]
      /\ minute' = minute
  BY DEF Consult
<1>5. stamp[2] \in Nat
  BY <1>1, WindowAssumption DEF Stamp, Minute
<1>6. \A s \in replay[c] : s[2] >= lo => s \in kept
  BY DEF Retained
<1> HIDE DEF c, stamp, kept, lo
<1>7. stamp \notin kept => admissions[<<c, stamp>>] = 0
  <2>1. admissions[<<c, stamp>>] \in Nat
    BY <1>0, <1>1 DEF TypeOK
  <2>2. admissions[<<c, stamp>>] > 0 => stamp \in replay[c] \/ stamp[2] < lo
    BY <1>0, <1>1 DEF Remembered, lo
  <2> QED BY <1>2, <1>3, <1>5, <1>6, <2>1, <2>2
<1>8. AdmittedAtMostOnce'
  BY <1>0, <1>1, <1>4, <1>7 DEF AdmittedAtMostOnce, TypeOK
<1>9. ASSUME NEW d \in Client, NEW s \in Stamp, admissions'[<<d, s>>] > 0
      PROVE  s \in replay'[d] \/ s[2] < lo
  <2>1. CASE d = c /\ s = stamp
    BY <1>0, <1>1, <1>4, <2>1 DEF TypeOK
  <2>2. CASE ~(d = c /\ s = stamp)
    <3>1. admissions'[<<d, s>>] = admissions[<<d, s>>]
      BY <1>0, <1>1, <1>4, <2>2 DEF TypeOK
    <3>2. s \in replay[d] \/ s[2] < lo
      BY <1>0, <1>9, <3>1 DEF Remembered, lo
    <3>3. s[2] \in Nat
      BY WindowAssumption DEF Stamp, Minute
    <3>4. s \in replay[d] /\ ~(s[2] < lo) => s \in replay'[d]
      BY <1>0, <1>1, <1>2, <1>4, <1>6, <3>3 DEF TypeOK
    <3> QED BY <3>2, <3>4
  <2> QED BY <2>1, <2>2
<1>10. Remembered'
  BY <1>4, <1>9 DEF Remembered, lo
<1> QED BY <1>8, <1>10

LEMMA NextOnce ==
  ASSUME MaxStepBack = 0
  PROVE  OnceInv /\ [Next]_vars => OnceInv'
<1> SUFFICES ASSUME OnceInv, [Next]_vars PROVE AdmittedAtMostOnce' /\ Remembered'
  BY NextTypeOK DEF OnceInv
<1>1. ASSUME NEW c \in Client, NEW n \in Nonce, NEW f \in Minute, Dial(c, n, f)
      PROVE  AdmittedAtMostOnce' /\ Remembered'
  BY <1>1 DEF Dial, OnceInv, AdmittedAtMostOnce, Remembered
<1>2. ASSUME NEW parts \in OnTheWire, Arrive(parts)
      PROVE  AdmittedAtMostOnce' /\ Remembered'
  <2>1. CASE DropEarly(parts)
    BY <2>1 DEF DropEarly, vars, OnceInv, AdmittedAtMostOnce, Remembered
  <2>2. CASE parts # NoParts /\ SelectPsk(parts) # NoClient /\ Consult(parts)
    BY <2>2, ConsultOnce
  <2> QED BY <1>2, <2>1, <2>2 DEF Arrive
<1>3. ASSUME NEW m \in Minute, SetClock(m)
      PROVE  AdmittedAtMostOnce' /\ Remembered'
  <2>1. SaturatingSub(minute, WINDOW_MINUTES) <= SaturatingSub(minute', WINDOW_MINUTES)
    BY <1>3, WindowAssumption DEF SetClock, SaturatingSub, OnceInv, TypeOK, Minute
  <2>2. /\ SaturatingSub(minute, WINDOW_MINUTES) \in Nat
        /\ SaturatingSub(minute', WINDOW_MINUTES) \in Nat
    BY <1>3, SaturatingType DEF SetClock, OnceInv, TypeOK
  <2>3. \A s \in Stamp : s[2] \in Nat
    BY WindowAssumption DEF Stamp, Minute
  <2>4. Remembered'
    BY <1>3, <2>1, <2>2, <2>3 DEF SetClock, OnceInv, Remembered
  <2> QED BY <1>3, <2>4 DEF SetClock, OnceInv, AdmittedAtMostOnce
<1>4. CASE UNCHANGED vars
  BY <1>4 DEF vars, OnceInv, AdmittedAtMostOnce, Remembered
<1> QED BY <1>1, <1>2, <1>3, <1>4 DEF Next

(* If the server's wall clock is never set back, no dial is admitted twice *)
(* (endpoint.rs, prefilter step 5), however its Initial is repeated.       *)
THEOREM AtMostOnce ==
  ASSUME MaxStepBack = 0
  PROVE  Spec => []AdmittedAtMostOnce
<1>1. Init => OnceInv
  BY InitTypeOK DEF Init, OnceInv, AdmittedAtMostOnce, Remembered, TypeOK
<1>2. OnceInv => AdmittedAtMostOnce
  BY DEF OnceInv
<1> QED BY <1>1, <1>2, NextOnce, PTL DEF Spec

-----------------------------------------------------------------------------
\* Clients put only selectors of their own key on the wire.
DialledGenuine ==
  \A d \in dialled : \E c \in Client : d = BuildDcid(Psk[c], d.nonce, d.freshness)

AuthenticInv == TypeOK /\ AdmittedWasDialled /\ DialledGenuine

\* The DCID that made the pre-filter select c is one that c dialled.
LEMMA SelectedWasDialled ==
  ASSUME TypeOK, DialledGenuine, NEW parts \in OnTheWire, parts # NoParts,
         SelectPsk(parts) # NoClient
  PROVE  BuildDcid(Psk[SelectPsk(parts)], parts.nonce, parts.freshness) \in dialled
<1> DEFINE c == SelectPsk(parts)
<1>1. c \in Client /\ <<Psk[c], parts.nonce, parts.freshness>> = parts.selector
  BY SelectPskSound DEF SelectorMatches, ComputeSelector
<1>2. parts.nonce \in Nonce /\ parts.freshness \in Minute
  BY WireType DEF DcidParts
<1>3. parts.selector # NoSelector
  BY <1>1, <1>2, PskAssumption, SelectorAssumption
<1> HIDE DEF c
<1>4. PICK d \in dialled : d.selector = parts.selector
  BY <1>3 DEF OnTheWire
<1>5. PICK e \in Client : d = BuildDcid(Psk[e], d.nonce, d.freshness)
  BY DEF DialledGenuine
<1>6. d.selector = <<Psk[e], d.nonce, d.freshness>>
  BY <1>5 DEF BuildDcid, ComputeSelector
<1>7. Psk[e] = Psk[c] /\ d.nonce = parts.nonce /\ d.freshness = parts.freshness
  BY <1>1, <1>4, <1>6
<1> QED BY <1>5, <1>7 DEF c

LEMMA NextAuthentic == AuthenticInv /\ [Next]_vars => AuthenticInv'
<1> SUFFICES ASSUME AuthenticInv, [Next]_vars PROVE AdmittedWasDialled' /\ DialledGenuine'
  BY NextTypeOK DEF AuthenticInv
<1>0. TypeOK /\ AdmittedWasDialled /\ DialledGenuine
  BY DEF AuthenticInv
<1>1. ASSUME NEW c \in Client, NEW n \in Nonce, NEW f \in Minute, Dial(c, n, f)
      PROVE  AdmittedWasDialled' /\ DialledGenuine'
  <2>1. AdmittedWasDialled'
    BY <1>0, <1>1 DEF Dial, AdmittedWasDialled
  <2>2. DialledGenuine'
    BY <1>0, <1>1 DEF Dial, DialledGenuine, BuildDcid
  <2> QED BY <2>1, <2>2
<1>2. ASSUME NEW parts \in OnTheWire, Arrive(parts)
      PROVE  AdmittedWasDialled' /\ DialledGenuine'
  <2>1. CASE DropEarly(parts)
    BY <1>0, <2>1 DEF DropEarly, vars, AdmittedWasDialled, DialledGenuine
  <2>2. CASE parts # NoParts /\ SelectPsk(parts) # NoClient /\ Consult(parts)
    <3> DEFINE c == SelectPsk(parts)
               stamp == <<parts.nonce, parts.freshness>>
               dcid(d, s) == BuildDcid(Psk[d], s[1], s[2])
    <3>1. c \in Client /\ stamp \in Stamp
      BY <1>0, <2>2, SelectPskSound, WireType DEF DcidParts, Stamp
    <3>2. dcid(c, stamp) \in dialled
      BY <1>0, <2>2, SelectedWasDialled
    <3>3. admissions' \in {admissions, [admissions EXCEPT ![<<c, stamp>>] = @ + 1]}
      BY <2>2 DEF Consult
    <3>4. dialled' = dialled
      BY <2>2 DEF Consult
    <3>5. \A d \in Client, s \in Stamp : admissions[<<d, s>>] > 0 => dcid(d, s) \in dialled
      BY <1>0 DEF AdmittedWasDialled
    <3> HIDE DEF c, stamp, dcid
    <3>6. ASSUME NEW d \in Client, NEW s \in Stamp, admissions'[<<d, s>>] > 0
          PROVE  dcid(d, s) \in dialled
      <4>1. CASE d = c /\ s = stamp
        BY <3>2, <4>1
      <4>2. CASE ~(d = c /\ s = stamp)
        BY <1>0, <3>1, <3>3, <3>5, <3>6, <4>2 DEF TypeOK
      <4> QED BY <4>1, <4>2
    <3> QED BY <1>0, <3>4, <3>6 DEF AdmittedWasDialled, DialledGenuine, dcid
  <2> QED BY <1>2, <2>1, <2>2 DEF Arrive
<1>3. ASSUME NEW m \in Minute, SetClock(m)
      PROVE  AdmittedWasDialled' /\ DialledGenuine'
  BY <1>0, <1>3 DEF SetClock, AdmittedWasDialled, DialledGenuine
<1>4. CASE UNCHANGED vars
  BY <1>0, <1>4 DEF vars, AdmittedWasDialled, DialledGenuine
<1> QED BY <1>1, <1>2, <1>3, <1>4 DEF Next

(* Whoever is admitted as client c holds c's PSK and dialled with exactly   *)
(* that nonce and minute (select_psk and selector_matches), whatever the   *)
(* network recombines and however the clock moves.                         *)
THEOREM Authenticity == Spec => []AdmittedWasDialled
<1>1. Init => AuthenticInv
  BY InitTypeOK DEF Init, AuthenticInv, AdmittedWasDialled, DialledGenuine, TypeOK
<1>2. AuthenticInv => AdmittedWasDialled
  BY DEF AuthenticInv
<1> QED BY <1>1, <1>2, NextAuthentic, PTL DEF Spec

-----------------------------------------------------------------------------
\* No guard holds an entry from beyond the acceptance window.
NotFuture == \A c \in Client : \A s \in replay[c] : s[2] <= minute + WINDOW_MINUTES

GuardInv == TypeOK /\ NotFuture

\* One step of GuardHoldsOnlyFresh.
GuardStep ==
  \A c \in Client : replay'[c] # replay[c] =>
    \A s \in replay'[c] :
      /\ s[2] >= minute - WINDOW_MINUTES
      /\ s[2] <= minute + WINDOW_MINUTES

LEMMA ConsultGuard ==
  ASSUME GuardInv, NEW parts \in OnTheWire, parts # NoParts,
         SelectPsk(parts) # NoClient, Consult(parts)
  PROVE  NotFuture' /\ GuardStep
<1> DEFINE c == SelectPsk(parts)
           stamp == <<parts.nonce, parts.freshness>>
           kept == Retained(replay[c], minute)
<1>0. TypeOK /\ NotFuture
  BY DEF GuardInv
<1>1. c \in Client /\ stamp \in Stamp
  BY <1>0, SelectPskSound, WireType DEF DcidParts, Stamp
<1>2. replay' = [replay EXCEPT ![c] = kept \cup {stamp}] /\ minute' = minute
  BY DEF Consult
<1>3. \A s \in Stamp : s[2] \in Nat
  BY WindowAssumption DEF Stamp, Minute
<1>4. minute \in Nat /\ WINDOW_MINUTES \in Nat
  BY <1>0, WindowAssumption DEF TypeOK, Minute
<1>5. stamp[2] >= minute - WINDOW_MINUTES /\ stamp[2] <= minute + WINDOW_MINUTES
  BY <1>1, <1>3, <1>4, WindowAssumption DEF Consult, IsFresh, SaturatingSub, SaturatingAdd, Stamp, Minute
<1>6. \A s \in kept : s \in replay[c] /\ s[2] >= minute - WINDOW_MINUTES
  BY <1>0, <1>1, <1>3, <1>4 DEF Retained, SaturatingSub, TypeOK
<1> HIDE DEF c, stamp, kept
<1>7. \A s \in kept \cup {stamp} :
        s[2] >= minute - WINDOW_MINUTES /\ s[2] <= minute + WINDOW_MINUTES
  BY <1>0, <1>1, <1>5, <1>6 DEF NotFuture
<1>8. \A d \in Client : replay'[d] = IF d = c THEN kept \cup {stamp} ELSE replay[d]
  BY <1>0, <1>1, <1>2 DEF TypeOK
<1>9. NotFuture'
  BY <1>0, <1>2, <1>7, <1>8 DEF NotFuture
<1>10. GuardStep
  BY <1>7, <1>8 DEF GuardStep
<1> QED BY <1>9, <1>10

LEMMA NextGuard ==
  ASSUME MaxStepBack = 0
  PROVE  GuardInv /\ [Next]_vars => GuardInv' /\ [GuardStep]_vars
<1> SUFFICES ASSUME GuardInv, [Next]_vars PROVE NotFuture' /\ [GuardStep]_vars
  BY NextTypeOK DEF GuardInv
<1>0. TypeOK /\ NotFuture
  BY DEF GuardInv
<1>1. ASSUME NEW c \in Client, NEW n \in Nonce, NEW f \in Minute, Dial(c, n, f)
      PROVE  NotFuture' /\ [GuardStep]_vars
  BY <1>0, <1>1 DEF Dial, NotFuture, GuardStep
<1>2. ASSUME NEW parts \in OnTheWire, Arrive(parts)
      PROVE  NotFuture' /\ [GuardStep]_vars
  <2>1. CASE DropEarly(parts)
    BY <1>0, <2>1 DEF DropEarly, vars, NotFuture
  <2>2. CASE parts # NoParts /\ SelectPsk(parts) # NoClient /\ Consult(parts)
    BY <2>2, ConsultGuard
  <2> QED BY <1>2, <2>1, <2>2 DEF Arrive
<1>3. ASSUME NEW m \in Minute, SetClock(m)
      PROVE  NotFuture' /\ [GuardStep]_vars
  <2>1. minute <= minute' /\ minute \in Nat /\ minute' \in Nat
    BY <1>0, <1>3, WindowAssumption DEF SetClock, TypeOK, Minute
  <2>2. \A c \in Client : \A s \in replay[c] : s[2] \in Nat
    BY <1>0, WindowAssumption DEF TypeOK, Stamp, Minute
  <2>3. NotFuture'
    BY <1>0, <1>3, <2>1, <2>2, WindowAssumption DEF SetClock, NotFuture
  <2> QED BY <1>3, <2>3 DEF SetClock, GuardStep
<1>4. CASE UNCHANGED vars
  BY <1>0, <1>4 DEF vars, NotFuture
<1> QED BY <1>1, <1>2, <1>3, <1>4 DEF Next

(* On a clock that is never set back, check_and_record leaves in a guard   *)
(* only pairs inside the acceptance window: the guard's memory is bounded  *)
(* by what can arrive within 2 * WINDOW_MINUTES + 1 minutes.               *)
THEOREM GuardStaysFresh ==
  ASSUME MaxStepBack = 0
  PROVE  Spec => GuardHoldsOnlyFresh
<1>1. Init => GuardInv
  BY InitTypeOK DEF Init, GuardInv, NotFuture
<1> QED BY <1>1, NextGuard, PTL DEF Spec, GuardHoldsOnlyFresh, GuardStep

-----------------------------------------------------------------------------
\* A guard holds only what it has let in.
RecordedWasAdmitted ==
  \A c \in Client : \A s \in replay[c] : admissions[<<c, s>>] > 0

ArrivalInv == TypeOK /\ RecordedWasAdmitted

\* A selector leads the pre-filter to the client whose key made it and to no other.
LEMMA OwnSelectorSelects ==
  ASSUME NEW c \in Client, NEW n, NEW f
  PROVE  SelectPsk(BuildDcid(Psk[c], n, f)) = c
<1> DEFINE parts == BuildDcid(Psk[c], n, f)
           matching == {d \in Client : SelectorMatches(Psk[d], parts)}
<1>1. c \in matching
  BY DEF SelectorMatches, ComputeSelector, BuildDcid
<1>2. \A d \in matching : d = c
  BY PskAssumption DEF SelectorMatches, ComputeSelector, BuildDcid
<1>3. c <= c
  BY ClientAssumption DEF Client
<1> QED BY <1>1, <1>2, <1>3 DEF SelectPsk

\* The saturating bounds turn away no minute that is inside the window.
LEMMA InsideIsFresh ==
  ASSUME NEW m \in Minute, NEW f \in Minute, f \in (m - WINDOW_MINUTES)..(m + WINDOW_MINUTES)
  PROVE  IsFresh(f, m)
BY WindowAssumption DEF Minute, IsFresh, SaturatingSub, SaturatingAdd

\* What the guard records when it is consulted has been let in, now or before.
LEMMA ConsultArrival ==
  ASSUME ArrivalInv, NEW parts \in OnTheWire, parts # NoParts,
         SelectPsk(parts) # NoClient, Consult(parts)
  PROVE  RecordedWasAdmitted'
<1> DEFINE c == SelectPsk(parts)
           stamp == <<parts.nonce, parts.freshness>>
           kept == Retained(replay[c], minute)
<1>1. TypeOK /\ \A d \in Client : \A s \in replay[d] : admissions[<<d, s>>] > 0
  BY DEF ArrivalInv, RecordedWasAdmitted
<1>2. c \in Client /\ stamp \in Stamp
  BY <1>1, SelectPskSound, WireType DEF DcidParts, Stamp
<1>3. /\ replay' = [replay EXCEPT ![c] = kept \cup {stamp}]
      /\ admissions' = IF stamp \in kept THEN admissions
                       ELSE [admissions EXCEPT ![<<c, stamp>>] = @ + 1]
  BY DEF Consult
<1>4. kept \subseteq replay[c]
  BY DEF Retained
<1>5. /\ replay \in [Client -> SUBSET Stamp]
      /\ admissions \in [Client \X Stamp -> Nat]
  BY <1>1 DEF TypeOK
<1> HIDE DEF c, stamp, kept
<1>6. ASSUME NEW d \in Client, NEW s \in replay'[d]
      PROVE  admissions'[<<d, s>>] > 0
  <2>1. CASE d = c /\ s = stamp /\ stamp \notin kept
    <3>1. <<c, stamp>> \in Client \X Stamp
      BY <1>2
    <3>2. admissions'[<<d, s>>] = admissions[<<c, stamp>>] + 1
      BY <1>3, <1>5, <2>1, <3>1
    <3> QED BY <1>5, <3>1, <3>2
  <2>2. CASE ~(d = c /\ s = stamp /\ stamp \notin kept)
    <3>1. s \in replay[d]
      BY <1>2, <1>3, <1>4, <1>5, <2>2
    <3>2. admissions'[<<d, s>>] = admissions[<<d, s>>]
      BY <1>2, <1>3, <1>5, <2>2, <3>1
    <3> QED BY <1>1, <3>1, <3>2
  <2> QED BY <2>1, <2>2
<1> QED BY <1>6 DEF RecordedWasAdmitted

\* No step breaks the invariant: only a consulted guard changes the books.
LEMMA NextArrival == ArrivalInv /\ [Next]_vars => ArrivalInv'
<1> SUFFICES ASSUME ArrivalInv, [Next]_vars PROVE RecordedWasAdmitted'
  BY NextTypeOK DEF ArrivalInv
<1>1. CASE UNCHANGED <<replay, admissions>>
  BY <1>1 DEF ArrivalInv, RecordedWasAdmitted
<1>2. ASSUME NEW parts \in OnTheWire, Arrive(parts)
      PROVE  RecordedWasAdmitted'
  <2>1. CASE DropEarly(parts)
    BY <1>1, <2>1 DEF DropEarly, vars
  <2>2. CASE parts # NoParts /\ SelectPsk(parts) # NoClient /\ Consult(parts)
    BY <2>2, ConsultArrival
  <2> QED BY <1>2, <2>1, <2>2 DEF Arrive
<1>3. CASE UNCHANGED vars
  BY <1>1, <1>3 DEF vars
<1> QED BY <1>1, <1>2, <1>3 DEF Next, Dial, SetClock

(* No client is locked out (endpoint.rs, prefilter): the first arrival of  *)
(* a timely dial passes every test, whatever the others sent and however   *)
(* the clock moves. That keys are distinct and that a guard records only   *)
(* what is let in is all it takes.                                         *)
THEOREM FirstArrival == Spec => []FirstArrivalAdmitted
<1>1. Init => ArrivalInv
  BY InitTypeOK DEF Init, ArrivalInv, RecordedWasAdmitted
<1>2. ASSUME ArrivalInv PROVE FirstArrivalAdmitted
  <2> SUFFICES ASSUME NEW c \in Client, NEW s \in Stamp,
                      s[2] \in (minute - WINDOW_MINUTES)..(minute + WINDOW_MINUTES),
                      admissions[<<c, s>>] = 0
               PROVE  LET d == BuildDcid(Psk[c], s[1], s[2])
                      IN  /\ ~TurnedAway(d)
                          /\ SelectPsk(d) = c
                          /\ s \notin Retained(replay[c], minute)
    BY DEF FirstArrivalAdmitted
  <2> DEFINE d == BuildDcid(Psk[c], s[1], s[2])
  <2>1. SelectPsk(d) = c /\ c # NoClient
    BY OwnSelectorSelects, ClientAssumption DEF Client, NoClient
  <2>2. s[1] \in Nonce /\ s[2] \in Minute /\ minute \in Minute
    BY <1>2 DEF ArrivalInv, TypeOK, Stamp
  <2>3. d # NoParts
    <3>1. d \in [nonce : Nonce, freshness : Minute, selector : (Key \X Nonce \X Minute) \cup {NoSelector}]
      BY <2>2, PskAssumption DEF BuildDcid, ComputeSelector
    <3> QED BY <3>1, PartsAssumption
  <2>4. d.freshness = s[2] /\ IsFresh(s[2], minute)
    BY <2>2, InsideIsFresh DEF BuildDcid
  <2>5. s \notin replay[c]
    BY <1>2 DEF ArrivalInv, RecordedWasAdmitted
  <2>6. s \notin Retained(replay[c], minute)
    BY <2>5 DEF Retained
  <2> HIDE DEF d
  <2>7. ~TurnedAway(d)
    BY <2>1, <2>3, <2>4 DEF TurnedAway
  <2> QED BY <2>1, <2>6, <2>7 DEF d
<1> QED BY <1>1, <1>2, NextArrival, PTL DEF Spec
=============================================================================
