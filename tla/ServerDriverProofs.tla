------------------------- MODULE ServerDriverProofs -------------------------
(***************************************************************************)
(* The books of the server's driver (src/server.rs) agree with the core,   *)
(* and accept gets every connection once and in order: proofs for every    *)
(* number of connections and operations and every capacity of the channels.*)
(***************************************************************************)
EXTENDS ServerDriver, Recursion, FiniteSetTheorems

\* Any two elements, the one before the other, are related by R.
Ascending(s, R) == \A i, j \in 1..Len(s) : i < j => <<s[i], s[j]>> \in R

\* Everything in s is related to everything in t.
Across(s, t, R) == \A x \in Range(s), y \in Range(t) : <<x, y>> \in R

-----------------------------------------------------------------------------
(* Sequences                                                               *)

\* A sequence whose elements are known one by one.
LEMMA RangeOf ==
  ASSUME NEW S, NEW s \in Seq(S)
  PROVE  /\ Range(s) = {s[i] : i \in 1..Len(s)} /\ Range(s) \subseteq S
         /\ \A i \in 1..Len(s) : s[i] \in Range(s)
BY DEF Range

\* An element at the end.
LEMMA AppendRange ==
  ASSUME NEW S, NEW s \in Seq(S), NEW x \in S
  PROVE  /\ Append(s, x) \in Seq(S) /\ Range(Append(s, x)) = Range(s) \cup {x}
         /\ Len(Append(s, x)) = Len(s) + 1 /\ Append(s, x)[Len(s) + 1] = x
         /\ \A i \in 1..Len(s) : Append(s, x)[i] = s[i]
<1> DEFINE t == Append(s, x)
<1>1. /\ t \in Seq(S) /\ Len(s) \in Nat /\ Len(t) = Len(s) + 1 /\ t[Len(s) + 1] = x
      /\ \A i \in 1..Len(s) : t[i] = s[i]
  OBVIOUS
<1> HIDE DEF t
<1>2. 1..(Len(s) + 1) = 1..Len(s) \cup {Len(s) + 1}
  BY <1>1
<1>3. Range(t) = {t[i] : i \in 1..(Len(s) + 1)} /\ Range(s) = {s[i] : i \in 1..Len(s)}
  BY <1>1, RangeOf
<1>4. Range(t) = Range(s) \cup {x}
  BY <1>1, <1>2, <1>3
<1> QED BY <1>1, <1>4 DEF t

\* An element from the front.
LEMMA TailRange ==
  ASSUME NEW S, NEW s \in Seq(S), s # <<>>
  PROVE  /\ Head(s) \in S /\ Head(s) = s[1] /\ Tail(s) \in Seq(S)
         /\ Len(s) \in Nat /\ Len(s) > 0 /\ Len(Tail(s)) = Len(s) - 1
         /\ \A i \in 1..(Len(s) - 1) : Tail(s)[i] = s[i + 1] /\ i + 1 \in 1..Len(s)
         /\ Range(s) = {Head(s)} \cup Range(Tail(s))
<1> DEFINE t == Tail(s)
           n == Len(s)
<1>1. n \in Nat /\ n > 0 /\ Head(s) = s[1] /\ t \in Seq(S) /\ Len(t) = n - 1
  OBVIOUS
<1>2. \A i \in 1..(n - 1) : t[i] = s[i + 1] /\ i + 1 \in 1..n
  OBVIOUS
<1> HIDE DEF t, n
<1>3. 1 \in 1..n /\ \A i \in 1..n : i = 1 \/ (i - 1 \in 1..(n - 1) /\ (i - 1) + 1 = i)
  BY <1>1
<1>4. Range(t) = {t[i] : i \in 1..(n - 1)} /\ Range(s) = {s[i] : i \in 1..n} /\ Range(s) \subseteq S
  BY <1>1, RangeOf DEF n
<1>5. Range(s) = {Head(s)} \cup Range(t)
  <2>1. ASSUME NEW x \in Range(s) PROVE x = Head(s) \/ x \in Range(t)
    <3>1. PICK i \in 1..n : x = s[i]
      BY <1>4
    <3>2. CASE i = 1
      BY <1>1, <3>1, <3>2
    <3>3. CASE i # 1
      <4>1. i - 1 \in 1..(n - 1) /\ (i - 1) + 1 = i
        BY <1>3, <3>3
      <4>2. t[i - 1] = x
        BY <1>2, <3>1, <4>1
      <4> QED BY <1>4, <4>1, <4>2
    <3> QED BY <3>2, <3>3
  <2>2. Head(s) \in Range(s) /\ \A x \in Range(t) : x \in Range(s)
    BY <1>1, <1>2, <1>3, <1>4
  <2> QED BY <2>1, <2>2
<1> QED BY <1>1, <1>2, <1>4, <1>5 DEF t, n

\* An element of Range has a place.
LEMMA PlaceOf ==
  ASSUME NEW S, NEW s \in Seq(S), NEW x \in Range(s)
  PROVE  \E i \in 1..Len(s) : s[i] = x
BY DEF Range

\* A sequence stays in order when an element joins that comes after all of it.
LEMMA AppendAscending ==
  ASSUME NEW S, NEW s \in Seq(S), NEW x \in S, NEW R, Ascending(s, R), \A y \in Range(s) : <<y, x>> \in R
  PROVE  Ascending(Append(s, x), R)
<1> DEFINE t == Append(s, x)
<1>1. /\ Len(s) \in Nat /\ Len(t) = Len(s) + 1 /\ t[Len(s) + 1] = x
      /\ \A i \in 1..Len(s) : t[i] = s[i] /\ s[i] \in Range(s)
  BY AppendRange, RangeOf
<1> HIDE DEF t
<1>2. ASSUME NEW i \in 1..Len(t), NEW j \in 1..Len(t), i < j PROVE <<t[i], t[j]>> \in R
  <2>1. i \in 1..Len(s) /\ (j \in 1..Len(s) \/ j = Len(s) + 1)
    BY <1>1, <1>2
  <2>2. CASE j \in 1..Len(s)
    BY <1>1, <1>2, <2>1, <2>2 DEF Ascending
  <2>3. CASE j = Len(s) + 1
    BY <1>1, <2>1, <2>3
  <2> QED BY <2>1, <2>2, <2>3
<1> QED BY <1>2 DEF Ascending, t

\* And when its head leaves, which came before all the others.
LEMMA TailAscending ==
  ASSUME NEW S, NEW s \in Seq(S), s # <<>>, NEW R, Ascending(s, R)
  PROVE  Ascending(Tail(s), R) /\ \A y \in Range(Tail(s)) : <<Head(s), y>> \in R
<1> DEFINE t == Tail(s)
           n == Len(s)
<1>1. n \in Nat /\ n > 0 /\ Len(t) = n - 1 /\ Head(s) = s[1] /\ t \in Seq(S)
  BY TailRange
<1>2. \A i \in 1..(n - 1) : t[i] = s[i + 1] /\ i + 1 \in 1..n
  BY TailRange
<1>3. \A i, j \in 1..n : i < j => <<s[i], s[j]>> \in R
  BY DEF Ascending
<1> HIDE DEF t, n
<1>4. ASSUME NEW i \in 1..Len(t), NEW j \in 1..Len(t), i < j PROVE <<t[i], t[j]>> \in R
  <2>1. i \in 1..(n - 1) /\ j \in 1..(n - 1) /\ i + 1 < j + 1
    BY <1>1, <1>4
  <2> QED BY <1>2, <1>3, <2>1
<1>5. ASSUME NEW y \in Range(t) PROVE <<Head(s), y>> \in R
  <2>1. PICK i \in 1..(n - 1) : t[i] = y
    BY <1>1, PlaceOf
  <2>2. 1 \in 1..n /\ 1 < i + 1
    BY <1>1
  <2> QED BY <1>1, <1>2, <1>3, <2>1, <2>2
<1> QED BY <1>4, <1>5 DEF Ascending, t

\* Two sequences in order, the one before the other.
LEMMA ConcatAscending ==
  ASSUME NEW S, NEW s \in Seq(S), NEW t \in Seq(S), NEW R,
         Ascending(s, R), Ascending(t, R), Across(s, t, R)
  PROVE  /\ s \o t \in Seq(S) /\ Range(s \o t) = Range(s) \cup Range(t) /\ Ascending(s \o t, R)
<1> DEFINE u == s \o t
           m == Len(s)
           n == Len(t)
<1>1. /\ m \in Nat /\ n \in Nat /\ u \in Seq(S) /\ Len(u) = m + n
      /\ \A i \in 1..m : u[i] = s[i]
      /\ \A i \in 1..(m + n) : i > m => u[i] = t[i - m]
  OBVIOUS
<1>2. /\ Range(s) = {s[i] : i \in 1..m} /\ Range(t) = {t[i] : i \in 1..n}
      /\ \A i \in 1..m : s[i] \in Range(s)
      /\ \A i \in 1..n : t[i] \in Range(t)
  BY RangeOf
<1> HIDE DEF u, m, n
<1>3. Range(u) = {u[i] : i \in 1..(m + n)}
  BY <1>1, RangeOf
<1>4. \A i \in 1..(m + n) : i \in 1..m \/ (i > m /\ i - m \in 1..n)
  BY <1>1
<1>5. Range(u) = Range(s) \cup Range(t)
  <2>1. ASSUME NEW x \in Range(u) PROVE x \in Range(s) \cup Range(t)
    <3>1. PICK i \in 1..(m + n) : u[i] = x
      BY <1>3
    <3> QED BY <1>1, <1>2, <1>4, <3>1
  <2>2. ASSUME NEW x \in Range(s) PROVE x \in Range(u)
    <3>1. PICK i \in 1..m : s[i] = x
      BY <1>2
    <3>2. i \in 1..(m + n) /\ u[i] = x
      BY <1>1, <3>1
    <3> QED BY <1>3, <3>2
  <2>3. ASSUME NEW x \in Range(t) PROVE x \in Range(u)
    <3>1. PICK i \in 1..n : t[i] = x
      BY <1>2
    <3>2. i + m \in 1..(m + n) /\ i + m > m /\ (i + m) - m = i
      BY <1>1
    <3>3. u[i + m] = x
      BY <1>1, <3>1, <3>2
    <3> QED BY <1>3, <3>2, <3>3
  <2> QED BY <2>1, <2>2, <2>3
<1>6. ASSUME NEW i \in 1..Len(u), NEW j \in 1..Len(u), i < j PROVE <<u[i], u[j]>> \in R
  <2>1. i \in 1..(m + n) /\ j \in 1..(m + n)
    BY <1>1
  <2>2. CASE j \in 1..m
    <3>1. i \in 1..m /\ u[i] = s[i] /\ u[j] = s[j]
      BY <1>1, <1>6, <2>1, <2>2
    <3> QED BY <1>6, <2>2, <3>1 DEF Ascending, m
  <2>3. CASE i \in 1..m /\ j > m
    <3>1. j - m \in 1..n /\ u[i] = s[i] /\ u[j] = t[j - m]
      BY <1>1, <2>1, <2>3
    <3> QED BY <1>2, <2>3, <3>1 DEF Across
  <2>4. CASE i > m /\ j > m
    <3>1. i - m \in 1..n /\ j - m \in 1..n /\ i - m < j - m /\ u[i] = t[i - m] /\ u[j] = t[j - m]
      BY <1>1, <1>6, <2>1, <2>4
    <3> QED BY <3>1 DEF Ascending, n
  <2> QED BY <1>1, <1>4, <1>6, <2>1, <2>2, <2>3, <2>4
<1>7. Ascending(u, R)
  BY <1>6 DEF Ascending
<1> QED BY <1>1, <1>5, <1>7 DEF u

-----------------------------------------------------------------------------
(* VecDeque::retain                                                        *)

\* What the recursion of Retain goes through.
RetainChain(s, c, kept) ==
  /\ Retain(s, c) = kept[Len(s)]
  /\ kept[0] = <<>>
  /\ \A i \in 1..Len(s) : kept[i] = IF s[i] = c THEN kept[i - 1] ELSE Append(kept[i - 1], s[i])

\* What is kept of the first m elements.
KeptOf(s, c, m, R, r) ==
  /\ r \in Seq({s[a] : a \in 1..m} \ {c})
  /\ Ascending(r, R)
  /\ \A a \in 1..m : s[a] # c => \E i \in 1..Len(r) : r[i] = s[a]

\* The recursion of Retain is well defined.
LEMMA RetainSteps ==
  ASSUME NEW S, NEW s \in Seq(S), NEW c
  PROVE  \E kept : RetainChain(s, c, kept)
<1> DEFINE V == Seq(S)
           n == Len(s)
           g == [p \in Nat \X V |-> IF p[1] \in 1..n /\ s[p[1]] # c THEN Append(p[2], s[p[1]]) ELSE p[2]]
           Step(f) == [i \in 0..n |-> IF i = 0 THEN <<>>
                                      ELSE IF s[i] = c THEN f[i - 1] ELSE Append(f[i - 1], s[i])]
           kept == CHOOSE f : f = Step(f)
<1>1. g \in [Nat \X V -> V]
  OBVIOUS
<1>2. <<>> \in V /\ n \in Nat
  OBVIOUS
<1>3. PICK f \in [0..n -> V] : f[0] = <<>> /\ \A i \in 1..n : f[i] = g[<<i, f[i - 1]>>]
  <2> DEFINE v == <<>>
  <2>1. v \in V
    BY <1>2
  <2> HIDE DEF g, V, n, v
  <2>2. \E f : Iterates(V, v, n, g, f)
    BY <1>1, <1>2, <2>1, PrimRec
  <2> QED BY <2>2 DEF v, Iterates
<1>4. f = Step(f)
  <2>1. ASSUME NEW i \in 1..n
        PROVE  f[i] = IF s[i] = c THEN f[i - 1] ELSE Append(f[i - 1], s[i])
    <3>1. <<i, f[i - 1]>> \in Nat \X V
      <4> HIDE DEF V, n
      <4> QED BY <1>2
    <3> QED BY <1>3, <3>1
  <2>2. \A i \in 0..n : f[i] = Step(f)[i]
    <3> HIDE DEF V, n
    <3> TAKE i \in 0..n
    <3>1. CASE i = 0
      BY <1>3, <3>1
    <3>2. CASE i # 0
      <4>1. i \in 1..n
        BY <1>2, <3>2
      <4> QED BY <2>1, <3>2, <4>1
    <3> QED BY <3>1, <3>2
  <2> QED BY <2>2
<1>5. kept = Step(kept)
  <2> HIDE DEF Step
  <2> QED BY <1>4
<1>6. Retain(s, c) = kept[n]
  BY DEF Retain
<1> HIDE DEF kept
<1>7. kept[0] = <<>> /\ \A i \in 1..n : kept[i] = IF s[i] = c THEN kept[i - 1] ELSE Append(kept[i - 1], s[i])
  <2>1. \A i \in 0..n : kept[i] = Step(kept)[i]
    BY <1>5
  <2> HIDE DEF n
  <2> QED BY <1>2, <2>1
<1> QED BY <1>6, <1>7 DEF RetainChain

\* An element more is kept, or left out.
LEMMA KeptStep ==
  ASSUME NEW S, NEW s \in Seq(S), NEW c, NEW R, Ascending(s, R), NEW m \in Nat, m + 1 \in 1..Len(s),
         NEW r, KeptOf(s, c, m, R, r)
  PROVE  KeptOf(s, c, m + 1, R, IF s[m + 1] = c THEN r ELSE Append(r, s[m + 1]))
<1> DEFINE x == s[m + 1]
           P == {s[a] : a \in 1..m} \ {c}
           Q == {s[a] : a \in 1..(m + 1)} \ {c}
<1>1. r \in Seq(P) /\ Len(r) \in Nat /\ Ascending(r, R)
  BY DEF KeptOf
<1>2. \A a \in 1..m : s[a] # c => \E i \in 1..Len(r) : r[i] = s[a]
  BY DEF KeptOf
<1>3. \A a \in 1..(m + 1) : a \in 1..m \/ a = m + 1
  OBVIOUS
<1>4. \A a \in 1..m : a \in 1..(m + 1) /\ a \in 1..Len(s) /\ a < m + 1
  OBVIOUS
<1>5. P \subseteq Q /\ (x # c => x \in Q)
  BY <1>4
<1>6. \A p \in P : <<p, x>> \in R
  BY <1>4 DEF Ascending
<1> HIDE DEF P, Q, x
<1>7. CASE x = c
  <2>1. r \in Seq(Q)
    BY <1>1, <1>5
  <2>2. \A a \in 1..(m + 1) : s[a] # c => \E i \in 1..Len(r) : r[i] = s[a]
    BY <1>2, <1>3, <1>7 DEF x
  <2>3. KeptOf(s, c, m + 1, R, r)
    BY <1>1, <2>1, <2>2 DEF KeptOf, Q
  <2> QED BY <1>7, <2>3 DEF x
<1>8. CASE x # c
  <2> DEFINE q == Append(r, x)
  <2>1. /\ q \in Seq(Q) /\ Len(q) = Len(r) + 1 /\ q[Len(r) + 1] = x
        /\ \A i \in 1..Len(r) : q[i] = r[i] /\ r[i] \in P
    <3>1. r \in Seq(Q) /\ x \in Q
      BY <1>1, <1>5, <1>8
    <3> QED BY <1>1, <3>1
  <2> HIDE DEF q
  <2>2. \A i \in 1..Len(q) : i \in 1..Len(r) \/ i = Len(r) + 1
    BY <1>1, <2>1
  <2>3. ASSUME NEW i \in 1..Len(q), NEW j \in 1..Len(q), i < j PROVE <<q[i], q[j]>> \in R
    <3>1. i \in 1..Len(r)
      BY <1>1, <2>1, <2>3
    <3>2. CASE j \in 1..Len(r)
      BY <1>1, <2>1, <2>3, <3>1, <3>2 DEF Ascending
    <3>3. CASE j = Len(r) + 1
      BY <1>6, <2>1, <3>1, <3>3
    <3> QED BY <2>2, <3>2, <3>3
  <2>4. ASSUME NEW a \in 1..(m + 1), s[a] # c PROVE \E i \in 1..Len(q) : q[i] = s[a]
    <3>1. CASE a \in 1..m
      <4>1. PICK i \in 1..Len(r) : r[i] = s[a]
        BY <1>2, <2>4, <3>1
      <4>2. i \in 1..Len(q) /\ q[i] = s[a]
        BY <1>1, <2>1, <4>1
      <4> QED BY <4>2
    <3>2. CASE a = m + 1
      <4>1. Len(r) + 1 \in 1..Len(q) /\ q[Len(r) + 1] = s[a]
        BY <1>1, <2>1, <3>2 DEF x
      <4> QED BY <4>1
    <3> QED BY <1>3, <3>1, <3>2
  <2>5. Ascending(q, R)
    BY <2>3 DEF Ascending
  <2>6. KeptOf(s, c, m + 1, R, q)
    BY <2>1, <2>4, <2>5 DEF KeptOf, Q
  <2> QED BY <1>8, <2>6 DEF x, q
<1> QED BY <1>7, <1>8

\* retain leaves out c, and only c, and keeps the order of the others.
LEMMA RetainKeeps ==
  ASSUME NEW S, NEW s \in Seq(S), NEW c, NEW R, Ascending(s, R)
  PROVE  KeptOf(s, c, Len(s), R, Retain(s, c))
<1> DEFINE n == Len(s)
<1>1. n \in Nat
  OBVIOUS
<1>2. PICK kept : RetainChain(s, c, kept)
  BY RetainSteps
<1> DEFINE T == {m \in 0..n : KeptOf(s, c, m, R, kept[m])}
<1>3. 0 \in T
  <2>1. kept[0] = <<>> /\ 1..0 = {} /\ Len(<<>>) = 0
    BY <1>2 DEF RetainChain
  <2>2. KeptOf(s, c, 0, R, <<>>)
    BY <2>1 DEF KeptOf, Ascending
  <2> QED BY <1>1, <2>1, <2>2
<1>4. ASSUME NEW m \in 0..n, m \in T, m < n PROVE m + 1 \in T
  <2>1. m \in Nat /\ m + 1 \in 1..n /\ m + 1 \in 0..n /\ (m + 1) - 1 = m
    BY <1>1, <1>4
  <2>2. KeptOf(s, c, m, R, kept[m])
    BY <1>4
  <2>3. kept[m + 1] = IF s[m + 1] = c THEN kept[m] ELSE Append(kept[m], s[m + 1])
    BY <1>2, <2>1 DEF RetainChain
  <2>4. KeptOf(s, c, m + 1, R, kept[m + 1])
    BY <2>1, <2>2, <2>3, KeptStep
  <2> QED BY <2>1, <2>4
<1>5. n \in T
  <2> HIDE DEF T, n
  <2>1. \A m \in 0..n : m \in T /\ m < n => m + 1 \in T
    BY <1>4
  <2>2. 0..n \subseteq T
    BY <1>1, <1>3, <2>1, UpTo
  <2> QED BY <1>1, <2>2
<1> QED BY <1>2, <1>5 DEF RetainChain

-----------------------------------------------------------------------------
(* The inductive invariant                                                 *)

\* The one connected before the other.
Prec == {p \in Conn \X Conn : \E i, j \in 1..Len(order) : i < j /\ order[i] = p[1] /\ order[j] = p[2]}

\* A connection is connected once; it is open from then on, until it is lost.
Connections ==
  /\ \A i, j \in 1..Len(order) : order[i] = order[j] => i = j
  /\ \A i \in 1..Len(order) : phase[order[i]] \in {"open", "lost"}

\* The events that are queued agree with the core: a Lost is about a connection that is
\* lost, and a Connected is the first of its pass and about the last to connect.
Tidings ==
  \A i \in 1..Len(events) :
    /\ phase[events[i].conn] \in {"open", "lost"}
    /\ events[i].kind = "Lost" => phase[events[i].conn] = "lost"
    /\ events[i].kind = "Connected" =>
         /\ i = 1 /\ Len(order) > 0 /\ order[Len(order)] = events[i].conn
         /\ events[i].conn \notin driver.surfaced

\* An event that the driver has yet to see.
Awaits(kind, c) == \E i \in 1..Len(events) : events[i] = [kind |-> kind, conn |-> c]

\* The driver's entries are those of the open connections, but for what the queued
\* events will change.
Entries ==
  driver.runs =>
    /\ \A c \in driver.surfaced : phase[c] = "open" \/ (phase[c] = "lost" /\ Awaits("Lost", c))
    /\ \A c \in Conn : phase[c] = "open" => c \in driver.surfaced \/ Awaits("Connected", c)
    /\ \A c \in Conn : driver.parked[c] # {} => c \in driver.surfaced

\* An operation is awaited while it is in the channel or parked, in one of them only.
Operations ==
  driver.runs =>
    /\ \A o \in Range(cmds) : ops[o].answer = "waiting"
    /\ \A i, j \in 1..Len(cmds) : cmds[i] = cmds[j] => i = j
    /\ \A c \in Conn : \A o \in driver.parked[c] :
         ops[o].answer = "waiting" /\ ops[o].conn = c /\ o \notin Range(cmds)
    /\ \A o \in Op : ops[o].answer = "waiting" =>
         o \in Range(cmds) \/ \E c \in Conn : o \in driver.parked[c]

\* Everything that is offered, was connected before whatever Connected is queued.
Earlier(s) ==
  \A x \in Range(s) :
    /\ x \in Range(order)
    /\ \A k \in 1..Len(events) : events[k].kind = "Connected" => <<x, events[k].conn>> \in Prec

\* The line of connections from the driver's queue to accept is in order.
Line ==
  /\ Ascending(taken, Prec) /\ Ascending(accepted, Prec) /\ Ascending(driver.pending_accept, Prec)
  /\ Across(taken, accepted, Prec)
  /\ Across(taken, driver.pending_accept, Prec)
  /\ Across(accepted, driver.pending_accept, Prec)
  /\ Earlier(taken) /\ Earlier(accepted) /\ Earlier(driver.pending_accept)

\* No connection that the driver has an entry for is missing from the line.
Complete ==
  driver.runs /\ server =>
    driver.surfaced \subseteq Range(taken) \cup Range(accepted) \cup Range(driver.pending_accept)

IInv == TypeOK /\ Connections /\ Tidings /\ Entries /\ Operations /\ Line /\ Complete

-----------------------------------------------------------------------------
DriverType == [runs : BOOLEAN, parked : [Conn -> SUBSET Op], surfaced : SUBSET Conn,
               pending_accept : Seq(Conn)]
EventType == [kind : {"Connected", "Stream", "Lost"}, conn : Conn]
OpType == [conn : Conn \cup {NoConn}, answer : {"idle", "waiting", "Ok", "Closed"}]
Phase == {"none", "handshake", "open", "lost"}

\* TypeOK in terms of the types named here, and the driver's fields.
Typed(ph, evs, dr, acc, cm, srv, tk, od, os) ==
  /\ ph \in [Conn -> Phase] /\ evs \in Seq(EventType) /\ dr \in DriverType
  /\ acc \in Seq(Conn) /\ Len(acc) <= AcceptCap
  /\ cm \in Seq(Op) /\ Len(cm) <= CmdCap
  /\ srv \in BOOLEAN /\ tk \in Seq(Conn) /\ od \in Seq(Conn) /\ os \in [Op -> OpType]

\* TypeOK, now and after a step, is this formula of the variables.
LEMMA TypeParts ==
  /\ TypeOK <=> Typed(phase, events, driver, accepted, cmds, server, taken, order, ops)
  /\ TypeOK' <=> Typed(phase', events', driver', accepted', cmds', server', taken', order', ops')
BY DEF TypeOK, Typed, DriverType, EventType, OpType, Phase

\* The driver's fields.
LEMMA DriverFields ==
  ASSUME NEW d \in DriverType
  PROVE  /\ d.runs \in BOOLEAN /\ d.parked \in [Conn -> SUBSET Op] /\ d.surfaced \subseteq Conn
         /\ d.pending_accept \in Seq(Conn)
BY DEF DriverType

\* What a step leaves alone it does not break.
LEMMA Frames ==
  ASSUME IInv
  PROVE  /\ order' = order /\ phase' = phase => Connections'
         /\ /\ order' = order /\ phase' = phase /\ events' = events
            /\ driver'.surfaced \subseteq driver.surfaced
            => Tidings'
         /\ /\ phase' = phase /\ events' = events /\ driver'.runs = driver.runs
            /\ driver'.parked = driver.parked /\ driver'.surfaced = driver.surfaced
            => Entries'
         /\ /\ driver'.runs = driver.runs /\ driver'.parked = driver.parked
            /\ cmds' = cmds /\ ops' = ops
            => Operations'
         /\ /\ order' = order /\ events' = events /\ taken' = taken /\ accepted' = accepted
            /\ driver'.pending_accept = driver.pending_accept
            => Line'
         /\ /\ driver'.runs = driver.runs /\ driver'.surfaced = driver.surfaced /\ server' = server
            /\ taken' = taken /\ accepted' = accepted
            /\ driver'.pending_accept = driver.pending_accept
            => Complete'
<1>1. Connections /\ Tidings /\ Entries /\ Operations /\ Line /\ Complete
  BY DEF IInv
<1>2. order' = order /\ phase' = phase => Connections'
  BY <1>1 DEF Connections
<1>3. /\ order' = order /\ phase' = phase /\ events' = events
      /\ driver'.surfaced \subseteq driver.surfaced
      => Tidings'
  BY <1>1 DEF Tidings
<1>4. /\ phase' = phase /\ events' = events /\ driver'.runs = driver.runs
      /\ driver'.parked = driver.parked /\ driver'.surfaced = driver.surfaced
      => Entries'
  <2>1. events' = events => \A kind, c : Awaits(kind, c)' <=> Awaits(kind, c)
    BY DEF Awaits
  <2> QED BY <1>1, <2>1 DEF Entries
<1>5. /\ driver'.runs = driver.runs /\ driver'.parked = driver.parked /\ cmds' = cmds /\ ops' = ops
      => Operations'
  BY <1>1 DEF Operations
<1>6. /\ order' = order /\ events' = events /\ taken' = taken /\ accepted' = accepted
      /\ driver'.pending_accept = driver.pending_accept
      => Line'
  <2> SUFFICES ASSUME order' = order, events' = events, taken' = taken, accepted' = accepted,
                      driver'.pending_accept = driver.pending_accept
               PROVE  Line'
    OBVIOUS
  <2>1. Prec' = Prec
    BY DEF Prec
  <2>2. \A s : Earlier(s) => Earlier(s)'
    BY <2>1 DEF Earlier
  <2> QED BY <1>1, <2>1, <2>2 DEF Line
<1>7. /\ driver'.runs = driver.runs /\ driver'.surfaced = driver.surfaced /\ server' = server
      /\ taken' = taken /\ accepted' = accepted
      /\ driver'.pending_accept = driver.pending_accept
      => Complete'
  BY <1>1 DEF Complete
<1> QED BY <1>2, <1>3, <1>4, <1>5, <1>6, <1>7

\* The types of what a proof below starts from.
LEMMA Parts ==
  ASSUME IInv
  PROVE  /\ Typed(phase, events, driver, accepted, cmds, server, taken, order, ops)
         /\ phase \in [Conn -> Phase] /\ events \in Seq(EventType) /\ driver \in DriverType
         /\ accepted \in Seq(Conn) /\ cmds \in Seq(Op) /\ server \in BOOLEAN
         /\ taken \in Seq(Conn) /\ order \in Seq(Conn) /\ ops \in [Op -> OpType]
         /\ driver.parked \in [Conn -> SUBSET Op] /\ driver.surfaced \subseteq Conn
         /\ driver.pending_accept \in Seq(Conn)
BY TypeParts, DriverFields DEF IInv, Typed

-----------------------------------------------------------------------------
(* The application and the line to accept                                  *)

\* accept takes the connection in front of the channel to the end of what it returned.
LEMMA AcceptKeeps ==
  ASSUME IInv, Accept
  PROVE  IInv'
<1>1. /\ accepted # <<>> /\ taken' = Append(taken, Head(accepted)) /\ accepted' = Tail(accepted)
      /\ phase' = phase /\ events' = events /\ order' = order /\ driver' = driver /\ cmds' = cmds
      /\ server' = server /\ ops' = ops
  BY DEF Accept, core
<1> DEFINE h == Head(accepted)
           pending == driver.pending_accept
<1>2. /\ h \in Conn /\ Tail(accepted) \in Seq(Conn) /\ Len(Tail(accepted)) <= AcceptCap
      /\ Range(accepted) = {h} \cup Range(Tail(accepted))
  <2>1. Len(accepted) <= AcceptCap
    BY Parts DEF Typed
  <2> QED BY <1>1, <2>1, Parts, TailRange, CapAssumption
<1>3. taken' \in Seq(Conn) /\ Range(taken') = Range(taken) \cup {h}
  BY <1>1, <1>2, Parts, AppendRange
<1>4. TypeOK'
  BY <1>1, <1>2, <1>3, Parts, TypeParts DEF Typed
<1>5. Line'
  <2>1. Line
    BY DEF IInv
  <2>2. Prec' = Prec
    BY <1>1 DEF Prec
  <2>3. Ascending(accepted', Prec) /\ \A y \in Range(accepted') : <<h, y>> \in Prec
    BY <1>1, <2>1, Parts, TailAscending DEF Line
  <2>4. Ascending(taken', Prec)
    BY <1>1, <1>2, <2>1, Parts, AppendAscending DEF Line, Across
  <2> HIDE DEF h
  <2>5. Across(taken', accepted', Prec) /\ Across(taken', pending, Prec) /\ Across(accepted', pending, Prec)
    BY <1>1, <1>2, <1>3, <2>1, <2>3 DEF Line, Across
  <2>6. Earlier(taken)' /\ Earlier(accepted)' /\ Earlier(pending)'
    BY <1>1, <1>2, <1>3, <2>1, <2>2 DEF Line, Earlier
  <2> QED BY <1>1, <2>1, <2>2, <2>3, <2>4, <2>5, <2>6 DEF Line
<1>6. Complete'
  <2> HIDE DEF h
  <2> QED BY <1>1, <1>2, <1>3 DEF IInv, Complete
<1> QED BY <1>1, <1>4, <1>5, <1>6, Frames DEF IInv

\* A permit moves the connection in front of the driver's queue to the end of the channel.
LEMMA DeliverKeeps ==
  ASSUME IInv, Deliver
  PROVE  IInv'
<1> DEFINE pending == driver.pending_accept
           h == Head(pending)
<1>1. /\ pending # <<>> /\ Len(accepted) < AcceptCap /\ accepted' = Append(accepted, h)
      /\ driver' = [driver EXCEPT !.pending_accept = Tail(@)]
      /\ phase' = phase /\ events' = events /\ order' = order /\ cmds' = cmds
      /\ server' = server /\ taken' = taken /\ ops' = ops
  BY DEF Deliver, core, app
<1>2. /\ h \in Conn /\ Tail(pending) \in Seq(Conn) /\ Range(pending) = {h} \cup Range(Tail(pending))
  BY <1>1, Parts, TailRange
<1>3. /\ accepted' \in Seq(Conn) /\ Range(accepted') = Range(accepted) \cup {h}
      /\ Len(accepted') <= AcceptCap
  <2>1. Len(accepted) \in Nat
    BY Parts
  <2>2. accepted' \in Seq(Conn) /\ Range(accepted') = Range(accepted) \cup {h} /\ Len(accepted') = Len(accepted) + 1
    BY <1>1, <1>2, Parts, AppendRange
  <2> QED BY <1>1, <2>1, <2>2, CapAssumption
<1>4. /\ driver' \in DriverType /\ driver'.pending_accept = Tail(pending) /\ driver'.runs = driver.runs
      /\ driver'.parked = driver.parked /\ driver'.surfaced = driver.surfaced
  <2> DEFINE tail == Tail(pending)
  <2>1. tail \in Seq(Conn) /\ driver' = [driver EXCEPT !.pending_accept = tail]
    BY <1>1, <1>2
  <2> HIDE DEF tail
  <2>2. /\ driver' \in DriverType /\ driver'.pending_accept = tail /\ driver'.runs = driver.runs
        /\ driver'.parked = driver.parked /\ driver'.surfaced = driver.surfaced
    BY <2>1, Parts DEF DriverType
  <2> QED BY <2>2 DEF tail
<1>5. TypeOK'
  BY <1>1, <1>3, <1>4, Parts, TypeParts DEF Typed
<1>6. Line'
  <2>1. Line
    BY DEF IInv
  <2>2. Prec' = Prec
    BY <1>1 DEF Prec
  <2>3. Ascending(Tail(pending), Prec) /\ \A y \in Range(Tail(pending)) : <<h, y>> \in Prec
    BY <1>1, <2>1, Parts, TailAscending DEF Line
  <2>4. Ascending(accepted', Prec)
    BY <1>1, <1>2, <2>1, Parts, AppendAscending DEF Line, Across
  <2> HIDE DEF h
  <2>5. /\ Across(taken, accepted', Prec) /\ Across(taken, Tail(pending), Prec)
        /\ Across(accepted', Tail(pending), Prec)
    BY <1>1, <1>2, <1>3, <2>1, <2>3 DEF Line, Across
  <2>6. Earlier(taken)' /\ Earlier(accepted)' /\ Earlier(driver.pending_accept)'
    BY <1>1, <1>2, <1>3, <1>4, <2>1, <2>2 DEF Line, Earlier
  <2> QED BY <1>1, <1>4, <2>1, <2>2, <2>3, <2>4, <2>5, <2>6 DEF Line
<1>7. Complete'
  <2> HIDE DEF h, pending
  <2>1. driver.runs /\ server => driver.surfaced \subseteq Range(taken) \cup Range(accepted) \cup Range(pending)
    BY DEF IInv, Complete, pending
  <2> QED BY <1>1, <1>2, <1>3, <1>4, <2>1 DEF Complete
<1> QED BY <1>1, <1>4, <1>5, <1>6, <1>7, Frames DEF IInv

\* With the Server the channel goes, and whatever was in it.
LEMMA DropServerKeeps ==
  ASSUME IInv, DropServer
  PROVE  IInv'
<1>1. /\ server' = FALSE /\ accepted' = <<>>
      /\ phase' = phase /\ events' = events /\ order' = order /\ driver' = driver /\ cmds' = cmds
      /\ taken' = taken /\ ops' = ops
  BY DEF DropServer, core
<1>2. <<>> \in Seq(Conn) /\ Len(<<>>) <= AcceptCap /\ Range(<<>>) = {}
  BY CapAssumption DEF Range
<1>3. server' \in BOOLEAN
  BY <1>1
<1>4. TypeOK'
  BY <1>1, <1>2, <1>3, Parts, TypeParts DEF Typed
<1>5. Line'
  <2>1. Line
    BY DEF IInv
  <2>2. Prec' = Prec
    BY <1>1 DEF Prec
  <2>3. /\ Ascending(<<>>, Prec) /\ Across(taken, <<>>, Prec)
        /\ Across(<<>>, driver.pending_accept, Prec)
    BY <1>2 DEF Ascending, Across
  <2>4. Earlier(taken)' /\ Earlier(accepted)' /\ Earlier(driver.pending_accept)'
    BY <1>1, <1>2, <2>1, <2>2 DEF Line, Earlier
  <2> QED BY <1>1, <2>1, <2>2, <2>3, <2>4 DEF Line
<1>6. Complete'
  BY <1>1 DEF Complete
<1> QED BY <1>1, <1>4, <1>5, <1>6, Frames DEF IInv

-----------------------------------------------------------------------------
(* Operations                                                              *)

\* An answer resolves the operations it is for, and no others.
Resolved(O, new) ==
  /\ new \in [Op -> OpType]
  /\ \A p \in Op : /\ new[p].conn = ops[p].conn
                   /\ new[p].answer = "waiting" <=> ops[p].answer = "waiting" /\ p \notin O

\* Reply answers what it is given and what is still awaited.
LEMMA ReplyResolves ==
  ASSUME IInv, NEW O, NEW answer \in {"Ok", "Closed"}
  PROVE  Resolved(O, Reply(O, answer))
<1>1. \A p \in Op : ops[p] \in OpType
  BY Parts
<1>2. ASSUME NEW p \in Op
      PROVE  /\ Reply(O, answer)[p] \in OpType /\ Reply(O, answer)[p].conn = ops[p].conn
             /\ Reply(O, answer)[p].answer = "waiting" <=> ops[p].answer = "waiting" /\ p \notin O
  <2>1. ops[p] \in OpType
    BY <1>1
  <2>2. Reply(O, answer)[p] = IF p \in O /\ ops[p].answer = "waiting"
                              THEN [ops[p] EXCEPT !.answer = answer] ELSE ops[p]
    BY DEF Reply
  <2> QED BY <2>1, <2>2 DEF OpType
<1>3. Reply(O, answer) = [p \in Op |-> Reply(O, answer)[p]]
  BY DEF Reply
<1> QED BY <1>2, <1>3 DEF Resolved

\* An operation enters the channel, or is refused by a driver that has returned.
LEMMA StartKeeps ==
  ASSUME IInv, NEW o \in Op, NEW c \in Range(taken), Start(o, c)
  PROVE  IInv'
<1>1. /\ ops[o].answer = "idle"
      /\ phase' = phase /\ events' = events /\ order' = order /\ driver' = driver
      /\ accepted' = accepted /\ server' = server /\ taken' = taken
  BY DEF Start, core
<1>2. c \in Conn
  BY Parts, RangeOf
<1>3. CASE driver.runs
  <2> DEFINE new == [conn |-> c, answer |-> "waiting"]
  <2>1. Len(cmds) < CmdCap /\ cmds' = Append(cmds, o) /\ ops' = [ops EXCEPT ![o] = new]
    BY <1>3 DEF Start
  <2>2. new \in OpType /\ new.answer = "waiting"
    BY <1>2 DEF OpType
  <2> HIDE DEF new
  <2>3. /\ cmds' \in Seq(Op) /\ Range(cmds') = Range(cmds) \cup {o} /\ Len(cmds') = Len(cmds) + 1
        /\ cmds'[Len(cmds) + 1] = o /\ \A i \in 1..Len(cmds) : cmds'[i] = cmds[i]
    BY <2>1, Parts, AppendRange
  <2>4. Len(cmds) \in Nat /\ Len(cmds') <= CmdCap
    <3>1. Len(cmds) \in Nat
      BY Parts
    <3> QED BY <2>1, <2>3, <3>1, CapAssumption
  <2>5. ops' \in [Op -> OpType] /\ ops'[o] = new /\ \A p \in Op \ {o} : ops'[p] = ops[p]
    BY <2>1, <2>2, Parts
  <2>6. TypeOK'
    BY <1>1, <2>3, <2>4, <2>5, Parts, TypeParts DEF Typed
  <2>7. Operations'
    <3>1. /\ \A p \in Range(cmds) : ops[p].answer = "waiting"
          /\ \A i, j \in 1..Len(cmds) : cmds[i] = cmds[j] => i = j
          /\ \A d \in Conn : \A p \in driver.parked[d] :
               ops[p].answer = "waiting" /\ ops[p].conn = d /\ p \notin Range(cmds)
          /\ \A p \in Op : ops[p].answer = "waiting" =>
               p \in Range(cmds) \/ \E d \in Conn : p \in driver.parked[d]
      BY <1>3 DEF IInv, Operations
    <3>2. Range(cmds) \subseteq Op /\ \A i \in 1..Len(cmds) : cmds[i] \in Range(cmds)
      BY Parts, RangeOf
    <3>3. o \notin Range(cmds) /\ \A d \in Conn : o \notin driver.parked[d]
      BY <1>1, <3>1
    <3>4. \A d \in Conn : driver.parked[d] \subseteq Op
      BY Parts
    <3>5. \A p \in Range(cmds') : ops'[p].answer = "waiting"
      BY <2>2, <2>3, <2>5, <3>1, <3>2
    <3>6. ASSUME NEW i \in 1..Len(cmds'), NEW j \in 1..Len(cmds'), cmds'[i] = cmds'[j] PROVE i = j
      <4>1. (i \in 1..Len(cmds) \/ i = Len(cmds) + 1) /\ (j \in 1..Len(cmds) \/ j = Len(cmds) + 1)
        BY <2>3, <2>4
      <4> QED BY <2>3, <3>1, <3>2, <3>3, <3>6, <4>1
    <3>7. \A d \in Conn : \A p \in driver.parked[d] :
            ops'[p].answer = "waiting" /\ ops'[p].conn = d /\ p \notin Range(cmds')
      BY <2>3, <2>5, <3>1, <3>3, <3>4
    <3>8. \A p \in Op : ops'[p].answer = "waiting" =>
            p \in Range(cmds') \/ \E d \in Conn : p \in driver.parked[d]
      BY <2>3, <2>5, <3>1
    <3> QED BY <1>1, <3>5, <3>6, <3>7, <3>8 DEF Operations
  <2> QED BY <1>1, <2>6, <2>7, Frames DEF IInv
<1>4. CASE ~driver.runs
  <2>1. cmds' = cmds /\ ops' = [ops EXCEPT ![o] = [conn |-> c, answer |-> "Closed"]]
    BY <1>4 DEF Start
  <2>2. [conn |-> c, answer |-> "Closed"] \in OpType
    BY <1>2 DEF OpType
  <2>3. ops' \in [Op -> OpType]
    BY <2>1, <2>2, Parts
  <2>4. TypeOK'
    BY <1>1, <2>1, <2>3, Parts, TypeParts DEF Typed
  <2>5. Operations'
    BY <1>1, <1>4 DEF Operations
  <2> QED BY <1>1, <2>4, <2>5, Frames DEF IInv
<1> QED BY <1>3, <1>4

\* A command is answered, dropped with its reply channel, or parked with a connection
\* that has an entry.
LEMMA OnCommandKeeps ==
  ASSUME IInv, OnCommand
  PROVE  IInv'
<1> DEFINE o == Head(cmds)
           c == ops[o].conn
<1>1. /\ driver.runs /\ cmds # <<>> /\ cmds' = Tail(cmds)
      /\ phase' = phase /\ events' = events /\ order' = order
      /\ accepted' = accepted /\ server' = server /\ taken' = taken
  BY DEF OnCommand, Selecting, core
<1>2. /\ o \in Op /\ o = cmds[1] /\ Tail(cmds) \in Seq(Op) /\ Len(Tail(cmds)) <= CmdCap
      /\ Range(cmds) = {o} \cup Range(Tail(cmds)) /\ Len(cmds) \in Nat /\ Len(cmds) > 0
      /\ Len(Tail(cmds)) = Len(cmds) - 1
  <2>1. Len(cmds) <= CmdCap /\ cmds \in Seq(Op)
    BY Parts DEF Typed
  <2> QED BY <1>1, <2>1, TailRange, CapAssumption
<1>3. \A i \in 1..(Len(cmds) - 1) : Tail(cmds)[i] = cmds[i + 1] /\ i + 1 \in 1..Len(cmds)
  BY <1>1, Parts, TailRange
<1>4. /\ \A p \in Range(cmds) : ops[p].answer = "waiting"
      /\ \A i, j \in 1..Len(cmds) : cmds[i] = cmds[j] => i = j
      /\ \A d \in Conn : \A p \in driver.parked[d] :
           ops[p].answer = "waiting" /\ ops[p].conn = d /\ p \notin Range(cmds)
      /\ \A p \in Op : ops[p].answer = "waiting" =>
           p \in Range(cmds) \/ \E d \in Conn : p \in driver.parked[d]
  BY <1>1 DEF IInv, Operations
<1>5. o \notin Range(Tail(cmds)) /\ Range(Tail(cmds)) \subseteq Op
  <2>1. ASSUME NEW i \in 1..(Len(cmds) - 1), Tail(cmds)[i] = o PROVE FALSE
    <3>1. 1 \in 1..Len(cmds) /\ i + 1 # 1
      BY <1>2
    <3> QED BY <1>2, <1>3, <1>4, <2>1, <3>1
  <2> DEFINE t == Tail(cmds)
  <2>2. t \in Seq(Op) /\ Len(t) = Len(cmds) - 1
    BY <1>2
  <2> HIDE DEF o
  <2>3. \A i \in 1..Len(t) : t[i] # o
    BY <2>1, <2>2
  <2> HIDE DEF t
  <2>4. o \notin Range(t) /\ Range(t) \subseteq Op
    BY <2>2, <2>3, PlaceOf, RangeOf
  <2> QED BY <2>4 DEF t
<1>6. \A i, j \in 1..Len(Tail(cmds)) : Tail(cmds)[i] = Tail(cmds)[j] => i = j
  <2> TAKE i \in 1..Len(Tail(cmds)), j \in 1..Len(Tail(cmds))
  <2> HAVE Tail(cmds)[i] = Tail(cmds)[j]
  <2>1. i \in 1..(Len(cmds) - 1) /\ j \in 1..(Len(cmds) - 1)
    BY <1>2
  <2>2. i + 1 = j + 1
    BY <1>3, <1>4, <2>1
  <2> QED BY <2>2
<1>7. \A d \in Conn : driver.parked[d] \subseteq Op
  BY Parts
<1>8. ASSUME NEW answer \in {"Ok", "Closed"}, ops' = Reply({o}, answer), driver' = driver
      PROVE  IInv'
  <2>1. Resolved({o}, ops')
    BY <1>8, ReplyResolves
  <2> HIDE DEF o
  <2>2. TypeOK'
    BY <1>1, <1>2, <1>8, <2>1, Parts, TypeParts DEF Typed, Resolved
  <2>3. Operations'
    <3>1. \A p \in Range(cmds') : ops'[p].answer = "waiting"
      BY <1>1, <1>2, <1>4, <1>5, <2>1 DEF Resolved
    <3>2. \A d \in Conn : \A p \in driver.parked[d] :
            ops'[p].answer = "waiting" /\ ops'[p].conn = d /\ p \notin Range(cmds')
      BY <1>1, <1>2, <1>4, <1>7, <2>1 DEF Resolved
    <3>3. \A p \in Op : ops'[p].answer = "waiting" =>
            p \in Range(cmds') \/ \E d \in Conn : p \in driver.parked[d]
      BY <1>1, <1>2, <1>4, <2>1 DEF Resolved
    <3> QED BY <1>1, <1>6, <1>8, <3>1, <3>2, <3>3 DEF Operations
  <2> QED BY <1>1, <1>8, <2>2, <2>3, Frames DEF IInv
<1>9. CASE /\ c \in driver.surfaced /\ ops' = ops
           /\ driver' = [driver EXCEPT !.parked[c] = @ \cup {o}]
  <2> DEFINE parked == [driver.parked EXCEPT ![c] = @ \cup {o}]
  <2>1. c \in Conn /\ parked \in [Conn -> SUBSET Op]
    BY <1>2, <1>9, Parts
  <2>2. /\ parked[c] = driver.parked[c] \cup {o}
        /\ \A d \in Conn \ {c} : parked[d] = driver.parked[d]
    BY <2>1, Parts
  <2>3. driver' = [driver EXCEPT !.parked = parked]
    BY <1>9
  <2>4. ops[o].conn = c
    OBVIOUS
  <2> HIDE DEF parked, o, c
  <2>5. /\ driver' \in DriverType /\ driver'.parked = parked /\ driver'.runs = driver.runs
        /\ driver'.surfaced = driver.surfaced /\ driver'.pending_accept = driver.pending_accept
    BY <2>1, <2>3, Parts DEF DriverType
  <2>6. TypeOK'
    BY <1>1, <1>2, <1>9, <2>5, Parts, TypeParts DEF Typed
  <2>7. Entries'
    <3>1. \A kind, d : Awaits(kind, d)' <=> Awaits(kind, d)
      BY <1>1 DEF Awaits
    <3> QED BY <1>1, <1>9, <2>1, <2>2, <2>5, <3>1 DEF IInv, Entries
  <2>8. Operations'
    <3>1. \A p \in Range(cmds') : ops'[p].answer = "waiting"
      BY <1>1, <1>2, <1>4, <1>9
    <3>2. \A d \in Conn : \A p \in parked[d] :
            ops'[p].answer = "waiting" /\ ops'[p].conn = d /\ p \notin Range(cmds')
      BY <1>1, <1>2, <1>4, <1>5, <1>9, <2>2, <2>4
    <3>3. \A p \in Op : ops'[p].answer = "waiting" =>
            p \in Range(cmds') \/ \E d \in Conn : p \in parked[d]
      BY <1>1, <1>2, <1>4, <1>9, <2>1, <2>2
    <3> QED BY <1>1, <1>6, <2>5, <3>1, <3>2, <3>3 DEF Operations
  <2> QED BY <1>1, <2>5, <2>6, <2>7, <2>8, Frames DEF IInv
<1> QED BY <1>8, <1>9 DEF OnCommand

\* The driver returns: nobody waits any more, and nothing is queued.
LEMMA ReturnKeeps ==
  ASSUME IInv, Return
  PROVE  IInv'
<1>1. /\ driver' = [NewDriver EXCEPT !.runs = FALSE] /\ cmds' = <<>> /\ ops' = Reply(Op, "Closed")
      /\ phase' = phase /\ events' = events /\ order' = order
      /\ accepted' = accepted /\ server' = server /\ taken' = taken
  BY DEF Return, core
<1>2. /\ driver' \in DriverType /\ driver'.runs = FALSE /\ driver'.surfaced = {}
      /\ driver'.pending_accept = <<>>
  <2> DEFINE none == [c \in Conn |-> {}]
             empty == <<>>
  <2>1. none \in [Conn -> SUBSET Op] /\ empty \in Seq(Conn)
    OBVIOUS
  <2>2. driver' = [runs |-> FALSE, parked |-> none, surfaced |-> {}, pending_accept |-> empty]
    BY <1>1 DEF NewDriver
  <2> HIDE DEF none, empty
  <2>3. driver' \in DriverType /\ driver'.surfaced = {} /\ driver'.pending_accept = empty
    BY <2>1, <2>2 DEF DriverType
  <2>4. driver'.runs = FALSE
    BY <2>2
  <2> QED BY <2>3, <2>4 DEF empty
<1>3. ops' \in [Op -> OpType]
  BY <1>1, ReplyResolves DEF Resolved
<1>4. cmds' \in Seq(Op) /\ Len(cmds') <= CmdCap
  BY <1>1, CapAssumption
<1>5. TypeOK'
  BY <1>1, <1>2, <1>3, <1>4, Parts, TypeParts DEF Typed
<1>6. Entries' /\ Operations' /\ Complete'
  BY <1>2 DEF Entries, Operations, Complete
<1>7. Line'
  <2>1. Line /\ Range(<<>>) = {}
    BY DEF IInv, Range
  <2>2. Prec' = Prec
    BY <1>1 DEF Prec
  <2>3. Ascending(<<>>, Prec) /\ Across(taken, <<>>, Prec) /\ Across(accepted, <<>>, Prec)
    BY <2>1 DEF Ascending, Across
  <2>4. Earlier(taken)' /\ Earlier(accepted)' /\ Earlier(driver.pending_accept)'
    BY <1>1, <1>2, <2>1, <2>2 DEF Line, Earlier
  <2> QED BY <1>1, <1>2, <2>1, <2>2, <2>3, <2>4 DEF Line
<1> QED BY <1>1, <1>2, <1>5, <1>6, <1>7, Frames DEF IInv

-----------------------------------------------------------------------------
(* The core                                                                *)

\* What a datagram may bring about, in terms of the order of the kinds.
LEMMA NewsFacts ==
  ASSUME IInv, NEW c \in Conn, NEW news \in News(c)
  PROVE  /\ phase[c] \in {"none", "handshake", "open"}
         /\ news \in Seq({"Connected", "Stream", "Lost"}) /\ DOMAIN news = 1..Len(news)
         /\ \A i \in 1..Len(news) : news[i] = "Connected" => i = 1 /\ phase[c] = "handshake"
         /\ "Connected" \in Range(news) => phase[c] = "handshake" /\ Len(news) > 0 /\ news[1] = "Connected"
         /\ phase[c] = "handshake" /\ "Lost" \notin Range(news) => "Connected" \in Range(news)
         /\ phase[c] = "none" /\ "Lost" \notin Range(news) => Len(news) = 0
<1>1. phase[c] \in {"none", "handshake", "open", "lost"}
  BY Parts DEF Phase
<1>2. CASE phase[c] = "none"
  <2>1. news \in {<<>>, <<"Lost">>}
    BY <1>2 DEF News
  <2>2. CASE news = <<>>
    BY <1>2, <2>2 DEF Range
  <2>3. CASE news = <<"Lost">>
    BY <1>2, <2>3 DEF Range
  <2> QED BY <2>1, <2>2, <2>3
<1>3. CASE phase[c] = "handshake"
  <2>1. news \in {<<"Connected">>, <<"Connected", "Stream">>, <<"Connected", "Lost">>, <<"Lost">>}
    BY <1>3 DEF News
  <2>2. CASE news = <<"Connected">>
    BY <1>3, <2>2 DEF Range
  <2>3. CASE news = <<"Connected", "Stream">>
    BY <1>3, <2>3 DEF Range
  <2>4. CASE news = <<"Connected", "Lost">>
    BY <1>3, <2>4 DEF Range
  <2>5. CASE news = <<"Lost">>
    BY <1>3, <2>5 DEF Range
  <2> QED BY <2>1, <2>2, <2>3, <2>4, <2>5
<1>4. CASE phase[c] = "open"
  <2>1. news \in {<<"Stream">>, <<"Stream", "Lost">>, <<"Lost">>}
    BY <1>4 DEF News
  <2>2. CASE news = <<"Stream">>
    BY <1>4, <2>2 DEF Range
  <2>3. CASE news = <<"Stream", "Lost">>
    BY <1>4, <2>3 DEF Range
  <2>4. CASE news = <<"Lost">>
    BY <1>4, <2>4 DEF Range
  <2> QED BY <2>1, <2>2, <2>3, <2>4
<1>5. CASE phase[c] = "lost"
  BY <1>5 DEF News
<1> QED BY <1>1, <1>2, <1>3, <1>4, <1>5

\* The books of a driver that has drained the core.
LEMMA Drained ==
  ASSUME IInv, Selecting
  PROVE  /\ driver.runs /\ \A c \in Conn : c \in driver.surfaced <=> phase[c] = "open"
         /\ \A c \in Conn : driver.parked[c] # {} => c \in driver.surfaced
<1>1. driver.runs /\ \A kind, c : ~Awaits(kind, c)
  BY DEF Selecting, Awaits
<1> QED BY <1>1, Parts DEF IInv, Entries

\* The order may grow.
LEMMA OrderGrows ==
  ASSUME IInv, Prec \subseteq Prec', Range(order) \subseteq Range(order'),
         taken' = taken, accepted' = accepted, driver' = driver,
         \A x \in Range(order) : \A k \in 1..Len(events') :
           events'[k].kind = "Connected" => <<x, events'[k].conn>> \in Prec'
  PROVE  Line'
<1>1. Line
  BY DEF IInv
<1>2. /\ \A s : Ascending(s, Prec) => Ascending(s, Prec')
      /\ \A s, t : Across(s, t, Prec) => Across(s, t, Prec')
  BY DEF Ascending, Across
<1>3. \A s : Earlier(s) => Earlier(s)'
  BY DEF Earlier
<1> QED BY <1>1, <1>2, <1>3 DEF Line

\* A datagram: the events it queues agree with what it did to its connection.
LEMMA RecvKeeps ==
  ASSUME IInv, NEW c \in Conn, NEW news \in News(c), RecvDatagram(c, news)
  PROVE  IInv'
<1> DEFINE new == IF "Lost" \in Range(news) THEN "lost" ELSE IF phase[c] = "none" THEN "handshake" ELSE "open"
           R == Range(news)
<1>1. /\ Selecting /\ phase' = [phase EXCEPT ![c] = new]
      /\ events' = [i \in DOMAIN news |-> [kind |-> news[i], conn |-> c]]
      /\ order' = IF "Connected" \in R THEN Append(order, c) ELSE order
      /\ driver' = driver /\ accepted' = accepted /\ cmds' = cmds
      /\ server' = server /\ taken' = taken /\ ops' = ops
  BY DEF RecvDatagram, app
<1>2. /\ phase[c] \in {"none", "handshake", "open"}
      /\ news \in Seq({"Connected", "Stream", "Lost"}) /\ DOMAIN news = 1..Len(news) /\ Len(news) \in Nat
      /\ \A i \in 1..Len(news) : news[i] = "Connected" => i = 1 /\ phase[c] = "handshake"
      /\ "Connected" \in R => phase[c] = "handshake" /\ Len(news) > 0 /\ news[1] = "Connected"
      /\ phase[c] = "handshake" /\ "Lost" \notin R => "Connected" \in R
      /\ phase[c] = "none" /\ "Lost" \notin R => Len(news) = 0
      /\ \A i \in 1..Len(news) : news[i] \in R
  BY NewsFacts, RangeOf
<1>3. /\ phase' \in [Conn -> Phase] /\ phase'[c] = new /\ \A d \in Conn \ {c} : phase'[d] = phase[d]
  BY <1>1, Parts DEF Phase
<1>4. /\ events' \in Seq(EventType) /\ Len(events') = Len(news)
      /\ \A i \in 1..Len(news) : events'[i] = [kind |-> news[i], conn |-> c]
      /\ \A i \in 1..Len(news) : events'[i].kind = news[i] /\ events'[i].conn = c
  <2>1. \A i \in 1..Len(news) : [kind |-> news[i], conn |-> c] \in EventType
    BY <1>2 DEF EventType
  <2>2. events' = [i \in 1..Len(news) |-> [kind |-> news[i], conn |-> c]]
    BY <1>1, <1>2
  <2> QED BY <1>2, <2>1, <2>2
<1> HIDE DEF R
<1>5. \A kind \in R : Awaits(kind, c)'
  <2>1. ASSUME NEW kind \in R PROVE \E i \in 1..Len(news) : news[i] = kind
    BY <1>2, PlaceOf DEF R
  <2> QED BY <1>4, <2>1 DEF Awaits
<1>6. \A i \in 1..Len(news) : phase'[c] \in {"open", "lost"} /\ (news[i] = "Lost" => phase'[c] = "lost")
  BY <1>2, <1>3 DEF R
<1>7. Connections
  BY DEF IInv
<1>8. /\ order' \in Seq(Conn) /\ Range(order) \subseteq Range(order') /\ Prec \subseteq Prec'
      /\ Connections'
      /\ "Connected" \in R =>
           Len(order') > 0 /\ order'[Len(order')] = c /\ \A x \in Range(order) : <<x, c>> \in Prec'
  <2>1. CASE "Connected" \notin R
    <3>1. order' = order /\ Prec' = Prec
      BY <1>1, <2>1 DEF Prec
    <3>2. \A i \in 1..Len(order) : order[i] \in Conn
      BY Parts
    <3>3. \A d \in Conn : phase[d] \in {"open", "lost"} => phase'[d] \in {"open", "lost"}
      BY <1>2, <1>3
    <3>4. Connections'
      BY <1>7, <3>1, <3>2, <3>3 DEF Connections
    <3> QED BY <2>1, <3>1, <3>4, Parts
  <2>2. CASE "Connected" \in R
    <3> DEFINE n == Len(order)
    <3>1. /\ order' \in Seq(Conn) /\ Range(order') = Range(order) \cup {c} /\ Len(order') = n + 1
          /\ order'[n + 1] = c /\ n \in Nat
          /\ \A i \in 1..n : order'[i] = order[i] /\ order[i] \in Conn
      BY <1>1, <2>2, Parts, AppendRange
    <3> HIDE DEF n
    <3>2. \A i \in 1..(n + 1) : i \in 1..n \/ i = n + 1
      BY <3>1
    <3>3. \A i \in 1..n : i \in 1..(n + 1) /\ i < n + 1
      BY <3>1
    <3>4. \A i \in 1..n : phase[order[i]] \in {"open", "lost"} /\ order[i] # c
      BY <1>2, <1>7, <2>2 DEF Connections, n
    <3>5. Connections'
      <4>1. \A i, j \in 1..(n + 1) : order'[i] = order'[j] => i = j
        BY <1>7, <3>1, <3>2, <3>4 DEF Connections, n
      <4>2. phase'[c] \in {"open", "lost"}
        BY <1>2, <1>3, <2>2
      <4>3. \A i \in 1..(n + 1) : phase'[order'[i]] \in {"open", "lost"}
        BY <1>3, <3>1, <3>2, <3>4, <4>2
      <4> QED BY <3>1, <4>1, <4>3 DEF Connections
    <3>6. Prec \subseteq Prec'
      <4>1. ASSUME NEW p \in Prec PROVE p \in Prec'
        <5>1. PICK i \in 1..n, j \in 1..n : i < j /\ order[i] = p[1] /\ order[j] = p[2]
          BY DEF Prec, n
        <5>2. p \in Conn \X Conn
          BY DEF Prec
        <5>3. i \in 1..Len(order') /\ j \in 1..Len(order') /\ order'[i] = p[1] /\ order'[j] = p[2]
          BY <3>1, <3>3, <5>1
        <5> QED BY <5>1, <5>2, <5>3 DEF Prec
      <4> QED BY <4>1
    <3>7. ASSUME NEW x \in Range(order) PROVE <<x, c>> \in Prec'
      <4>1. PICK i \in 1..n : order[i] = x
        BY Parts, PlaceOf DEF n
      <4>2. /\ i \in 1..Len(order') /\ n + 1 \in 1..Len(order') /\ i < n + 1
            /\ order'[i] = x /\ order'[n + 1] = c /\ x \in Conn
        BY <3>1, <3>3, <4>1
      <4> QED BY <4>2 DEF Prec
    <3>8. Len(order') > 0 /\ order'[Len(order')] = c
      BY <3>1
    <3> QED BY <3>1, <3>5, <3>6, <3>7, <3>8
  <2> QED BY <2>1, <2>2
<1>9. TypeOK'
  BY <1>1, <1>3, <1>4, <1>8, Parts, TypeParts DEF Typed
<1>10. /\ driver.runs /\ \A d \in Conn : d \in driver.surfaced <=> phase[d] = "open"
       /\ \A d \in Conn : driver.parked[d] # {} => d \in driver.surfaced
  BY <1>1, Drained
<1>11. Tidings'
  BY <1>1, <1>2, <1>4, <1>6, <1>8, <1>10 DEF Tidings
<1>12. Entries'
  <2>1. \A d \in driver.surfaced : phase'[d] = "open" \/ (phase'[d] = "lost" /\ Awaits("Lost", d)')
    BY <1>2, <1>3, <1>5, <1>10, Parts DEF R
  <2>2. \A d \in Conn : phase'[d] = "open" => d \in driver.surfaced \/ Awaits("Connected", d)'
    BY <1>2, <1>3, <1>5, <1>10 DEF R
  <2> QED BY <1>1, <1>10, <2>1, <2>2 DEF Entries
<1>13. Line'
  <2>1. \A x \in Range(order) : \A k \in 1..Len(events') :
          events'[k].kind = "Connected" => <<x, events'[k].conn>> \in Prec'
    BY <1>2, <1>4, <1>8
  <2> QED BY <1>1, <1>8, <2>1, OrderGrows
<1> QED BY <1>1, <1>8, <1>9, <1>11, <1>12, <1>13, Frames DEF IInv

\* Several connections end at once, and each is told of.
LEMMA ExpireKeeps ==
  ASSUME IInv, NEW lost \in SUBSET Live, Expire(lost)
  PROVE  IInv'
<1>1. PICK seq \in [1..Cardinality(lost) -> lost] :
        Range(seq) = lost /\ events' = [i \in DOMAIN seq |-> [kind |-> "Lost", conn |-> seq[i]]]
  BY DEF Expire
<1>2. /\ Selecting /\ phase' = [c \in Conn |-> IF c \in lost THEN "lost" ELSE phase[c]]
      /\ order' = order /\ driver' = driver /\ accepted' = accepted /\ cmds' = cmds
      /\ server' = server /\ taken' = taken /\ ops' = ops
  BY DEF Expire, app
<1> DEFINE n == Cardinality(lost)
<1>3. n \in Nat /\ lost \subseteq Conn
  <2>1. IsFiniteSet(Conn)
    BY BoundAssumption, FS_Interval DEF Conn
  <2>2. lost \subseteq Conn
    BY DEF Live
  <2> QED BY <2>1, <2>2, FS_Subset, FS_CardinalityType
<1> HIDE DEF n
<1>4. /\ events' \in Seq(EventType) /\ Len(events') = n
      /\ \A i \in 1..n : events'[i] = [kind |-> "Lost", conn |-> seq[i]]
      /\ \A i \in 1..n : events'[i].kind = "Lost" /\ events'[i].conn = seq[i] /\ seq[i] \in lost
  <2>1. \A i \in 1..n : [kind |-> "Lost", conn |-> seq[i]] \in EventType
    BY <1>1, <1>3 DEF EventType, n
  <2>2. events' = [i \in 1..n |-> [kind |-> "Lost", conn |-> seq[i]]]
    BY <1>1 DEF n
  <2> QED BY <1>1, <1>3, <2>1, <2>2 DEF n
<1>5. \A c \in lost : Awaits("Lost", c)'
  <2>1. ASSUME NEW c \in lost PROVE \E i \in 1..n : seq[i] = c
    BY <1>1 DEF Range, n
  <2> QED BY <1>4, <2>1 DEF Awaits
<1>6. /\ phase' \in [Conn -> Phase] /\ \A c \in lost : phase'[c] = "lost"
      /\ \A c \in Conn \ lost : phase'[c] = phase[c]
  BY <1>2, <1>3, Parts DEF Phase
<1>7. TypeOK'
  BY <1>2, <1>4, <1>6, Parts, TypeParts DEF Typed
<1>8. Connections'
  <2>1. \A i \in 1..Len(order) : order[i] \in Conn
    BY Parts
  <2> QED BY <1>2, <1>6, <2>1 DEF IInv, Connections
<1>9. Tidings'
  BY <1>4, <1>6 DEF Tidings
<1>10. Entries'
  <2>1. /\ driver.runs /\ \A d \in Conn : d \in driver.surfaced <=> phase[d] = "open"
        /\ \A d \in Conn : driver.parked[d] # {} => d \in driver.surfaced
    BY <1>2, Drained
  <2>2. \A d \in driver.surfaced : phase'[d] = "open" \/ (phase'[d] = "lost" /\ Awaits("Lost", d)')
    BY <1>5, <1>6, <2>1, Parts
  <2>3. \A d \in Conn : phase'[d] = "open" => d \in driver.surfaced
    BY <1>6, <2>1
  <2> QED BY <1>2, <2>1, <2>2, <2>3 DEF Entries
<1>11. Line'
  <2>1. Prec' = Prec
    BY <1>2 DEF Prec
  <2>2. \A k \in 1..Len(events') : events'[k].kind # "Connected"
    BY <1>4
  <2> QED BY <1>2, <2>1, <2>2, OrderGrows
<1> QED BY <1>2, <1>7, <1>8, <1>9, <1>10, <1>11, Frames DEF IInv

-----------------------------------------------------------------------------
(* The pump                                                                *)

\* An event is taken from the queue: what that does by itself, whatever the arm does.
LEMMA EventTaken ==
  ASSUME IInv, events # <<>>, events' = Tail(events), phase' = phase, order' = order
  PROVE  /\ Head(events) = events[1] /\ 1 \in 1..Len(events) /\ Head(events) \in EventType
         /\ events' \in Seq(EventType)
         /\ \A kind, c : Awaits(kind, c) => Head(events) = [kind |-> kind, conn |-> c] \/ Awaits(kind, c)'
         /\ Connections' /\ Tidings' /\ Prec' = Prec
         /\ \A s : Range(s) \subseteq Range(order) => Earlier(s)'
<1> DEFINE n == Len(events)
<1>1. /\ n \in Nat /\ n > 0 /\ Head(events) = events[1] /\ Head(events) \in EventType
      /\ events' \in Seq(EventType) /\ Len(events') = n - 1
      /\ \A i \in 1..(n - 1) : events'[i] = events[i + 1] /\ i + 1 \in 1..n
  BY Parts, TailRange
<1>2. Tidings
  BY DEF IInv
<1> HIDE DEF n
<1>3. \A i \in 1..(n - 1) : events'[i].kind # "Connected"
  <2> TAKE i \in 1..(n - 1)
  <2>1. i + 1 # 1 /\ i + 1 \in 1..n /\ events'[i] = events[i + 1]
    BY <1>1
  <2> QED BY <1>2, <2>1 DEF Tidings, n
<1>4. ASSUME NEW kind, NEW c, Awaits(kind, c)
      PROVE  Head(events) = [kind |-> kind, conn |-> c] \/ Awaits(kind, c)'
  <2>1. PICK i \in 1..n : events[i] = [kind |-> kind, conn |-> c]
    BY <1>4 DEF Awaits, n
  <2>2. CASE i = 1
    BY <1>1, <2>1, <2>2
  <2>3. CASE i # 1
    <3>1. i - 1 \in 1..(n - 1) /\ (i - 1) + 1 = i
      BY <1>1, <2>3
    <3>2. events'[i - 1] = [kind |-> kind, conn |-> c] /\ i - 1 \in 1..Len(events')
      BY <1>1, <2>1, <3>1
    <3> QED BY <3>2 DEF Awaits
  <2> QED BY <2>2, <2>3
<1>5. Tidings'
  BY <1>1, <1>2, <1>3 DEF Tidings, n
<1>6. Prec' = Prec /\ Connections'
  BY Frames DEF Prec
<1>7. \A s : Range(s) \subseteq Range(order) => Earlier(s)'
  BY <1>1, <1>3 DEF Earlier
<1>8. 1 \in 1..Len(events)
  BY <1>1 DEF n
<1> QED BY <1>1, <1>4, <1>5, <1>6, <1>7, <1>8

\* The line is of connections that the core has connected.
LEMMA LineConnected ==
  ASSUME IInv
  PROVE  /\ Range(taken) \subseteq Range(order) /\ Range(accepted) \subseteq Range(order)
         /\ Range(driver.pending_accept) \subseteq Range(order)
BY DEF IInv, Line, Earlier

\* What the three arms of on_event have in common.
Pumping ==
  /\ driver.runs /\ events # <<>> /\ events' = Tail(events)
  /\ phase' = phase /\ order' = order /\ accepted' = accepted /\ cmds' = cmds
  /\ server' = server /\ taken' = taken

\* A connection is surfaced at the end of the line, or was lost within the same pass.
LEMMA SurfaceKeeps ==
  ASSUME IInv, Pumping, Head(events).kind = "Connected", Surface(Head(events).conn)
  PROVE  IInv'
<1> DEFINE c == Head(events).conn
           pending == driver.pending_accept
<1>1. /\ driver.runs /\ events # <<>> /\ events' = Tail(events)
      /\ phase' = phase /\ order' = order /\ accepted' = accepted /\ cmds' = cmds
      /\ server' = server /\ taken' = taken /\ ops' = ops
      /\ driver' = IF c \in driver.surfaced \/ c \notin Live THEN driver
               ELSE [driver EXCEPT !.surfaced = @ \cup {c}, !.parked[c] = {},
                                   !.pending_accept = Append(@, c)]
  BY DEF Pumping, Surface
<1>2. /\ Head(events) = events[1] /\ 1 \in 1..Len(events) /\ Head(events) \in EventType
      /\ events' \in Seq(EventType)
      /\ \A kind, d : Awaits(kind, d) => Head(events) = [kind |-> kind, conn |-> d] \/ Awaits(kind, d)'
      /\ Connections' /\ Tidings' /\ Prec' = Prec
      /\ \A s : Range(s) \subseteq Range(order) => Earlier(s)'
  BY <1>1, EventTaken
<1>3. c \in Conn
  BY <1>2 DEF EventType
<1>4. /\ phase[c] \in {"open", "lost"} /\ c \notin driver.surfaced
      /\ Len(order) > 0 /\ order[Len(order)] = c
  BY <1>2 DEF IInv, Tidings
<1>5. /\ \A d : Awaits("Lost", d) => Awaits("Lost", d)'
      /\ \A d : Awaits("Connected", d) => d = c \/ Awaits("Connected", d)'
  BY <1>2
<1>6. c \in Live <=> phase[c] = "open"
  BY <1>3, <1>4 DEF Live
<1>7. Line /\ Entries /\ Complete
  BY DEF IInv
<1>8. c \in Range(order)
  <2>1. order \in Seq(Conn) /\ Len(order) \in Nat
    BY Parts
  <2>2. Len(order) \in 1..Len(order)
    BY <1>4, <2>1
  <2> QED BY <1>4, <2>1, <2>2, RangeOf
<1>9. /\ \A x \in Range(taken) : <<x, c>> \in Prec
      /\ \A x \in Range(accepted) : <<x, c>> \in Prec
      /\ \A x \in Range(pending) : <<x, c>> \in Prec
  BY <1>2, <1>7 DEF Line, Earlier
<1>10. CASE phase[c] = "lost"
  <2>1. driver' = driver
    BY <1>1, <1>6, <1>10
  <2>2. TypeOK'
    BY <1>1, <1>2, <2>1, Parts, TypeParts DEF Typed
  <2>3. Entries'
    BY <1>1, <1>5, <1>7, <1>10, <2>1 DEF Entries
  <2>4. Line'
    BY <1>1, <1>2, <1>7, <2>1, LineConnected DEF Line
  <2> QED BY <1>1, <1>2, <2>1, <2>2, <2>3, <2>4, Frames DEF IInv
<1>11. CASE phase[c] = "open"
  <2> DEFINE longer == Append(pending, c)
             surfaced == driver.surfaced \cup {c}
  <2>1. /\ longer \in Seq(Conn) /\ Range(longer) = Range(pending) \cup {c}
    BY <1>3, Parts, AppendRange
  <2>2. driver.parked[c] = {} /\ [driver.parked EXCEPT ![c] = {}] = driver.parked
    <3>1. driver.parked[c] = {}
      BY <1>1, <1>3, <1>4, <1>7 DEF Entries
    <3> QED BY <3>1, Parts
  <2>3. driver' = [driver EXCEPT !.surfaced = surfaced, !.parked[c] = {}, !.pending_accept = longer]
    BY <1>1, <1>4, <1>6, <1>11
  <2>4. surfaced \subseteq Conn /\ driver.parked \in [Conn -> SUBSET Op]
    BY <1>3, Parts
  <2>5. Ascending(longer, Prec)
    BY <1>3, <1>7, <1>9, Parts, AppendAscending DEF Line
  <2>6. driver' = [driver EXCEPT !.surfaced = surfaced, !.parked = driver.parked, !.pending_accept = longer]
    BY <2>2, <2>3
  <2> HIDE DEF longer, surfaced, c
  <2>7. /\ driver' \in DriverType /\ driver'.runs = driver.runs /\ driver'.parked = driver.parked
        /\ driver'.surfaced = surfaced /\ driver'.pending_accept = longer
    BY <2>1, <2>4, <2>6, Parts DEF DriverType
  <2>8. TypeOK'
    BY <1>1, <1>2, <2>7, Parts, TypeParts DEF Typed
  <2>9. Entries'
    <3>1. \A d \in surfaced : phase[d] = "open" \/ (phase[d] = "lost" /\ Awaits("Lost", d)')
      BY <1>1, <1>5, <1>7, <1>11 DEF Entries, surfaced
    <3>2. \A d \in Conn : phase[d] = "open" => d \in surfaced \/ Awaits("Connected", d)'
      BY <1>1, <1>5, <1>7 DEF Entries, surfaced
    <3>3. \A d \in Conn : driver.parked[d] # {} => d \in surfaced
      BY <1>1, <1>7 DEF Entries, surfaced
    <3> QED BY <1>1, <2>7, <3>1, <3>2, <3>3 DEF Entries
  <2>10. Line'
    <3>1. Across(taken, longer, Prec) /\ Across(accepted, longer, Prec)
      BY <1>7, <1>9, <2>1 DEF Line, Across
    <3>2. Range(longer) \subseteq Range(order)
      BY <1>8, <2>1, LineConnected
    <3>3. Earlier(taken)' /\ Earlier(accepted)' /\ Earlier(driver.pending_accept)'
      BY <1>1, <1>2, <2>7, <3>2, LineConnected
    <3> QED BY <1>1, <1>2, <1>7, <2>5, <2>7, <3>1, <3>3 DEF Line
  <2>11. Complete'
    <3>1. server => driver.surfaced \subseteq Range(taken) \cup Range(accepted) \cup Range(pending)
      BY <1>1, <1>7 DEF Complete
    <3> HIDE DEF pending
    <3> QED BY <1>1, <2>1, <2>7, <3>1 DEF Complete, surfaced
  <2> QED BY <1>1, <1>2, <2>7, <2>8, <2>9, <2>10, <2>11, Frames DEF IInv
<1> QED BY <1>4, <1>10, <1>11

\* Some of what is parked is answered.
LEMMA StreamKeeps ==
  ASSUME IInv, Pumping, Head(events).kind = "Stream", StreamEvent(Head(events).conn)
  PROVE  IInv'
<1> DEFINE c == Head(events).conn
<1>1. /\ driver.runs /\ events # <<>> /\ events' = Tail(events)
      /\ phase' = phase /\ order' = order /\ accepted' = accepted /\ cmds' = cmds
      /\ server' = server /\ taken' = taken
  BY DEF Pumping
<1>2. /\ Head(events) = events[1] /\ Head(events) \in EventType /\ events' \in Seq(EventType)
      /\ \A kind, d : Awaits(kind, d) => Head(events) = [kind |-> kind, conn |-> d] \/ Awaits(kind, d)'
      /\ Connections' /\ Tidings' /\ Prec' = Prec
      /\ \A s : Range(s) \subseteq Range(order) => Earlier(s)'
  BY <1>1, EventTaken
<1>3. c \in Conn
  BY <1>2 DEF EventType
<1>4. \A d : /\ Awaits("Lost", d) => Awaits("Lost", d)'
             /\ Awaits("Connected", d) => Awaits("Connected", d)'
  BY <1>2
<1>5. Line /\ Entries /\ Complete /\ Operations
  BY DEF IInv
<1>6. driver'.pending_accept = driver.pending_accept => Line'
  BY <1>1, <1>2, <1>5, LineConnected DEF Line
<1>7. CASE driver' = driver /\ ops' = ops
  <2>1. TypeOK'
    BY <1>1, <1>2, <1>7, Parts, TypeParts DEF Typed
  <2>2. Entries'
    BY <1>1, <1>4, <1>5, <1>7 DEF Entries
  <2> QED BY <1>1, <1>2, <1>6, <1>7, <2>1, <2>2, Frames DEF IInv
<1>8. ASSUME NEW done \in SUBSET driver.parked[c],
             driver' = [driver EXCEPT !.parked[c] = @ \ done], ops' = Reply(done, "Ok")
      PROVE  IInv'
  <2> DEFINE parked == [driver.parked EXCEPT ![c] = @ \ done]
  <2>1. parked \in [Conn -> SUBSET Op]
    BY <1>3, Parts
  <2>2. /\ parked[c] = driver.parked[c] \ done
        /\ \A d \in Conn \ {c} : parked[d] = driver.parked[d]
    BY <1>3, Parts
  <2>3. driver' = [driver EXCEPT !.parked = parked]
    BY <1>8
  <2>4. Resolved(done, ops')
    BY <1>8, ReplyResolves
  <2> HIDE DEF parked, c
  <2>5. /\ driver' \in DriverType /\ driver'.parked = parked /\ driver'.runs = driver.runs
        /\ driver'.surfaced = driver.surfaced /\ driver'.pending_accept = driver.pending_accept
    BY <2>1, <2>3, Parts DEF DriverType
  <2>6. TypeOK'
    BY <1>1, <1>2, <2>4, <2>5, Parts, TypeParts DEF Typed, Resolved
  <2>7. Entries'
    BY <1>1, <1>3, <1>4, <1>5, <2>2, <2>5 DEF Entries
  <2>8. Operations'
    <3>1. \A o \in Range(cmds) : o \notin done /\ o \in Op
      BY <1>1, <1>3, <1>5, <1>8, Parts, RangeOf DEF Operations
    <3>2. \A o \in Range(cmds) : ops'[o].answer = "waiting"
      BY <1>1, <1>5, <2>4, <3>1 DEF Operations, Resolved
    <3>3. ASSUME NEW d \in Conn, NEW o \in parked[d]
          PROVE  ops'[o].answer = "waiting" /\ ops'[o].conn = d /\ o \notin Range(cmds)
      <4>1. o \in driver.parked[d] /\ o \in Op /\ o \notin done
        <5>1. o \in driver.parked[d] /\ o \in Op
          BY <1>3, <2>2, Parts
        <5>2. ops[o].conn = d /\ \A p \in done : ops[p].conn = c
          BY <1>1, <1>3, <1>5, <1>8, <5>1 DEF Operations
        <5>3. CASE d = c
          BY <2>2, <3>3, <5>1, <5>3
        <5>4. CASE d # c
          BY <5>1, <5>2, <5>4
        <5> QED BY <5>3, <5>4
      <4> QED BY <1>1, <1>5, <2>4, <4>1 DEF Operations, Resolved
    <3>4. ASSUME NEW o \in Op, ops'[o].answer = "waiting"
          PROVE  o \in Range(cmds) \/ \E d \in Conn : o \in parked[d]
      BY <1>1, <1>3, <1>5, <2>2, <2>4, <3>4 DEF Operations, Resolved
    <3>5. \A i, j \in 1..Len(cmds) : cmds[i] = cmds[j] => i = j
      BY <1>1, <1>5 DEF Operations
    <3> QED BY <1>1, <2>5, <3>2, <3>3, <3>4, <3>5 DEF Operations
  <2> QED BY <1>1, <1>2, <1>6, <2>5, <2>6, <2>7, <2>8, Frames DEF IInv
<1> QED BY <1>7, <1>8 DEF StreamEvent

\* A connection that is lost leaves no entry behind, no place in the line, and nobody
\* who waits for it.
LEMMA OnLostKeeps ==
  ASSUME IInv, Pumping, Head(events).kind = "Lost", OnLost(Head(events).conn)
  PROVE  IInv'
<1> DEFINE c == Head(events).conn
           pending == driver.pending_accept
           kept == Retain(pending, c)
           parked == [driver.parked EXCEPT ![c] = {}]
           surfaced == driver.surfaced \ {c}
<1>1. /\ driver.runs /\ events # <<>> /\ events' = Tail(events)
      /\ phase' = phase /\ order' = order /\ accepted' = accepted /\ cmds' = cmds
      /\ server' = server /\ taken' = taken /\ ops' = Reply(driver.parked[c], "Closed")
      /\ driver' = [driver EXCEPT !.parked[c] = {}, !.surfaced = @ \ {c}, !.pending_accept = Retain(@, c)]
  BY DEF Pumping, OnLost
<1>2. /\ Head(events) = events[1] /\ 1 \in 1..Len(events) /\ Head(events) \in EventType
      /\ events' \in Seq(EventType)
      /\ \A kind, d : Awaits(kind, d) => Head(events) = [kind |-> kind, conn |-> d] \/ Awaits(kind, d)'
      /\ Connections' /\ Tidings' /\ Prec' = Prec
      /\ \A s : Range(s) \subseteq Range(order) => Earlier(s)'
  BY <1>1, EventTaken
<1>3. c \in Conn
  BY <1>2 DEF EventType
<1>4. phase[c] = "lost"
  BY <1>2 DEF IInv, Tidings
<1>5. \A d : /\ Awaits("Lost", d) => d = c \/ Awaits("Lost", d)'
             /\ Awaits("Connected", d) => Awaits("Connected", d)'
  BY <1>2
<1>6. Line /\ Entries /\ Complete /\ Operations
  BY DEF IInv
<1>7. /\ parked \in [Conn -> SUBSET Op] /\ parked[c] = {}
      /\ \A d \in Conn \ {c} : parked[d] = driver.parked[d]
  BY <1>3, Parts
<1>8. /\ kept \in Seq(Conn) /\ Ascending(kept, Prec) /\ Range(kept) = Range(pending) \ {c}
  <2> DEFINE E == {pending[a] : a \in 1..Len(pending)} \ {c}
  <2>1. pending \in Seq(Conn) /\ Ascending(pending, Prec)
    BY <1>6, Parts DEF Line
  <2>2. KeptOf(pending, c, Len(pending), Prec, kept)
    BY <2>1, RetainKeeps
  <2>3. /\ kept \in Seq(E) /\ Ascending(kept, Prec)
        /\ \A a \in 1..Len(pending) : pending[a] # c => \E i \in 1..Len(kept) : kept[i] = pending[a]
    BY <2>2 DEF KeptOf
  <2> HIDE DEF kept, pending, c
  <2>4. Range(pending) = {pending[a] : a \in 1..Len(pending)} /\ Range(pending) \subseteq Conn
    BY <2>1, RangeOf
  <2>5. Range(kept) = {kept[i] : i \in 1..Len(kept)} /\ Range(kept) \subseteq E
    <3> HIDE DEF E
    <3> QED BY <2>3, RangeOf
  <2>6. E \subseteq Range(kept)
    BY <2>3, <2>5
  <2>7. E = Range(pending) \ {c}
    BY <2>4
  <2>8. kept \in Seq(Conn)
    <3>1. E \subseteq Conn
      BY <2>4, <2>7
    <3> HIDE DEF E
    <3> QED BY <2>3, <3>1
  <2> QED BY <2>3, <2>5, <2>6, <2>7, <2>8
<1>9. surfaced \subseteq Conn
  BY Parts
<1>10. driver' = [driver EXCEPT !.parked = parked, !.surfaced = surfaced, !.pending_accept = kept]
  BY <1>1
<1>11. Resolved(driver.parked[c], ops')
  BY <1>1, ReplyResolves
<1> HIDE DEF c, kept, parked, surfaced
<1>12. /\ driver' \in DriverType /\ driver'.parked = parked /\ driver'.runs = driver.runs
       /\ driver'.surfaced = surfaced /\ driver'.pending_accept = kept
  BY <1>7, <1>8, <1>9, <1>10, Parts DEF DriverType
<1>13. TypeOK'
  BY <1>1, <1>2, <1>11, <1>12, Parts, TypeParts DEF Typed, Resolved
<1>14. Entries'
  <2>1. \A d \in surfaced : phase[d] = "open" \/ (phase[d] = "lost" /\ Awaits("Lost", d)')
    BY <1>1, <1>5, <1>6 DEF Entries, surfaced
  <2>2. \A d \in Conn : phase[d] = "open" => d \in surfaced \/ Awaits("Connected", d)'
    BY <1>1, <1>4, <1>5, <1>6 DEF Entries, surfaced
  <2>3. \A d \in Conn : parked[d] # {} => d \in surfaced
    BY <1>1, <1>6, <1>7 DEF Entries, surfaced
  <2> QED BY <1>1, <1>12, <2>1, <2>2, <2>3 DEF Entries
<1>15. Operations'
  <2>1. \A o \in Range(cmds) : o \notin driver.parked[c] /\ o \in Op
    BY <1>1, <1>3, <1>6, Parts, RangeOf DEF Operations
  <2>2. \A o \in Range(cmds) : ops'[o].answer = "waiting"
    BY <1>1, <1>6, <1>11, <2>1 DEF Operations, Resolved
  <2>3. ASSUME NEW d \in Conn, NEW o \in parked[d]
        PROVE  ops'[o].answer = "waiting" /\ ops'[o].conn = d /\ o \notin Range(cmds)
    <3>1. d # c /\ o \in driver.parked[d] /\ o \in Op
      BY <1>7, <2>3, Parts
    <3>2. ops[o].conn = d /\ o \notin driver.parked[c]
      BY <1>1, <1>3, <1>6, <3>1 DEF Operations
    <3> QED BY <1>1, <1>6, <1>11, <3>1, <3>2 DEF Operations, Resolved
  <2>4. ASSUME NEW o \in Op, ops'[o].answer = "waiting"
        PROVE  o \in Range(cmds) \/ \E d \in Conn : o \in parked[d]
    BY <1>1, <1>6, <1>7, <1>11, <2>4 DEF Operations, Resolved
  <2>5. \A i, j \in 1..Len(cmds) : cmds[i] = cmds[j] => i = j
    BY <1>1, <1>6 DEF Operations
  <2>6. cmds' = cmds /\ driver'.parked = parked
    BY <1>1, <1>12
  <2> QED BY ONLY <2>2, <2>3, <2>4, <2>5, <2>6 DEF Operations
<1>16. Line'
  <2>1. Across(taken, kept, Prec) /\ Across(accepted, kept, Prec)
    BY <1>6, <1>8 DEF Line, Across
  <2>2. Range(kept) \subseteq Range(order)
    BY <1>8, LineConnected
  <2>3. Earlier(taken)' /\ Earlier(accepted)' /\ Earlier(driver.pending_accept)'
    BY <1>1, <1>2, <1>12, <2>2, LineConnected
  <2> QED BY <1>1, <1>2, <1>6, <1>8, <1>12, <2>1, <2>3 DEF Line
<1>17. Complete'
  <2>1. server => driver.surfaced \subseteq Range(taken) \cup Range(accepted) \cup Range(pending)
    BY <1>1, <1>6 DEF Complete
  <2> HIDE DEF pending
  <2> QED BY <1>1, <1>8, <1>12, <2>1 DEF Complete, surfaced
<1> QED BY <1>2, <1>13, <1>14, <1>15, <1>16, <1>17 DEF IInv

\* A turn of the pump keeps the books.
LEMMA PumpKeeps ==
  ASSUME IInv, PumpEvent
  PROVE  IInv'
<1> DEFINE ev == Head(events)
<1>1. Pumping
  BY DEF PumpEvent, Pumping
<1>2. ev \in EventType
  BY Parts, TailRange DEF PumpEvent
<1>3. ev.kind \in {"Connected", "Stream", "Lost"}
  BY <1>2 DEF EventType
<1> HIDE DEF ev
<1>4. CASE ev.kind = "Connected"
  <2>1. Surface(ev.conn)
    BY <1>4 DEF PumpEvent, ev
  <2> QED BY <1>1, <1>4, <2>1, SurfaceKeeps DEF ev
<1>5. CASE ev.kind = "Stream"
  <2>1. StreamEvent(ev.conn)
    BY <1>5 DEF PumpEvent, ev
  <2> QED BY <1>1, <1>5, <2>1, StreamKeeps DEF ev
<1>6. CASE ev.kind = "Lost"
  <2>1. OnLost(ev.conn)
    BY <1>6 DEF PumpEvent, ev
  <2> QED BY <1>1, <1>6, <2>1, OnLostKeeps DEF ev
<1> QED BY <1>3, <1>4, <1>5, <1>6

-----------------------------------------------------------------------------
(* The theorems                                                            *)

\* A driver that starts has nothing in its books, and neither has the core.
LEMMA InitInv == Init => IInv
<1> SUFFICES ASSUME Init PROVE IInv
  OBVIOUS
<1> DEFINE empty == <<>>
           none == [c \in Conn |-> {}]
           idle == [conn |-> NoConn, answer |-> "idle"]
<1>1. /\ phase = [c \in Conn |-> "none"] /\ events = empty /\ driver = NewDriver /\ accepted = empty
      /\ cmds = empty /\ server = TRUE /\ taken = empty /\ order = empty /\ ops = [o \in Op |-> idle]
  BY DEF Init
<1>2. \A S : empty \in Seq(S) /\ Len(empty) = 0 /\ Range(empty) = {}
  BY DEF Range
<1>3. idle \in OpType /\ idle.answer = "idle"
  BY DEF OpType
<1>4. none \in [Conn -> SUBSET Op] /\ \A c \in Conn : none[c] = {}
  OBVIOUS
<1>5. driver = [runs |-> TRUE, parked |-> none, surfaced |-> {}, pending_accept |-> empty]
  BY <1>1 DEF NewDriver
<1> HIDE DEF empty, none, idle
<1>6. driver \in DriverType /\ driver.parked = none /\ driver.surfaced = {} /\ driver.pending_accept = empty
  BY <1>2, <1>4, <1>5 DEF DriverType
<1>7. phase \in [Conn -> Phase] /\ ops \in [Op -> OpType] /\ \A c \in Conn : phase[c] = "none"
  BY <1>1, <1>3 DEF Phase
<1>8. server \in BOOLEAN
  BY <1>1
<1>9. TypeOK
  BY <1>1, <1>2, <1>6, <1>7, <1>8, TypeParts, CapAssumption DEF Typed
<1>10. Connections /\ Tidings
  BY <1>1, <1>2 DEF Connections, Tidings
<1>11. Entries
  BY <1>4, <1>6, <1>7 DEF Entries
<1>12. Operations
  BY <1>1, <1>2, <1>3, <1>4, <1>6 DEF Operations
<1>13. Line
  BY <1>1, <1>2, <1>6 DEF Line, Ascending, Across, Earlier
<1>14. Complete
  BY <1>6 DEF Complete
<1> QED BY <1>9, <1>10, <1>11, <1>12, <1>13, <1>14 DEF IInv

\* No step of the driver, the core or the application breaks the books.
LEMMA NextInv == IInv /\ [Next]_vars => IInv'
<1> SUFFICES ASSUME IInv, [Next]_vars PROVE IInv'
  OBVIOUS
<1>1. ASSUME NEW c \in Conn, NEW news \in News(c), RecvDatagram(c, news) PROVE IInv'
  BY <1>1, RecvKeeps
<1>2. ASSUME NEW lost \in SUBSET Live \ {{}}, Expire(lost) PROVE IInv'
  BY <1>2, ExpireKeeps
<1>3. CASE PumpEvent
  BY <1>3, PumpKeeps
<1>4. CASE OnCommand
  BY <1>4, OnCommandKeeps
<1>5. CASE Deliver
  BY <1>5, DeliverKeeps
<1>6. CASE Return
  BY <1>6, ReturnKeeps
<1>7. CASE Accept
  BY <1>7, AcceptKeeps
<1>8. CASE DropServer
  BY <1>8, DropServerKeeps
<1>9. ASSUME NEW o \in Op, NEW c \in Range(taken), Start(o, c) PROVE IInv'
  BY <1>9, StartKeeps
<1>10. CASE UNCHANGED vars
  <2>1. /\ phase' = phase /\ events' = events /\ order' = order /\ driver' = driver /\ cmds' = cmds
        /\ accepted' = accepted /\ server' = server /\ taken' = taken /\ ops' = ops
    BY <1>10 DEF vars, core, app
  <2>2. TypeOK'
    BY <2>1, Parts, TypeParts
  <2> QED BY <2>1, <2>2, Frames DEF IInv
<1> QED BY <1>1, <1>2, <1>3, <1>4, <1>5, <1>6, <1>7, <1>8, <1>9, <1>10 DEF Next

\* The inductive invariant of the server's driver: what it keeps for its connections and
\* what is queued between it, the core and accept, at every step and not only when the
\* driver sleeps.
THEOREM Invariance == Spec => []IInv
<1>1. Init => IInv
  BY InitInv
<1>2. IInv /\ [Next]_vars => IInv'
  BY NextInv
<1> QED BY <1>1, <1>2, PTL DEF Spec

\* Type correctness: neither channel ever holds more than its capacity.
THEOREM TypeCorrect == Spec => []TypeOK
<1>1. IInv => TypeOK
  BY DEF IInv
<1> QED BY <1>1, Invariance, PTL

\* When the driver sleeps it keeps entries for the open connections and no others, and
\* an operation that is still awaited is in the channel or parked with an open
\* connection (on_event, on_lost, on_command): nobody waits on a handle that is gone.
THEOREM Books == Spec => []BooksMatchCore
<1>1. ASSUME IInv, Selecting
      PROVE  /\ driver.surfaced = OpenConns
             /\ \A c \in Conn :
                  /\ driver.parked[c] # {} => c \in OpenConns
                  /\ Waiting(c) = {o \in Op : ops[o].conn = c /\ o \in Range(cmds)} \cup driver.parked[c]
  <2>1. /\ driver.runs /\ \A c \in Conn : c \in driver.surfaced <=> phase[c] = "open"
        /\ \A c \in Conn : driver.parked[c] # {} => c \in driver.surfaced
    BY <1>1, Drained
  <2>2. driver.surfaced = OpenConns
    BY <1>1, <2>1, Parts DEF OpenConns
  <2>3. ASSUME NEW c \in Conn
        PROVE  Waiting(c) = {o \in Op : ops[o].conn = c /\ o \in Range(cmds)} \cup driver.parked[c]
    <3>1. driver.parked[c] \subseteq Op
      BY <1>1, Parts
    <3> QED BY <1>1, <2>1, <3>1 DEF Waiting, IInv, Operations
  <2> QED BY <2>1, <2>2, <2>3
<1>2. IInv => BooksMatchCore
  BY <1>1 DEF BooksMatchCore
<1> QED BY <1>2, Invariance, PTL

\* A connection has one place in the order, so the one that connected before ranks before.
LEMMA PrecRanks ==
  ASSUME IInv, NEW x, NEW y, <<x, y>> \in Prec
  PROVE  (CHOOSE i \in DOMAIN order : order[i] = x) < (CHOOSE i \in DOMAIN order : order[i] = y)
<1> DEFINE n == Len(order)
<1>1. n \in Nat /\ DOMAIN order = 1..n
  BY Parts
<1>2. PICK i \in 1..n, j \in 1..n : i < j /\ order[i] = x /\ order[j] = y
  BY DEF Prec
<1>3. \A a, b \in 1..n : order[a] = order[b] => a = b
  BY DEF IInv, Connections
<1> HIDE DEF n
<1>4. (CHOOSE a \in 1..n : order[a] = x) = i
  BY <1>2, <1>3
<1>5. (CHOOSE a \in 1..n : order[a] = y) = j
  BY <1>2, <1>3
<1> QED BY <1>1, <1>2, <1>4, <1>5

\* accept is offered every connection once, in the order in which the core connected
\* them, whatever accept and the peers do meanwhile; and while the driver sleeps no open
\* connection is missing (surface, on_lost, the reserve arm of run).
THEOREM Offered == Spec => []OfferedOnceInOrder
<1> DEFINE pending == driver.pending_accept
           offered == taken \o accepted \o pending
           Rank(c) == CHOOSE i \in DOMAIN order : order[i] = c
<1>1. ASSUME IInv
      PROVE  /\ \A i \in DOMAIN offered : offered[i] \in Range(order)
             /\ \A i, j \in DOMAIN offered : i < j => Rank(offered[i]) < Rank(offered[j])
             /\ Selecting /\ server => OpenConns \subseteq Range(offered)
  <2> DEFINE front == taken \o accepted
  <2>1. Line /\ taken \in Seq(Conn) /\ accepted \in Seq(Conn) /\ pending \in Seq(Conn)
    BY <1>1, Parts DEF IInv
  <2>2. front \in Seq(Conn) /\ Range(front) = Range(taken) \cup Range(accepted) /\ Ascending(front, Prec)
    BY <2>1, ConcatAscending DEF Line
  <2>3. offered = front \o pending
    OBVIOUS
  <2> HIDE DEF front, offered, pending
  <2>4. Across(front, pending, Prec) /\ Ascending(pending, Prec)
    BY <2>1, <2>2 DEF Line, Across, pending
  <2>5. /\ offered \in Seq(Conn) /\ Range(offered) = Range(front) \cup Range(pending)
        /\ Ascending(offered, Prec)
    BY <2>1, <2>2, <2>3, <2>4, ConcatAscending
  <2>6. DOMAIN offered = 1..Len(offered) /\ \A i \in 1..Len(offered) : offered[i] \in Range(offered)
    BY <2>5, RangeOf
  <2>7. Range(offered) \subseteq Range(order)
    BY <1>1, <2>2, <2>5, LineConnected DEF pending
  <2>8. ASSUME NEW i \in 1..Len(offered), NEW j \in 1..Len(offered), i < j
        PROVE  Rank(offered[i]) < Rank(offered[j])
    <3>1. <<offered[i], offered[j]>> \in Prec
      BY <2>5, <2>8 DEF Ascending
    <3> QED BY <1>1, <3>1, PrecRanks
  <2>9. ASSUME Selecting, server PROVE OpenConns \subseteq Range(offered)
    <3>1. driver.runs /\ \A c \in Conn : c \in driver.surfaced <=> phase[c] = "open"
      BY <1>1, <2>9, Drained
    <3>2. driver.surfaced \subseteq Range(offered)
      BY <1>1, <2>2, <2>5, <2>9, <3>1 DEF IInv, Complete, pending
    <3> QED BY <3>1, <3>2 DEF OpenConns
  <2> HIDE DEF Rank
  <2> QED BY <2>6, <2>7, <2>8, <2>9
<1>2. IInv => OfferedOnceInOrder
  BY <1>1 DEF OfferedOnceInOrder
<1> QED BY <1>2, Invariance, PTL
=============================================================================
