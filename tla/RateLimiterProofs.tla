------------------------- MODULE RateLimiterProofs -------------------------
(***************************************************************************)
(* The rate limiter for every set of sources, every capacity and refill    *)
(* rate, every max_tracked, and any order of packets and clock readings.   *)
(***************************************************************************)
EXTENDS RateLimiterRecency, Recursion, FiniteSetTheorems, SequenceTheorems, TLAPS

-----------------------------------------------------------------------------
(* Token buckets                                                           *)

\* A refill never overfills, and at worst adds refill times the time it moves
\* last_update forward.
LEMMA RefilledFacts ==
  ASSUME NEW b \in Bucket, NEW capacity \in Nat, NEW refill \in Nat, NEW now \in Instants,
         b.tokens <= capacity
  PROVE  LET r == Refilled(b, capacity, refill, now)
         IN  /\ r \in Bucket
             /\ r.tokens <= capacity
             /\ r.last_update \in Nat
             /\ b.last_update = Never => r.tokens = b.tokens
             /\ b.last_update # Never =>
                  /\ r.last_update >= b.last_update
                  /\ r.tokens <= b.tokens + refill * (r.last_update - b.last_update)
<1> DEFINE r == Refilled(b, capacity, refill, now)
           last == b.last_update
<1>0. now \in Nat /\ b.tokens \in Nat /\ last \in Instants \cup {Never}
  BY InstantAssumption DEF Bucket
<1>1. CASE last = Never
  <2>1. r = [b EXCEPT !.last_update = now]
    BY <1>1 DEF Refilled
  <2> QED BY <1>0, <1>1, <2>1 DEF Bucket
<1>2. CASE last # Never /\ now > last
  <2>1. r = [tokens |-> Lesser(b.tokens + (now - last) * refill, capacity), last_update |-> now]
    BY <1>2 DEF Refilled
  <2>2. last \in Nat
    BY <1>0, <1>2, InstantAssumption
  <2>3. (now - last) \in Nat /\ (now - last) * refill \in Nat
    BY <1>0, <1>2, <2>2
  <2>4. (now - last) * refill = refill * (now - last)
    BY <1>0, <2>2
  <2>5. /\ Lesser(b.tokens + (now - last) * refill, capacity) \in Nat
        /\ Lesser(b.tokens + (now - last) * refill, capacity) <= capacity
        /\ Lesser(b.tokens + (now - last) * refill, capacity) <= b.tokens + refill * (now - last)
    BY <1>0, <2>3, <2>4 DEF Lesser
  <2> HIDE DEF last
  <2> QED BY <1>0, <1>2, <2>1, <2>2, <2>5 DEF Bucket, last
<1>3. CASE last # Never /\ ~(now > last)
  <2>1. r = b
    BY <1>3 DEF Refilled
  <2>2. last \in Nat
    BY <1>0, <1>3, InstantAssumption
  <2>3. refill * (last - last) = 0
    BY <2>2
  <2> QED BY <1>0, <1>3, <2>1, <2>2, <2>3
<1> QED BY <1>1, <1>2, <1>3

LEMMA TakeTokenFacts ==
  ASSUME NEW b \in Bucket
  PROVE  /\ TakeToken(b) \in Bucket
         /\ TakeToken(b).last_update = b.last_update
         /\ TakeToken(b).tokens <= b.tokens
         /\ HasToken(b) => TakeToken(b).tokens = b.tokens - TokenUnit
         /\ ~HasToken(b) => TakeToken(b) = b
BY UnitAssumption DEF TakeToken, HasToken, Bucket

LEMMA NewBucketType ==
  ASSUME NEW capacity \in Nat
  PROVE  NewBucket(capacity) \in Bucket
BY DEF NewBucket, Bucket

-----------------------------------------------------------------------------
(* The linked list                                                         *)

LEMMA DetachType ==
  ASSUME NEW l \in Lru, NEW s \in Source
  PROVE  Detach(l, s) \in Lru /\ Detach(l, s).tracked = l.tracked
BY DEF Detach, Lru, Link

LEMMA AttachType ==
  ASSUME NEW l \in Lru, NEW s \in Source
  PROVE  AttachNewest(l, s) \in Lru /\ AttachNewest(l, s).tracked = l.tracked
BY DEF AttachNewest, Lru, Link

\* q lists the n tracked sources from the oldest to the newest, and the links
\* say the same. The local facts of Linked are not inductive by themselves: they
\* do not exclude entries that form a ring beside the list.
Chain(l, n, q) ==
  /\ q \in [1..n -> Source]
  /\ \A i, j \in 1..n : q[i] = q[j] => i = j
  /\ l.tracked = {q[i] : i \in 1..n}
  /\ l.head = IF n = 0 THEN NoSource ELSE q[1]
  /\ l.tail = IF n = 0 THEN NoSource ELSE q[n]
  /\ \A i \in 1..n : l.older[q[i]] = IF i = 1 THEN NoSource ELSE q[i - 1]
  /\ \A i \in 1..n : l.newer[q[i]] = IF i = n THEN NoSource ELSE q[i + 1]
  /\ \A x \in Source \ l.tracked : l.older[x] = NoSource /\ l.newer[x] = NoSource

Chained(l) == \E n \in Nat : \E q \in [1..n -> Source] : Chain(l, n, q)

LEMMA ChainedIsLinked ==
  ASSUME NEW l \in Lru, Chained(l)
  PROVE  Linked(l)
<1>0. PICK n \in Nat : \E q \in [1..n -> Source] : Chain(l, n, q)
  BY DEF Chained
<1>1. PICK q \in [1..n -> Source] : Chain(l, n, q)
  BY <1>0
<1>2. ASSUME NEW s \in l.tracked
      PROVE  /\ l.older[s] = NoSource <=> s = l.head
             /\ l.newer[s] = NoSource <=> s = l.tail
             /\ l.older[s] # NoSource => l.older[s] \in l.tracked /\ l.newer[l.older[s]] = s
             /\ l.newer[s] # NoSource => l.newer[s] \in l.tracked /\ l.older[l.newer[s]] = s
  <2>1. PICK i \in 1..n : s = q[i]
    BY <1>1 DEF Chain
  <2>2. n # 0 /\ l.head = q[1] /\ l.tail = q[n] /\ 1 \in 1..n /\ n \in 1..n
    BY <1>1, <2>1 DEF Chain
  <2>3. l.older[s] = IF i = 1 THEN NoSource ELSE q[i - 1]
    BY <1>1, <2>1 DEF Chain
  <2>4. l.newer[s] = IF i = n THEN NoSource ELSE q[i + 1]
    BY <1>1, <2>1 DEF Chain
  <2>5. \A j \in 1..n : q[j] \in Source /\ q[j] # NoSource /\ q[j] \in l.tracked
    BY <1>1, SourceAssumption DEF Chain
  <2>6. i # 1 => i - 1 \in 1..n
    BY <2>1
  <2>7. i # n => i + 1 \in 1..n
    BY <2>1
  <2>8. l.older[s] = NoSource <=> s = l.head
    BY <1>1, <2>1, <2>2, <2>3, <2>5, <2>6 DEF Chain
  <2>9. l.newer[s] = NoSource <=> s = l.tail
    BY <1>1, <2>1, <2>2, <2>4, <2>5, <2>7 DEF Chain
  <2>10. l.older[s] # NoSource => l.older[s] \in l.tracked /\ l.newer[l.older[s]] = s
    BY <1>1, <2>1, <2>3, <2>5, <2>6 DEF Chain
  <2>11. l.newer[s] # NoSource => l.newer[s] \in l.tracked /\ l.older[l.newer[s]] = s
    BY <1>1, <2>1, <2>4, <2>5, <2>7 DEF Chain
  <2> QED BY <2>8, <2>9, <2>10, <2>11
<1>3. \A s \in Source \ l.tracked : l.older[s] = NoSource /\ l.newer[s] = NoSource
  BY <1>1 DEF Chain
<1>4. n = 0 => l.tracked = {} /\ l.head = NoSource /\ l.tail = NoSource
  BY <1>1 DEF Chain
<1>5. n # 0 => l.head \in l.tracked /\ l.tail \in l.tracked /\ l.head # NoSource /\ l.tail # NoSource
  <2>1. n # 0 => 1 \in 1..n /\ n \in 1..n
    OBVIOUS
  <2> QED BY <1>1, <2>1, SourceAssumption DEF Chain
<1> QED BY <1>2, <1>3, <1>4, <1>5 DEF Linked

\* The n entries of q without the k-th.
Shorter(q, n, k) == [i \in 1..(n - 1) |-> IF i < k THEN q[i] ELSE q[i + 1]]

\* The n entries of q and then s.
Longer(q, n, s) == [i \in 1..(n + 1) |-> IF i = n + 1 THEN s ELSE q[i]]

\* Unlinking and removing the entry at position k closes the gap.
LEMMA RemoveChain ==
  ASSUME NEW l \in Lru, NEW n \in Nat, NEW q, Chain(l, n, q), NEW k \in 1..n, NEW s, s = q[k]
  PROVE  Chain(Remove(Detach(l, s), s), n - 1, Shorter(q, n, k))
<1>1. Chain(l, n, q) /\ q \in [1..n -> Source]
  BY DEF Chain
<1>2. k \in 1..n /\ s = q[k]
  OBVIOUS
<1> DEFINE r == Remove(Detach(l, s), s)
           o == l.older[s]
           w == l.newer[s]
           m == n - 1
           p == [i \in 1..m |-> IF i < k THEN q[i] ELSE q[i + 1]]
<1>3. /\ r.tracked = l.tracked \ {s}
      /\ r.head = IF o = NoSource THEN w ELSE l.head
      /\ r.tail = IF w = NoSource THEN o ELSE l.tail
      /\ r.older = [x \in Source |-> IF x = s THEN NoSource ELSE IF x = w THEN o ELSE l.older[x]]
      /\ r.newer = [x \in Source |-> IF x = s THEN NoSource ELSE IF x = o THEN w ELSE l.newer[x]]
  BY DEF Remove, Detach, Lru
<1>4. /\ o = IF k = 1 THEN NoSource ELSE q[k - 1]
      /\ w = IF k = n THEN NoSource ELSE q[k + 1]
  BY <1>1, <1>2 DEF Chain
<1>5. n # 0 /\ m \in Nat /\ l.head = q[1] /\ l.tail = q[n]
  BY <1>1, <1>2 DEF Chain
<1>6. \A i \in 1..n : q[i] \in Source /\ q[i] # NoSource
  BY <1>1, SourceAssumption DEF Chain
<1>7. \A i, j \in 1..n : q[i] = q[j] => i = j
  BY <1>1 DEF Chain
<1>8. \A i \in 1..m : /\ i < k => i \in 1..n /\ p[i] = q[i]
                      /\ ~(i < k) => i + 1 \in 1..n /\ p[i] = q[i + 1]
  BY <1>2, <1>5
<1> HIDE DEF r, p, m
<1>9. p \in [1..m -> Source]
  BY <1>2, <1>5, <1>6 DEF p, m
<1>10. \A i, j \in 1..m : p[i] = p[j] => i = j
  BY <1>2, <1>5, <1>7, <1>8 DEF m
<1>11. r.tracked = {p[i] : i \in 1..m}
  <2>1. ASSUME NEW x \in r.tracked PROVE \E i \in 1..m : x = p[i]
    <3>1. PICK j \in 1..n : x = q[j] /\ j # k
      BY <1>1, <1>2, <1>3, <2>1 DEF Chain
    <3>2. CASE j < k
      <4>1. j \in 1..m /\ p[j] = q[j]
        BY <1>2, <1>5, <1>8, <3>1, <3>2 DEF m
      <4> QED BY <3>1, <4>1
    <3>3. CASE j > k
      <4>1. j - 1 \in 1..m /\ ~(j - 1 < k) /\ (j - 1) + 1 = j
        BY <1>2, <1>5, <3>1, <3>3 DEF m
      <4>2. p[j - 1] = q[j]
        BY <1>8, <4>1
      <4> QED BY <3>1, <4>1, <4>2
    <3> QED BY <3>1, <3>2, <3>3
  <2>2. ASSUME NEW i \in 1..m PROVE p[i] \in r.tracked
    <3>1. PICK j \in 1..n : p[i] = q[j] /\ j # k
      BY <1>2, <1>5, <1>8 DEF m
    <3>2. q[j] \in l.tracked /\ q[j] # s
      BY <1>1, <1>2, <1>7, <3>1 DEF Chain
    <3> QED BY <1>3, <3>1, <3>2
  <2> QED BY <2>1, <2>2
<1>12. r.head = IF m = 0 THEN NoSource ELSE p[1]
  BY <1>2, <1>3, <1>4, <1>5, <1>6, <1>8 DEF m
<1>13. r.tail = IF m = 0 THEN NoSource ELSE p[m]
  BY <1>2, <1>3, <1>4, <1>5, <1>6, <1>8 DEF m
<1>14. ASSUME NEW i \in 1..m
       PROVE  r.older[p[i]] = IF i = 1 THEN NoSource ELSE p[i - 1]
  <2>1. CASE i < k
    <3>1. p[i] = q[i] /\ i \in 1..n /\ i # k
      BY <1>2, <1>8, <2>1
    <3>2. q[i] # s /\ q[i] # w
      BY <1>2, <1>4, <1>6, <1>7, <2>1, <3>1
    <3>3. r.older[p[i]] = l.older[q[i]]
      BY <1>3, <1>6, <3>1, <3>2
    <3>4. i # 1 => p[i - 1] = q[i - 1]
      BY <1>2, <1>5, <1>8, <2>1 DEF m
    <3> QED BY <1>1, <3>1, <3>3, <3>4 DEF Chain
  <2>2. CASE i = k
    <3>1. p[i] = q[k + 1] /\ k + 1 \in 1..n /\ k # n
      BY <1>2, <1>5, <1>8, <2>2 DEF m
    <3>2. q[k + 1] # s /\ q[k + 1] = w
      BY <1>2, <1>4, <1>7, <3>1
    <3>3. r.older[p[i]] = o
      BY <1>3, <1>6, <3>1, <3>2
    <3>4. i # 1 => p[i - 1] = q[k - 1]
      BY <1>2, <1>5, <1>8, <2>2 DEF m
    <3> QED BY <1>4, <2>2, <3>3, <3>4
  <2>3. CASE i > k
    <3>1. p[i] = q[i + 1] /\ i + 1 \in 1..n /\ i + 1 # k /\ i + 1 # k + 1
      BY <1>2, <1>5, <1>8, <2>3 DEF m
    <3>2. q[i + 1] # s /\ q[i + 1] # w
      BY <1>2, <1>4, <1>6, <1>7, <3>1
    <3>3. r.older[p[i]] = l.older[q[i + 1]]
      BY <1>3, <1>6, <3>1, <3>2
    <3>4. l.older[q[i + 1]] = q[i]
      BY <1>1, <1>2, <2>3, <3>1 DEF Chain
    <3>5. i - 1 \in 1..m /\ ~(i - 1 < k) /\ (i - 1) + 1 = i
      BY <1>2, <1>5, <2>3
    <3>6. p[i - 1] = q[i] /\ i # 1
      BY <1>2, <1>8, <2>3, <3>5
    <3> QED BY <3>3, <3>4, <3>6
  <2> QED BY <1>2, <1>5, <2>1, <2>2, <2>3
<1>15. ASSUME NEW i \in 1..m
       PROVE  r.newer[p[i]] = IF i = m THEN NoSource ELSE p[i + 1]
  <2>1. CASE i < k - 1
    <3>1. p[i] = q[i] /\ i \in 1..n /\ i # k /\ i # k - 1 /\ i # n
      BY <1>2, <1>8, <2>1
    <3>2. q[i] # s /\ q[i] # o
      <4>1. k # 1 => k - 1 \in 1..n
        BY <1>2
      <4> QED BY <1>2, <1>4, <1>6, <1>7, <3>1, <4>1
    <3>3. r.newer[p[i]] = l.newer[q[i]]
      BY <1>3, <1>6, <3>1, <3>2
    <3>4. l.newer[q[i]] = q[i + 1]
      BY <1>1, <3>1 DEF Chain
    <3>5. i # m /\ i + 1 \in 1..m /\ i + 1 < k
      BY <1>2, <1>5, <2>1 DEF m
    <3> QED BY <1>8, <3>3, <3>4, <3>5
  <2>2. CASE i = k - 1
    <3>1. p[i] = q[k - 1] /\ k - 1 \in 1..n /\ k # 1
      BY <1>2, <1>8, <2>2
    <3>2. q[k - 1] # s /\ q[k - 1] = o
      BY <1>2, <1>4, <1>7, <3>1
    <3>3. r.newer[p[i]] = w
      BY <1>3, <1>6, <3>1, <3>2
    <3>4. i = m <=> k = n
      BY <1>2, <1>5, <2>2 DEF m
    <3>5. i # m => p[i + 1] = q[k + 1]
      <4>1. i # m => i + 1 \in 1..m /\ ~(i + 1 < k) /\ (i + 1) + 1 = k + 1
        BY <1>2, <1>5, <2>2
      <4> QED BY <1>8, <4>1
    <3> QED BY <1>4, <3>3, <3>4, <3>5
  <2>3. CASE i >= k
    <3>1. p[i] = q[i + 1] /\ i + 1 \in 1..n /\ i + 1 # k /\ i + 1 # k - 1
      BY <1>2, <1>5, <1>8, <2>3 DEF m
    <3>2. q[i + 1] # s /\ q[i + 1] # o
      <4>1. k # 1 => k - 1 \in 1..n
        BY <1>2
      <4> QED BY <1>2, <1>4, <1>6, <1>7, <3>1, <4>1
    <3>3. r.newer[p[i]] = l.newer[q[i + 1]]
      BY <1>3, <1>6, <3>1, <3>2
    <3>4. l.newer[q[i + 1]] = IF i + 1 = n THEN NoSource ELSE q[(i + 1) + 1]
      BY <1>1, <3>1 DEF Chain
    <3>5. i + 1 = n <=> i = m
      BY <1>5 DEF m
    <3>6. i # m => i + 1 \in 1..m /\ ~(i + 1 < k)
      BY <1>2, <1>5, <2>3
    <3> QED BY <1>8, <3>3, <3>4, <3>5, <3>6
  <2> QED BY <1>2, <1>5, <2>1, <2>2, <2>3
<1>16. \A x \in Source \ r.tracked : r.older[x] = NoSource /\ r.newer[x] = NoSource
  <2> SUFFICES ASSUME NEW x \in Source \ r.tracked, x # s
               PROVE  r.older[x] = NoSource /\ r.newer[x] = NoSource
    BY <1>3
  <2>1. x \notin l.tracked
    BY <1>3
  <2>2. x # w /\ x # o
    <3>1. k # 1 => k - 1 \in 1..n
      BY <1>2
    <3>2. k # n => k + 1 \in 1..n
      BY <1>2
    <3> QED BY <1>1, <1>4, <2>1, <3>1, <3>2, SourceAssumption DEF Chain
  <2> QED BY <1>1, <1>3, <2>1, <2>2 DEF Chain
<1>17. Chain(r, m, p)
  BY <1>9, <1>10, <1>11, <1>12, <1>13, <1>14, <1>15, <1>16 DEF Chain
<1> QED BY <1>17 DEF Shorter, r, p, m

LEMMA RemoveChained ==
  ASSUME NEW l \in Lru, NEW s \in l.tracked, Chained(l)
  PROVE  Chained(Remove(Detach(l, s), s))
<1>0. PICK n \in Nat : \E q \in [1..n -> Source] : Chain(l, n, q)
  BY DEF Chained
<1>1. PICK q \in [1..n -> Source] : Chain(l, n, q)
  BY <1>0
<1>2. PICK k \in 1..n : s = q[k]
  BY <1>1 DEF Chain
<1>3. Chain(Remove(Detach(l, s), s), n - 1, Shorter(q, n, k))
  BY <1>1, <1>2, RemoveChain
<1>4. n - 1 \in Nat /\ Shorter(q, n, k) \in [1..(n - 1) -> Source]
  BY <1>2, <1>3 DEF Chain
<1> QED BY <1>3, <1>4 DEF Chained

\* Inserting a new entry and attaching it makes it the last of the chain.
LEMMA InsertChain ==
  ASSUME NEW l \in Lru, NEW s \in Source \ l.tracked, NEW n \in Nat, NEW q, Chain(l, n, q)
  PROVE  Chain(AttachNewest(Insert(l, s), s), n + 1, Longer(q, n, s))
<1>1. Chain(l, n, q) /\ q \in [1..n -> Source]
  BY DEF Chain
<1> DEFINE r == AttachNewest(Insert(l, s), s)
           m == n + 1
           p == [i \in 1..m |-> IF i = m THEN s ELSE q[i]]
<1>2. /\ r.tracked = l.tracked \cup {s}
      /\ r.head = IF l.tail = NoSource THEN s ELSE l.head
      /\ r.tail = s
      /\ r.older = [l.older EXCEPT ![s] = l.tail]
      /\ r.newer = [x \in Source |-> IF x = s THEN NoSource ELSE IF x = l.tail THEN s ELSE l.newer[x]]
  BY DEF AttachNewest, Insert, Lru
<1>3. l.older \in [Source -> Link]
  BY DEF Lru
<1>4. \A i \in 1..n : q[i] \in Source /\ q[i] # NoSource /\ q[i] # s /\ q[i] \in l.tracked
  BY <1>1, SourceAssumption DEF Chain
<1>5. \A i \in 1..m : /\ i = m => p[i] = s
                      /\ i # m => i \in 1..n /\ p[i] = q[i]
  OBVIOUS
<1>6. m \in Nat /\ m \in 1..m /\ m # 0
  OBVIOUS
<1>7. l.tail = NoSource <=> n = 0
  <2>1. n # 0 => n \in 1..n
    OBVIOUS
  <2> QED BY <1>1, <1>4, <2>1 DEF Chain
<1>8. n # 0 => l.tail = q[n] /\ l.head = q[1] /\ n \in 1..n /\ 1 \in 1..n
  BY <1>1 DEF Chain
<1> HIDE DEF r, p
<1>9. p \in [1..m -> Source]
  BY <1>1 DEF p
<1>10. \A i, j \in 1..m : p[i] = p[j] => i = j
  BY <1>1, <1>4, <1>5 DEF Chain
<1>11. r.tracked = {p[i] : i \in 1..m}
  <2>1. ASSUME NEW x \in r.tracked PROVE \E i \in 1..m : x = p[i]
    <3>1. CASE x = s
      BY <1>5, <1>6, <3>1
    <3>2. CASE x \in l.tracked
      <4>1. PICK i \in 1..n : x = q[i]
        BY <1>1, <3>2 DEF Chain
      <4>2. i \in 1..m /\ i # m
        OBVIOUS
      <4> QED BY <1>5, <4>1, <4>2
    <3> QED BY <1>2, <2>1, <3>1, <3>2
  <2>2. ASSUME NEW i \in 1..m PROVE p[i] \in r.tracked
    BY <1>2, <1>4, <1>5
  <2> QED BY <2>1, <2>2
<1>12. r.head = IF m = 0 THEN NoSource ELSE p[1]
  BY <1>2, <1>5, <1>6, <1>7, <1>8
<1>13. r.tail = IF m = 0 THEN NoSource ELSE p[m]
  BY <1>2, <1>5, <1>6
<1>14. ASSUME NEW i \in 1..m
       PROVE  r.older[p[i]] = IF i = 1 THEN NoSource ELSE p[i - 1]
  <2>1. CASE i = m
    <3>1. r.older[p[i]] = l.tail
      BY <1>2, <1>3, <1>5, <2>1
    <3>2. i # 1 => p[i - 1] = q[n]
      BY <1>5, <2>1
    <3> QED BY <1>7, <1>8, <2>1, <3>1, <3>2
  <2>2. CASE i # m
    <3>1. i \in 1..n /\ p[i] = q[i] /\ r.older[p[i]] = l.older[q[i]]
      BY <1>2, <1>3, <1>4, <1>5, <2>2
    <3>2. i # 1 => p[i - 1] = q[i - 1]
      BY <1>5, <2>2
    <3> QED BY <1>1, <3>1, <3>2 DEF Chain
  <2> QED BY <2>1, <2>2
<1>15. ASSUME NEW i \in 1..m
       PROVE  r.newer[p[i]] = IF i = m THEN NoSource ELSE p[i + 1]
  <2>1. CASE i = m
    BY <1>2, <1>5, <2>1
  <2>2. CASE i = n
    <3>1. n # 0 /\ p[i] = l.tail /\ p[i] \in Source /\ p[i] # s
      BY <1>4, <1>5, <1>8, <2>2
    <3>2. r.newer[p[i]] = s /\ p[i + 1] = s
      BY <1>2, <1>5, <1>6, <2>2, <3>1
    <3> QED BY <2>2, <3>2
  <2>3. CASE i # m /\ i # n
    <3>1. i \in 1..n /\ i + 1 \in 1..n /\ p[i] = q[i] /\ p[i + 1] = q[i + 1] /\ n # 0
      BY <1>5, <2>3
    <3>2. q[i] # l.tail
      BY <1>1, <1>8, <2>3, <3>1 DEF Chain
    <3>3. r.newer[p[i]] = l.newer[q[i]]
      BY <1>2, <1>4, <3>1, <3>2
    <3> QED BY <1>1, <2>3, <3>1, <3>3 DEF Chain
  <2> QED BY <2>1, <2>2, <2>3
<1>16. \A x \in Source \ r.tracked : r.older[x] = NoSource /\ r.newer[x] = NoSource
  <2>1. l.tail # NoSource => l.tail \in l.tracked
    BY <1>4, <1>7, <1>8
  <2> QED BY <1>1, <1>2, <1>3, <2>1, SourceAssumption DEF Chain
<1>17. Chain(r, m, p)
  BY <1>9, <1>10, <1>11, <1>12, <1>13, <1>14, <1>15, <1>16 DEF Chain
<1> QED BY <1>17 DEF Longer, r, p

LEMMA InsertChained ==
  ASSUME NEW l \in Lru, NEW s \in Source \ l.tracked, Chained(l)
  PROVE  Chained(AttachNewest(Insert(l, s), s))
<1>0. PICK n \in Nat : \E q \in [1..n -> Source] : Chain(l, n, q)
  BY DEF Chained
<1>1. PICK q \in [1..n -> Source] : Chain(l, n, q)
  BY <1>0
<1>2. Chain(AttachNewest(Insert(l, s), s), n + 1, Longer(q, n, s))
  BY <1>1, InsertChain
<1>3. n + 1 \in Nat /\ Longer(q, n, s) \in [1..(n + 1) -> Source]
  BY <1>2 DEF Chain
<1> QED BY <1>2, <1>3 DEF Chained

\* A hit is a removal followed by an insertion of the same entry.
LEMMA HitIsReinsertion ==
  ASSUME NEW l \in Lru, NEW s \in l.tracked
  PROVE  AttachNewest(Detach(l, s), s)
           = AttachNewest(Insert(Remove(Detach(l, s), s), s), s)
<1>1. Detach(l, s) \in Lru /\ Detach(l, s).tracked = l.tracked
  BY DetachType DEF Lru
<1> DEFINE d == Detach(l, s)
<1> HIDE DEF d
<1>2. Insert(Remove(d, s), s) = [d EXCEPT !.tracked = (d.tracked \ {s}) \cup {s}]
  BY <1>1 DEF Insert, Remove, Lru, d
<1>3. (d.tracked \ {s}) \cup {s} = d.tracked
  BY <1>1 DEF d
<1>4. [d EXCEPT !.tracked = d.tracked] = d
  BY <1>1 DEF Lru, d
<1> QED BY <1>2, <1>3, <1>4 DEF d

\* The list with room for a new source: one entry is evicted if the map is full.
Room(l, s) == IF Evicted(l, s) # {} THEN Remove(Detach(l, l.head), l.head) ELSE l

LEMMA TouchCases ==
  ASSUME NEW l \in Lru, NEW s \in Source
  PROVE  /\ s \in l.tracked => Touch(l, s) = AttachNewest(Insert(Remove(Detach(l, s), s), s), s)
         /\ s \notin l.tracked => Touch(l, s) = AttachNewest(Insert(Room(l, s), s), s)
BY HitIsReinsertion DEF Touch, Room

LEMMA RemoveType ==
  ASSUME NEW l \in Lru, NEW s \in Source
  PROVE  /\ Remove(Detach(l, s), s) \in Lru
         /\ Remove(Detach(l, s), s).tracked = l.tracked \ {s}
         /\ AttachNewest(Insert(l, s), s) \in Lru
         /\ AttachNewest(Insert(l, s), s).tracked = l.tracked \cup {s}
<1>1. Detach(l, s) \in Lru /\ Detach(l, s).tracked = l.tracked
  BY DetachType
<1>2. Remove(Detach(l, s), s) \in Lru /\ Remove(Detach(l, s), s).tracked = l.tracked \ {s}
  BY <1>1 DEF Remove, Lru
<1>3. Insert(l, s) \in Lru /\ Insert(l, s).tracked = l.tracked \cup {s}
  BY DEF Insert, Lru
<1> QED BY <1>2, <1>3, AttachType

\* What a touch does to the map's key set and to the list.
LEMMA TouchFacts ==
  ASSUME NEW l \in Lru, NEW s \in Source, Chained(l)
  PROVE  /\ Touch(l, s) \in Lru
         /\ Touch(l, s).tracked = (l.tracked \ Evicted(l, s)) \cup {s}
         /\ Chained(Touch(l, s))
         /\ Evicted(l, s) \subseteq l.tracked \ {s}
<1>1. Linked(l)
  BY ChainedIsLinked
<1>2. CASE s \in l.tracked
  <2> DEFINE r == Remove(Detach(l, s), s)
  <2>1. r \in Lru /\ r.tracked = l.tracked \ {s} /\ Chained(r)
    BY <1>2, RemoveType, RemoveChained
  <2>2. Touch(l, s) = AttachNewest(Insert(r, s), s)
    BY <1>2, TouchCases
  <2> HIDE DEF r
  <2>3. Touch(l, s) \in Lru /\ Touch(l, s).tracked = r.tracked \cup {s}
    BY <2>1, <2>2, RemoveType
  <2>4. Chained(Touch(l, s))
    BY <2>1, <2>2, InsertChained
  <2> QED BY <1>2, <2>1, <2>3, <2>4 DEF Evicted
<1>3. CASE s \notin l.tracked
  <2>1. l.head # NoSource => l.head \in l.tracked
    BY <1>1 DEF Linked
  <2>2. Evicted(l, s) \subseteq l.tracked \ {s}
    BY <1>3, <2>1 DEF Evicted
  <2>3. Room(l, s) \in Lru /\ Room(l, s).tracked = l.tracked \ Evicted(l, s) /\ Chained(Room(l, s))
    <3>1. CASE Evicted(l, s) # {}
      <4>1. Evicted(l, s) = {l.head} /\ l.head \in l.tracked /\ l.head \in Source
        BY <2>1, <3>1 DEF Evicted, Lru
      <4>2. Room(l, s) = Remove(Detach(l, l.head), l.head)
        BY <3>1 DEF Room
      <4> QED BY <4>1, <4>2, RemoveType, RemoveChained
    <3>2. CASE Evicted(l, s) = {}
      BY <3>2 DEF Room
    <3> QED BY <3>1, <3>2
  <2>4. Touch(l, s) = AttachNewest(Insert(Room(l, s), s), s)
    BY <1>3, TouchCases
  <2>5. Touch(l, s) \in Lru /\ Touch(l, s).tracked = Room(l, s).tracked \cup {s}
    BY <2>3, <2>4, RemoveType
  <2>6. Chained(Touch(l, s))
    BY <1>3, <2>3, <2>4, InsertChained
  <2> QED BY <2>2, <2>3, <2>5, <2>6
<1> QED BY <1>2, <1>3

-----------------------------------------------------------------------------
(* The inductive invariant                                                 *)

\* What was let through, plus what is left, is within the budget so far.
GlobalAccount ==
  /\ window.from = Never => window.count = 0
  /\ window.from # Never => global.last_update # Never /\ window.from <= global.last_update
  /\ window.count * TokenUnit + global.tokens <= GlobalCapacity + GlobalRefill * WindowTime

SourceAccount(s) ==
  /\ buckets[s].last_update # Never
  /\ passed[s].since # Never
  /\ passed[s].since <= buckets[s].last_update
  /\ passed[s].count * TokenUnit + buckets[s].tokens
       <= SourceCapacity + SourceRefill * (buckets[s].last_update - passed[s].since)

\* An untracked source has no history.
Forgotten(s) ==
  /\ buckets[s] = NewBucket(SourceCapacity)
  /\ passed[s] = [since |-> Never, count |-> 0]

LimiterInv ==
  /\ TypeOK
  /\ Chained(lru)
  /\ IsFiniteSet(lru.tracked)
  /\ LruBounded
  /\ GlobalAccount
  /\ \A s \in lru.tracked : SourceAccount(s)
  /\ \A s \in Source \ lru.tracked : Forgotten(s)

LEMMA InitLimiterInv == Init => LimiterInv
<1> SUFFICES ASSUME Init PROVE LimiterInv
  OBVIOUS
<1>1. TypeOK
  BY NewBucketType, CapacityAssumption DEF Init, TypeOK, Lru, Link, NewBucket
<1>2. Chained(lru)
  <2> DEFINE q == [i \in 1..0 |-> NoSource]
  <2>1. q \in [1..0 -> Source]
    OBVIOUS
  <2>2. Chain(lru, 0, q)
    BY <2>1 DEF Init, Chain
  <2> QED BY <2>1, <2>2 DEF Chained
<1>3. IsFiniteSet(lru.tracked) /\ LruBounded
  BY FS_EmptySet, TrackedAssumption DEF Init, LruBounded, Greater
<1>4. GlobalAccount
  BY CapacityAssumption, RefillAssumption, UnitAssumption
     DEF Init, GlobalAccount, NewBucket, WindowTime
<1>5. \A s \in Source \ lru.tracked : Forgotten(s)
  BY DEF Init, Forgotten
<1>6. lru.tracked = {}
  BY DEF Init
<1> QED BY <1>1, <1>2, <1>3, <1>4, <1>5, <1>6 DEF LimiterInv

\* A check moves the global bucket by one refill and at most one token.
LEMMA GlobalRefilled ==
  ASSUME TypeOK, NEW now \in Instants
  PROVE  LET g == Refilled(global, GlobalCapacity, GlobalRefill, now)
         IN  /\ g \in Bucket
             /\ g.tokens <= GlobalCapacity
             /\ g.last_update \in Nat
             /\ global.last_update = Never => g.tokens = global.tokens
             /\ global.last_update # Never =>
                  /\ g.last_update >= global.last_update
                  /\ g.tokens <= global.tokens + GlobalRefill * (g.last_update - global.last_update)
BY RefilledFacts, CapacityAssumption, RefillAssumption DEF TypeOK

LEMMA SourceRefilled ==
  ASSUME TypeOK, NEW src \in Source, NEW now \in Instants
  PROVE  LET b == Refilled(buckets[src], SourceCapacity, SourceRefill, now)
         IN  /\ b \in Bucket
             /\ b.tokens <= SourceCapacity
             /\ b.last_update \in Nat
             /\ buckets[src].last_update = Never => b.tokens = buckets[src].tokens
             /\ buckets[src].last_update # Never =>
                  /\ b.last_update >= buckets[src].last_update
                  /\ b.tokens <= buckets[src].tokens
                                   + SourceRefill * (b.last_update - buckets[src].last_update)
<1>1. buckets[src] \in Bucket /\ buckets[src].tokens <= SourceCapacity
  BY DEF TypeOK
<1> QED BY <1>1, RefilledFacts, CapacityAssumption, RefillAssumption

LEMMA Spread ==
  ASSUME NEW r \in Nat, NEW a \in Nat, NEW b \in Nat, NEW c \in Nat
  PROVE  r * (c - a) = r * (c - b) + r * (b - a)
OBVIOUS

LEMMA OneMore ==
  ASSUME NEW n \in Nat, NEW u \in Nat
  PROVE  (n + 1) * u = n * u + u /\ n * u \in Nat
OBVIOUS

LEMMA InstantIsInt ==
  ASSUME NEW t \in Instants \cup {Never}
  PROVE  t \in Int /\ (t # Never => t \in Nat)
BY InstantAssumption DEF Never

LEMMA Product ==
  ASSUME NEW r \in Int, NEW d \in Int
  PROVE  r * d \in Int
OBVIOUS

LEMMA CheckGlobalEmptyInv ==
  ASSUME LimiterInv, NEW now \in Instants, CheckGlobalEmpty(now)
  PROVE  LimiterInv'
<1> DEFINE g == Refilled(global, GlobalCapacity, GlobalRefill, now)
<1>0. TypeOK /\ GlobalAccount
  BY DEF LimiterInv
<1>1. /\ g \in Bucket
      /\ g.tokens <= GlobalCapacity
      /\ g.last_update \in Nat
      /\ global.last_update = Never => g.tokens = global.tokens
      /\ global.last_update # Never =>
           /\ g.last_update >= global.last_update
           /\ g.tokens <= global.tokens + GlobalRefill * (g.last_update - global.last_update)
  BY <1>0, GlobalRefilled
<1>2. global' = g /\ UNCHANGED <<buckets, lru, window, passed>>
  BY DEF CheckGlobalEmpty
<1> HIDE DEF g
<1>3. TypeOK'
  BY <1>0, <1>1, <1>2 DEF TypeOK
<1>4. GlobalAccount'
  <2>0. /\ window.count \in Nat /\ window.from \in Instants \cup {Never} /\ Instants \subseteq Nat
        /\ global.tokens \in Nat /\ g.tokens \in Nat
        /\ global.last_update \in Instants \cup {Never}
    BY <1>0, <1>1, InstantAssumption DEF TypeOK, Bucket
  <2>1. CASE window.from = Never
    BY <1>0, <1>1, <1>2, <2>0, <2>1, CapacityAssumption, RefillAssumption, UnitAssumption
       DEF GlobalAccount, WindowTime
  <2>2. CASE window.from # Never
    <3>1. /\ window.from \in Nat /\ global.last_update \in Nat
          /\ global.last_update # Never /\ window.from <= global.last_update
          /\ g.last_update # Never /\ g.last_update >= global.last_update
      <4>1. global.last_update # Never /\ window.from <= global.last_update
        BY <1>0, <2>2 DEF GlobalAccount
      <4>2. g.last_update # Never
        BY <1>1 DEF Never
      <4> QED BY <1>1, <2>0, <2>2, <4>1, <4>2, InstantIsInt
    <3>2. WindowTime = global.last_update - window.from
      BY <2>2, <3>1 DEF WindowTime
    <3>3. WindowTime' = g.last_update - window.from
      BY <1>2, <2>2, <3>1 DEF WindowTime
    <3>4. GlobalRefill * (g.last_update - window.from)
            = GlobalRefill * (g.last_update - global.last_update)
              + GlobalRefill * (global.last_update - window.from)
      BY <1>1, <3>1, Spread, RefillAssumption
    <3>5. window.count * TokenUnit \in Nat
      BY <2>0, UnitAssumption
    <3>6. window.count * TokenUnit + global.tokens
            <= GlobalCapacity + GlobalRefill * (global.last_update - window.from)
      BY <1>0, <3>2 DEF GlobalAccount
    <3>7. g.tokens <= global.tokens + GlobalRefill * (g.last_update - global.last_update)
      BY <1>1, <3>1
    <3>8. window.count * TokenUnit + g.tokens
            <= GlobalCapacity + GlobalRefill * (g.last_update - window.from)
      BY <1>1, <2>0, <3>1, <3>4, <3>5, <3>6, <3>7, Product, CapacityAssumption, RefillAssumption
    <3> QED BY <1>1, <1>2, <2>2, <3>1, <3>3, <3>8 DEF GlobalAccount
  <2> QED BY <2>1, <2>2
<1> QED BY <1>2, <1>3, <1>4 DEF LimiterInv, LruBounded, SourceAccount, Forgotten

LEMMA OpenWindowInv ==
  ASSUME LimiterInv, OpenWindow
  PROVE  LimiterInv'
<1>0. TypeOK /\ GlobalAccount
  BY DEF LimiterInv
<1>1. window' = [from |-> global.last_update, count |-> 0] /\ UNCHANGED <<global, buckets, lru, passed>>
  BY DEF OpenWindow
<1>2. TypeOK'
  BY <1>0, <1>1 DEF TypeOK, Bucket
<1>3. GlobalAccount'
  <2>1. global.tokens \in Nat /\ global.tokens <= GlobalCapacity
    BY <1>0 DEF TypeOK, Bucket
  <2>2. WindowTime' = 0
    <3>1. CASE global.last_update = Never
      BY <1>1, <3>1 DEF WindowTime
    <3>2. CASE global.last_update # Never
      <4>1. global.last_update \in Nat
        BY <1>0, <3>2, InstantAssumption DEF TypeOK, Bucket
      <4>2. WindowTime' = global.last_update - global.last_update
        BY <1>1, <3>2 DEF WindowTime
      <4> QED BY <4>1, <4>2
    <3> QED BY <3>1, <3>2
  <2>3. global.last_update \in Int
    BY <1>0, InstantIsInt DEF TypeOK, Bucket
  <2>4. window'.count * TokenUnit = 0 /\ GlobalRefill * 0 = 0
    BY <1>1, UnitAssumption, RefillAssumption
  <2> QED BY <1>1, <2>1, <2>2, <2>3, <2>4, CapacityAssumption DEF GlobalAccount
<1> QED BY <1>1, <1>2, <1>3 DEF LimiterInv, LruBounded, SourceAccount, Forgotten

\* The map never outgrows its bound: a full one makes room before it takes a key.
LEMMA TouchBounded ==
  ASSUME NEW l \in Lru, NEW s \in Source, Chained(l), IsFiniteSet(l.tracked),
         Cardinality(l.tracked) <= Greater(MaxTracked, 1)
  PROVE  /\ IsFiniteSet(Touch(l, s).tracked)
         /\ Cardinality(Touch(l, s).tracked) <= Greater(MaxTracked, 1)
<1> DEFINE bound == Greater(MaxTracked, 1)
<1>0. bound \in Nat /\ bound >= 1
  BY TrackedAssumption DEF Greater
<1>1. Touch(l, s).tracked = (l.tracked \ Evicted(l, s)) \cup {s}
  BY TouchFacts
<1>2. Cardinality(l.tracked) \in Nat
  BY FS_CardinalityType
<1>3. CASE s \in l.tracked
  BY <1>1, <1>3 DEF Evicted
<1>4. CASE s \notin l.tracked /\ Evicted(l, s) = {}
  <2>1. Cardinality(l.tracked) < bound
    <3>1. CASE l.head = NoSource
      <4>1. l.tracked = {}
        BY <3>1, ChainedIsLinked DEF Linked
      <4> QED BY <1>0, <4>1, FS_EmptySet
    <3>2. CASE l.head # NoSource
      BY <1>0, <1>2, <1>4, <3>2 DEF Evicted, Full
    <3> QED BY <3>1, <3>2
  <2>2. Touch(l, s).tracked = l.tracked \cup {s}
    BY <1>1, <1>4
  <2>3. IsFiniteSet(l.tracked \cup {s}) /\ Cardinality(l.tracked \cup {s}) = Cardinality(l.tracked) + 1
    BY <1>4, FS_AddElement
  <2> QED BY <1>0, <1>2, <2>1, <2>2, <2>3
<1>5. CASE s \notin l.tracked /\ Evicted(l, s) # {}
  <2>1. Evicted(l, s) = {l.head} /\ l.head \in l.tracked
    BY <1>5, TouchFacts DEF Evicted
  <2> DEFINE rest == l.tracked \ {l.head}
  <2>2. IsFiniteSet(rest) /\ Cardinality(rest) = Cardinality(l.tracked) - 1
    BY <2>1, FS_RemoveElement
  <2>3. s \notin rest /\ Touch(l, s).tracked = rest \cup {s}
    BY <1>1, <1>5, <2>1
  <2> HIDE DEF rest
  <2>4. IsFiniteSet(rest \cup {s}) /\ Cardinality(rest \cup {s}) = Cardinality(rest) + 1
    BY <2>2, <2>3, FS_AddElement
  <2> QED BY <1>0, <1>2, <2>2, <2>3, <2>4
<1> QED BY <1>3, <1>4, <1>5

LEMMA CheckSourceInv ==
  ASSUME LimiterInv, NEW src \in Source, NEW now \in Instants, CheckSource(src, now)
  PROVE  LimiterInv'
<1> DEFINE g == Refilled(global, GlobalCapacity, GlobalRefill, now)
           b == Refilled(buckets[src], SourceCapacity, SourceRefill, now)
           n == IF HasToken(b) THEN 1 ELSE 0
           gone == Evicted(lru, src)
<1>0. /\ TypeOK /\ GlobalAccount /\ Chained(lru) /\ IsFiniteSet(lru.tracked) /\ LruBounded
      /\ \A s \in lru.tracked : SourceAccount(s)
      /\ \A s \in Source \ lru.tracked : Forgotten(s)
  BY DEF LimiterInv
<1>1. /\ g \in Bucket
      /\ g.tokens <= GlobalCapacity
      /\ g.last_update \in Nat
      /\ global.last_update = Never => g.tokens = global.tokens
      /\ global.last_update # Never =>
           /\ g.last_update >= global.last_update
           /\ g.tokens <= global.tokens + GlobalRefill * (g.last_update - global.last_update)
  BY <1>0, GlobalRefilled
<1>2. /\ b \in Bucket
      /\ b.tokens <= SourceCapacity
      /\ b.last_update \in Nat
      /\ buckets[src].last_update = Never => b.tokens = buckets[src].tokens
      /\ buckets[src].last_update # Never =>
           /\ b.last_update >= buckets[src].last_update
           /\ b.tokens <= buckets[src].tokens
                            + SourceRefill * (b.last_update - buckets[src].last_update)
  BY <1>0, SourceRefilled
<1>3. /\ TakeToken(g) \in Bucket
      /\ TakeToken(g).last_update = g.last_update
      /\ TakeToken(g).tokens = g.tokens - TokenUnit
      /\ TakeToken(b) \in Bucket
      /\ TakeToken(b).last_update = b.last_update
      /\ TakeToken(b).tokens <= b.tokens
      /\ TakeToken(b).tokens + n * TokenUnit = b.tokens
  <2>1. HasToken(g)
    BY DEF CheckSource
  <2>2. b.tokens \in Nat /\ g.tokens \in Nat
    BY <1>1, <1>2 DEF Bucket
  <2> HIDE DEF g, b
  <2> QED BY <1>1, <1>2, <2>1, <2>2, TakeTokenFacts, UnitAssumption
<1>4. /\ lru' = Touch(lru, src)
      /\ global' = TakeToken(g)
      /\ buckets' = [s \in Source |-> IF s = src THEN TakeToken(b)
                                      ELSE IF s \in gone THEN NewBucket(SourceCapacity)
                                      ELSE buckets[s]]
      /\ window' = [from |-> IF window.from = Never THEN g.last_update ELSE window.from,
                    count |-> window.count + 1]
      /\ passed' = [s \in Source |->
                      IF s = src
                      THEN [since |-> IF passed[s].since = Never THEN b.last_update
                                      ELSE passed[s].since,
                            count |-> passed[s].count + n]
                      ELSE IF s \in gone THEN [since |-> Never, count |-> 0]
                      ELSE passed[s]]
  BY DEF CheckSource, SourceBuckets
<1>5. lru \in Lru /\ Instants \subseteq Nat /\ n \in Nat
  BY <1>0, InstantAssumption DEF TypeOK
<1>6. /\ lru' \in Lru /\ Chained(lru')
      /\ lru'.tracked = (lru.tracked \ gone) \cup {src}
      /\ gone \subseteq lru.tracked \ {src}
      /\ IsFiniteSet(lru'.tracked) /\ LruBounded'
  BY <1>0, <1>4, <1>5, TouchFacts, TouchBounded DEF LruBounded
<1> HIDE DEF g, b, n, gone
<1>7. TypeOK'
  <2>1. global' \in Bucket /\ global'.tokens <= GlobalCapacity
    BY <1>1, <1>3, <1>4, UnitAssumption, CapacityAssumption DEF Bucket
  <2>2. /\ buckets' \in [Source -> Bucket]
        /\ \A s \in Source : buckets'[s].tokens <= SourceCapacity
    <3>1. TakeToken(b).tokens <= SourceCapacity
      BY <1>2, <1>3, CapacityAssumption DEF Bucket
    <3>2. NewBucket(SourceCapacity) \in Bucket /\ NewBucket(SourceCapacity).tokens <= SourceCapacity
      BY NewBucketType, CapacityAssumption DEF NewBucket
    <3> QED BY <1>0, <1>3, <1>4, <3>1, <3>2 DEF TypeOK
  <2>3. window' \in [from : Instants \cup {Never}, count : Nat]
    BY <1>0, <1>1, <1>4 DEF TypeOK, Bucket
  <2>4. passed' \in [Source -> [since : Instants \cup {Never}, count : Nat]]
    BY <1>0, <1>2, <1>4, <1>5 DEF TypeOK, Bucket
  <2> QED BY <1>6, <2>1, <2>2, <2>3, <2>4 DEF TypeOK
<1>8. GlobalAccount'
  <2>0. /\ window.count \in Nat /\ window.from \in Instants \cup {Never}
        /\ global.tokens \in Nat /\ g.tokens \in Nat /\ global.tokens <= GlobalCapacity
        /\ global.last_update \in Instants \cup {Never}
        /\ global'.last_update = g.last_update /\ global'.tokens = g.tokens - TokenUnit
        /\ window'.count = window.count + 1
        /\ g.last_update # Never
    BY <1>0, <1>1, <1>3, <1>4 DEF TypeOK, Bucket, Never
  <2>1. (window.count + 1) * TokenUnit = window.count * TokenUnit + TokenUnit
        /\ window.count * TokenUnit \in Nat
    BY <2>0, OneMore, UnitAssumption
  <2>2. CASE window.from = Never
    <3>1. window'.from = g.last_update
      BY <1>4, <2>2
    <3>2. WindowTime' = 0
      BY <1>1, <2>0, <3>1 DEF WindowTime
    <3>3. window.count * TokenUnit = 0
      BY <1>0, <2>2, UnitAssumption DEF GlobalAccount
    <3>4. window'.count * TokenUnit + global'.tokens <= GlobalCapacity + GlobalRefill * WindowTime'
      <4>1. window'.count * TokenUnit = TokenUnit
        BY <2>0, <2>1, <3>3, UnitAssumption
      <4>2. GlobalRefill * WindowTime' = 0
        BY <3>2, RefillAssumption
      <4> QED BY <1>1, <2>0, <4>1, <4>2, CapacityAssumption, UnitAssumption
    <3> QED BY <1>1, <2>0, <3>1, <3>4 DEF GlobalAccount
  <2>3. CASE window.from # Never
    <3>0. window'.from = window.from
      BY <1>4, <2>3
    <3>1. /\ window.from \in Nat /\ global.last_update \in Nat
          /\ global.last_update # Never /\ window.from <= global.last_update
          /\ g.last_update >= global.last_update
      BY <1>0, <1>1, <1>5, <2>0, <2>3 DEF GlobalAccount
    <3>2. WindowTime = global.last_update - window.from
      BY <2>3, <3>1 DEF WindowTime
    <3>3. WindowTime' = g.last_update - window.from
      BY <2>0, <2>3, <3>0 DEF WindowTime
    <3>4. GlobalRefill * (g.last_update - window.from)
            = GlobalRefill * (g.last_update - global.last_update)
              + GlobalRefill * (global.last_update - window.from)
      BY <1>1, <3>1, Spread, RefillAssumption
    <3>5. window.count * TokenUnit + global.tokens
            <= GlobalCapacity + GlobalRefill * (global.last_update - window.from)
      BY <1>0, <3>2 DEF GlobalAccount
    <3>6. g.tokens <= global.tokens + GlobalRefill * (g.last_update - global.last_update)
      BY <1>1, <3>1
    <3>7. window.count * TokenUnit + g.tokens
            <= GlobalCapacity + GlobalRefill * (g.last_update - window.from)
      BY <1>1, <2>0, <2>1, <3>1, <3>4, <3>5, <3>6, Product, CapacityAssumption, RefillAssumption
    <3>8. window'.count * TokenUnit + global'.tokens = window.count * TokenUnit + g.tokens
      BY <2>0, <2>1, UnitAssumption
    <3> QED BY <1>1, <2>0, <2>3, <3>0, <3>1, <3>3, <3>7, <3>8 DEF GlobalAccount
  <2> QED BY <2>2, <2>3
<1>9. SourceAccount(src)'
  <2>0. /\ buckets'[src].last_update = b.last_update
        /\ buckets'[src].tokens + n * TokenUnit = b.tokens
        /\ buckets'[src].tokens \in Nat /\ b.tokens \in Nat
        /\ passed'[src].count = passed[src].count + n
        /\ passed[src].count \in Nat
        /\ passed'[src].since = IF passed[src].since = Never THEN b.last_update ELSE passed[src].since
        /\ b.last_update # Never
    BY <1>0, <1>2, <1>3, <1>4 DEF TypeOK, Bucket, Never
  <2>1. /\ (passed[src].count + n) * TokenUnit = passed[src].count * TokenUnit + n * TokenUnit
        /\ passed[src].count * TokenUnit \in Nat /\ n * TokenUnit \in Nat
    BY <1>5, <2>0, UnitAssumption
  <2>2. passed'[src].count * TokenUnit + buckets'[src].tokens = passed[src].count * TokenUnit + b.tokens
    BY <2>0, <2>1
  <2>3. CASE src \notin lru.tracked
    <3>1. passed[src] = [since |-> Never, count |-> 0]
      BY <1>0, <2>3 DEF Forgotten
    <3>2. passed'[src].since = b.last_update /\ passed[src].count * TokenUnit = 0
      BY <2>0, <3>1, UnitAssumption
    <3>3. SourceRefill * (b.last_update - b.last_update) = 0
      BY <1>2, RefillAssumption
    <3> QED BY <1>2, <2>0, <2>2, <3>2, <3>3, CapacityAssumption DEF SourceAccount
  <2>4. CASE src \in lru.tracked
    <3>0. SourceAccount(src)
      BY <1>0, <2>4
    <3>1. /\ passed[src].since \in Nat /\ buckets[src].last_update \in Nat
          /\ passed[src].since # Never /\ buckets[src].last_update # Never
          /\ passed[src].since <= buckets[src].last_update
          /\ buckets[src].tokens \in Nat
      BY <1>0, <1>5, <3>0 DEF SourceAccount, TypeOK, Bucket
    <3>2. /\ b.last_update >= buckets[src].last_update
          /\ b.tokens <= buckets[src].tokens
                           + SourceRefill * (b.last_update - buckets[src].last_update)
      BY <1>2, <3>1
    <3>3. SourceRefill * (b.last_update - passed[src].since)
            = SourceRefill * (b.last_update - buckets[src].last_update)
              + SourceRefill * (buckets[src].last_update - passed[src].since)
      BY <1>2, <3>1, Spread, RefillAssumption
    <3>4. passed[src].count * TokenUnit + buckets[src].tokens
            <= SourceCapacity + SourceRefill * (buckets[src].last_update - passed[src].since)
      BY <3>0 DEF SourceAccount
    <3>5. passed[src].count * TokenUnit + b.tokens
            <= SourceCapacity + SourceRefill * (b.last_update - passed[src].since)
      BY <1>2, <2>0, <2>1, <3>1, <3>2, <3>3, <3>4, Product, CapacityAssumption, RefillAssumption
    <3>6. passed'[src].since = passed[src].since
      BY <2>0, <3>1
    <3> QED BY <1>2, <2>0, <2>2, <3>1, <3>2, <3>5, <3>6 DEF SourceAccount
  <2> QED BY <2>3, <2>4
<1>10. ASSUME NEW s \in lru'.tracked, s # src
       PROVE  SourceAccount(s)'
  <2>1. s \in lru.tracked /\ s \notin gone /\ s \in Source
    BY <1>5, <1>6, <1>10 DEF Lru
  <2>2. buckets'[s] = buckets[s] /\ passed'[s] = passed[s]
    BY <1>4, <1>10, <2>1
  <2> QED BY <1>0, <2>1, <2>2 DEF SourceAccount
<1>11. ASSUME NEW s \in Source \ lru'.tracked
       PROVE  Forgotten(s)'
  <2>1. s # src
    BY <1>6
  <2>2. CASE s \in gone
    BY <1>4, <2>1, <2>2 DEF Forgotten
  <2>3. CASE s \notin gone
    <3>1. s \in Source \ lru.tracked
      BY <1>6, <2>3
    <3>2. buckets'[s] = buckets[s] /\ passed'[s] = passed[s]
      BY <1>4, <2>1, <2>3
    <3> QED BY <1>0, <3>1, <3>2 DEF Forgotten
  <2> QED BY <2>2, <2>3
<1> QED BY <1>6, <1>7, <1>8, <1>9, <1>10, <1>11 DEF LimiterInv

LEMMA NextLimiterInv == LimiterInv /\ [Next]_vars => LimiterInv'
<1> SUFFICES ASSUME LimiterInv, [Next]_vars PROVE LimiterInv'
  OBVIOUS
<1>1. ASSUME NEW now \in Instants, CheckGlobalEmpty(now) PROVE LimiterInv'
  BY <1>1, CheckGlobalEmptyInv
<1>2. ASSUME NEW src \in Source, NEW now \in Instants, CheckSource(src, now) PROVE LimiterInv'
  BY <1>2, CheckSourceInv
<1>3. CASE OpenWindow
  BY <1>3, OpenWindowInv
<1>4. CASE UNCHANGED vars
  BY <1>4 DEF vars, LimiterInv, TypeOK, LruBounded, GlobalAccount, WindowTime, SourceAccount, Forgotten
<1> QED BY <1>1, <1>2, <1>3, <1>4 DEF Next

-----------------------------------------------------------------------------
(* What holds of every limiter, whatever its parameters                    *)

\* The state of the limiter is well typed and no bucket ever holds more than its
\* capacity (TokenBucket::try_take).
THEOREM TypeCorrect == Spec => []TypeOK
<1>1. LimiterInv => TypeOK
  BY DEF LimiterInv
<1> QED BY <1>1, InitLimiterInv, NextLimiterInv, PTL DEF Spec

\* However hits and evictions interleave, touch_source leaves one doubly linked
\* list over exactly the tracked sources: none of its `expect`s can fail.
THEOREM ListStaysLinked == Spec => []LruLinked
<1>1. LimiterInv => LruLinked
  BY ChainedIsLinked DEF LimiterInv, LruLinked, TypeOK, Forgotten
<1> QED BY <1>1, InitLimiterInv, NextLimiterInv, PTL DEF Spec

\* However many sources send, the map stays within max_tracked (or one).
THEOREM MapStaysBounded == Spec => []LruBounded
<1>1. LimiterInv => LruBounded
  BY DEF LimiterInv
<1> QED BY <1>1, InitLimiterInv, NextLimiterInv, PTL DEF Spec

\* Over any window the packets past the global bucket number at most its burst
\* plus its refill, for every capacity, rate and order of clock readings.
THEOREM GlobalBudget == Spec => []GlobalWindowBound
<1>1. LimiterInv => GlobalWindowBound
  <2> SUFFICES ASSUME LimiterInv PROVE GlobalWindowBound
    OBVIOUS
  <2>1. TypeOK /\ GlobalAccount
    BY DEF LimiterInv
  <2>2. global.tokens \in Nat /\ window.count * TokenUnit \in Nat
    BY <2>1, UnitAssumption DEF TypeOK, Bucket
  <2>3. WindowTime \in Int
    <3>1. global.last_update \in Int /\ window.from \in Int
      BY <2>1, InstantIsInt DEF TypeOK, Bucket
    <3> QED BY <3>1 DEF WindowTime
  <2>4. GlobalCapacity + GlobalRefill * WindowTime \in Int
    BY <2>3, Product, CapacityAssumption, RefillAssumption
  <2> QED BY <2>1, <2>2, <2>4 DEF GlobalAccount, GlobalWindowBound
<1> QED BY <1>1, InitLimiterInv, NextLimiterInv, PTL DEF Spec

\* While a source is tracked, its own bucket lets through at most one burst plus
\* its refill since the entry was made.
THEOREM SourceBudget == Spec => []SourceBound
<1>1. LimiterInv => SourceBound
  <2> SUFFICES ASSUME LimiterInv, NEW s \in lru.tracked
               PROVE  passed[s].count * TokenUnit
                        <= SourceCapacity + SourceRefill * (buckets[s].last_update - passed[s].since)
    BY DEF SourceBound
  <2>1. TypeOK /\ SourceAccount(s) /\ s \in Source
    BY DEF LimiterInv, TypeOK, Lru
  <2>2. buckets[s].tokens \in Nat /\ passed[s].count * TokenUnit \in Nat
    BY <2>1, UnitAssumption DEF TypeOK, Bucket
  <2>3. buckets[s].last_update - passed[s].since \in Int
    <3>1. buckets[s] \in Bucket /\ passed[s].since \in Instants \cup {Never}
      BY <2>1 DEF TypeOK
    <3> QED BY <3>1, InstantIsInt DEF Bucket
  <2>4. SourceCapacity + SourceRefill * (buckets[s].last_update - passed[s].since) \in Int
    BY <2>3, Product, CapacityAssumption, RefillAssumption
  <2> QED BY <2>1, <2>2, <2>4 DEF SourceAccount
<1> QED BY <1>1, InitLimiterInv, NextLimiterInv, PTL DEF Spec

-----------------------------------------------------------------------------
(* The list, read along its links, is a recency list                       *)

LEMMA ChainLength ==
  ASSUME NEW l, NEW n \in Nat, NEW q, Chain(l, n, q)
  PROVE  IsFiniteSet(l.tracked) /\ Cardinality(l.tracked) = n
<1>1. q \in Bijection(1..n, l.tracked)
  <2>1. q \in [1..n -> l.tracked] /\ q \in Injection(1..n, l.tracked)
    BY DEF Chain, Injection, IsInjective
  <2>2. q \in Surjection(1..n, l.tracked)
    BY <2>1 DEF Chain, Surjection
  <2> QED BY <2>1, <2>2 DEF Bijection
<1>2. ExistsBijection(1..n, l.tracked)
  BY <1>1 DEF ExistsBijection
<1> QED BY <1>2, FS_CountingElements, FS_NatBijection

\* The walk along the newer links visits the chain.
LEMMA ChainIsOrder ==
  ASSUME NEW l, NEW n \in Nat, NEW q, Chain(l, n, q)
  PROVE  OrderOf(l) = q
<1> DEFINE Walks(f) == f = [i \in 1..n |-> IF i = 1 THEN l.head ELSE l.newer[f[i - 1]]]
           w == CHOOSE f : Walks(f)
<1>1. OrderOf(l) = w
  <2>1. Cardinality(l.tracked) = n
    BY ChainLength
  <2> QED BY <2>1 DEF OrderOf
<1>2. q \in [1..n -> Source] /\ \A i \in 1..n : q[i] = IF i = 1 THEN l.head ELSE l.newer[q[i - 1]]
  <2>1. ASSUME NEW i \in 1..n, i # 1 PROVE l.newer[q[i - 1]] = q[i]
    <3>1. i - 1 \in 1..n /\ i - 1 # n /\ (i - 1) + 1 = i
      BY <2>1
    <3> QED BY <3>1 DEF Chain
  <2>2. ASSUME NEW i \in 1..n, i = 1 PROVE l.head = q[i]
    BY <2>2 DEF Chain
  <2> QED BY <2>1, <2>2 DEF Chain
<1>3. Walks(q)
  BY <1>2
<1>4. Walks(w)
  <2> HIDE DEF Walks
  <2> QED BY <1>3
<1> HIDE DEF w
<1>5. DOMAIN w = 1..n /\ \A i \in 1..n : w[i] = IF i = 1 THEN l.head ELSE l.newer[w[i - 1]]
  BY <1>4
<1> DEFINE T == {j \in 0..n : j = 0 \/ w[j] = q[j]}
<1>6. 0 \in T
  OBVIOUS
<1>7. ASSUME NEW j \in 0..n, j \in T, j < n PROVE j + 1 \in T
  <2>1. j + 1 \in 1..n /\ j + 1 \in 0..n /\ (j + 1) - 1 = j
    BY <1>7
  <2>2. CASE j = 0
    BY <1>2, <1>5, <2>1, <2>2
  <2>3. CASE j # 0
    <3>1. w[j] = q[j] /\ j + 1 # 1
      BY <1>7, <2>3
    <3>2. w[j + 1] = l.newer[w[j]] /\ q[j + 1] = l.newer[q[j]]
      BY <1>2, <1>5, <2>1, <3>1
    <3> QED BY <2>1, <3>1, <3>2
  <2> QED BY <2>2, <2>3
<1>8. 0..n \subseteq T
  <2> HIDE DEF T
  <2> QED BY <1>6, <1>7, UpTo
<1>9. \A i \in 1..n : w[i] = q[i]
  <2> TAKE i \in 1..n
  <2>1. i \in 0..n /\ i # 0
    OBVIOUS
  <2> QED BY <1>8, <2>1
<1>10. w \in [1..n -> Source]
  BY <1>2, <1>4, <1>9
<1> QED BY <1>1, <1>2, <1>9, <1>10

LEMMA ListIsSeq ==
  ASSUME NEW n \in Nat, NEW q \in [1..n -> Source]
  PROVE  q \in Seq(Source) /\ Len(q) = n /\ DOMAIN q = 1..n
OBVIOUS

LEMMA SameList ==
  ASSUME NEW n \in Nat, NEW q \in [1..n -> Source], NEW t \in Seq(Source), Len(t) = n,
         \A i \in 1..n : q[i] = t[i]
  PROVE  q = t
<1>1. t \in [1..n -> Source]
  OBVIOUS
<1> QED BY <1>1

\* Dropping an entry and adding one, in the words of RecencyList.
LEMMA ShorterIsSubSeq ==
  ASSUME NEW n \in Nat, NEW q \in [1..n -> Source], NEW k \in 1..n
  PROVE  Shorter(q, n, k) = SubSeq(q, 1, k - 1) \o SubSeq(q, k + 1, Len(q))
<1>1. q \in Seq(Source) /\ Len(q) = n
  BY ListIsSeq
<1> DEFINE a == SubSeq(q, 1, k - 1)
           b == SubSeq(q, k + 1, n)
<1>2. a \in Seq(Source) /\ Len(a) = k - 1 /\ \A i \in 1..(k - 1) : a[i] = q[i]
  BY <1>1
<1>3. b \in Seq(Source) /\ Len(b) = n - k /\ \A i \in 1..(n - k) : b[i] = q[k + i]
  BY <1>1
<1> HIDE DEF a, b
<1>4. a \o b \in Seq(Source) /\ Len(a \o b) = n - 1
  <2>1. a \o b \in Seq(Source) /\ Len(a \o b) = Len(a) + Len(b)
    BY <1>2, <1>3, ConcatProperties
  <2> QED BY <1>2, <1>3, <2>1
<1>5. ASSUME NEW i \in 1..(n - 1) PROVE (a \o b)[i] = Shorter(q, n, k)[i]
  <2>1. CASE i < k
    <3>1. (a \o b)[i] = a[i] /\ i \in 1..(k - 1)
      BY <1>2, <1>3, <2>1
    <3> QED BY <1>2, <2>1, <3>1 DEF Shorter
  <2>2. CASE ~(i < k)
    <3>1. (a \o b)[i] = b[i - (k - 1)] /\ i - (k - 1) \in 1..(n - k) /\ k + (i - (k - 1)) = i + 1
      BY <1>2, <1>3, <2>2
    <3> QED BY <1>3, <2>2, <3>1 DEF Shorter
  <2> QED BY <2>1, <2>2
<1>6. Shorter(q, n, k) \in [1..(n - 1) -> Source] /\ n - 1 \in Nat
  BY DEF Shorter
<1>8. Shorter(q, n, k) = a \o b
  BY <1>4, <1>5, <1>6, SameList
<1> QED BY <1>1, <1>8 DEF a, b

LEMMA ShorterIsTail ==
  ASSUME NEW n \in Nat \ {0}, NEW q \in [1..n -> Source]
  PROVE  Shorter(q, n, 1) = Tail(q)
<1>1. q \in Seq(Source) /\ Len(q) = n /\ q # << >>
  BY ListIsSeq
<1>2. Tail(q) \in Seq(Source) /\ Len(Tail(q)) = n - 1 /\ \A i \in 1..(n - 1) : Tail(q)[i] = q[i + 1]
  BY <1>1, HeadTailProperties
<1>3. /\ Shorter(q, n, 1) \in [1..(n - 1) -> Source] /\ n - 1 \in Nat
      /\ \A i \in 1..(n - 1) : Shorter(q, n, 1)[i] = q[i + 1]
  BY DEF Shorter
<1> QED BY <1>2, <1>3, SameList

LEMMA LongerIsAppend ==
  ASSUME NEW n \in Nat, NEW q \in [1..n -> Source], NEW s \in Source
  PROVE  Longer(q, n, s) = Append(q, s)
<1>1. q \in Seq(Source) /\ Len(q) = n
  BY ListIsSeq
<1>2. /\ Append(q, s) \in Seq(Source) /\ Len(Append(q, s)) = n + 1
      /\ \A i \in 1..n : Append(q, s)[i] = q[i]
      /\ Append(q, s)[n + 1] = s
  BY <1>1, AppendProperties
<1>3. Longer(q, n, s) \in [1..(n + 1) -> Source] /\ n + 1 \in Nat
  BY DEF Longer
<1>4. ASSUME NEW i \in 1..(n + 1) PROVE Longer(q, n, s)[i] = Append(q, s)[i]
  BY <1>2 DEF Longer
<1> QED BY <1>2, <1>3, <1>4, SameList

\* What a touch does to the order: the source moves to the end, or enters there,
\* and the oldest leaves when there is no room.
LEMMA TouchOrder ==
  ASSUME NEW l \in Lru, NEW s \in Source, NEW n \in Nat, NEW q, Chain(l, n, q),
         n <= Greater(MaxTracked, 1)
  PROVE  \/ \E k \in 1..n :
              /\ q[k] = s
              /\ OrderOf(Touch(l, s)) = Append(SubSeq(q, 1, k - 1) \o SubSeq(q, k + 1, Len(q)), s)
         \/ s \notin l.tracked /\ n < Greater(MaxTracked, 1) /\ OrderOf(Touch(l, s)) = Append(q, s)
         \/ s \notin l.tracked /\ n = Greater(MaxTracked, 1) /\ OrderOf(Touch(l, s)) = Append(Tail(q), s)
<1> DEFINE bound == Greater(MaxTracked, 1)
<1>1. bound \in Nat /\ bound >= 1
  BY TrackedAssumption DEF Greater
<1>2. Cardinality(l.tracked) = n /\ q \in [1..n -> Source]
  <2>1. Cardinality(l.tracked) = n
    BY ChainLength
  <2> QED BY <2>1 DEF Chain
<1>6. n < bound \/ n = bound
  BY <1>1
<1> HIDE DEF bound
<1>3. CASE s \in l.tracked
  <2>1. PICK k \in 1..n : s = q[k]
    BY <1>3 DEF Chain
  <2> DEFINE r == Remove(Detach(l, s), s)
             p == Shorter(q, n, k)
  <2>2. Chain(r, n - 1, p)
    BY <2>1, RemoveChain
  <2>3. r \in Lru /\ s \notin r.tracked /\ n - 1 \in Nat
    BY <2>1, RemoveType
  <2>4. Touch(l, s) = AttachNewest(Insert(r, s), s)
    BY <1>3, TouchCases
  <2> HIDE DEF r, p
  <2>5. Chain(Touch(l, s), (n - 1) + 1, Longer(p, n - 1, s))
    BY <2>2, <2>3, <2>4, InsertChain
  <2>6. (n - 1) + 1 \in Nat
    BY <2>3
  <2>7. OrderOf(Touch(l, s)) = Longer(p, n - 1, s)
    BY <2>5, <2>6, ChainIsOrder
  <2>8. Longer(p, n - 1, s) = Append(p, s)
    <3>1. p \in [1..(n - 1) -> Source]
      BY <2>2 DEF Chain
    <3> QED BY <2>3, <3>1, LongerIsAppend
  <2>9. p = SubSeq(q, 1, k - 1) \o SubSeq(q, k + 1, Len(q))
    BY <1>2, ShorterIsSubSeq DEF p
  <2> QED BY <2>1, <2>7, <2>8, <2>9
<1>4. CASE s \notin l.tracked /\ n < bound
  <2>1. Room(l, s) = l
    BY <1>1, <1>2, <1>4 DEF Room, Evicted, Full, bound
  <2>2. Touch(l, s) = AttachNewest(Insert(l, s), s)
    BY <1>4, <2>1, TouchCases
  <2>3. Chain(Touch(l, s), n + 1, Longer(q, n, s))
    BY <1>4, <2>2, InsertChain
  <2>4. OrderOf(Touch(l, s)) = Longer(q, n, s)
    BY <2>3, ChainIsOrder
  <2> QED BY <1>2, <1>4, <2>4, LongerIsAppend DEF bound
<1>5. CASE s \notin l.tracked /\ n = bound
  <2> DEFINE h == l.head
             r == Remove(Detach(l, h), h)
             p == Shorter(q, n, 1)
  <2>1. 1 \in 1..n /\ n # 0
    BY <1>1, <1>5
  <2>2. h = q[1] /\ h \in Source /\ h \in l.tracked /\ h # NoSource
    BY <1>2, <2>1, SourceAssumption DEF Chain
  <2>3. Room(l, s) = r
    <3>1. Full(l)
      BY <1>1, <1>2, <1>5 DEF Full, bound
    <3>2. Evicted(l, s) # {}
      BY <1>5, <2>2, <3>1 DEF Evicted
    <3> QED BY <3>2 DEF Room
  <2>4. Touch(l, s) = AttachNewest(Insert(r, s), s)
    BY <1>5, <2>3, TouchCases
  <2>5. Chain(r, n - 1, p)
    BY <2>1, <2>2, RemoveChain
  <2>6. r \in Lru /\ s \notin r.tracked /\ n - 1 \in Nat /\ (n - 1) + 1 \in Nat
    BY <1>5, <2>1, <2>2, RemoveType
  <2> HIDE DEF h, r, p
  <2>7. Chain(Touch(l, s), (n - 1) + 1, Longer(p, n - 1, s))
    BY <2>4, <2>5, <2>6, InsertChain
  <2>8. OrderOf(Touch(l, s)) = Longer(p, n - 1, s)
    BY <2>6, <2>7, ChainIsOrder
  <2>9. Longer(p, n - 1, s) = Append(p, s)
    <3>1. p \in [1..(n - 1) -> Source]
      BY <2>5 DEF Chain
    <3> QED BY <2>6, <3>1, LongerIsAppend
  <2>10. p = Tail(q)
    BY <1>2, <2>1, ShorterIsTail DEF p
  <2> QED BY <1>5, <2>8, <2>9, <2>10 DEF bound
<1> QED BY <1>3, <1>4, <1>5, <1>6

\* A packet that reaches its source's bucket is a use of the list by that source.
LEMMA CheckIsUse ==
  ASSUME LimiterInv, NEW src \in Source, NEW now \in Instants, CheckSource(src, now)
  PROVE  Recency!Use(src)
<1>0. PICK n \in Nat : \E q \in [1..n -> Source] : Chain(lru, n, q)
  BY DEF LimiterInv, Chained
<1>1. PICK q \in [1..n -> Source] : Chain(lru, n, q)
  BY <1>0
<1>2. lru \in Lru /\ n <= Greater(MaxTracked, 1)
  BY <1>1, ChainLength DEF LimiterInv, TypeOK, LruBounded
<1>3. lru' = Touch(lru, src)
  BY DEF CheckSource
<1>4. Order = q /\ Order' = OrderOf(Touch(lru, src))
  BY <1>1, <1>3, ChainIsOrder DEF Order
<1>5. Len(q) = n /\ DOMAIN q = 1..n
  BY ListIsSeq
<1>6. lru.tracked = {q[i] : i \in DOMAIN q}
  BY <1>1, <1>5 DEF Chain
<1>7. \/ \E k \in 1..n :
           /\ q[k] = src
           /\ Order' = Append(SubSeq(q, 1, k - 1) \o SubSeq(q, k + 1, Len(q)), src)
      \/ src \notin lru.tracked /\ n < Greater(MaxTracked, 1) /\ Order' = Append(q, src)
      \/ src \notin lru.tracked /\ n = Greater(MaxTracked, 1) /\ Order' = Append(Tail(q), src)
  BY <1>1, <1>2, <1>4, TouchOrder
<1>8. CASE \E k \in 1..n :
             /\ q[k] = src
             /\ Order' = Append(SubSeq(q, 1, k - 1) \o SubSeq(q, k + 1, Len(q)), src)
  BY <1>4, <1>5, <1>8 DEF Recency!Use, Recency!Refresh, Recency!Without
<1>9. CASE src \notin lru.tracked /\ n < Greater(MaxTracked, 1) /\ Order' = Append(q, src)
  BY <1>4, <1>5, <1>6, <1>9 DEF Recency!Use, Recency!Enter, Recency!Tracked
<1>10. CASE src \notin lru.tracked /\ n = Greater(MaxTracked, 1) /\ Order' = Append(Tail(q), src)
  BY <1>4, <1>5, <1>6, <1>10 DEF Recency!Use, Recency!Replace, Recency!Tracked
<1> QED BY <1>7, <1>8, <1>9, <1>10

LEMMA OrderStarts == Init => Recency!Init
<1> SUFFICES ASSUME Init PROVE Order = << >>
  BY DEF Recency!Init
<1>1. Chain(lru, 0, << >>)
  BY DEF Init, Chain
<1> QED BY <1>1, ChainIsOrder DEF Order

LEMMA OrderSteps ==
  ASSUME LimiterInv, [Next]_vars
  PROVE  /\ [Recency!Next]_Order
         /\ [\A src \in Source : Reaches(src) => Recency!Use(src)]_vars
<1>1. \A src \in Source : Reaches(src) => Recency!Use(src)
  BY CheckIsUse DEF Reaches
<1>2. [Recency!Next]_Order
  <2>1. CASE \E src \in Source, now \in Instants : CheckSource(src, now)
    BY <2>1, CheckIsUse DEF Recency!Next
  <2>2. CASE UNCHANGED lru
    BY <2>2 DEF Order
  <2> QED BY <2>1, <2>2 DEF Next, CheckGlobalEmpty, OpenWindow, vars
<1> QED BY <1>1, <1>2

(* ImplementsRecencyList: the pointer updates of touch_source, detach and  *)
(* attach_newest implement the abstract list for every number of sources   *)
(* and every bound of the map, so what is evicted is always the source     *)
(* that has not been heard of for longest.                                 *)
THEOREM Refinement == Spec => ImplementsRecencyList
<1>1. Init => Recency!Init /\ LimiterInv
  BY OrderStarts, InitLimiterInv
<1>2. LimiterInv /\ [Next]_vars => LimiterInv'
  BY NextLimiterInv
<1>3. LimiterInv /\ [Next]_vars
        => /\ [Recency!Next]_Order
           /\ [\A src \in Source : Reaches(src) => Recency!Use(src)]_vars
  BY OrderSteps
<1> QED BY <1>1, <1>2, <1>3, PTL DEF Spec, ImplementsRecencyList, Recency!Spec
=============================================================================
