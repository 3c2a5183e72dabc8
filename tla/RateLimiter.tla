---------------------------- MODULE RateLimiter ----------------------------
(***************************************************************************)
(* proto/src/ratelimit.rs: the token buckets and the intrusive LRU list    *)
(* that stand in front of the silence pre-filter.                          *)
(*                                                                         *)
(* Amounts of tokens are whole numbers of units, TokenUnit units to one    *)
(* token, so that a refill of a fraction of a token per tick is exact.     *)
(* An untracked source has no entry in the code's HashMap; here its links  *)
(* and its bucket hold the values TokenBucket::new and SourceEntry give a  *)
(* new entry, and membership in lru.tracked says whether the entry exists. *)
(***************************************************************************)
EXTENDS Integers, FiniteSets

CONSTANTS
  Source,          \* source IP addresses
  NoSource,        \* the None of Option<IpAddr>
  TokenUnit,       \* units of one token
  GlobalCapacity,  \* units the global bucket holds
  GlobalRefill,    \* units the global bucket regains per tick
  SourceCapacity,  \* units a per-source bucket holds
  SourceRefill,    \* units a per-source bucket regains per tick
  MaxTracked,      \* RateLimiter::max_tracked
  Instants         \* the values of `now` a caller may pass

ASSUME SourceAssumption == NoSource \notin Source
ASSUME UnitAssumption == TokenUnit \in Nat \ {0}
ASSUME CapacityAssumption == GlobalCapacity \in Nat /\ SourceCapacity \in Nat
ASSUME RefillAssumption == GlobalRefill \in Nat /\ SourceRefill \in Nat
ASSUME TrackedAssumption == MaxTracked \in Nat
ASSUME InstantAssumption == Instants \subseteq Nat

VARIABLES
  global,    \* the global TokenBucket
  buckets,   \* per-source TokenBucket of each source
  lru,       \* the map's key set and the linked list threaded through it
  window,    \* history: an observer's window on the packets let through
  passed     \* history: packets of each source let through by its bucket

vars == <<global, buckets, lru, window, passed>>

Never == -1                 \* last_update: None
Link == Source \cup {NoSource}
Lru == [tracked : SUBSET Source, older : [Source -> Link], newer : [Source -> Link],
        head : Link, tail : Link]
Bucket == [tokens : Nat, last_update : Instants \cup {Never}]

NewBucket(capacity) == [tokens |-> capacity, last_update |-> Never]

Lesser(a, b) == IF a <= b THEN a ELSE b
Greater(a, b) == IF a >= b THEN a ELSE b

-----------------------------------------------------------------------------
(* TokenBucket::try_take                                                   *)

UnclampedRefill(b, capacity, refill, now) ==
  CASE b.last_update = Never -> [b EXCEPT !.last_update = now]
    [] b.last_update # Never /\ now > b.last_update ->
         [tokens |-> b.tokens + (now - b.last_update) * refill, last_update |-> now]
    [] OTHER -> b

\* A refill that credits the time since the last packet but forgets to move last_update.
RefillKeepsLastUpdate(b, capacity, refill, now) ==
  CASE b.last_update = Never -> [b EXCEPT !.last_update = now]
    [] b.last_update # Never /\ now > b.last_update ->
         [b EXCEPT !.tokens = Lesser(b.tokens + (now - b.last_update) * refill, capacity)]
    [] OTHER -> b

\* The first call only starts the bucket's clock. A `now` at or before
\* last_update (saturating_duration_since = 0) changes nothing.
Refilled(b, capacity, refill, now) ==
  CASE b.last_update = Never -> [b EXCEPT !.last_update = now]
    [] b.last_update # Never /\ now > b.last_update ->
         [tokens |-> Lesser(b.tokens + (now - b.last_update) * refill, capacity),
          last_update |-> now]
    [] OTHER -> b

HasToken(b) == b.tokens >= TokenUnit

TakeToken(b) == IF HasToken(b) THEN [b EXCEPT !.tokens = @ - TokenUnit] ELSE b

-----------------------------------------------------------------------------
(* The LRU list: lru_head is the oldest source, lru_tail the newest.       *)

\* detach without the `None => self.lru_tail = older` arm.
DetachKeepsTail(l, s) ==
  LET older == l.older[s]
      newer == l.newer[s]
  IN  [l EXCEPT
        !.newer = [x \in Source |-> IF x = s THEN NoSource
                                    ELSE IF x = older THEN newer ELSE l.newer[x]],
        !.older = [x \in Source |-> IF x = s THEN NoSource
                                    ELSE IF x = newer THEN older ELSE l.older[x]],
        !.head  = IF older = NoSource THEN newer ELSE @]

\* Unlink s: its neighbours (or the head and the tail) point past it.
Detach(l, s) ==
  LET older == l.older[s]
      newer == l.newer[s]
  IN  [l EXCEPT
        !.newer = [x \in Source |-> IF x = s THEN NoSource
                                    ELSE IF x = older THEN newer ELSE l.newer[x]],
        !.older = [x \in Source |-> IF x = s THEN NoSource
                                    ELSE IF x = newer THEN older ELSE l.older[x]],
        !.head  = IF older = NoSource THEN newer ELSE @,
        !.tail  = IF newer = NoSource THEN older ELSE @]

\* Link a detached s in as the most recently used source.
AttachNewest(l, s) ==
  [l EXCEPT
    !.older = [@ EXCEPT ![s] = l.tail],
    !.newer = [x \in Source |-> IF x = s THEN NoSource
                                ELSE IF x = l.tail THEN s ELSE l.newer[x]],
    !.head  = IF l.tail = NoSource THEN s ELSE @,
    !.tail  = s]

\* per_source.remove and per_source.insert touch only the key set: a removed
\* entry was detached before, an inserted one starts with no links.
Remove(l, s) == [l EXCEPT !.tracked = @ \ {s}]
Insert(l, s) == [l EXCEPT !.tracked = @ \cup {s}]

\* Off by one: evicts only once the map has outgrown its bound.
FullOneLate(l) == Cardinality(l.tracked) > Greater(MaxTracked, 1)

Full(l) == Cardinality(l.tracked) >= Greater(MaxTracked, 1)

\* The source whose entry a packet from s pushes out, if any.
Evicted(l, s) ==
  IF s \notin l.tracked /\ Full(l) /\ l.head # NoSource THEN {l.head} ELSE {}

\* A touch that leaves a hit where it is in the list: FIFO instead of LRU.
TouchFifo(l, s) ==
  IF s \in l.tracked THEN l
  ELSE LET room == IF Evicted(l, s) # {} THEN Remove(Detach(l, l.head), l.head) ELSE l
       IN  AttachNewest(Insert(room, s), s)

Touch(l, s) ==
  IF s \in l.tracked THEN AttachNewest(Detach(l, s), s)
  ELSE LET room == IF Evicted(l, s) # {} THEN Remove(Detach(l, l.head), l.head) ELSE l
       IN  AttachNewest(Insert(room, s), s)

-----------------------------------------------------------------------------
Init ==
  /\ global = NewBucket(GlobalCapacity)
  /\ buckets = [s \in Source |-> NewBucket(SourceCapacity)]
  /\ lru = [tracked |-> {}, older |-> [s \in Source |-> NoSource],
            newer |-> [s \in Source |-> NoSource], head |-> NoSource, tail |-> NoSource]
  /\ window = [from |-> Never, count |-> 0]
  /\ passed = [s \in Source |-> [since |-> Never, count |-> 0]]

\* RateLimiter::check when the global bucket is empty: no per-source state is
\* looked at.
CheckGlobalEmpty(now) ==
  LET g == Refilled(global, GlobalCapacity, GlobalRefill, now)
  IN  /\ ~HasToken(g)
      /\ global' = g
      /\ UNCHANGED <<buckets, lru, window, passed>>

\* touch_source lets an evicted source start over with a full bucket.
SourceBuckets(src) ==
  [s \in Source |-> IF s \in Evicted(lru, src) THEN NewBucket(SourceCapacity) ELSE buckets[s]]

\* RateLimiter::check when the global bucket yields a token: the source is
\* touched and its own bucket decides. Both buckets keep what they paid.
CheckSource(src, now) ==
  LET g == Refilled(global, GlobalCapacity, GlobalRefill, now)
      b == Refilled(buckets[src], SourceCapacity, SourceRefill, now)
      n == IF HasToken(b) THEN 1 ELSE 0
  IN  /\ HasToken(g)
      /\ global' = TakeToken(g)
      /\ lru' = Touch(lru, src)
      /\ buckets' = [SourceBuckets(src) EXCEPT ![src] = TakeToken(b)]
      /\ window' = [from |-> IF window.from = Never THEN g.last_update ELSE window.from,
                    count |-> window.count + 1]
      /\ passed' = [s \in Source |->
                      IF s = src
                      THEN [since |-> IF passed[s].since = Never THEN b.last_update
                                      ELSE passed[s].since,
                            count |-> passed[s].count + n]
                      ELSE IF s \in Evicted(lru, src) THEN [since |-> Never, count |-> 0]
                      ELSE passed[s]]

\* History only: an observer starts counting anew at the global bucket's time.
OpenWindow ==
  /\ window' = [from |-> global.last_update, count |-> 0]
  /\ UNCHANGED <<global, buckets, lru, passed>>

Next ==
  \/ \E now \in Instants : CheckGlobalEmpty(now)
  \/ \E src \in Source, now \in Instants : CheckSource(src, now)
  \/ OpenWindow

Spec == Init /\ [][Next]_vars
-----------------------------------------------------------------------------
TypeOK ==
  /\ global \in Bucket /\ global.tokens <= GlobalCapacity
  /\ buckets \in [Source -> Bucket]
  /\ \A s \in Source : buckets[s].tokens <= SourceCapacity
  /\ lru \in Lru
  /\ window \in [from : Instants \cup {Never}, count : Nat]
  /\ passed \in [Source -> [since : Instants \cup {Never}, count : Nat]]

\* The two directions of the list agree, exactly the head has no older and the
\* tail no newer neighbour, and no link leaves the map.
Linked(l) ==
  /\ \A s \in l.tracked :
       /\ l.older[s] = NoSource <=> s = l.head
       /\ l.newer[s] = NoSource <=> s = l.tail
       /\ l.older[s] # NoSource => l.older[s] \in l.tracked /\ l.newer[l.older[s]] = s
       /\ l.newer[s] # NoSource => l.newer[s] \in l.tracked /\ l.older[l.newer[s]] = s
  /\ \A s \in Source \ l.tracked : l.older[s] = NoSource /\ l.newer[s] = NoSource
  /\ l.head # NoSource => l.head \in l.tracked
  /\ l.tail # NoSource => l.tail \in l.tracked
  /\ l.tracked = {} <=> l.head = NoSource
  /\ l.tracked = {} <=> l.tail = NoSource

(* Evictions and hits in any order keep the entries one doubly linked list *)
(* over exactly the tracked sources, and leave nothing behind of an        *)
(* evicted one. Every `expect` in detach, attach_newest and touch_source   *)
(* relies on it: a dangling link panics the server on a stranger's packet. *)
LruLinked ==
  /\ Linked(lru)
  /\ \A s \in Source \ lru.tracked : buckets[s] = NewBucket(SourceCapacity)

(* A spray of source addresses never grows the map past max_tracked     *)
(* (or past one source, when max_tracked is zero).                         *)
LruBounded == Cardinality(lru.tracked) <= Greater(MaxTracked, 1)

(* The backstop: over any window of time, wherever it starts, the number of *)
(* packets that get past the global bucket is at most its capacity plus    *)
(* what it regained meanwhile, whatever the sources, the evictions, or a   *)
(* caller's clock that jumps back.                                         *)
WindowTime == IF window.from = Never \/ global.last_update = Never THEN 0
              ELSE global.last_update - window.from

GlobalWindowBound ==
  window.count * TokenUnit <= GlobalCapacity + GlobalRefill * WindowTime

(* While a source stays in the map, the packets its bucket lets through are *)
(* bounded by one burst plus its own refill since the entry was made.      *)
SourceBound ==
  \A s \in lru.tracked :
    passed[s].count * TokenUnit
      <= SourceCapacity + SourceRefill * (buckets[s].last_update - passed[s].since)
=============================================================================
