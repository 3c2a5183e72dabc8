------------------------- MODULE RateLimiterRecency -------------------------
(***************************************************************************)
(* The linked list of RateLimiter, read from lru_head along the newer      *)
(* links, behaves like a RecencyList.                                      *)
(***************************************************************************)
EXTENDS RateLimiter

\* The tracked sources in the order of the newer links, from the head on.
OrderOf(l) ==
  LET walk[i \in 1..Cardinality(l.tracked)] == IF i = 1 THEN l.head ELSE l.newer[walk[i - 1]]
  IN  walk

Order == OrderOf(lru)

Recency == INSTANCE RecencyList WITH Bound <- Greater(MaxTracked, 1), order <- Order

\* A packet of src got as far as its source's bucket.
Reaches(src) == \E now \in Instants : CheckSource(src, now)

(* Eviction takes the least recently seen source and a hit makes its source *)
(* the newest: touch_source, detach and attach_newest, with their four      *)
(* pointer updates each, implement the abstract list step by step, and each *)
(* packet is a use of the list by its own source.                           *)
ImplementsRecencyList ==
  Recency!Spec /\ [][\A src \in Source : Reaches(src) => Recency!Use(src)]_vars
=============================================================================
