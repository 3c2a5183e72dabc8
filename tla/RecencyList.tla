---------------------------- MODULE RecencyList ----------------------------
(***************************************************************************)
(* What the intrusive LRU list of proto/src/ratelimit.rs promises: a list  *)
(* of at most Bound distinct sources, least recently touched first. A      *)
(* touch makes its source the newest; if that needs room, the source that  *)
(* has not been touched for longest leaves.                                *)
(***************************************************************************)
EXTENDS Naturals, Sequences

CONSTANTS Source, Bound

VARIABLE order

Tracked == {order[i] : i \in DOMAIN order}

\* The list without its k-th entry.
Without(k) == SubSeq(order, 1, k - 1) \o SubSeq(order, k + 1, Len(order))

Refresh(s) == \E k \in DOMAIN order : order[k] = s /\ order' = Append(Without(k), s)
Enter(s) == s \notin Tracked /\ Len(order) < Bound /\ order' = Append(order, s)
Replace(s) == s \notin Tracked /\ Len(order) = Bound /\ order' = Append(Tail(order), s)

Use(s) == Refresh(s) \/ Enter(s) \/ Replace(s)

Init == order = << >>
Next == \E s \in Source : Use(s)
Spec == Init /\ [][Next]_order
=============================================================================
