-------------------------- MODULE ConnStateProofs --------------------------
(***************************************************************************)
(* The answers of proto/src/conn.rs are stable: proofs for every number of *)
(* streams, every length of read, and every interleaving of the caller,    *)
(* the peer's frames and the servicing pass.                               *)
(***************************************************************************)
EXTENDS ConnState, Recursion

Cs == [ready_accepts : Seq(1..NumPeer), finished_reads : SUBSET Stream,
       send_fins : [Stream -> Fin \cup {NoFin}], dirty : BOOLEAN]
Event == [kind : Terminal \cup {"Opened"}, id : Stream \cup {0}]
Hist == [accepted : Seq(1..NumPeer), ended : SUBSET Stream, told : [Stream -> Nat]]

\* A remembered end is that of a half that quinn has freed with nothing left to read.
EndsFreed(finished) ==
  \A id \in finished : recv[id].fin /\ recv[id].unread = 0 /\ recv[id].state = "gone"

\* The caller has been told just of the terminal facts that stand.
ToldMatches(fins, told) ==
  \A id \in Stream : told[id] = IF fins[id] \in Terminal THEN 1 ELSE 0

\* The streams handed out, then those ready to be, are the first ones in order.
InOrder(accepted, ready, taken) ==
  /\ Len(accepted) + Len(ready) = taken
  /\ \A i \in 1..Len(accepted) : accepted[i] = i
  /\ \A i \in 1..Len(ready) : ready[i] = Len(accepted) + i

\* An event about a send half names a stream.
Named(evs) == \A i \in 1..Len(evs) : evs[i].kind # "Opened" => evs[i].id \in Stream

Ends == hist.ended = cs.finished_reads /\ EndsFreed(cs.finished_reads)
Facts == ToldMatches(cs.send_fins, hist.told)
Order == InOrder(hist.accepted, cs.ready_accepts, remote.taken) /\ remote.taken <= remote.opened

\* What has not been read is part of what was sent: so a stream stays within its bound.
UnreadWasSent == \A id \in Stream : recv[id].unread <= recv[id].sent

IInv == TypeOK /\ UnreadWasSent /\ UnsentIsDirty /\ Ends /\ Facts /\ Order /\ Named(events)

\* TypeOK in terms of the types named here.
LEMMA TypeParts ==
  /\ TypeOK <=> /\ cs \in Cs /\ recv \in [Stream -> RecvHalf] /\ send \in [Stream -> SendHalf]
                /\ remote \in [opened : 0..NumPeer, taken : 0..NumPeer]
                /\ local \in 0..NumLocal
                /\ events \in Seq(Event) /\ unsent \in BOOLEAN /\ hist \in Hist
  /\ TypeOK' <=> /\ cs' \in Cs /\ recv' \in [Stream -> RecvHalf] /\ send' \in [Stream -> SendHalf]
                 /\ remote' \in [opened : 0..NumPeer, taken : 0..NumPeer]
                 /\ local' \in 0..NumLocal
                 /\ events' \in Seq(Event) /\ unsent' \in BOOLEAN /\ hist' \in Hist
BY DEF TypeOK, Cs, Event, Hist

-----------------------------------------------------------------------------
(* The servicing pass                                                      *)

\* The bookkeeping in the middle of a pass.
PassState == [cs : Cs, taken : 0..NumPeer, told : [Stream -> Nat]]

\* What a pass keeps, event by event: the facts that stood still stand.
Passing(s) ==
  /\ s \in PassState
  /\ s.taken <= remote.opened
  /\ s.cs.finished_reads = cs.finished_reads
  /\ ToldMatches(s.cs.send_fins, s.told)
  /\ InOrder(hist.accepted, s.cs.ready_accepts, s.taken)
  /\ \A id \in Stream : cs.send_fins[id] \in Terminal => s.cs.send_fins[id] = cs.send_fins[id]

\* A batch of streams joins the queue in order.
LEMMA BatchInOrder ==
  ASSUME NEW acc \in Seq(1..NumPeer), NEW ready \in Seq(1..NumPeer), NEW taken \in 0..NumPeer,
         NEW opened \in 0..NumPeer, taken <= opened, InOrder(acc, ready, taken)
  PROVE  LET more == ready \o [i \in 1..(opened - taken) |-> taken + i]
         IN  more \in Seq(1..NumPeer) /\ InOrder(acc, more, opened)
<1> DEFINE batch == [i \in 1..(opened - taken) |-> taken + i]
           more == ready \o batch
<1>1. opened - taken \in Nat /\ Len(acc) \in Nat /\ Len(ready) \in Nat
  BY NumAssumption
<1>2. batch \in Seq(1..NumPeer) /\ Len(batch) = opened - taken
  <2>1. \A i \in 1..(opened - taken) : taken + i \in 1..NumPeer
    BY NumAssumption
  <2> QED BY <1>1, <2>1, NumAssumption
<1>3. \A i \in 1..Len(batch) : batch[i] = taken + i
  BY <1>1, <1>2
<1> HIDE DEF batch
<1>4. /\ more \in Seq(1..NumPeer) /\ Len(more) = Len(ready) + Len(batch)
      /\ \A i \in 1..Len(more) : more[i] = IF i <= Len(ready) THEN ready[i] ELSE batch[i - Len(ready)]
  BY <1>2, SMTT(40)
<1> HIDE DEF more
<1>5. Len(acc) + Len(more) = opened
  <2>1. Len(acc) + Len(ready) = taken
    BY DEF InOrder
  <2>2. Len(more) = Len(ready) + Len(batch)
    BY <1>4
  <2>3. Len(batch) = opened - taken /\ taken \in Int /\ opened \in Int
    BY <1>2, NumAssumption
  <2> QED BY <1>1, <2>1, <2>2, <2>3
<1>6. ASSUME NEW i \in 1..Len(more) PROVE more[i] = Len(acc) + i
  <2>1. CASE i <= Len(ready)
    BY <1>1, <1>4, <2>1 DEF InOrder
  <2>2. CASE ~(i <= Len(ready))
    <3>1. i - Len(ready) \in 1..Len(batch)
      BY <1>1, <1>2, <1>4, <2>2
    <3>2. more[i] = taken + (i - Len(ready))
      BY <1>3, <1>4, <2>2, <3>1
    <3> QED BY <1>1, <3>2, SMTT(40) DEF InOrder
  <2> QED BY <2>1, <2>2
<1>7. \A i \in 1..Len(acc) : acc[i] = i
  BY DEF InOrder
<1>8. InOrder(acc, more, opened)
  BY <1>5, <1>6, <1>7 DEF InOrder
<1> QED BY <1>4, <1>8 DEF more, batch

\* One event of poll() keeps what a pass keeps.
LEMMA PollPasses ==
  ASSUME TypeOK, NEW s, Passing(s), NEW ev \in Event, ev.kind # "Opened" => ev.id \in Stream
  PROVE  Passing(Poll(s, ev))
<1>1. /\ s \in PassState /\ remote.opened \in 0..NumPeer /\ s.taken <= remote.opened
      /\ hist.accepted \in Seq(1..NumPeer)
  BY DEF Passing, TypeOK
<1>2. /\ s.cs \in Cs /\ s.taken \in 0..NumPeer /\ s.told \in [Stream -> Nat]
      /\ s.cs.ready_accepts \in Seq(1..NumPeer)
  BY <1>1 DEF PassState, Cs
<1>3. CASE ev.kind = "Opened"
  <2> DEFINE more == s.cs.ready_accepts \o [i \in 1..(remote.opened - s.taken) |-> s.taken + i]
             t == Poll(s, ev)
  <2>1. more \in Seq(1..NumPeer) /\ InOrder(hist.accepted, more, remote.opened)
    BY <1>1, <1>2, BatchInOrder DEF Passing
  <2>2. t = [s EXCEPT !.cs.ready_accepts = more, !.taken = remote.opened]
    BY <1>3 DEF Poll, Terminal
  <2> HIDE DEF more
  <2>3. /\ t.cs = [s.cs EXCEPT !.ready_accepts = more] /\ t.taken = remote.opened /\ t.told = s.told
        /\ t \in PassState
    BY <1>1, <1>2, <2>1, <2>2 DEF PassState, Cs
  <2>4. /\ t.cs.ready_accepts = more /\ t.cs.finished_reads = s.cs.finished_reads
        /\ t.cs.send_fins = s.cs.send_fins
    BY <1>2, <2>3 DEF Cs
  <2> HIDE DEF t
  <2>5. Passing(t)
    BY <1>1, <2>1, <2>3, <2>4, NumAssumption DEF Passing
  <2> QED BY <2>5 DEF t
<1>4. CASE ev.kind \in Terminal
  <2> DEFINE t == Poll(s, ev)
             told == [s.told EXCEPT ![ev.id] = IF Reports(s.cs, ev.id) THEN @ + 1 ELSE @]
  <2>1. ev.id \in Stream /\ ev.kind \in Fin
    BY <1>4 DEF Terminal, Fin
  <2>2. t = [s EXCEPT !.cs = RecordSendFin(s.cs, ev.id, ev.kind), !.told = told]
    BY <1>4 DEF Poll, Terminal
  <2>3. told \in [Stream -> Nat]
    BY <1>2, <2>1
  <2>4. RecordSendFin(s.cs, ev.id, ev.kind) \in Cs
    BY <1>2, <2>1 DEF RecordSendFin, Cs
  <2> HIDE DEF told
  <2>5. /\ t \in PassState /\ t.cs = RecordSendFin(s.cs, ev.id, ev.kind) /\ t.told = told
        /\ t.taken = s.taken
    BY <1>1, <1>2, <2>2, <2>3, <2>4 DEF PassState
  <2>6. /\ t.cs.ready_accepts = s.cs.ready_accepts /\ t.cs.finished_reads = s.cs.finished_reads
        /\ t.cs.send_fins = IF s.cs.send_fins[ev.id] \in Terminal THEN s.cs.send_fins
                            ELSE [s.cs.send_fins EXCEPT ![ev.id] = ev.kind]
    BY <1>2, <2>5 DEF RecordSendFin, Cs
  <2> HIDE DEF t
  <2>7. s.cs.send_fins \in [Stream -> Fin \cup {NoFin}]
    BY <1>2 DEF Cs
  <2>8. ToldMatches(t.cs.send_fins, t.told)
    BY <1>2, <1>4, <2>1, <2>5, <2>6, <2>7 DEF Passing, ToldMatches, told, Reports
  <2>9. \A id \in Stream : cs.send_fins[id] \in Terminal => t.cs.send_fins[id] = cs.send_fins[id]
    BY <2>1, <2>6, <2>7 DEF Passing
  <2>10. InOrder(hist.accepted, t.cs.ready_accepts, t.taken)
    BY <2>5, <2>6 DEF Passing
  <2>11. Passing(t)
    BY <1>1, <2>5, <2>6, <2>8, <2>9, <2>10 DEF Passing
  <2> QED BY <2>11 DEF t
<1> QED BY <1>3, <1>4 DEF Event

\* The recursion over the events is well defined.
LEMMA PolledSteps ==
  ASSUME IInv
  PROVE  /\ Polled[0] = [cs |-> cs, taken |-> remote.taken, told |-> hist.told]
         /\ \A i \in 1..Len(events) : Polled[i] = Poll(Polled[i - 1], events[i])
<1> DEFINE n == Len(events)
           v == [cs |-> cs, taken |-> remote.taken, told |-> hist.told]
           V == {s \in PassState : Passing(s)}
           g == [p \in Nat \X V |-> IF p[1] \in 1..n THEN Poll(p[2], events[p[1]]) ELSE p[2]]
           Step(f) == [i \in 0..n |-> IF i = 0 THEN v ELSE Poll(f[i - 1], events[i])]
<1>1. n \in Nat /\ \A i \in 1..n : events[i] \in Event /\ (events[i].kind # "Opened" => events[i].id \in Stream)
  <2>1. events \in Seq(Event) /\ Named(events)
    BY DEF IInv, TypeOK, Event
  <2> HIDE DEF n
  <2>2. n \in Nat /\ \A i \in 1..n : events[i] \in Event
    BY <2>1 DEF n
  <2> QED BY <2>1, <2>2 DEF Named, n
<1>2. v \in V
  <2>1. v \in PassState
    BY DEF IInv, TypeOK, PassState, Cs
  <2>2. Passing(v)
    BY <2>1 DEF IInv, Ends, Facts, Order, Passing
  <2> QED BY <2>1, <2>2
<1>3. g \in [Nat \X V -> V]
  <2>1. ASSUME NEW s \in V, NEW i \in 1..n PROVE Poll(s, events[i]) \in V
    <3>1. TypeOK
      BY DEF IInv
    <3>2. Passing(Poll(s, events[i]))
      BY <1>1, <2>1, <3>1, PollPasses
    <3> QED BY <3>2 DEF Passing
  <2> HIDE DEF V, n
  <2> QED BY <2>1
<1>4. PICK f : Iterates(V, v, n, g, f)
  <2> HIDE DEF V, v, n, g
  <2> QED BY <1>1, <1>2, <1>3, PrimRec
<1>5. f = Step(f)
  <2> HIDE DEF V, v, n
  <2>1. f \in [0..n -> V] /\ f[0] = v /\ \A i \in 1..n : f[i] = g[<<i, f[i - 1]>>]
    BY <1>4 DEF Iterates
  <2>2. ASSUME NEW i \in 1..n PROVE f[i] = Poll(f[i - 1], events[i])
    <3>1. <<i, f[i - 1]>> \in Nat \X V
      BY <1>1, <2>1
    <3> QED BY <2>1, <3>1
  <2>3. \A i \in 0..n : f[i] = Step(f)[i]
    <3> TAKE i \in 0..n
    <3>1. CASE i = 0
      BY <2>1, <3>1
    <3>2. CASE i # 0
      <4>1. i \in 1..n
        BY <1>1, <3>2
      <4> QED BY <2>2, <3>2, <4>1
    <3> QED BY <3>1, <3>2
  <2> QED BY <2>1, <2>3
<1>6. Polled = Step(Polled)
  <2>1. Polled = CHOOSE h : h = Step(h)
    BY DEF Polled
  <2> HIDE DEF Step
  <2> QED BY <1>5, <2>1
<1>7. \A i \in 0..n : Polled[i] = Step(Polled)[i]
  BY <1>6
<1> HIDE DEF n, v
<1>8. Polled[0] = v /\ \A i \in 1..n : Polled[i] = Poll(Polled[i - 1], events[i])
  BY <1>1, <1>7
<1> QED BY <1>8 DEF n, v

\* A whole pass keeps what each of its events keeps.
LEMMA PassKeeps ==
  ASSUME IInv
  PROVE  Passing(Polled[Len(events)])
<1> DEFINE n == Len(events)
           T == {i \in 0..n : Passing(Polled[i])}
<1>1. TypeOK /\ n \in Nat /\ Named(events) /\ events \in Seq(Event)
  BY DEF IInv, TypeOK, Event
<1>2. Passing(Polled[0])
  <2> DEFINE v == [cs |-> cs, taken |-> remote.taken, told |-> hist.told]
  <2>1. v \in PassState
    BY DEF IInv, TypeOK, PassState, Cs
  <2>2. Passing(v)
    BY <2>1 DEF IInv, Ends, Facts, Order, Passing
  <2>3. Polled[0] = v
    BY PolledSteps
  <2> HIDE DEF v
  <2> QED BY <2>2, <2>3
<1>3. ASSUME NEW i \in 0..n, i \in T, i < n PROVE i + 1 \in T
  <2>1. i + 1 \in 1..n /\ i + 1 \in 0..n /\ (i + 1) - 1 = i
    BY <1>1, <1>3
  <2>2. Polled[i + 1] = Poll(Polled[i], events[i + 1])
    BY <2>1, PolledSteps
  <2>3. events[i + 1] \in Event /\ (events[i + 1].kind # "Opened" => events[i + 1].id \in Stream)
    BY <1>1, <2>1 DEF Named
  <2>4. Passing(Polled[i])
    BY <1>3
  <2>5. Passing(Polled[i + 1])
    BY <1>1, <2>2, <2>3, <2>4, PollPasses
  <2> QED BY <2>1, <2>5
<1>4. n \in T
  <2>1. 0 \in T
    BY <1>1, <1>2
  <2> HIDE DEF T, n
  <2>2. \A i \in 0..n : i \in T /\ i < n => i + 1 \in T
    BY <1>3
  <2>3. n \in Nat
    BY <1>1
  <2>4. 0..n \subseteq T
    BY <2>1, <2>2, <2>3, UpTo
  <2> QED BY <2>3, <2>4
<1> QED BY <1>4

\* The servicing pass: every answer that stood before still does.
LEMMA ServiceKeeps ==
  ASSUME IInv, ServicePass
  PROVE  /\ IInv'
         /\ \A id \in Stream : cs.send_fins[id] \in Terminal => cs'.send_fins[id] = cs.send_fins[id]
<1> DEFINE s == Polled[Len(events)]
<1>1. Passing(s)
  BY PassKeeps
<1>2. /\ cs' = [s.cs EXCEPT !.dirty = FALSE]
      /\ remote' = [remote EXCEPT !.taken = s.taken]
      /\ hist' = [hist EXCEPT !.told = s.told]
      /\ events' = <<>> /\ unsent' = FALSE /\ recv' = recv /\ send' = send /\ local' = local
  BY DEF ServicePass
<1> HIDE DEF s
<1>3. s.cs \in Cs /\ s.taken \in 0..NumPeer /\ s.told \in [Stream -> Nat]
  BY <1>1 DEF Passing, PassState
<1>4. /\ cs' \in Cs /\ cs'.ready_accepts = s.cs.ready_accepts
      /\ cs'.finished_reads = s.cs.finished_reads /\ cs'.send_fins = s.cs.send_fins
  BY <1>2, <1>3 DEF Cs
<1>5. /\ remote' \in [opened : 0..NumPeer, taken : 0..NumPeer]
      /\ remote'.taken = s.taken /\ remote'.opened = remote.opened
  BY <1>2, <1>3 DEF IInv, TypeOK
<1>6. hist' \in Hist /\ hist'.accepted = hist.accepted /\ hist'.ended = hist.ended /\ hist'.told = s.told
  BY <1>2, <1>3 DEF IInv, TypeOK, Hist
<1>7. TypeOK'
  <2>1. recv' \in [Stream -> RecvHalf] /\ send' \in [Stream -> SendHalf] /\ local' \in 0..NumLocal
    BY <1>2 DEF IInv, TypeOK
  <2>2. events' = <<>> /\ <<>> \in Seq(Event)
    BY <1>2
  <2>3. unsent' \in BOOLEAN
    BY <1>2
  <2> QED BY <1>4, <1>5, <1>6, <2>1, <2>2, <2>3, TypeParts
<1>8. EndsFreed(cs.finished_reads) /\ hist.ended = cs.finished_reads
  BY DEF IInv, Ends
<1>9. EndsFreed(cs.finished_reads)' /\ hist'.ended = cs'.finished_reads
  BY <1>1, <1>2, <1>4, <1>6, <1>8 DEF Passing, EndsFreed
<1>10. /\ ToldMatches(cs'.send_fins, hist'.told) /\ s.taken <= remote.opened
       /\ InOrder(hist'.accepted, cs'.ready_accepts, remote'.taken)
  BY <1>1, <1>4, <1>5, <1>6 DEF Passing
<1>11. Named(events')
  BY <1>2 DEF Named
<1>12. IInv'
  BY <1>2, <1>5, <1>7, <1>9, <1>10, <1>11 DEF UnreadWasSent, IInv, Ends, Facts, Order, UnsentIsDirty
<1> QED BY <1>1, <1>4, <1>12 DEF Passing

-----------------------------------------------------------------------------
(* The caller and the peer                                                 *)

\* A terminal fact that stands is changed by no step: it may only be released.
FinsStand ==
  \A id \in Stream : cs.send_fins[id] \in Terminal => cs'.send_fins[id] \in {cs.send_fins[id], NoFin}

\* What a step leaves alone it does not break.
LEMMA Frames ==
  ASSUME IInv
  PROVE  /\ recv' = recv => UnreadWasSent'
         /\ recv' = recv /\ cs'.finished_reads = cs.finished_reads /\ hist'.ended = hist.ended => Ends'
         /\ cs'.send_fins = cs.send_fins /\ hist'.told = hist.told => Facts' /\ FinsStand
         /\ /\ cs'.ready_accepts = cs.ready_accepts
            /\ hist'.accepted = hist.accepted
            /\ remote' = remote
            => Order'
         /\ events' = events => Named(events')
<1>1. Ends /\ Facts /\ Order /\ Named(events)
  BY DEF IInv
<1>2. recv' = recv /\ cs'.finished_reads = cs.finished_reads /\ hist'.ended = hist.ended => Ends'
  BY <1>1 DEF Ends, EndsFreed
<1>3. cs'.send_fins = cs.send_fins /\ hist'.told = hist.told => Facts' /\ FinsStand
  BY <1>1 DEF Facts, ToldMatches, FinsStand
<1>4. /\ cs'.ready_accepts = cs.ready_accepts
      /\ hist'.accepted = hist.accepted
      /\ remote' = remote
      => Order'
  BY <1>1 DEF Order
<1>5. events' = events => Named(events')
  BY <1>1
<1>6. recv' = recv => UnreadWasSent'
  BY DEF IInv, UnreadWasSent
<1> QED BY <1>2, <1>3, <1>4, <1>5, <1>6

\* A receive half with new contents is a receive half.
Remade(half, unread, state) == [half EXCEPT !.unread = unread, !.state = state]

\* It keeps its type and the count of what was sent.
LEMMA RemadeType ==
  ASSUME NEW half \in RecvHalf, NEW unread \in 0..MaxBytes, NEW state \in {"open", "reset", "gone"}
  PROVE  /\ Remade(half, unread, state) \in RecvHalf
         /\ Remade(half, unread, state).unread = unread
         /\ Remade(half, unread, state).sent = half.sent
BY DEF RecvHalf, Remade

\* The types of what a proof below starts from.
LEMMA Parts ==
  ASSUME IInv
  PROVE  /\ cs \in Cs /\ recv \in [Stream -> RecvHalf] /\ send \in [Stream -> SendHalf]
         /\ remote \in [opened : 0..NumPeer, taken : 0..NumPeer]
         /\ local \in 0..NumLocal
         /\ events \in Seq(Event) /\ unsent \in BOOLEAN /\ hist \in Hist
BY TypeParts DEF IInv

\* open_bi changes nothing but the number of streams opened here.
LEMMA OpenBiKeeps ==
  ASSUME IInv, OpenBi
  PROVE  IInv' /\ FinsStand
<1>1. /\ cs' = cs /\ recv' = recv /\ send' = send /\ remote' = remote /\ events' = events
      /\ unsent' = unsent /\ hist' = hist /\ local' = local + 1 /\ local < NumLocal
  BY DEF OpenBi
<1>2. local' \in 0..NumLocal
  BY <1>1, Parts, NumAssumption
<1>3. TypeOK'
  BY <1>1, <1>2, Parts, TypeParts
<1> QED BY <1>1, <1>3, Frames DEF IInv, UnsentIsDirty

\* accept_bi moves the head of the queue to what was handed out, or takes the next stream.
LEMMA AcceptBiKeeps ==
  ASSUME IInv, AcceptBi
  PROVE  IInv' /\ FinsStand
<1>1. /\ recv' = recv /\ send' = send /\ local' = local /\ events' = events /\ unsent' = unsent
      /\ hist'.ended = hist.ended /\ hist'.told = hist.told
      /\ cs'.finished_reads = cs.finished_reads /\ cs'.send_fins = cs.send_fins /\ cs'.dirty = cs.dirty
  BY Parts DEF AcceptBi, Cs, Hist
<1> DEFINE acc == hist.accepted
           ready == cs.ready_accepts
<1>2. acc \in Seq(1..NumPeer) /\ ready \in Seq(1..NumPeer) /\ remote.taken \in Nat /\ remote.opened \in Nat
  BY Parts, NumAssumption DEF Hist, Cs
<1>3. /\ Len(acc) + Len(ready) = remote.taken /\ remote.taken <= remote.opened
      /\ \A i \in 1..Len(acc) : acc[i] = i
      /\ \A i \in 1..Len(ready) : ready[i] = Len(acc) + i
  BY DEF IInv, Order, InOrder
<1>4. CASE /\ ready # <<>>
           /\ cs' = [cs EXCEPT !.ready_accepts = Tail(@)]
           /\ hist' = [hist EXCEPT !.accepted = Append(@, Head(cs.ready_accepts))]
           /\ remote' = remote
  <2>1. Head(ready) = Len(acc) + 1 /\ Head(ready) \in 1..NumPeer /\ Len(ready) > 0
    <3> HIDE DEF acc, ready
    <3>1. ready # <<>>
      BY <1>4
    <3>2. Len(ready) \in Nat /\ Len(ready) # 0 /\ Len(acc) \in Nat /\ Head(ready) = ready[1]
      BY <1>2, <3>1
    <3>3. 1 \in 1..Len(ready)
      BY <3>2
    <3>4. ready[1] = Len(acc) + 1
      BY <1>3, <3>3
    <3>5. ready[1] \in 1..NumPeer
      <4> DEFINE P == 1..NumPeer
      <4>1. ready \in Seq(P)
        BY <1>2
      <4> HIDE DEF P
      <4>2. ready[1] \in P
        BY <3>3, <4>1
      <4> QED BY <4>2 DEF P
    <3> QED BY <3>2, <3>4, <3>5
  <2>2. /\ cs'.ready_accepts = Tail(ready) /\ cs' \in Cs
        /\ hist'.accepted = Append(acc, Head(ready)) /\ hist' \in Hist
    <3>1. Tail(ready) \in Seq(1..NumPeer) /\ Append(acc, Head(ready)) \in Seq(1..NumPeer)
      <4> HIDE DEF acc, ready
      <4>1. ready # <<>>
        BY <1>4
      <4> QED BY <1>2, <2>1, <4>1
    <3>2. cs' = [cs EXCEPT !.ready_accepts = Tail(ready)] /\ hist' = [hist EXCEPT !.accepted = Append(acc, Head(ready))]
      BY <1>4
    <3> HIDE DEF acc, ready
    <3> QED BY <3>1, <3>2, Parts DEF Cs, Hist
  <2> HIDE DEF acc, ready
  <2>3. /\ Len(Append(acc, Head(ready))) = Len(acc) + 1
        /\ \A i \in 1..(Len(acc) + 1) : Append(acc, Head(ready))[i] = i
    BY <1>2, <1>3, <2>1
  <2>4. /\ Len(Tail(ready)) = Len(ready) - 1
        /\ \A i \in 1..(Len(ready) - 1) : Tail(ready)[i] = Len(acc) + 1 + i
    <3>1. Len(ready) \in Nat /\ Len(acc) \in Nat /\ Len(Tail(ready)) = Len(ready) - 1
      BY <1>2, <2>1
    <3>2. \A i \in 1..(Len(ready) - 1) : Tail(ready)[i] = ready[i + 1] /\ i + 1 \in 1..Len(ready)
      BY <1>2, <2>1, <3>1
    <3> QED BY <1>3, <3>1, <3>2
  <2>5. Order'
    <3>1. Len(acc) \in Nat /\ Len(ready) \in Nat
      BY <1>2
    <3>2. (Len(acc) + 1) + (Len(ready) - 1) = remote.taken
      BY <1>2, <1>3, <3>1
    <3>3. remote'.taken <= remote'.opened
      BY <1>3, <1>4
    <3> QED BY <1>4, <2>2, <2>3, <2>4, <3>2, <3>3 DEF Order, InOrder
  <2>6. TypeOK'
    BY <1>1, <1>4, <2>2, Parts, TypeParts
  <2> QED BY <1>1, <2>5, <2>6, Frames DEF IInv, UnsentIsDirty
<1>5. CASE /\ ready = <<>> /\ remote.taken < remote.opened
           /\ remote' = [remote EXCEPT !.taken = @ + 1]
           /\ hist' = [hist EXCEPT !.accepted = Append(@, remote.taken + 1)]
           /\ cs' = cs
  <2>1. remote.taken = Len(acc) /\ remote.taken + 1 \in 1..NumPeer
    BY <1>2, <1>3, <1>5, Parts, NumAssumption
  <2>2. /\ hist'.accepted = Append(acc, remote.taken + 1) /\ hist' \in Hist
        /\ remote' \in [opened : 0..NumPeer, taken : 0..NumPeer]
        /\ remote'.taken = remote.taken + 1 /\ remote'.opened = remote.opened
    <3>1. Append(acc, remote.taken + 1) \in Seq(1..NumPeer)
      BY <1>2, <2>1
    <3>2. hist' = [hist EXCEPT !.accepted = Append(acc, remote.taken + 1)]
      BY <1>5
    <3> HIDE DEF acc
    <3>3. remote.taken + 1 \in 0..NumPeer
      BY <2>1, NumAssumption
    <3> QED BY <1>5, <3>1, <3>2, <3>3, Parts DEF Hist
  <2> HIDE DEF acc
  <2>3. /\ Len(Append(acc, remote.taken + 1)) = Len(acc) + 1
        /\ \A i \in 1..(Len(acc) + 1) : Append(acc, remote.taken + 1)[i] = i
    BY <1>2, <1>3, <2>1
  <2>4. Order'
    <3>1. remote'.taken <= remote'.opened
      BY <1>2, <1>5, <2>2
    <3>2. cs'.ready_accepts = <<>> /\ Len(acc) + 1 + Len(cs'.ready_accepts) = remote.taken + 1
      <4>1. cs'.ready_accepts = <<>> /\ Len(<<>>) = 0 /\ Len(acc) \in Nat
        BY <1>2, <1>5
      <4> QED BY <2>1, <4>1
    <3> QED BY <2>2, <2>3, <3>1, <3>2 DEF Order, InOrder
  <2>5. TypeOK'
    BY <1>1, <1>5, <2>2, Parts, TypeParts
  <2> QED BY <1>1, <2>4, <2>5, Frames DEF IInv, UnsentIsDirty
<1> QED BY <1>4, <1>5 DEF AcceptBi

\* The end that a read meets is remembered with all that came before it read.
LEMMA StreamReadKeeps ==
  ASSUME IInv, NEW id \in Stream, NEW len \in 1..MaxBytes, StreamRead(id, len)
  PROVE  IInv' /\ FinsStand
<1> DEFINE half == recv[id]
           ends == MeetsEnd(half, len)
           n == IF half.state = "open" THEN Copied(half, len) ELSE 0
           gone == IF ends \/ half.state = "reset" THEN "gone" ELSE half.state
           read == [half EXCEPT !.unread = @ - n, !.state = gone]
<1>1. /\ id \notin cs.finished_reads
      /\ recv' = [recv EXCEPT ![id] = read]
      /\ cs' = NoteEnd(MarkDirty(cs), id, half, len)
      /\ unsent' = (unsent \/ n > 0 \/ ends)
      /\ hist' = [hist EXCEPT !.ended = IF ends THEN @ \cup {id} ELSE @]
      /\ send' = send /\ remote' = remote /\ local' = local /\ events' = events
  <2>1. recv' = [recv EXCEPT ![id].unread = @ - n, ![id].state = IF ends \/ @ = "reset" THEN "gone" ELSE @]
    BY DEF StreamRead
  <2>2. recv' = [recv EXCEPT ![id] = read]
    BY <2>1, Parts DEF RecvHalf
  <2> QED BY <2>2 DEF StreamRead
<1>2. half \in RecvHalf /\ half.unread \in 0..MaxBytes /\ len \in Nat /\ half.unread \in Nat
  BY Parts, NumAssumption DEF RecvHalf
<1>3. half.unread - n \in 0..MaxBytes /\ (ends => half.unread - n = 0 /\ half.fin)
  BY <1>2, NumAssumption DEF Copied, MeetsEnd
<1>4. /\ read \in RecvHalf /\ read.unread <= read.sent
      /\ ends => read.fin /\ read.unread = 0 /\ read.state = "gone"
  <2>1. read \in RecvHalf /\ (ends => read.fin /\ read.unread = 0 /\ read.state = "gone")
    BY <1>2, <1>3 DEF RecvHalf
  <2>2. read.unread = half.unread - n /\ read.sent = half.sent
    BY <1>2 DEF RecvHalf
  <2>3. half.unread <= half.sent /\ half.sent \in Nat /\ n \in Nat
    BY <1>2, NumAssumption DEF IInv, UnreadWasSent, RecvHalf, Copied
  <2> HIDE DEF read, n
  <2>4. read.unread <= read.sent
    BY <1>2, <2>2, <2>3
  <2> QED BY <2>1, <2>4
<1> HIDE DEF read, n
<1>5. /\ recv' \in [Stream -> RecvHalf] /\ recv'[id] = read /\ \A j \in Stream \ {id} : recv'[j] = recv[j]
      /\ UnreadWasSent'
  BY <1>1, <1>4, Parts DEF IInv, UnreadWasSent
<1> HIDE DEF ends
<1>6. /\ cs' \in Cs /\ cs'.dirty = TRUE /\ cs'.send_fins = cs.send_fins
      /\ cs'.ready_accepts = cs.ready_accepts
      /\ cs'.finished_reads = IF ends THEN cs.finished_reads \cup {id} ELSE cs.finished_reads
  BY <1>1, Parts DEF NoteEnd, MarkDirty, Cs, ends
<1>7. /\ hist' \in Hist /\ hist'.accepted = hist.accepted /\ hist'.told = hist.told
      /\ hist'.ended = IF ends THEN hist.ended \cup {id} ELSE hist.ended
  BY <1>1, Parts DEF Hist
<1>8. unsent' \in BOOLEAN
  BY <1>1
<1>9. TypeOK'
  BY <1>1, <1>5, <1>6, <1>7, <1>8, Parts, TypeParts
<1>10. Ends'
  <2>1. hist.ended = cs.finished_reads /\ EndsFreed(cs.finished_reads)
    BY DEF IInv, Ends
  <2>2. cs.finished_reads \subseteq Stream
    BY Parts DEF Cs
  <2>3. \A j \in cs'.finished_reads : recv'[j].fin /\ recv'[j].unread = 0 /\ recv'[j].state = "gone"
    BY <1>1, <1>4, <1>5, <1>6, <2>1, <2>2 DEF EndsFreed
  <2> QED BY <1>6, <1>7, <2>1, <2>3 DEF Ends, EndsFreed
<1>11. UnsentIsDirty'
  BY <1>6 DEF UnsentIsDirty
<1> QED BY <1>1, <1>5, <1>6, <1>7, <1>9, <1>10, <1>11, Frames DEF IInv

\* stream_write marks the connection dirty before quinn has anything to send.
LEMMA StreamWriteKeeps ==
  ASSUME IInv, NEW id \in Stream, StreamWrite(id)
  PROVE  IInv' /\ FinsStand
<1>1. /\ cs' = [cs EXCEPT !.dirty = TRUE] /\ unsent' \in BOOLEAN
      /\ recv' = recv /\ send' = send /\ remote' = remote /\ local' = local /\ events' = events /\ hist' = hist
  BY DEF StreamWrite, quinn
<1>2. /\ cs' \in Cs /\ cs'.dirty = TRUE /\ cs'.send_fins = cs.send_fins
      /\ cs'.ready_accepts = cs.ready_accepts /\ cs'.finished_reads = cs.finished_reads
  BY <1>1, Parts DEF Cs
<1>3. TypeOK'
  BY <1>1, <1>2, Parts, TypeParts
<1>4. UnsentIsDirty'
  BY <1>2 DEF UnsentIsDirty
<1> QED BY <1>1, <1>2, <1>3, <1>4, Frames DEF IInv

\* A stop that stream_finish learns of is told by its error, and by nothing else.
LEMMA StreamFinishKeeps ==
  ASSUME IInv, NEW id \in Stream, StreamFinish(id)
  PROVE  IInv' /\ FinsStand
<1>1. /\ cs.send_fins[id] = NoFin
      /\ recv' = recv /\ remote' = remote /\ local' = local /\ events' = events
  BY DEF StreamFinish
<1>2. /\ cs.send_fins \in [Stream -> Fin \cup {NoFin}] /\ NoFin \notin Terminal
      /\ hist.told \in [Stream -> Nat] /\ Facts
  BY Parts DEF Cs, Hist, Terminal, NoFin, IInv
<1>3. ASSUME NEW fin \in {NoFin, "Queued"}, cs' = [cs EXCEPT !.dirty = TRUE, !.send_fins[id] = fin],
             send' \in [Stream -> SendHalf], unsent' \in BOOLEAN, hist' = hist
      PROVE  IInv' /\ FinsStand
  <2>1. fin \in Fin \cup {NoFin} /\ fin \notin Terminal
    BY <1>3 DEF Fin, Terminal, NoFin
  <2>2. /\ cs' \in Cs /\ cs'.dirty = TRUE /\ cs'.send_fins = [cs.send_fins EXCEPT ![id] = fin]
        /\ cs'.ready_accepts = cs.ready_accepts /\ cs'.finished_reads = cs.finished_reads
    BY <1>3, <2>1, Parts DEF Cs
  <2>3. Facts' /\ FinsStand
    BY <1>1, <1>2, <1>3, <2>1, <2>2 DEF Facts, ToldMatches, FinsStand
  <2>4. TypeOK'
    BY <1>1, <1>3, <2>2, Parts, TypeParts
  <2>5. UnsentIsDirty'
    BY <2>2 DEF UnsentIsDirty
  <2> QED BY <1>1, <1>3, <2>2, <2>3, <2>4, <2>5, Frames DEF IInv
<1>4. CASE /\ send[id].state = "ready" /\ send' = [send EXCEPT ![id].state = "finished"]
           /\ cs' = [cs EXCEPT !.dirty = TRUE, !.send_fins[id] = "Queued"]
           /\ unsent' = TRUE /\ hist' = hist
  <2>1. send' \in [Stream -> SendHalf]
    BY <1>4, Parts DEF SendHalf
  <2>2. unsent' \in BOOLEAN
    BY <1>4
  <2> QED BY <1>3, <1>4, <2>1, <2>2
<1>5. CASE /\ cs' = RecordSendFin([cs EXCEPT !.dirty = TRUE], id, "Stopped")
           /\ hist' = [hist EXCEPT !.told[id] = @ + 1] /\ send' = send /\ unsent' = unsent
  <2>1. "Stopped" \in Fin \cup {NoFin} /\ "Stopped" \in Terminal
    BY DEF Fin, Terminal
  <2>2. /\ cs' \in Cs /\ cs'.dirty = TRUE /\ cs'.send_fins = [cs.send_fins EXCEPT ![id] = "Stopped"]
        /\ cs'.ready_accepts = cs.ready_accepts /\ cs'.finished_reads = cs.finished_reads
    BY <1>1, <1>2, <1>5, <2>1, Parts DEF Cs, RecordSendFin
  <2>3. /\ hist' \in Hist /\ hist'.accepted = hist.accepted /\ hist'.ended = hist.ended
        /\ hist'.told = [hist.told EXCEPT ![id] = @ + 1]
    <3> DEFINE told == [hist.told EXCEPT ![id] = @ + 1]
    <3>1. told \in [Stream -> Nat] /\ hist' = [hist EXCEPT !.told = told]
      BY <1>2, <1>5
    <3> HIDE DEF told
    <3>2. /\ hist' \in Hist /\ hist'.accepted = hist.accepted /\ hist'.ended = hist.ended
          /\ hist'.told = told
      BY <3>1, Parts DEF Hist
    <3> QED BY <3>2 DEF told
  <2>4. Facts' /\ FinsStand
    BY <1>1, <1>2, <2>1, <2>2, <2>3 DEF Facts, ToldMatches, FinsStand
  <2>5. TypeOK'
    BY <1>1, <1>5, <2>2, <2>3, Parts, TypeParts
  <2>6. UnsentIsDirty'
    BY <2>2 DEF UnsentIsDirty
  <2> QED BY <1>1, <2>2, <2>3, <2>4, <2>5, <2>6, Frames DEF IInv
<1>6. CASE /\ cs' = [cs EXCEPT !.dirty = TRUE] /\ send' = send /\ unsent' = unsent /\ hist' = hist
  <2>1. cs' = [cs EXCEPT !.dirty = TRUE, !.send_fins[id] = NoFin]
    BY <1>1, <1>2, <1>6, Parts DEF Cs
  <2> QED BY <1>3, <1>6, <2>1, Parts
<1> QED BY <1>4, <1>5, <1>6 DEF StreamFinish

\* What a caller releases, or a method clears, is cleared on both sides of the books.
LEMMA ReleaseKeeps ==
  ASSUME IInv, NEW id \in Stream, NEW halves \in SUBSET {"recv", "send"}, NEW dirty \in BOOLEAN,
         cs.dirty => dirty,
         cs' = [cs EXCEPT !.dirty = dirty,
                          !.finished_reads = IF "recv" \in halves THEN @ \ {id} ELSE @,
                          !.send_fins = IF "send" \in halves THEN [@ EXCEPT ![id] = NoFin] ELSE @],
         hist' = Release(id, halves),
         \/ recv' = recv
         \/ "recv" \in halves /\ recv' = [recv EXCEPT ![id].state = "gone"],
         send' \in [Stream -> SendHalf],
         unsent' \in BOOLEAN, unsent' => dirty,
         remote' = remote, local' = local, events' = events
  PROVE  IInv' /\ FinsStand
<1> DEFINE fins == IF "send" \in halves THEN [cs.send_fins EXCEPT ![id] = NoFin] ELSE cs.send_fins
           told == IF "send" \in halves THEN [hist.told EXCEPT ![id] = 0] ELSE hist.told
           fin == IF "recv" \in halves THEN cs.finished_reads \ {id} ELSE cs.finished_reads
           ended == IF "recv" \in halves THEN hist.ended \ {id} ELSE hist.ended
<1>1. /\ cs.send_fins \in [Stream -> Fin \cup {NoFin}] /\ hist.told \in [Stream -> Nat]
      /\ cs.finished_reads \subseteq Stream /\ hist.ended \subseteq Stream
      /\ NoFin \notin Terminal /\ Facts /\ Ends
  BY Parts DEF Cs, Hist, Terminal, NoFin, IInv
<1>2. /\ cs' = [cs EXCEPT !.dirty = dirty, !.finished_reads = fin, !.send_fins = fins]
      /\ hist' = [hist EXCEPT !.ended = ended, !.told = told]
  BY DEF Release
<1>3. /\ fins \in [Stream -> Fin \cup {NoFin}] /\ told \in [Stream -> Nat]
      /\ fin \subseteq Stream /\ ended \subseteq Stream
  BY <1>1
<1>4. \A j \in Stream : \/ fins[j] = cs.send_fins[j] /\ told[j] = hist.told[j]
                        \/ fins[j] = NoFin /\ told[j] = 0
  BY <1>1
<1>5. ended = fin /\ fin \subseteq cs.finished_reads /\ ("recv" \in halves => id \notin fin)
  BY <1>1 DEF Ends
<1> HIDE DEF fins, told, fin, ended
<1>6. /\ cs' \in Cs /\ cs'.dirty = dirty /\ cs'.send_fins = fins
      /\ cs'.ready_accepts = cs.ready_accepts /\ cs'.finished_reads = fin
  BY <1>2, <1>3, Parts DEF Cs
<1>7. /\ hist' \in Hist /\ hist'.accepted = hist.accepted /\ hist'.ended = ended /\ hist'.told = told
  BY <1>2, <1>3, Parts DEF Hist
<1>8. Facts' /\ FinsStand
  BY <1>1, <1>4, <1>6, <1>7 DEF Facts, ToldMatches, FinsStand
<1>9. recv' \in [Stream -> RecvHalf] /\ UnreadWasSent' /\ \A j \in fin : recv'[j] = recv[j]
  <2>1. CASE recv' = recv
    BY <2>1, Parts, Frames
  <2>2. CASE "recv" \in halves /\ recv' = [recv EXCEPT ![id].state = "gone"]
    <3> DEFINE new == Remade(recv[id], recv[id].unread, "gone")
    <3>1. recv[id] \in RecvHalf /\ recv[id].unread \in 0..MaxBytes
      BY Parts DEF RecvHalf
    <3>2. new \in RecvHalf /\ new.unread = recv[id].unread /\ new.sent = recv[id].sent
      BY <3>1, RemadeType
    <3>3. recv' = [recv EXCEPT ![id] = new]
      BY <2>2, <3>1, Parts DEF RecvHalf, Remade
    <3> HIDE DEF new
    <3> QED BY <1>3, <1>5, <3>2, <3>3, Parts DEF UnreadWasSent, IInv
  <2> QED BY <2>1, <2>2
<1>10. Ends'
  BY <1>1, <1>5, <1>6, <1>7, <1>9 DEF Ends, EndsFreed
<1>11. TypeOK'
  BY <1>6, <1>7, <1>9, Parts, TypeParts
<1>12. UnsentIsDirty'
  BY <1>6 DEF UnsentIsDirty
<1> QED BY <1>6, <1>7, <1>8, <1>9, <1>10, <1>11, <1>12, Frames DEF IInv

\* stream_reset clears both facts of a stream.
LEMMA StreamResetKeeps ==
  ASSUME IInv, NEW id \in Stream, StreamReset(id)
  PROVE  IInv' /\ FinsStand
<1>1. /\ cs' = [cs EXCEPT !.dirty = TRUE, !.finished_reads = @ \ {id}, !.send_fins[id] = NoFin]
      /\ hist' = Release(id, {"recv", "send"})
      /\ recv' = recv /\ remote' = remote /\ local' = local /\ events' = events
  BY DEF StreamReset
<1>2. send' \in [Stream -> SendHalf]
  BY Parts DEF StreamReset, SendHalf
<1>3. unsent' \in BOOLEAN
  <2>1. unsent' = TRUE \/ unsent' = unsent
    BY DEF StreamReset
  <2> QED BY <2>1, Parts
<1>4. cs' = [cs EXCEPT !.dirty = TRUE,
                       !.finished_reads = IF "recv" \in {"recv", "send"} THEN @ \ {id} ELSE @,
                       !.send_fins = IF "send" \in {"recv", "send"} THEN [@ EXCEPT ![id] = NoFin] ELSE @]
  BY <1>1, Parts DEF Cs
<1> QED BY <1>1, <1>2, <1>3, <1>4, ReleaseKeeps

\* stream_stop clears the remembered end as quinn frees the half.
LEMMA StreamStopKeeps ==
  ASSUME IInv, NEW id \in Stream, StreamStop(id)
  PROVE  IInv' /\ FinsStand
<1>1. /\ cs' = [cs EXCEPT !.dirty = TRUE, !.finished_reads = @ \ {id}]
      /\ recv' = [recv EXCEPT ![id].state = "gone"] /\ hist' = Release(id, {"recv"})
      /\ send' = send /\ remote' = remote /\ local' = local /\ events' = events
      /\ unsent' \in BOOLEAN
  BY DEF StreamStop
<1>2. cs' = [cs EXCEPT !.dirty = TRUE,
                       !.finished_reads = IF "recv" \in {"recv"} THEN @ \ {id} ELSE @,
                       !.send_fins = IF "send" \in {"recv"} THEN [@ EXCEPT ![id] = NoFin] ELSE @]
  BY <1>1, Parts DEF Cs
<1> QED BY <1>1, <1>2, ReleaseKeeps, Parts

\* The three ways to forget a stream clear its facts and touch nothing of quinn's.
LEMMA ForgetKeeps ==
  ASSUME IInv, NEW id \in Stream, ForgetRecv(id) \/ ForgetSend(id) \/ ForgetStream(id)
  PROVE  IInv' /\ FinsStand
<1>1. /\ recv' = recv /\ send' = send /\ remote' = remote /\ local' = local /\ events' = events
      /\ unsent' = unsent
  BY DEF ForgetRecv, ForgetSend, ForgetStream, quinn
<1>2. cs.dirty \in BOOLEAN /\ unsent \in BOOLEAN /\ (unsent => cs.dirty)
  BY Parts DEF Cs, IInv, UnsentIsDirty
<1>3. PICK halves \in SUBSET {"recv", "send"} :
        /\ hist' = Release(id, halves)
        /\ cs' = [cs EXCEPT !.finished_reads = IF "recv" \in halves THEN @ \ {id} ELSE @,
                            !.send_fins = IF "send" \in halves THEN [@ EXCEPT ![id] = NoFin] ELSE @]
  <2>1. CASE ForgetRecv(id)
    <3>1. /\ hist' = Release(id, {"recv"})
          /\ cs' = [cs EXCEPT !.finished_reads = IF "recv" \in {"recv"} THEN @ \ {id} ELSE @,
                              !.send_fins = IF "send" \in {"recv"} THEN [@ EXCEPT ![id] = NoFin] ELSE @]
      BY <2>1, Parts DEF ForgetRecv, Cs
    <3> QED BY <3>1
  <2>2. CASE ForgetSend(id)
    <3>1. /\ hist' = Release(id, {"send"})
          /\ cs' = [cs EXCEPT !.finished_reads = IF "recv" \in {"send"} THEN @ \ {id} ELSE @,
                              !.send_fins = IF "send" \in {"send"} THEN [@ EXCEPT ![id] = NoFin] ELSE @]
      BY <2>2, Parts DEF ForgetSend, Cs
    <3> QED BY <3>1
  <2>3. CASE ForgetStream(id)
    <3>1. /\ hist' = Release(id, {"recv", "send"})
          /\ cs' = [cs EXCEPT !.finished_reads = IF "recv" \in {"recv", "send"} THEN @ \ {id} ELSE @,
                              !.send_fins = IF "send" \in {"recv", "send"} THEN [@ EXCEPT ![id] = NoFin]
                                            ELSE @]
      BY <2>3, Parts DEF ForgetStream, Cs
    <3> QED BY <3>1
  <2> QED BY <2>1, <2>2, <2>3
<1>4. cs' = [cs EXCEPT !.dirty = cs.dirty,
                       !.finished_reads = IF "recv" \in halves THEN @ \ {id} ELSE @,
                       !.send_fins = IF "send" \in halves THEN [@ EXCEPT ![id] = NoFin] ELSE @]
  BY <1>3, Parts DEF Cs
<1> QED BY <1>1, <1>2, <1>3, <1>4, ReleaseKeeps, Parts

\* The peer's frames change quinn's halves and its events; a remembered end is of a half
\* that quinn has freed, which no frame reaches.
LEMMA PeerRecvKeeps ==
  ASSUME IInv, NEW id \in Stream, PeerResets(id) \/ \E fin \in BOOLEAN : PeerData(id, fin)
  PROVE  IInv' /\ FinsStand
<1>1. /\ cs' = cs /\ send' = send /\ remote' = remote /\ local' = local /\ events' = events
      /\ unsent' = unsent /\ hist' = hist /\ recv[id].state = "open"
  BY DEF PeerResets, PeerData
<1>2. recv[id] \in RecvHalf
  BY Parts
<1>3. PICK half \in RecvHalf : recv' = [recv EXCEPT ![id] = half] /\ half.unread <= half.sent
  <2>1. CASE PeerResets(id)
    <3> DEFINE new == Remade(recv[id], 0, "reset")
    <3>1. recv' = [recv EXCEPT ![id].state = "reset", ![id].unread = 0]
      BY <2>1 DEF PeerResets
    <3>2. new \in RecvHalf /\ new.unread = 0 /\ new.sent = recv[id].sent
      <4>1. 0 \in 0..MaxBytes
        BY NumAssumption
      <4> QED BY <1>2, <4>1, RemadeType
    <3>3. recv' = [recv EXCEPT ![id] = new]
      BY <1>2, <3>1, Parts DEF RecvHalf, Remade
    <3>4. 0 <= recv[id].sent
      BY <1>2, NumAssumption DEF RecvHalf
    <3> HIDE DEF new
    <3> QED BY <3>2, <3>3, <3>4
  <2>2. ASSUME NEW fin \in BOOLEAN, PeerData(id, fin)
        PROVE  \E half \in RecvHalf : recv' = [recv EXCEPT ![id] = half] /\ half.unread <= half.sent
    <3> DEFINE sent == IF fin THEN recv[id].sent ELSE recv[id].sent + 1
               unread == IF fin THEN recv[id].unread ELSE recv[id].unread + 1
               half == [recv[id] EXCEPT !.fin = fin, !.sent = sent, !.unread = unread]
    <3>1. recv' = [recv EXCEPT ![id] = half]
      <4>1. recv' = [recv EXCEPT ![id].fin = fin, ![id].sent = IF fin THEN @ ELSE @ + 1,
                                 ![id].unread = IF fin THEN @ ELSE @ + 1]
        BY <2>2 DEF PeerData
      <4> QED BY <1>2, <4>1, Parts DEF RecvHalf
    <3>2. sent \in 0..MaxBytes /\ unread \in 0..MaxBytes /\ unread <= sent
      <4>1. recv[id].sent \in 0..MaxBytes /\ recv[id].unread \in 0..MaxBytes
        BY <1>2 DEF RecvHalf
      <4>2. recv[id].unread <= recv[id].sent /\ (fin \/ recv[id].sent < MaxBytes)
        BY <2>2 DEF PeerData, IInv, UnreadWasSent
      <4> QED BY <4>1, <4>2, NumAssumption
    <3> HIDE DEF sent, unread
    <3>3. half \in RecvHalf /\ half.unread = unread /\ half.sent = sent
      BY <1>2, <3>2 DEF RecvHalf
    <3> HIDE DEF half
    <3> QED BY <3>1, <3>2, <3>3
  <2> QED BY <2>1, <2>2
<1>4. /\ recv' \in [Stream -> RecvHalf] /\ \A j \in Stream \ {id} : recv'[j] = recv[j]
      /\ UnreadWasSent'
  BY <1>3, Parts DEF IInv, UnreadWasSent
<1>5. cs.finished_reads \subseteq Stream /\ Ends
  BY Parts DEF Cs, IInv
<1>6. id \notin cs.finished_reads
  BY <1>1, <1>5 DEF Ends, EndsFreed
<1>7. Ends'
  BY <1>1, <1>4, <1>5, <1>6 DEF Ends, EndsFreed
<1>8. TypeOK'
  BY <1>1, <1>4, Parts, TypeParts
<1> QED BY <1>1, <1>4, <1>7, <1>8, Frames DEF IInv, UnsentIsDirty

\* The events that the peer's frames queue name the stream they are about.
LEMMA PeerSendKeeps ==
  ASSUME IInv, NEW id \in Stream, PeerStops(id) \/ PeerAcks(id)
  PROVE  IInv' /\ FinsStand
<1>1. /\ cs' = cs /\ recv' = recv /\ remote' = remote /\ local' = local
      /\ unsent' = unsent /\ hist' = hist
  BY DEF PeerStops, PeerAcks
<1>2. send' \in [Stream -> SendHalf]
  <2>1. CASE PeerStops(id)
    BY <2>1, Parts DEF PeerStops, SendHalf
  <2>2. CASE PeerAcks(id)
    BY <2>2, Parts DEF PeerAcks, SendHalf
  <2> QED BY <2>1, <2>2
<1>3. events' = events \/ \E ev \in Event : ev.id = id /\ events' = Append(events, ev)
  <2>1. /\ [kind |-> "Stopped", id |-> id] \in Event
        /\ [kind |-> "Acked", id |-> id] \in Event
    BY DEF Event, Terminal
  <2> QED BY <2>1 DEF PeerStops, PeerAcks
<1>4. events' \in Seq(Event) /\ Named(events')
  <2>1. Named(events) /\ events \in Seq(Event)
    BY Parts DEF IInv
  <2>2. CASE events' = events
    BY <2>1, <2>2
  <2>3. ASSUME NEW ev \in Event, ev.id = id, events' = Append(events, ev)
        PROVE  events' \in Seq(Event) /\ Named(events')
    BY <2>1, <2>3 DEF Named
  <2> QED BY <1>3, <2>2, <2>3
<1>5. TypeOK'
  BY <1>1, <1>2, <1>4, Parts, TypeParts
<1> QED BY <1>1, <1>4, <1>5, Frames DEF IInv, UnsentIsDirty

\* A stream of the peer's is counted, and announced once until the next pass.
LEMMA PeerOpensKeeps ==
  ASSUME IInv, PeerOpens
  PROVE  IInv' /\ FinsStand
<1>1. /\ cs' = cs /\ recv' = recv /\ send' = send /\ local' = local /\ unsent' = unsent /\ hist' = hist
      /\ remote' = [remote EXCEPT !.opened = @ + 1] /\ remote.opened < NumPeer
  BY DEF PeerOpens
<1>2. events' \in Seq(Event) /\ Named(events')
  <2> DEFINE ev == [kind |-> "Opened", id |-> 0]
  <2>1. Named(events) /\ events \in Seq(Event)
    BY Parts DEF IInv
  <2>2. ev \in Event /\ ev.kind = "Opened"
    BY DEF Event
  <2>3. events' = events \/ events' = Append(events, ev)
    BY DEF PeerOpens
  <2> HIDE DEF ev
  <2> QED BY <2>1, <2>2, <2>3 DEF Named
<1>3. /\ remote' \in [opened : 0..NumPeer, taken : 0..NumPeer]
      /\ remote'.taken = remote.taken /\ remote'.taken <= remote'.opened
  <2>1. remote.opened + 1 \in 0..NumPeer /\ remote.taken <= remote.opened + 1
    BY <1>1, Parts, NumAssumption DEF IInv, Order
  <2> QED BY <1>1, <2>1, Parts
<1>4. Order'
  BY <1>1, <1>3 DEF IInv, Order
<1>5. TypeOK'
  BY <1>1, <1>2, <1>3, Parts, TypeParts
<1> QED BY <1>1, <1>2, <1>4, <1>5, Frames DEF IInv, UnsentIsDirty

-----------------------------------------------------------------------------
(* The theorems                                                            *)

\* A new connection owes nothing and remembers nothing.
LEMMA InitInv == Init => IInv
<1> SUFFICES ASSUME Init PROVE IInv
  OBVIOUS
<1>1. cs \in Cs /\ hist \in Hist
  BY DEF Init, Cs, Hist, NoFin
<1>2. recv \in [Stream -> RecvHalf] /\ send \in [Stream -> SendHalf] /\ local \in 0..NumLocal
  BY NumAssumption DEF Init, RecvHalf, SendHalf
<1>3. remote \in [opened : 0..NumPeer, taken : 0..NumPeer] /\ events \in Seq(Event)
  BY NumAssumption DEF Init
<1>4. unsent \in BOOLEAN
  BY DEF Init
<1>5. TypeOK
  BY <1>1, <1>2, <1>3, <1>4, TypeParts
<1>6. UnreadWasSent
  BY DEF Init, UnreadWasSent
<1>7. Ends /\ Facts
  BY DEF Init, Ends, EndsFreed, Facts, ToldMatches, Terminal, NoFin
<1>8. Order /\ Named(events) /\ UnsentIsDirty
  BY DEF Init, Order, InOrder, Named, UnsentIsDirty
<1> QED BY <1>5, <1>6, <1>7, <1>8 DEF IInv

\* Every step keeps the invariant, and every terminal fact that stands.
LEMMA NextInv == IInv /\ [Next]_vars => IInv' /\ FinsStand
<1> SUFFICES ASSUME IInv, [Next]_vars PROVE IInv' /\ FinsStand
  OBVIOUS
<1>1. CASE OpenBi
  BY <1>1, OpenBiKeeps
<1>2. CASE AcceptBi
  BY <1>2, AcceptBiKeeps
<1>3. CASE ServicePass
  BY <1>3, ServiceKeeps DEF FinsStand
<1>4. CASE PeerOpens
  BY <1>4, PeerOpensKeeps
<1>5. ASSUME NEW id \in Known \cap Busy, CallerUses(id)
      PROVE  IInv' /\ FinsStand
  <2>1. id \in Stream
    BY BusyAssumption DEF Stream
  <2> QED BY <1>5, <2>1, StreamReadKeeps, StreamWriteKeeps, StreamFinishKeeps, StreamResetKeeps,
             StreamStopKeeps, ForgetKeeps DEF CallerUses
<1>6. ASSUME NEW id \in Open \cap Busy, PeerUses(id)
      PROVE  IInv' /\ FinsStand
  <2>1. id \in Stream
    BY BusyAssumption DEF Stream
  <2> QED BY <1>6, <2>1, PeerRecvKeeps, PeerSendKeeps DEF PeerUses
<1>7. CASE UNCHANGED vars
  <2>1. /\ cs' = cs /\ recv' = recv /\ send' = send /\ remote' = remote /\ local' = local
        /\ events' = events /\ unsent' = unsent /\ hist' = hist
    BY <1>7 DEF vars
  <2>2. TypeOK'
    BY <2>1, Parts, TypeParts
  <2> QED BY <2>1, <2>2, Frames DEF IInv, UnsentIsDirty
<1> QED BY <1>1, <1>2, <1>3, <1>4, <1>5, <1>6, <1>7 DEF Next

(* IInv is an inductive invariant of the bookkeeping of a connection.      *)
THEOREM Invariance == Spec => []IInv
BY InitInv, NextInv, PTL DEF Spec

(* The bookkeeping and quinn's halves keep their types, and no stream      *)
(* exceeds its bound.                                                      *)
THEOREM TypeCorrect == Spec => []TypeOK
<1>1. IInv => TypeOK
  BY DEF IInv
<1> QED BY <1>1, Invariance, PTL

(* What an operation left to send keeps the connection dirty until a pass  *)
(* has sent it, whatever operations come in between.                       *)
THEOREM Dirty == Spec => []UnsentIsDirty
<1>1. IInv => UnsentIsDirty
  BY DEF IInv
<1> QED BY <1>1, Invariance, PTL

(* stream_read: once a read has met the end of a stream every later one    *)
(* says so, until the stream is released.                                  *)
THEOREM StableEnd == Spec => []EndIsStable
<1>1. IInv => EndIsStable
  BY DEF IInv, Ends, EndIsStable, ReadAnswer
<1> QED BY <1>1, Invariance, PTL

(* stream_read: a stream is said to have ended only when its FIN is here   *)
(* and every byte before it was handed out.                                *)
THEOREM TrueEnd == Spec => []EndMeansAllRead
<1>1. ASSUME IInv PROVE EndMeansAllRead
  <2> SUFFICES ASSUME NEW id \in Stream, NEW len \in 0..MaxBytes, ReadAnswer(id, len) = "Finished"
               PROVE  recv[id].fin /\ recv[id].unread = 0 /\ recv[id].state # "reset"
    BY DEF EndMeansAllRead
  <2>1. CASE id \in cs.finished_reads
    BY <1>1, <2>1 DEF IInv, Ends, EndsFreed
  <2>2. CASE id \notin cs.finished_reads
    <3> DEFINE half == recv[id]
    <3>1. /\ half.unread \in 0..MaxBytes /\ len \in Nat /\ half.unread \in Nat
          /\ half.state \in {"open", "reset", "gone"}
      BY <1>1, Parts, NumAssumption DEF RecvHalf
    <3>2. len > 0 /\ half.state = "open" /\ Copied(half, len) = 0 /\ MeetsEnd(half, len)
      <4>1. Copied(half, len) \in Nat
        BY <3>1 DEF Copied
      <4> QED BY <2>2, <3>1, <4>1 DEF ReadAnswer
    <3> QED BY <3>1, <3>2 DEF Copied, MeetsEnd
  <2> QED BY <2>1, <2>2
<1> QED BY <1>1, Invariance, PTL

(* record_send_fin: a STOP_SENDING and an acknowledgement that cross leave *)
(* the first of them standing, and the caller is told of it once.          *)
THEOREM FactOnce == Spec => SendFactToldOnce
<1> DEFINE Told == \A id \in Stream :
                     hist.told[id] <= 1 /\ (hist.told[id] = 1 <=> cs.send_fins[id] \in Terminal)
           Kept == \A id \in Stream :
                     cs.send_fins[id] \in Terminal => cs'.send_fins[id] \in {cs.send_fins[id], NoFin}
<1>1. IInv => Told
  BY DEF IInv, Facts, ToldMatches
<1>2. IInv /\ [Next]_vars => [Kept]_vars
  BY NextInv DEF FinsStand
<1>3. Spec => []Told
  BY <1>1, Invariance, PTL
<1>4. Spec => [][Kept]_vars
  BY <1>2, Invariance, PTL DEF Spec
<1> QED BY <1>3, <1>4, PTL DEF SendFactToldOnce

(* accept_bi hands out the peer's streams once each and in order, whether  *)
(* a pass had queued them or quinn still held them.                        *)
THEOREM InOrderOnce == Spec => []AcceptsInOrder
<1>1. ASSUME IInv PROVE AcceptsInOrder
  <2> DEFINE acc == hist.accepted
             ready == cs.ready_accepts
             handed == acc \o ready
  <2>1. acc \in Seq(1..NumPeer) /\ ready \in Seq(1..NumPeer) /\ Len(acc) \in Nat /\ Len(ready) \in Nat
    BY <1>1, Parts DEF Hist, Cs
  <2>2. /\ Len(acc) + Len(ready) = remote.taken
        /\ \A i \in 1..Len(acc) : acc[i] = i
        /\ \A i \in 1..Len(ready) : ready[i] = Len(acc) + i
    BY <1>1 DEF IInv, Order, InOrder
  <2> HIDE DEF acc, ready
  <2>3. /\ handed \in Seq(1..NumPeer) /\ Len(handed) = Len(acc) + Len(ready)
        /\ \A i \in 1..Len(handed) : handed[i] = IF i <= Len(acc) THEN acc[i] ELSE ready[i - Len(acc)]
    BY <2>1
  <2> HIDE DEF handed
  <2>4. ASSUME NEW i \in 1..Len(handed) PROVE handed[i] = i
    <3>1. CASE i <= Len(acc)
      BY <2>1, <2>2, <2>3, <3>1
    <3>2. CASE ~(i <= Len(acc))
      <4>1. i - Len(acc) \in 1..Len(ready)
        BY <2>1, <2>3, <3>2
      <4>2. handed[i] = Len(acc) + (i - Len(acc))
        BY <2>2, <2>3, <3>2, <4>1
      <4> QED BY <2>1, <4>2
    <3> QED BY <3>1, <3>2
  <2>5. Len(handed) = remote.taken
    BY <2>2, <2>3
  <2>6. handed = [i \in 1..Len(handed) |-> handed[i]]
    BY <2>3
  <2>7. handed = [i \in 1..remote.taken |-> i]
    BY <2>4, <2>5, <2>6
  <2> QED BY <2>7 DEF AcceptsInOrder, handed, acc, ready
<1> QED BY <1>1, Invariance, PTL
=============================================================================
