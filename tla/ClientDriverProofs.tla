------------------------- MODULE ClientDriverProofs -------------------------
(***************************************************************************)
(* The client's driver, for every number of operations and every size of   *)
(* channel, datagram, write and read. A connection has three sides that do *)
(* not meet: the receive half with the parked read, the send half with the *)
(* parked write and the waiters for the FIN, and the streams to accept     *)
(* with the parked accepts. The invariant has a part for each, and each    *)
(* method of Parked works on one of them.                                  *)
(***************************************************************************)
EXTENDS ClientDriver, Recursion, FiniteSetTheorems

Phase == {"handshake", "open", "closing", "lost"}
RecvState == {"open", "reset", "gone"}
SendState == {"ready", "finished", "reset", "gone"}
Fact == {"None", "Queued", "Acked", "Stopped"}
CoreType ==
  [phase : Phase,
   recv : RecvState, unread : Nat, pos : Nat, arrived : 0..MaxBytes, fin : BOOLEAN, ended : BOOLEAN,
   send : SendState, credit : Nat, granted : 0..MaxCredit, stopped : BOOLEAN, acked : BOOLEAN,
   fact : Fact, wire : Seq(Op),
   ready : Nat, opened : 0..MaxStreams, opens : Nat]
ReadType == [op : Op \cup {NoOp}, kind : {"read", "end"}, got : 0..EndLimit]
WriteType == [op : Op \cup {NoOp}, left : 0..WriteSize]
ParkedType == [accepts : Seq(Op), write : WriteType, read : ReadType, fins : SUBSET Op]
WorldType ==
  [core : CoreType, parked : ParkedType, ans : [Op -> Answer], closed : BOOLEAN,
   delivered : Nat, wasted : Nat, given : Seq(Op)]

-----------------------------------------------------------------------------
(* Worlds with one component replaced                                      *)

WithCore(v, c) == [v EXCEPT !.core = c]
WithParked(v, p) == [v EXCEPT !.parked = p]
WithAns(v, a) == [v EXCEPT !.ans = a]
WithDelivered(v, n) == [v EXCEPT !.delivered = n]
WithWasted(v, n) == [v EXCEPT !.wasted = n]
WithGiven(v, s) == [v EXCEPT !.given = s]

\* The components of a world.
LEMMA WorldFields ==
  ASSUME NEW v \in WorldType
  PROVE  /\ v.core \in CoreType /\ v.parked \in ParkedType /\ v.ans \in [Op -> Answer]
         /\ v.closed \in BOOLEAN /\ v.delivered \in Nat /\ v.wasted \in Nat /\ v.given \in Seq(Op)
BY DEF WorldType

\* Another core.
LEMMA WithCoreIs ==
  ASSUME NEW v \in WorldType, NEW c \in CoreType
  PROVE  /\ WithCore(v, c) \in WorldType /\ WithCore(v, c).core = c
         /\ WithCore(v, c).parked = v.parked /\ WithCore(v, c).ans = v.ans
         /\ WithCore(v, c).delivered = v.delivered /\ WithCore(v, c).wasted = v.wasted
         /\ WithCore(v, c).given = v.given /\ WithCore(v, c).closed = v.closed
BY DEF WorldType, WithCore

\* Other operations parked.
LEMMA WithParkedIs ==
  ASSUME NEW v \in WorldType, NEW p \in ParkedType
  PROVE  /\ WithParked(v, p) \in WorldType /\ WithParked(v, p).core = v.core
         /\ WithParked(v, p).parked = p /\ WithParked(v, p).ans = v.ans
         /\ WithParked(v, p).delivered = v.delivered /\ WithParked(v, p).wasted = v.wasted
         /\ WithParked(v, p).given = v.given /\ WithParked(v, p).closed = v.closed
BY DEF WorldType, WithParked

\* Other answers.
LEMMA WithAnsIs ==
  ASSUME NEW v \in WorldType, NEW a \in [Op -> Answer]
  PROVE  /\ WithAns(v, a) \in WorldType /\ WithAns(v, a).core = v.core
         /\ WithAns(v, a).parked = v.parked /\ WithAns(v, a).ans = a
         /\ WithAns(v, a).delivered = v.delivered /\ WithAns(v, a).wasted = v.wasted
         /\ WithAns(v, a).given = v.given /\ WithAns(v, a).closed = v.closed
BY DEF WorldType, WithAns

\* Another number of bytes delivered.
LEMMA WithDeliveredIs ==
  ASSUME NEW v \in WorldType, NEW n \in Nat
  PROVE  /\ WithDelivered(v, n) \in WorldType /\ WithDelivered(v, n).core = v.core
         /\ WithDelivered(v, n).parked = v.parked /\ WithDelivered(v, n).ans = v.ans
         /\ WithDelivered(v, n).delivered = n /\ WithDelivered(v, n).wasted = v.wasted
         /\ WithDelivered(v, n).given = v.given /\ WithDelivered(v, n).closed = v.closed
BY DEF WorldType, WithDelivered

\* Another number of bytes wasted.
LEMMA WithWastedIs ==
  ASSUME NEW v \in WorldType, NEW n \in Nat
  PROVE  /\ WithWasted(v, n) \in WorldType /\ WithWasted(v, n).core = v.core
         /\ WithWasted(v, n).parked = v.parked /\ WithWasted(v, n).ans = v.ans
         /\ WithWasted(v, n).delivered = v.delivered /\ WithWasted(v, n).wasted = n
         /\ WithWasted(v, n).given = v.given /\ WithWasted(v, n).closed = v.closed
BY DEF WorldType, WithWasted

\* Other streams handed out.
LEMMA WithGivenIs ==
  ASSUME NEW v \in WorldType, NEW s \in Seq(Op)
  PROVE  /\ WithGiven(v, s) \in WorldType /\ WithGiven(v, s).core = v.core
         /\ WithGiven(v, s).parked = v.parked /\ WithGiven(v, s).ans = v.ans
         /\ WithGiven(v, s).delivered = v.delivered /\ WithGiven(v, s).wasted = v.wasted
         /\ WithGiven(v, s).given = s /\ WithGiven(v, s).closed = v.closed
BY DEF WorldType, WithGiven

\* The fields of a core.
LEMMA CoreFields ==
  ASSUME NEW c \in CoreType
  PROVE  /\ c.phase \in Phase /\ c.recv \in RecvState /\ c.unread \in Nat /\ c.pos \in Nat
         /\ c.arrived \in 0..MaxBytes /\ c.fin \in BOOLEAN /\ c.ended \in BOOLEAN
         /\ c.send \in SendState /\ c.credit \in Nat /\ c.granted \in 0..MaxCredit
         /\ c.stopped \in BOOLEAN /\ c.acked \in BOOLEAN /\ c.fact \in Fact /\ c.wire \in Seq(Op)
         /\ c.ready \in Nat /\ c.opened \in 0..MaxStreams /\ c.opens \in Nat
BY DEF CoreType

\* What is parked.
LEMMA ParkedFields ==
  ASSUME NEW p \in ParkedType
  PROVE  p.accepts \in Seq(Op) /\ p.write \in WriteType /\ p.read \in ReadType /\ p.fins \subseteq Op
BY DEF ParkedType

-----------------------------------------------------------------------------
(* Replies                                                                 *)

Replied(a, ops, answer) == [o \in Op |-> IF o \in ops /\ a[o] = "waiting" THEN answer ELSE a[o]]

\* A reply changes the answers of those who wait for it, and nothing else.
LEMMA ReplyIs ==
  ASSUME NEW v \in WorldType, NEW ops, NEW answer \in Answer
  PROVE  /\ Reply(v, ops, answer) \in WorldType /\ Reply(v, ops, answer).core = v.core
         /\ Reply(v, ops, answer).parked = v.parked
         /\ Reply(v, ops, answer).delivered = v.delivered /\ Reply(v, ops, answer).wasted = v.wasted
         /\ Reply(v, ops, answer).given = v.given /\ Reply(v, ops, answer).closed = v.closed
         /\ \A o \in Op : Reply(v, ops, answer).ans[o] =
                            IF o \in ops /\ v.ans[o] = "waiting" THEN answer ELSE v.ans[o]
<1> DEFINE a == Replied(v.ans, ops, answer)
<1>1. Reply(v, ops, answer) = WithAns(v, a)
  BY DEF Reply, WithAns, Replied
<1>2. a \in [Op -> Answer]
  BY WorldFields DEF Replied
<1>3. \A o \in Op : a[o] = IF o \in ops /\ v.ans[o] = "waiting" THEN answer ELSE v.ans[o]
  BY DEF Replied
<1> HIDE DEF a
<1> QED BY <1>1, <1>2, <1>3, WithAnsIs

-----------------------------------------------------------------------------
(* The invariant                                                           *)

\* The operations started, by number.
KindSeq == {s \in Seq(Kind \cup {"drop"}) : Len(s) <= MaxOps}

\* A reply to the operation is still owed.
Owed(v, o) == v.ans[o] \in {"waiting", "abandoned"}

\* The receive half: the parked read is one that was started and is owed its answer, a
\* read_to_end only succeeds at the end, bytes are only wasted on a read that got no answer.
RecvSide(v, ks) ==
  /\ v.core.unread <= v.core.arrived
  /\ v.core.recv # "open" => v.core.unread = 0
  /\ v.core.ended => v.core.recv = "gone" /\ v.core.fin
  /\ v.parked.read.op = NoOp => v.parked.read.got = 0
  /\ v.parked.read.kind = "read" => v.parked.read.got = 0
  /\ v.parked.read.op # NoOp =>
       /\ v.parked.read.op \in 1..Len(ks) /\ ks[v.parked.read.op] = v.parked.read.kind
       /\ Owed(v, v.parked.read.op)
  /\ \A o \in 1..Len(ks) : ks[o] = "end" /\ v.ans[o] = "Ok" => v.core.fin /\ v.core.recv = "gone"
  /\ v.wasted > 0 => \E o \in 1..Len(ks) : ks[o] \in {"read", "end"} /\ v.ans[o] \notin {"Ok", "waiting"}

\* How many bytes on the wire are of an operation.
Count(wire, o) == Cardinality({i \in DOMAIN wire : wire[i] = o})

\* The send half: facts agree with the state of the stream, the wire is in order, the
\* parked write is the last on the wire and lacks what is not there yet.
SendCore(c) ==
  /\ Len(c.wire) + c.credit <= c.granted
  /\ c.fact = "Acked" => c.acked /\ c.send = "gone"
  /\ c.fact = "Stopped" => c.stopped
  /\ c.fact = "Queued" => c.send = "finished" /\ ~c.stopped
  /\ \A i, j \in 1..Len(c.wire) : i < j => c.wire[i] <= c.wire[j]
WriteParked(v, ks) ==
  v.parked.write.op # NoOp =>
    /\ v.parked.write.op \in 1..Len(ks) /\ ks[v.parked.write.op] = "write" /\ Owed(v, v.parked.write.op)
    /\ \A i \in 1..Len(v.core.wire) : v.core.wire[i] <= v.parked.write.op
    /\ Count(v.core.wire, v.parked.write.op) + v.parked.write.left = WriteSize
SentIsSent(v, ks) ==
  \A o \in 1..Len(ks) : v.ans[o] = "Ok" =>
    /\ ks[o] = "write" => Count(v.core.wire, o) = WriteSize
    /\ ks[o] = "wait" => v.core.acked
SendSide(v, ks) ==
  /\ SendCore(v.core) /\ WriteParked(v, ks) /\ SentIsSent(v, ks)
  /\ \A o \in v.parked.fins : o \in 1..Len(ks) /\ ks[o] = "wait"

\* The streams to accept: those handed out, and then the accepts that wait, are in the
\* order in which they were asked for.
AcceptSide(v, ks) ==
  /\ v.core.ready <= v.core.opened
  /\ \A i \in 1..Len(v.parked.accepts) :
       v.parked.accepts[i] \in 1..Len(ks) /\ ks[v.parked.accepts[i]] = "accept"
  /\ \A i, j \in 1..Len(v.parked.accepts) : i < j => v.parked.accepts[i] < v.parked.accepts[j]
  /\ \A i, j \in 1..Len(v.given) : i < j => v.given[i] < v.given[j]
  /\ \A i \in 1..Len(v.given), j \in 1..Len(v.parked.accepts) : v.given[i] < v.parked.accepts[j]

\* Nothing that is parked could go on.
ReadQuiet(v) ==
  v.parked.read.op # NoOp => v.core.recv = "open" /\ v.core.unread = 0 /\ ~v.core.fin
WriteQuiet(v) ==
  v.core.phase = "open" /\ v.parked.write.op # NoOp =>
    \/ v.core.send = "ready" /\ v.core.credit = 0 /\ ~v.core.stopped
    \/ v.core.send \in {"finished", "gone"}
AcceptQuiet(v) == v.parked.accepts # <<>> => v.core.ready = 0
FinQuiet(v) == v.parked.fins # {} => v.core.send = "finished" /\ ~v.core.stopped

\* What is parked or has been served was started before the operation o.
RecvBefore(v, o) == v.parked.read.op < o
SendBefore(v, o) ==
  /\ \A i \in 1..Len(v.core.wire) : v.core.wire[i] < o
  /\ v.parked.write.op < o
  /\ \A f \in v.parked.fins : f < o
AcceptBefore(v, o) ==
  /\ \A i \in 1..Len(v.given) : v.given[i] < o
  /\ \A i \in 1..Len(v.parked.accepts) : v.parked.accepts[i] < o
Before(v, o) == RecvBefore(v, o) /\ SendBefore(v, o) /\ AcceptBefore(v, o)

\* Every byte taken from the core is with a reader, wasted, or in the parked read.
Bytes(v) == v.core.pos = v.delivered + v.wasted + v.parked.read.got

-----------------------------------------------------------------------------
(* Steps on one side                                                       *)

\* What a step leaves alone.
RecvCoreSame(c, d) ==
  /\ d.recv = c.recv /\ d.unread = c.unread /\ d.pos = c.pos
  /\ d.arrived = c.arrived /\ d.fin = c.fin /\ d.ended = c.ended
SendCoreSame(c, d) ==
  /\ d.send = c.send /\ d.credit = c.credit /\ d.granted = c.granted /\ d.stopped = c.stopped
  /\ d.acked = c.acked /\ d.fact = c.fact /\ d.wire = c.wire
AcceptCoreSame(c, d) == d.ready = c.ready /\ d.opened = c.opened
RecvSame(v, u) ==
  /\ RecvCoreSame(v.core, u.core) /\ u.parked.read = v.parked.read
  /\ u.delivered = v.delivered /\ u.wasted = v.wasted
SendSame(v, u) ==
  SendCoreSame(v.core, u.core) /\ u.parked.write = v.parked.write /\ u.parked.fins = v.parked.fins
AcceptSame(v, u) ==
  AcceptCoreSame(v.core, u.core) /\ u.parked.accepts = v.parked.accepts /\ u.given = v.given
Alike(v, u) == u \in WorldType /\ u.core.phase = v.core.phase /\ u.closed = v.closed

\* A step of the receive half that may answer op and the parked read.
RecvMove(v, u, ks, op) ==
  /\ Alike(v, u) /\ SendSame(v, u) /\ AcceptSame(v, u)
  /\ RecvSide(u, ks) /\ (ReadQuiet(v) => ReadQuiet(u))
  /\ u.parked.read.op \in {NoOp, v.parked.read.op, op}
  /\ \A o \in Op : o \notin {v.parked.read.op, op} => u.ans[o] = v.ans[o]
RecvStep(v, u, ks, op) == RecvMove(v, u, ks, op) /\ (Bytes(v) => Bytes(u))

\* A step of the send half that may answer op, the parked write and the waiters for the FIN.
SendStep(v, u, ks, op) ==
  /\ Alike(v, u) /\ RecvSame(v, u) /\ AcceptSame(v, u) /\ u.core.acked = v.core.acked
  /\ SendSide(u, ks) /\ (WriteQuiet(v) => WriteQuiet(u)) /\ (FinQuiet(v) => FinQuiet(u))
  /\ \A o \in Nat : o > op /\ SendBefore(v, o) => SendBefore(u, o)
  /\ \A o \in Op : o \notin {v.parked.write.op, op} \cup v.parked.fins => u.ans[o] = v.ans[o]

\* A step of the streams to accept that may answer op and the parked accepts.
AcceptStep(v, u, ks, op) ==
  /\ Alike(v, u) /\ RecvSame(v, u) /\ SendSame(v, u)
  /\ AcceptSide(u, ks) /\ (AcceptQuiet(v) => AcceptQuiet(u))
  /\ \A o \in Nat : o > op /\ AcceptBefore(v, o) => AcceptBefore(u, o)
  /\ \A o \in Op : o # op /\ (\A i \in 1..Len(v.parked.accepts) : o # v.parked.accepts[i]) =>
       u.ans[o] = v.ans[o]

\* The three sides of a connection.
Sides(v, ks) == RecvSide(v, ks) /\ SendSide(v, ks) /\ AcceptSide(v, ks)

\* What a step on any side keeps.
Step(v, u, ks, op) ==
  /\ Alike(v, u) /\ u.core.acked = v.core.acked /\ Sides(u, ks)
  /\ (ReadQuiet(v) => ReadQuiet(u)) /\ (WriteQuiet(v) => WriteQuiet(u))
  /\ (AcceptQuiet(v) => AcceptQuiet(u)) /\ (FinQuiet(v) => FinQuiet(u))
  /\ (Bytes(v) => Bytes(u))
  /\ \A o \in Nat : o > op /\ Before(v, o) => Before(u, o)
  /\ \A o \in Op : o > op /\ Before(v, o) => u.ans[o] = v.ans[o]

\* The receive half does not hear of answers to others.
LEMMA RecvKept ==
  ASSUME NEW v \in WorldType, NEW u \in WorldType, NEW ks \in KindSeq,
         RecvSame(v, u), RecvSide(v, ks),
         \A o \in 1..Len(ks) : ks[o] \in {"read", "end"} => u.ans[o] = v.ans[o]
  PROVE  /\ RecvSide(u, ks) /\ (Bytes(v) => Bytes(u)) /\ (ReadQuiet(v) => ReadQuiet(u))
         /\ \A o : RecvBefore(v, o) => RecvBefore(u, o)
<1>1. /\ u.core.recv = v.core.recv /\ u.core.unread = v.core.unread /\ u.core.pos = v.core.pos
      /\ u.core.arrived = v.core.arrived /\ u.core.fin = v.core.fin /\ u.core.ended = v.core.ended
      /\ u.parked.read = v.parked.read /\ u.delivered = v.delivered /\ u.wasted = v.wasted
  BY DEF RecvSame, RecvCoreSame
<1>2. (Bytes(v) => Bytes(u)) /\ (ReadQuiet(v) => ReadQuiet(u)) /\ \A o : RecvBefore(v, o) => RecvBefore(u, o)
  BY <1>1 DEF Bytes, ReadQuiet, RecvBefore
<1>3. v.parked.read.kind \in {"read", "end"}
  BY WorldFields, ParkedFields DEF ReadType
<1>4. v.parked.read.op # NoOp => Owed(u, u.parked.read.op)
  BY <1>1, <1>3 DEF RecvSide, Owed
<1>5. RecvSide(u, ks)
  BY <1>1, <1>4 DEF RecvSide
<1> QED BY <1>2, <1>5

\* Neither does the send half.
LEMMA SendKept ==
  ASSUME NEW v \in WorldType, NEW u \in WorldType, NEW ks \in KindSeq,
         SendSame(v, u), SendSide(v, ks),
         \A o \in 1..Len(ks) : ks[o] \in {"write", "wait"} => u.ans[o] = v.ans[o]
  PROVE  /\ SendSide(u, ks) /\ u.core.acked = v.core.acked
         /\ u.core.phase = v.core.phase => (WriteQuiet(v) => WriteQuiet(u))
         /\ FinQuiet(v) => FinQuiet(u)
         /\ \A o : SendBefore(v, o) => SendBefore(u, o)
<1>1. /\ u.core.send = v.core.send /\ u.core.credit = v.core.credit /\ u.core.granted = v.core.granted
      /\ u.core.stopped = v.core.stopped /\ u.core.acked = v.core.acked /\ u.core.fact = v.core.fact
      /\ u.core.wire = v.core.wire /\ u.parked.write = v.parked.write /\ u.parked.fins = v.parked.fins
  BY DEF SendSame, SendCoreSame
<1>2. SendCore(u.core)
  BY <1>1 DEF SendSide, SendCore
<1>3. WriteParked(u, ks)
  BY <1>1 DEF SendSide, WriteParked, Owed
<1>4. SentIsSent(u, ks)
  BY <1>1 DEF SendSide, SentIsSent
<1>5. \A o \in u.parked.fins : o \in 1..Len(ks) /\ ks[o] = "wait"
  BY <1>1 DEF SendSide
<1>6. \A o : SendBefore(v, o) => SendBefore(u, o)
  BY <1>1 DEF SendBefore
<1>7. /\ u.core.phase = v.core.phase => (WriteQuiet(v) => WriteQuiet(u))
      /\ FinQuiet(v) => FinQuiet(u)
  BY <1>1 DEF WriteQuiet, FinQuiet
<1> QED BY <1>1, <1>2, <1>3, <1>4, <1>5, <1>6, <1>7 DEF SendSide

\* The streams to accept do not depend on answers.
LEMMA AcceptKept ==
  ASSUME NEW v \in WorldType, NEW u \in WorldType, NEW ks \in KindSeq,
         AcceptSame(v, u), AcceptSide(v, ks)
  PROVE  /\ AcceptSide(u, ks) /\ (AcceptQuiet(v) => AcceptQuiet(u))
         /\ \A o : AcceptBefore(v, o) => AcceptBefore(u, o)
BY DEF AcceptSame, AcceptCoreSame, AcceptSide, AcceptQuiet, AcceptBefore

\* A step of the receive half is a step.
LEMMA RecvStepIsStep ==
  ASSUME NEW v \in WorldType, NEW u, NEW ks \in KindSeq, NEW op \in Nat,
         Sides(v, ks), RecvStep(v, u, ks, op),
         op # NoOp => op \in 1..Len(ks) /\ ks[op] \notin {"write", "wait"}
  PROVE  Step(v, u, ks, op)
<1>1. u \in WorldType /\ SendSame(v, u) /\ AcceptSame(v, u) /\ u.core.phase = v.core.phase
  BY DEF RecvStep, RecvMove, Alike
<1>2. SendSide(v, ks) /\ AcceptSide(v, ks) /\ RecvSide(v, ks) /\ RecvSide(u, ks)
  BY DEF Sides, RecvStep, RecvMove
<1>3. Len(ks) \in Nat /\ Len(ks) <= MaxOps
  BY DEF KindSeq
<1>4. v.parked.read.op # NoOp => ks[v.parked.read.op] \in {"read", "end"}
  <2>1. v.parked.read.kind \in {"read", "end"}
    BY WorldFields, ParkedFields DEF ReadType
  <2> QED BY <2>1, <1>2 DEF RecvSide
<1>5. ASSUME NEW o \in 1..Len(ks), ks[o] \in {"write", "wait"} PROVE u.ans[o] = v.ans[o]
  <2>1. o \in Op /\ o # NoOp
    BY <1>3, <1>5, OpsAssumption DEF Op, NoOp
  <2>2. o \notin {v.parked.read.op, op}
    BY <2>1, <1>4, <1>5
  <2> QED BY <2>1, <2>2 DEF RecvStep, RecvMove
<1>6. /\ SendSide(u, ks) /\ u.core.acked = v.core.acked /\ (WriteQuiet(v) => WriteQuiet(u))
      /\ (FinQuiet(v) => FinQuiet(u)) /\ \A o : SendBefore(v, o) => SendBefore(u, o)
  BY <1>1, <1>2, <1>5, SendKept
<1>7. /\ AcceptSide(u, ks) /\ (AcceptQuiet(v) => AcceptQuiet(u))
      /\ \A o : AcceptBefore(v, o) => AcceptBefore(u, o)
  BY <1>1, <1>2, AcceptKept
<1>8. ASSUME NEW o \in Nat, o > op, Before(v, o) PROVE Before(u, o)
  <2>1. u.parked.read.op < o
    BY <1>8 DEF RecvStep, RecvMove, Before, RecvBefore, NoOp
  <2> QED BY <2>1, <1>6, <1>7, <1>8 DEF Before, RecvBefore
<1>9. ASSUME NEW o \in Op, o > op, Before(v, o) PROVE u.ans[o] = v.ans[o]
  <2>1. v.parked.read.op < o /\ v.parked.read.op \in Nat /\ o \in Nat
    BY <1>9, WorldFields, ParkedFields, OpsAssumption DEF Before, RecvBefore, ReadType, Op, NoOp
  <2> QED BY <2>1, <1>9 DEF RecvStep, RecvMove
<1>10. Alike(v, u) /\ (ReadQuiet(v) => ReadQuiet(u)) /\ (Bytes(v) => Bytes(u))
  BY DEF RecvStep, RecvMove, Alike
<1> QED BY <1>1, <1>2, <1>6, <1>7, <1>8, <1>9, <1>10 DEF Step, Sides

\* A step of the send half is a step.
LEMMA SendStepIsStep ==
  ASSUME NEW v \in WorldType, NEW u, NEW ks \in KindSeq, NEW op \in Nat,
         Sides(v, ks), SendStep(v, u, ks, op),
         op # NoOp => op \in 1..Len(ks) /\ ks[op] \notin {"read", "end"}
  PROVE  Step(v, u, ks, op)
<1>1. u \in WorldType /\ RecvSame(v, u) /\ AcceptSame(v, u) /\ u.core.acked = v.core.acked
  BY DEF SendStep, Alike
<1>2. SendSide(v, ks) /\ AcceptSide(v, ks) /\ RecvSide(v, ks) /\ SendSide(u, ks)
  BY DEF Sides, SendStep
<1>3. Len(ks) \in Nat /\ Len(ks) <= MaxOps
  BY DEF KindSeq
<1>4. /\ v.parked.write.op # NoOp => ks[v.parked.write.op] = "write"
      /\ \A o \in v.parked.fins : ks[o] = "wait"
  BY <1>2 DEF SendSide, WriteParked
<1>5. ASSUME NEW o \in 1..Len(ks), ks[o] \in {"read", "end"} PROVE u.ans[o] = v.ans[o]
  <2>1. o \in Op /\ o # NoOp
    BY <1>3, <1>5, OpsAssumption DEF Op, NoOp
  <2>2. o \notin {v.parked.write.op, op} \cup v.parked.fins
    BY <2>1, <1>4, <1>5
  <2> QED BY <2>1, <2>2 DEF SendStep
<1>6. /\ RecvSide(u, ks) /\ (Bytes(v) => Bytes(u)) /\ (ReadQuiet(v) => ReadQuiet(u))
      /\ \A o : RecvBefore(v, o) => RecvBefore(u, o)
  BY <1>1, <1>2, <1>5, RecvKept
<1>7. /\ AcceptSide(u, ks) /\ (AcceptQuiet(v) => AcceptQuiet(u))
      /\ \A o : AcceptBefore(v, o) => AcceptBefore(u, o)
  BY <1>1, <1>2, AcceptKept
<1>8. ASSUME NEW o \in Nat, o > op, Before(v, o) PROVE Before(u, o)
  BY <1>6, <1>7, <1>8 DEF Before, SendStep
<1>9. ASSUME NEW o \in Op, o > op, Before(v, o) PROVE u.ans[o] = v.ans[o]
  <2>1. SendBefore(v, o) /\ o \in Nat
    BY <1>9, OpsAssumption DEF Before, Op
  <2>2. v.parked.write.op \in Nat /\ v.parked.write.op < o /\ \A f \in v.parked.fins : f < o /\ f \in Nat
    BY <2>1, WorldFields, ParkedFields, OpsAssumption, SMTT(30) DEF SendBefore, WriteType, Op, NoOp
  <2>3. o \notin {v.parked.write.op, op} \cup v.parked.fins
    BY <2>1, <2>2, <1>9
  <2> QED BY <2>3 DEF SendStep
<1>10. Alike(v, u) /\ (WriteQuiet(v) => WriteQuiet(u)) /\ (FinQuiet(v) => FinQuiet(u))
  BY DEF SendStep, Alike
<1> QED BY <1>1, <1>2, <1>6, <1>7, <1>8, <1>9, <1>10 DEF Step, Sides

\* A step of the streams to accept is a step.
LEMMA AcceptStepIsStep ==
  ASSUME NEW v \in WorldType, NEW u, NEW ks \in KindSeq, NEW op \in Nat,
         Sides(v, ks), AcceptStep(v, u, ks, op),
         op # NoOp => op \in 1..Len(ks) /\ ks[op] \notin {"read", "end", "write", "wait"}
  PROVE  Step(v, u, ks, op)
<1>1. u \in WorldType /\ RecvSame(v, u) /\ SendSame(v, u) /\ u.core.phase = v.core.phase
  BY DEF AcceptStep, Alike
<1>2. SendSide(v, ks) /\ AcceptSide(v, ks) /\ RecvSide(v, ks) /\ AcceptSide(u, ks)
  BY DEF Sides, AcceptStep
<1>3. Len(ks) \in Nat /\ Len(ks) <= MaxOps
  BY DEF KindSeq
<1>4. \A i \in 1..Len(v.parked.accepts) : ks[v.parked.accepts[i]] = "accept"
  BY <1>2 DEF AcceptSide
<1>5. ASSUME NEW o \in 1..Len(ks), ks[o] \in {"read", "end", "write", "wait"} PROVE u.ans[o] = v.ans[o]
  <2>1. o \in Op /\ o # NoOp
    BY <1>3, <1>5, OpsAssumption DEF Op, NoOp
  <2>2. o # op /\ \A i \in 1..Len(v.parked.accepts) : o # v.parked.accepts[i]
    BY <2>1, <1>4, <1>5
  <2> QED BY <2>1, <2>2 DEF AcceptStep
<1>6. /\ RecvSide(u, ks) /\ (Bytes(v) => Bytes(u)) /\ (ReadQuiet(v) => ReadQuiet(u))
      /\ \A o : RecvBefore(v, o) => RecvBefore(u, o)
  BY <1>1, <1>2, <1>5, RecvKept
<1>7. /\ SendSide(u, ks) /\ u.core.acked = v.core.acked /\ (WriteQuiet(v) => WriteQuiet(u))
      /\ (FinQuiet(v) => FinQuiet(u)) /\ \A o : SendBefore(v, o) => SendBefore(u, o)
  BY <1>1, <1>2, <1>5, SendKept
<1>8. ASSUME NEW o \in Nat, o > op, Before(v, o) PROVE Before(u, o)
  BY <1>6, <1>7, <1>8 DEF Before, AcceptStep
<1>9. ASSUME NEW o \in Op, o > op, Before(v, o) PROVE u.ans[o] = v.ans[o]
  <2>1. AcceptBefore(v, o) /\ o \in Nat
    BY <1>9, OpsAssumption DEF Before, Op
  <2>2. \A i \in 1..Len(v.parked.accepts) : v.parked.accepts[i] < o /\ v.parked.accepts[i] \in Nat
    BY <2>1, WorldFields, ParkedFields, OpsAssumption DEF AcceptBefore, Op
  <2>3. o # op /\ \A i \in 1..Len(v.parked.accepts) : o # v.parked.accepts[i]
    BY <2>1, <2>2, <1>9
  <2> QED BY <2>3 DEF AcceptStep
<1>10. Alike(v, u) /\ (AcceptQuiet(v) => AcceptQuiet(u))
  BY DEF AcceptStep, Alike
<1> QED BY <1>1, <1>2, <1>6, <1>7, <1>8, <1>9, <1>10 DEF Step, Sides

\* Two steps.
LEMMA StepTwice ==
  ASSUME NEW v, NEW x, NEW u, NEW ks, NEW a \in Nat, NEW b \in Nat, NEW op \in Nat, a <= op, b <= op,
         Step(v, x, ks, a), Step(x, u, ks, b)
  PROVE  Step(v, u, ks, op)
<1>1. \A o \in Nat : o > op => o > a /\ o > b
  OBVIOUS
<1>2. \A o \in Op : o \in Nat
  BY OpsAssumption DEF Op
<1>3. \A o \in Nat : o > op /\ Before(v, o) => Before(x, o) /\ Before(u, o)
  BY <1>1 DEF Step
<1>4. \A o \in Op : o > op /\ Before(v, o) => u.ans[o] = v.ans[o]
  BY <1>1, <1>2, <1>3 DEF Step
<1>5. Alike(v, u)
  BY DEF Step, Alike
<1> QED BY <1>3, <1>4, <1>5 DEF Step

-----------------------------------------------------------------------------
(* The receive half                                                        *)

Taken(c, n, recv, ended) ==
  [c EXCEPT !.unread = @ - n, !.pos = @ + n, !.recv = recv, !.ended = ended]

\* A core from which bytes were read.
LEMMA TakenIs ==
  ASSUME NEW c \in CoreType, NEW n \in 0..c.unread, NEW recv \in RecvState, NEW ended \in BOOLEAN
  PROVE  /\ Taken(c, n, recv, ended) \in CoreType /\ Taken(c, n, recv, ended).phase = c.phase
         /\ SendCoreSame(c, Taken(c, n, recv, ended)) /\ AcceptCoreSame(c, Taken(c, n, recv, ended))
         /\ Taken(c, n, recv, ended).recv = recv /\ Taken(c, n, recv, ended).unread = c.unread - n
         /\ Taken(c, n, recv, ended).pos = c.pos + n /\ Taken(c, n, recv, ended).ended = ended
         /\ Taken(c, n, recv, ended).arrived = c.arrived /\ Taken(c, n, recv, ended).fin = c.fin
<1>1. c.unread - n \in Nat /\ c.pos + n \in Nat
  BY CoreFields
<1> QED BY <1>1 DEF Taken, CoreType, SendCoreSame, AcceptCoreSame

\* The bytes of a read are delivered if somebody waits for them, and wasted otherwise.
LEMMA ReplyBytesIs ==
  ASSUME NEW v \in WorldType, NEW r, r.op \in Op, r.got \in Nat
  PROVE  /\ ReplyBytes(v, r) \in WorldType /\ ReplyBytes(v, r).core = v.core /\ ReplyBytes(v, r).parked = v.parked
         /\ ReplyBytes(v, r).given = v.given /\ ReplyBytes(v, r).closed = v.closed
         /\ \A o \in Op : ReplyBytes(v, r).ans[o] = IF o = r.op /\ v.ans[o] = "waiting" THEN "Ok" ELSE v.ans[o]
         /\ v.ans[r.op] = "waiting" => ReplyBytes(v, r).delivered = v.delivered + r.got /\ ReplyBytes(v, r).wasted = v.wasted
         /\ v.ans[r.op] # "waiting" => ReplyBytes(v, r).delivered = v.delivered /\ ReplyBytes(v, r).wasted = v.wasted + r.got
<1> DEFINE u == ReplyBytes(v, r)
<1>1. CASE v.ans[r.op] = "waiting"
  <2> DEFINE x == Reply(v, {r.op}, "Ok")
             n == x.delivered + r.got
  <2>1. /\ x \in WorldType /\ x.core = v.core /\ x.parked = v.parked /\ x.given = v.given
        /\ x.closed = v.closed /\ x.delivered = v.delivered /\ x.wasted = v.wasted
        /\ \A o \in Op : x.ans[o] = IF o \in {r.op} /\ v.ans[o] = "waiting" THEN "Ok" ELSE v.ans[o]
    BY ReplyIs DEF Answer
  <2>2. u = WithDelivered(x, n)
    BY <1>1 DEF ReplyBytes, WithDelivered
  <2>3. n \in Nat
    BY <2>1, WorldFields
  <2>6. n = v.delivered + r.got
    BY <2>1
  <2>7. x \in WorldType
    BY <2>1
  <2> HIDE DEF x, n, u
  <2>4. /\ u \in WorldType /\ u.core = x.core /\ u.parked = x.parked /\ u.given = x.given
        /\ u.closed = x.closed /\ u.ans = x.ans /\ u.wasted = x.wasted
        /\ u.delivered = n
    BY <2>7, <2>2, <2>3, WithDeliveredIs
  <2>5. \A o \in Op : u.ans[o] = IF o = r.op /\ v.ans[o] = "waiting" THEN "Ok" ELSE v.ans[o]
    BY <2>1, <2>4
  <2> QED BY <1>1, <2>1, <2>4, <2>5, <2>6 DEF u
<1>2. CASE v.ans[r.op] # "waiting"
  <2>1. u = WithWasted(v, v.wasted + r.got)
    BY <1>2 DEF ReplyBytes, WithWasted
  <2>2. v.wasted + r.got \in Nat
    BY WorldFields
  <2> QED BY <1>2, <2>1, <2>2, WithWastedIs, SMTT(30)
<1> QED BY <1>1, <1>2

\* The bytes of a read that fails are wasted.
LEMMA ReplyReadErrorIs ==
  ASSUME NEW v \in WorldType, NEW r, r.op \in Op, r.got \in Nat, NEW answer \in Answer
  PROVE  /\ ReplyReadError(v, r, answer) \in WorldType /\ ReplyReadError(v, r, answer).core = v.core /\ ReplyReadError(v, r, answer).parked = v.parked
         /\ ReplyReadError(v, r, answer).given = v.given /\ ReplyReadError(v, r, answer).closed = v.closed
         /\ \A o \in Op : ReplyReadError(v, r, answer).ans[o] = IF o = r.op /\ v.ans[o] = "waiting" THEN answer ELSE v.ans[o]
         /\ ReplyReadError(v, r, answer).delivered = v.delivered /\ ReplyReadError(v, r, answer).wasted = v.wasted + r.got
<1> DEFINE u == ReplyReadError(v, r, answer)
           x == Reply(v, {r.op}, answer)
           n == x.wasted + r.got
<1>1. /\ x \in WorldType /\ x.core = v.core /\ x.parked = v.parked /\ x.given = v.given
      /\ x.closed = v.closed /\ x.delivered = v.delivered /\ x.wasted = v.wasted
      /\ \A o \in Op : x.ans[o] = IF o \in {r.op} /\ v.ans[o] = "waiting" THEN answer ELSE v.ans[o]
  BY ReplyIs
<1>2. u = WithWasted(x, n)
  BY DEF ReplyReadError, WithWasted
<1>3. n \in Nat
  BY <1>1, WorldFields
<1>6. n = v.wasted + r.got
  BY <1>1
<1>7. x \in WorldType
  BY <1>1
<1> HIDE DEF x, n, u
<1>4. /\ u \in WorldType /\ u.core = x.core /\ u.parked = x.parked /\ u.given = x.given
      /\ u.closed = x.closed /\ u.ans = x.ans /\ u.delivered = x.delivered
      /\ u.wasted = n
  BY <1>7, <1>2, <1>3, WithWastedIs
<1>5. \A o \in Op : u.ans[o] = IF o = r.op /\ v.ans[o] = "waiting" THEN answer ELSE v.ans[o]
  BY <1>1, <1>4
<1> QED BY <1>1, <1>4, <1>5, <1>6 DEF u

\* The receive half after a read has been answered: its bytes are wasted only if the
\* answer is not Ok, and a read_to_end is answered Ok only at the end.
LEMMA ReadAnswered ==
  ASSUME NEW v \in WorldType, NEW u \in WorldType, NEW ks \in KindSeq, NEW op \in 1..Len(ks),
         RecvSide(v, ks), ks[op] \in {"read", "end"}, v.parked.read.op # op,
         u.core.unread <= u.core.arrived, u.core.recv # "open" => u.core.unread = 0,
         u.core.ended => u.core.recv = "gone" /\ u.core.fin,
         v.core.fin /\ v.core.recv = "gone" => u.core.fin /\ u.core.recv = "gone",
         u.parked.read = v.parked.read,
         \A o \in Op : o # op => u.ans[o] = v.ans[o],
         u.ans[op] = "Ok" /\ ks[op] = "end" => u.core.fin /\ u.core.recv = "gone",
         v.ans[op] # "Ok", v.ans[op] # "waiting" => u.ans[op] = v.ans[op],
         u.wasted = v.wasted \/ u.ans[op] \notin {"Ok", "waiting"}
  PROVE  RecvSide(u, ks)
<1>1. \A o \in 1..Len(ks) : o \in Op
  BY OpsAssumption DEF KindSeq, Op
<1>2. u.parked.read.op # NoOp => Owed(u, u.parked.read.op)
  BY <1>1 DEF RecvSide, Owed
<1>3. \A o \in 1..Len(ks) : ks[o] = "end" /\ u.ans[o] = "Ok" => u.core.fin /\ u.core.recv = "gone"
  BY <1>1 DEF RecvSide
<1>4. u.wasted > 0 => \E o \in 1..Len(ks) : ks[o] \in {"read", "end"} /\ u.ans[o] \notin {"Ok", "waiting"}
  <2>1. CASE u.ans[op] \notin {"Ok", "waiting"}
    BY <2>1
  <2>2. CASE u.wasted = v.wasted /\ u.ans[op] \in {"Ok", "waiting"}
    <3>1. SUFFICES ASSUME u.wasted > 0
                   PROVE  \E o \in 1..Len(ks) : ks[o] \in {"read", "end"} /\ u.ans[o] \notin {"Ok", "waiting"}
      OBVIOUS
    <3>2. PICK o \in 1..Len(ks) : ks[o] \in {"read", "end"} /\ v.ans[o] \notin {"Ok", "waiting"}
      BY <2>2, <3>1 DEF RecvSide
    <3> QED BY <1>1, <2>2, <3>2
  <2> QED BY <2>1, <2>2
<1> QED BY <1>2, <1>3, <1>4 DEF RecvSide

\* The core has changed the receive half only.
RecvCoreStep(c, d) ==
  /\ d \in CoreType /\ SendCoreSame(c, d) /\ AcceptCoreSame(c, d) /\ d.phase = c.phase
  /\ d.unread <= d.arrived /\ (d.recv # "open" => d.unread = 0)
  /\ d.ended => d.recv = "gone" /\ d.fin
  /\ c.fin /\ c.recv = "gone" => d.fin /\ d.recv = "gone"

\* The receive half after such a change and an answer to a read.
LEMMA ReadReplyMove ==
  ASSUME NEW v \in WorldType, NEW ks \in KindSeq, NEW op \in 1..Len(ks), NEW d,
         RecvCoreStep(v.core, d), RecvSide(v, ks), ks[op] \in {"read", "end"}, Owed(v, op),
         v.parked.read.op # op, ReadQuiet(v) => v.parked.read.op = NoOp,
         NEW u \in WorldType, u.core = d, u.parked = v.parked, u.given = v.given, u.closed = v.closed,
         \A o \in Op : o # op => u.ans[o] = v.ans[o],
         u.ans[op] = "Ok" /\ ks[op] = "end" => d.fin /\ d.recv = "gone",
         v.ans[op] # "waiting" => u.ans[op] = v.ans[op],
         u.wasted = v.wasted \/ u.ans[op] \notin {"Ok", "waiting"}
  PROVE  RecvMove(v, u, ks, op)
<1>1. RecvSide(u, ks)
  <2>1. /\ d.unread <= d.arrived /\ (d.recv # "open" => d.unread = 0)
        /\ (d.ended => d.recv = "gone" /\ d.fin)
        /\ (v.core.fin /\ v.core.recv = "gone" => d.fin /\ d.recv = "gone")
    BY DEF RecvCoreStep
  <2>2. v.ans[op] # "Ok"
    BY DEF Owed
  <2> QED BY <2>1, <2>2, ReadAnswered
<1>2. Alike(v, u) /\ SendSame(v, u) /\ AcceptSame(v, u)
  BY DEF Alike, SendSame, AcceptSame, RecvCoreStep
<1>3. ReadQuiet(v) => ReadQuiet(u)
  BY DEF ReadQuiet
<1>4. u.parked.read.op \in {NoOp, v.parked.read.op, op}
  OBVIOUS
<1>5. \A o \in Op : o \notin {v.parked.read.op, op} => u.ans[o] = v.ans[o]
  OBVIOUS
<1> QED BY <1>1, <1>2, <1>3, <1>4, <1>5 DEF RecvMove

\* A read that is answered with its bytes.
LEMMA ReadReplied ==
  ASSUME NEW v \in WorldType, NEW ks \in KindSeq, NEW op \in 1..Len(ks), NEW d, NEW r,
         r.op = op, r.got \in Nat, RecvCoreStep(v.core, d),
         RecvSide(v, ks), ks[op] \in {"read", "end"}, Owed(v, op), v.parked.read.op # op,
         ReadQuiet(v) => v.parked.read.op = NoOp, ks[op] = "end" => d.fin /\ d.recv = "gone"
  PROVE  /\ RecvMove(v, ReplyBytes(WithCore(v, d), r), ks, op)
         /\ ReplyBytes(WithCore(v, d), r).core = d
         /\ ReplyBytes(WithCore(v, d), r).parked = v.parked
         /\ ReplyBytes(WithCore(v, d), r).delivered + ReplyBytes(WithCore(v, d), r).wasted =
              v.delivered + v.wasted + r.got
<1> DEFINE x == WithCore(v, d)
           u == ReplyBytes(x, r)
<1>1. /\ x \in WorldType /\ x.core = d /\ x.parked = v.parked /\ x.ans = v.ans /\ x.given = v.given
      /\ x.closed = v.closed /\ x.delivered = v.delivered /\ x.wasted = v.wasted
  BY WithCoreIs DEF RecvCoreStep
<1>2. op \in Op /\ v.delivered \in Nat /\ v.wasted \in Nat
  BY OpsAssumption, WorldFields DEF KindSeq, Op
<1> HIDE DEF x
<1>3. /\ u \in WorldType /\ u.core = x.core /\ u.parked = x.parked
      /\ u.given = x.given /\ u.closed = x.closed
      /\ \A o \in Op : u.ans[o] = IF o = r.op /\ x.ans[o] = "waiting" THEN "Ok" ELSE x.ans[o]
      /\ x.ans[r.op] = "waiting" => u.delivered = x.delivered + r.got /\ u.wasted = x.wasted
      /\ x.ans[r.op] # "waiting" => u.delivered = x.delivered /\ u.wasted = x.wasted + r.got
  BY <1>1, <1>2, ReplyBytesIs
<1> HIDE DEF u
<1>4. /\ \A o \in Op : o # op => u.ans[o] = v.ans[o]
      /\ u.ans[op] = IF v.ans[op] = "waiting" THEN "Ok" ELSE v.ans[op]
  BY <1>1, <1>2, <1>3
<1>5. /\ u.core = d /\ u.parked = v.parked /\ u.given = v.given /\ u.closed = v.closed
      /\ u.delivered + u.wasted = v.delivered + v.wasted + r.got
      /\ u.wasted = v.wasted \/ v.ans[op] # "waiting"
  BY <1>1, <1>2, <1>3
<1>6. v.ans[op] \in {"waiting", "abandoned"}
  BY DEF Owed
<1>7. RecvMove(v, u, ks, op)
  <2>1. /\ v \in WorldType /\ ks \in KindSeq /\ op \in 1..Len(ks) /\ u \in WorldType
        /\ RecvCoreStep(v.core, d) /\ RecvSide(v, ks) /\ ks[op] \in {"read", "end"} /\ Owed(v, op)
        /\ v.parked.read.op # op /\ (ReadQuiet(v) => v.parked.read.op = NoOp)
    BY <1>3
  <2>2. /\ u.ans[op] = "Ok" /\ ks[op] = "end" => d.fin /\ d.recv = "gone"
        /\ v.ans[op] # "waiting" => u.ans[op] = v.ans[op]
        /\ u.wasted = v.wasted \/ u.ans[op] \notin {"Ok", "waiting"}
    BY <1>4, <1>5, <1>6
  <2> QED BY ONLY <1>4, <1>5, <2>1, <2>2, ReadReplyMove
<1> QED BY <1>5, <1>7 DEF u, x

\* A read that is answered with an error.
LEMMA ReadFailed ==
  ASSUME NEW v \in WorldType, NEW ks \in KindSeq, NEW op \in 1..Len(ks), NEW d, NEW r,
         r.op = op, r.got \in Nat, RecvCoreStep(v.core, d),
         RecvSide(v, ks), ks[op] \in {"read", "end"}, Owed(v, op), v.parked.read.op # op,
         ReadQuiet(v) => v.parked.read.op = NoOp, NEW answer \in Answer \ {"Ok", "waiting"}
  PROVE  /\ RecvMove(v, ReplyReadError(WithCore(v, d), r, answer), ks, op)
         /\ ReplyReadError(WithCore(v, d), r, answer).core = d
         /\ ReplyReadError(WithCore(v, d), r, answer).parked = v.parked
         /\ ReplyReadError(WithCore(v, d), r, answer).delivered = v.delivered
         /\ ReplyReadError(WithCore(v, d), r, answer).wasted = v.wasted + r.got
<1> DEFINE x == WithCore(v, d)
           u == ReplyReadError(x, r, answer)
<1>1. /\ x \in WorldType /\ x.core = d /\ x.parked = v.parked /\ x.ans = v.ans /\ x.given = v.given
      /\ x.closed = v.closed /\ x.delivered = v.delivered /\ x.wasted = v.wasted
  BY WithCoreIs DEF RecvCoreStep
<1>2. op \in Op /\ v.delivered \in Nat /\ v.wasted \in Nat
  BY OpsAssumption, WorldFields DEF KindSeq, Op
<1> HIDE DEF x
<1>3. /\ u \in WorldType /\ u.core = x.core /\ u.parked = x.parked
      /\ u.given = x.given /\ u.closed = x.closed
      /\ \A o \in Op : u.ans[o] = IF o = r.op /\ x.ans[o] = "waiting" THEN answer ELSE x.ans[o]
      /\ u.delivered = x.delivered /\ u.wasted = x.wasted + r.got
  BY <1>1, <1>2, ReplyReadErrorIs
<1> HIDE DEF u
<1>4. /\ \A o \in Op : o # op => u.ans[o] = v.ans[o]
      /\ u.ans[op] = IF v.ans[op] = "waiting" THEN answer ELSE v.ans[op]
  BY <1>1, <1>2, <1>3
<1>5. /\ u.core = d /\ u.parked = v.parked /\ u.given = v.given /\ u.closed = v.closed
      /\ u.delivered = v.delivered /\ u.wasted = v.wasted + r.got
  BY <1>1, <1>2, <1>3
<1>6. u.ans[op] \notin {"Ok", "waiting"}
  BY <1>4 DEF Owed
<1>7. RecvMove(v, u, ks, op)
  BY <1>3, <1>4, <1>5, <1>6, ReadReplyMove
<1> QED BY <1>5, <1>7 DEF u, x

SetRead(p, r) == [p EXCEPT !.read = r]

\* Another read parked.
LEMMA SetReadIs ==
  ASSUME NEW p \in ParkedType, NEW r \in ReadType
  PROVE  /\ SetRead(p, r) \in ParkedType /\ SetRead(p, r).read = r /\ SetRead(p, r).write = p.write
         /\ SetRead(p, r).accepts = p.accepts /\ SetRead(p, r).fins = p.fins
BY DEF ParkedType, SetRead

\* A read that is parked, in place of the one parked before, finds the core without
\* bytes and without the end.
LEMMA ReadParked ==
  ASSUME NEW v \in WorldType, NEW ks \in KindSeq, NEW op \in 1..Len(ks), NEW d \in CoreType,
         NEW r \in ReadType, r.op = op, r.kind = ks[op], r.kind = "read" => r.got = 0,
         RecvSide(v, ks), Owed(v, op), v.parked.read.op # op,
         SendCoreSame(v.core, d), AcceptCoreSame(v.core, d), d.phase = v.core.phase,
         v.core.recv = "open", d.recv = "open", d.unread = 0, ~d.fin, ~d.ended
  PROVE  /\ RecvMove(v, ParkRead(WithCore(v, d), r), ks, op)
         /\ ParkRead(WithCore(v, d), r).core = d
         /\ ParkRead(WithCore(v, d), r).parked.read = r
         /\ ParkRead(WithCore(v, d), r).delivered = v.delivered
         /\ ParkRead(WithCore(v, d), r).wasted = v.wasted + v.parked.read.got
<1> DEFINE x == WithCore(v, d)
           old == v.parked.read
           y == IF old.op = NoOp THEN x ELSE ReplyReadError(x, old, "Closed")
           u == ParkRead(x, r)
           p == SetRead(y.parked, r)
<1>1. /\ x \in WorldType /\ x.core = d /\ x.parked = v.parked /\ x.ans = v.ans /\ x.given = v.given
      /\ x.closed = v.closed /\ x.delivered = v.delivered /\ x.wasted = v.wasted
  BY WithCoreIs
<1>2. \A o \in 1..Len(ks) : o \in Op
  BY OpsAssumption DEF KindSeq, Op
<1>3. old \in ReadType /\ old.op \in Op \cup {NoOp} /\ old.got \in Nat /\ old.kind \in {"read", "end"}
  BY WorldFields, ParkedFields, SizeAssumption DEF ReadType
<1>4. v.wasted \in Nat /\ v.ans \in [Op -> Answer] /\ (old.op = NoOp => old.got = 0)
  BY WorldFields DEF RecvSide
<1>5. u = WithParked(y, p)
  BY <1>1 DEF ParkRead, WithParked, SetRead
<1> HIDE DEF x
<1>6. /\ y \in WorldType /\ y.core = d /\ y.parked = v.parked /\ y.given = v.given
      /\ y.closed = v.closed /\ y.delivered = v.delivered /\ y.wasted = v.wasted + old.got
      /\ \A o \in Op : o # old.op => y.ans[o] = v.ans[o]
      /\ old.op # NoOp => y.ans[old.op] = IF v.ans[old.op] = "waiting" THEN "Closed" ELSE v.ans[old.op]
  <2>1. CASE old.op = NoOp
    BY <2>1, <1>1, <1>4
  <2>2. CASE old.op # NoOp
    <3>1. old.op \in Op /\ "Closed" \in Answer
      BY <2>2, <1>3 DEF Answer
    <3> DEFINE z == ReplyReadError(x, old, "Closed")
    <3>2. /\ z \in WorldType /\ z.core = x.core /\ z.parked = x.parked
          /\ z.given = x.given /\ z.closed = x.closed
          /\ \A o \in Op : z.ans[o] = IF o = old.op /\ x.ans[o] = "waiting" THEN "Closed" ELSE x.ans[o]
          /\ z.delivered = x.delivered /\ z.wasted = x.wasted + old.got
      BY <3>1, <1>1, <1>3, ReplyReadErrorIs
    <3>3. y = z
      BY <2>2
    <3> HIDE DEF z, y
    <3> QED BY <3>1, <3>2, <3>3, <1>1
  <2> QED BY <2>1, <2>2
<1>7. p \in ParkedType /\ p.read = r /\ p.write = v.parked.write /\ p.accepts = v.parked.accepts
      /\ p.fins = v.parked.fins
  <2>1. y.parked \in ParkedType /\ y.parked = v.parked
    BY <1>6, WorldFields
  <2> HIDE DEF y
  <2> QED BY <2>1, SetReadIs
<1> HIDE DEF y, p
<1>8. /\ u \in WorldType /\ u.core = y.core /\ u.parked = p /\ u.ans = y.ans
      /\ u.delivered = y.delivered /\ u.wasted = y.wasted /\ u.given = y.given /\ u.closed = y.closed
  <2>1. y \in WorldType
    BY <1>6
  <2> HIDE DEF u
  <2> QED BY <2>1, <1>5, <1>7, WithParkedIs
<1> HIDE DEF u
<1>9. /\ u.core = d /\ u.given = v.given /\ u.closed = v.closed /\ u.delivered = v.delivered
      /\ u.wasted = v.wasted + old.got /\ u.parked.read = r /\ u.parked.write = v.parked.write
      /\ u.parked.accepts = v.parked.accepts /\ u.parked.fins = v.parked.fins
      /\ \A o \in Op : o # old.op => u.ans[o] = v.ans[o]
      /\ old.op # NoOp => u.ans[old.op] = IF v.ans[old.op] = "waiting" THEN "Closed" ELSE v.ans[old.op]
  BY <1>6, <1>7, <1>8
<1>10. RecvSide(u, ks)
  <2>1. u.core.unread <= u.core.arrived
    <3>1. d.arrived \in 0..MaxBytes
      BY CoreFields
    <3> QED BY <3>1, <1>9, DriverAssumption
  <2>2. Owed(u, op)
    BY <1>2, <1>9 DEF Owed
  <2>3. \A o \in 1..Len(ks) : ks[o] = "end" /\ u.ans[o] = "Ok" => u.core.fin /\ u.core.recv = "gone"
    <3>1. \A o \in 1..Len(ks) : ks[o] = "end" => v.ans[o] # "Ok"
      BY DEF RecvSide
    <3>2. ASSUME NEW o \in 1..Len(ks), ks[o] = "end" PROVE u.ans[o] # "Ok"
      <4>1. o \in Op /\ o # NoOp /\ v.ans[o] # "Ok"
        BY <3>1, <3>2, <1>2 DEF NoOp
      <4> QED BY <4>1, <1>9
    <3> QED BY <3>2
  <2>4. u.wasted > 0 => \E o \in 1..Len(ks) : ks[o] \in {"read", "end"} /\ u.ans[o] \notin {"Ok", "waiting"}
    <3>1. CASE old.op # NoOp
      <4>1. /\ old.op \in 1..Len(ks) /\ ks[old.op] \in {"read", "end"}
            /\ v.ans[old.op] \in {"waiting", "abandoned"}
        BY <3>1, <1>3 DEF RecvSide, Owed
      <4>2. u.ans[old.op] \notin {"Ok", "waiting"}
        BY <3>1, <4>1, <1>9
      <4> QED BY <4>1, <4>2
    <3>2. CASE old.op = NoOp
      <4>1. u.wasted = v.wasted /\ \A o \in Op : u.ans[o] = v.ans[o]
        BY <3>2, <1>4, <1>9, OpsAssumption DEF NoOp, Op
      <4> QED BY <4>1, <1>2 DEF RecvSide
    <3> QED BY <3>1, <3>2
  <2>5. u.parked.read.op = op /\ op # NoOp
    BY <1>9 DEF NoOp
  <2> QED BY <1>9, <2>1, <2>2, <2>3, <2>4, <2>5 DEF RecvSide
<1>11. Alike(v, u) /\ SendSame(v, u) /\ AcceptSame(v, u)
  BY <1>8, <1>9 DEF Alike, SendSame, AcceptSame
<1>12. ReadQuiet(u)
  BY <1>9 DEF ReadQuiet
<1>13. \A o \in Op : o \notin {v.parked.read.op, op} => u.ans[o] = v.ans[o]
  BY <1>9
<1>14. u.parked.read.op = op
  BY <1>9
<1>15. RecvMove(v, u, ks, op)
  BY <1>10, <1>11, <1>12, <1>13, <1>14 DEF RecvMove
<1> QED BY <1>9, <1>15 DEF u, x

\* The number of bytes that pump_read takes from the core, and whether it meets the FIN.
Room(r) == (IF r.kind = "read" THEN ReadMax ELSE EndLimit + 1) - r.got
Takes(c, r) == IF c.recv = "open" THEN Least(c.unread, Room(r)) ELSE 0
Meets(c, r) == c.recv = "open" /\ c.fin /\ c.unread < Room(r)
RecvAfter(c, r) == IF Meets(c, r) \/ c.recv = "reset" THEN "gone" ELSE c.recv
CoreAfter(c, r) == Taken(c, Takes(c, r), RecvAfter(c, r), c.ended \/ Meets(c, r))
CoreForgot(c, r) == Taken(c, Takes(c, r), RecvAfter(c, r), FALSE)
Fuller(r, n) == [r EXCEPT !.got = @ + n]

\* pump_read in these terms.
LEMMA PumpReadIs ==
  ASSUME NEW v \in WorldType, NEW r \in ReadType
  PROVE  PumpRead(v, r) =
    LET c == v.core
        full == Fuller(r, Takes(c, r))
        taken == WithCore(v, CoreAfter(c, r))
    IN  CASE c.ended \/ Meets(c, r) ->
               ReplyBytes(IF r.kind = "end" THEN WithCore(v, CoreForgot(c, r)) ELSE taken, full)
          [] ~c.ended /\ c.recv = "gone" -> ReplyReadError(v, r, "ClosedStream")
          [] c.recv = "reset" -> ReplyReadError(taken, r, "Reset")
          [] c.recv = "open" /\ ~Meets(c, r) ->
               IF r.kind = "end" /\ full.got > EndLimit THEN ReplyReadError(taken, full, "Limit")
               ELSE IF r.kind = "read" /\ Takes(c, r) > 0 THEN ReplyBytes(taken, full)
               ELSE ParkRead(taken, full)
<1> DEFINE c == v.core
           n == Takes(c, r)
           meets == Meets(c, r)
           taken == [v EXCEPT !.core.unread = @ - n, !.core.pos = @ + n,
                              !.core.recv = IF meets \/ @ = "reset" THEN "gone" ELSE @,
                              !.core.ended = @ \/ meets]
           finished == IF r.kind = "end" THEN [taken EXCEPT !.core.ended = FALSE] ELSE taken
<1>1. taken = WithCore(v, CoreAfter(c, r))
  <2> HIDE DEF n, meets
  <2> QED BY DEF WithCore, CoreAfter, Taken, RecvAfter, WorldType, CoreType, n, meets
<1>2. [taken EXCEPT !.core.ended = FALSE] = WithCore(v, CoreForgot(c, r))
  <2> DEFINE d == CoreAfter(c, r)
             e == CoreForgot(c, r)
  <2>1. [d EXCEPT !.ended = FALSE] = e
    <3>1. c \in CoreType
      BY WorldFields
    <3> HIDE DEF c
    <3> QED BY <3>1 DEF CoreAfter, CoreForgot, Taken, CoreType
  <2>2. [WithCore(v, d) EXCEPT !.core.ended = FALSE] = WithCore(v, [d EXCEPT !.ended = FALSE])
    <3> HIDE DEF d
    <3> QED BY DEF WithCore, WorldType
  <2> HIDE DEF d, e, taken
  <2>3. [taken EXCEPT !.core.ended = FALSE] = WithCore(v, e)
    BY <1>1, <2>1, <2>2 DEF d
  <2> QED BY <2>3 DEF e
<1>3. PumpRead(v, r) =
        CASE c.ended \/ meets -> ReplyBytes(finished, Fuller(r, n))
          [] ~c.ended /\ c.recv = "gone" -> ReplyReadError(v, r, "ClosedStream")
          [] c.recv = "reset" -> ReplyReadError(taken, r, "Reset")
          [] c.recv = "open" /\ ~meets ->
               IF r.kind = "end" /\ Fuller(r, n).got > EndLimit THEN ReplyReadError(taken, Fuller(r, n), "Limit")
               ELSE IF r.kind = "read" /\ n > 0 THEN ReplyBytes(taken, Fuller(r, n))
               ELSE ParkRead(taken, Fuller(r, n))
  BY DEF PumpRead, Takes, Meets, Room, Fuller
<1>4. finished = IF r.kind = "end" THEN WithCore(v, CoreForgot(c, r)) ELSE WithCore(v, CoreAfter(c, r))
  <2> HIDE DEF taken
  <2> QED BY <1>1, <1>2
<1> HIDE DEF taken, finished
<1> QED BY <1>1, <1>3, <1>4

\* What pump_read takes and leaves.
LEMMA PumpReadTakes ==
  ASSUME NEW c \in CoreType, NEW r \in ReadType, r.kind = "read" => r.got = 0
  PROVE  /\ Room(r) \in Nat \ {0} /\ Takes(c, r) \in 0..c.unread
         /\ c.recv = "open" /\ Takes(c, r) < Room(r) => Takes(c, r) = c.unread
         /\ c.recv = "open" /\ Takes(c, r) = 0 => c.unread = 0
         /\ Meets(c, r) => Takes(c, r) = c.unread
         /\ c.recv # "open" => Takes(c, r) = 0
         /\ RecvAfter(c, r) \in RecvState
         /\ Fuller(r, Takes(c, r)).op = r.op /\ Fuller(r, Takes(c, r)).kind = r.kind
         /\ Fuller(r, Takes(c, r)).got = r.got + Takes(c, r)
<1>1. c.unread \in Nat /\ c.recv \in RecvState /\ r.got \in 0..EndLimit /\ r.kind \in {"read", "end"}
  BY CoreFields DEF ReadType
<1>2. Room(r) \in Nat \ {0}
  BY <1>1, SizeAssumption DEF Room
<1>3. RecvAfter(c, r) \in RecvState
  BY <1>1 DEF RecvAfter, RecvState
<1>4. /\ Fuller(r, Takes(c, r)).op = r.op /\ Fuller(r, Takes(c, r)).kind = r.kind
      /\ Fuller(r, Takes(c, r)).got = r.got + Takes(c, r)
  BY DEF Fuller, ReadType
<1> QED BY <1>1, <1>2, <1>3, <1>4 DEF Takes, Meets, Least

\* Bytes taken from the core and given to a reader.
LEMMA Account ==
  ASSUME NEW pos \in Nat, NEW a \in Nat, NEW g \in Nat, NEW h \in Nat, NEW k \in Nat, NEW x \in Nat,
         pos = a + g + h, x = a + (h + k)
  PROVE  pos + k = x + g
OBVIOUS

\* pump_read is a step of the receive half, and keeps account of the bytes: of those the
\* read had before and those it takes.
LEMMA PumpReadStep ==
  ASSUME NEW v \in WorldType, NEW ks \in KindSeq, NEW r \in ReadType, r.op \in 1..Len(ks),
         r.kind = ks[r.op], r.kind = "read" => r.got = 0,
         RecvSide(v, ks), Owed(v, r.op), v.parked.read.op # r.op
  PROVE  /\ RecvMove(v, PumpRead(v, r), ks, r.op)
         /\ v.core.pos = v.delivered + v.wasted + v.parked.read.got + r.got => Bytes(PumpRead(v, r))
<1> DEFINE c == v.core
           n == Takes(c, r)
           full == Fuller(r, n)
           after == RecvAfter(c, r)
           ended == c.ended \/ Meets(c, r)
           d == Taken(c, n, after, ended)
           e == Taken(c, n, after, FALSE)
           u == PumpRead(v, r)
           inhand == v.core.pos = v.delivered + v.wasted + v.parked.read.got + r.got
<1>1. /\ c \in CoreType /\ c.unread \in Nat /\ c.pos \in Nat /\ c.recv \in RecvState
      /\ c.fin \in BOOLEAN /\ c.ended \in BOOLEAN /\ c.arrived \in Nat
  BY WorldFields, CoreFields, DriverAssumption
<1>2. /\ v.delivered \in Nat /\ v.wasted \in Nat /\ v.parked.read.got \in Nat /\ r.got \in 0..EndLimit
      /\ r.kind \in {"read", "end"} /\ r.op \in Op \cup {NoOp}
  BY WorldFields, ParkedFields, SizeAssumption DEF ReadType
<1>3. /\ Room(r) \in Nat \ {0} /\ n \in 0..c.unread
      /\ c.recv = "open" /\ n < Room(r) => n = c.unread
      /\ c.recv = "open" /\ n = 0 => c.unread = 0
      /\ Meets(c, r) => n = c.unread
      /\ c.recv # "open" => n = 0
      /\ RecvAfter(c, r) \in RecvState
      /\ full.op = r.op /\ full.kind = r.kind /\ full.got = r.got + n
  BY <1>1, PumpReadTakes
<1>4. Meets(c, r) \in BOOLEAN /\ (Meets(c, r) => c.recv = "open" /\ c.fin)
  BY DEF Meets
<1>5. /\ d \in CoreType /\ d.phase = c.phase /\ SendCoreSame(c, d) /\ AcceptCoreSame(c, d)
      /\ d.recv = RecvAfter(c, r) /\ d.unread = c.unread - n /\ d.pos = c.pos + n
      /\ d.ended = (c.ended \/ Meets(c, r)) /\ d.arrived = c.arrived /\ d.fin = c.fin
  <2>1. ended \in BOOLEAN /\ after \in RecvState /\ n \in 0..c.unread /\ c \in CoreType
    BY <1>1, <1>3
  <2>2. /\ d \in CoreType /\ d.phase = c.phase /\ SendCoreSame(c, d) /\ AcceptCoreSame(c, d)
        /\ d.recv = after /\ d.unread = c.unread - n /\ d.pos = c.pos + n
        /\ d.ended = ended /\ d.arrived = c.arrived /\ d.fin = c.fin
    <3> HIDE DEF c, n, after, ended
    <3> QED BY <2>1, TakenIs
  <2> QED BY <2>2
<1>6. /\ e \in CoreType /\ e.phase = c.phase /\ SendCoreSame(c, e) /\ AcceptCoreSame(c, e)
      /\ e.recv = RecvAfter(c, r) /\ e.unread = c.unread - n /\ e.pos = c.pos + n
      /\ e.ended = FALSE /\ e.arrived = c.arrived /\ e.fin = c.fin
  <2>1. after \in RecvState /\ n \in 0..c.unread /\ c \in CoreType
    BY <1>1, <1>3
  <2> DEFINE no == FALSE
  <2>2. no \in BOOLEAN
    OBVIOUS
  <2>3. /\ Taken(c, n, after, no) \in CoreType /\ Taken(c, n, after, no).phase = c.phase
        /\ SendCoreSame(c, Taken(c, n, after, no)) /\ AcceptCoreSame(c, Taken(c, n, after, no))
        /\ Taken(c, n, after, no).recv = after /\ Taken(c, n, after, no).unread = c.unread - n
        /\ Taken(c, n, after, no).pos = c.pos + n /\ Taken(c, n, after, no).ended = no
        /\ Taken(c, n, after, no).arrived = c.arrived /\ Taken(c, n, after, no).fin = c.fin
    <3> HIDE DEF c, n, after, no
    <3> QED BY <2>1, <2>2, TakenIs
  <2> QED BY <2>3
<1>7. /\ c.unread <= c.arrived /\ (c.recv # "open" => c.unread = 0)
      /\ (c.ended => c.recv = "gone" /\ c.fin)
      /\ (c.ended \/ Meets(c, r) => c.fin /\ RecvAfter(c, r) = "gone" /\ n = c.unread)
      /\ (c.recv = "gone" => RecvAfter(c, r) = "gone")
      /\ (RecvAfter(c, r) # "open" => c.unread - n = 0)
  <2>1. c.unread <= c.arrived /\ (c.recv # "open" => c.unread = 0) /\ (c.ended => c.recv = "gone" /\ c.fin)
    BY DEF RecvSide
  <2>2. RecvAfter(c, r) = IF Meets(c, r) \/ c.recv = "reset" THEN "gone" ELSE c.recv
    BY DEF RecvAfter
  <2> HIDE DEF c, n
  <2> QED BY <2>1, <2>2, <1>1, <1>3, <1>4
<1>8. RecvCoreStep(v.core, d) /\ RecvCoreStep(v.core, e)
  <2>1. RecvCoreStep(c, d) /\ RecvCoreStep(c, e)
    <3> HIDE DEF c, n, d, e
    <3> QED BY <1>1, <1>3, <1>5, <1>6, <1>7 DEF RecvCoreStep
  <2> QED BY <2>1
<1>9. u = CASE c.ended \/ Meets(c, r) ->
               ReplyBytes(IF r.kind = "end" THEN WithCore(v, e) ELSE WithCore(v, d), full)
          [] ~c.ended /\ c.recv = "gone" -> ReplyReadError(v, r, "ClosedStream")
          [] c.recv = "reset" -> ReplyReadError(WithCore(v, d), r, "Reset")
          [] c.recv = "open" /\ ~Meets(c, r) ->
               IF r.kind = "end" /\ full.got > EndLimit THEN ReplyReadError(WithCore(v, d), full, "Limit")
               ELSE IF r.kind = "read" /\ n > 0 THEN ReplyBytes(WithCore(v, d), full)
               ELSE ParkRead(WithCore(v, d), full)
  BY PumpReadIs DEF CoreAfter, CoreForgot
<1>10. c.recv = "open" /\ ~Meets(c, r) /\ ~(n > 0) => c.unread = 0 /\ ~c.fin
  BY <1>1, <1>3 DEF Meets
<1>11. ReadQuiet(v) /\ v.parked.read.op # NoOp =>
         c.recv = "open" /\ ~Meets(c, r) /\ ~c.ended /\ n = 0
  BY <1>1, <1>3, <1>7 DEF ReadQuiet, Meets
<1>12. /\ "ClosedStream" \in Answer \ {"Ok", "waiting"} /\ "Reset" \in Answer \ {"Ok", "waiting"}
       /\ "Limit" \in Answer \ {"Ok", "waiting"}
       /\ full.got \in Nat /\ r.got \in Nat /\ ks[r.op] \in {"read", "end"}
  BY <1>1, <1>2, <1>3, SizeAssumption DEF Answer
<1>17. u \in WorldType => u.delivered \in Nat /\ u.wasted \in Nat
  BY WorldFields
<1>18. c = v.core
  OBVIOUS
<1>19. ASSUME NEW x, NEW g \in {d, e}, x.core = g, x.delivered \in Nat, x.wasted \in Nat,
              \/ x.parked.read.got = v.parked.read.got
                 /\ x.delivered + x.wasted = v.delivered + v.wasted + full.got
              \/ x.parked.read.got = full.got
                 /\ x.delivered + x.wasted = v.delivered + v.wasted + v.parked.read.got
       PROVE  inhand => Bytes(x)
  <2>1. x.core.pos = c.pos + n
    BY <1>5, <1>6, <1>19
  <2>2. v.core.pos = c.pos /\ full.got = r.got + n /\ n \in Nat /\ r.got \in Nat /\ c.pos \in Nat
    BY <1>1, <1>2, <1>3, SizeAssumption
  <2> HIDE DEF c, n, full, d, e
  <2>4. x.delivered \in Nat /\ x.wasted \in Nat
    BY <1>19
  <2>3. inhand => c.pos + n = x.delivered + x.wasted + x.parked.read.got
    <3>1. CASE x.parked.read.got = v.parked.read.got
               /\ x.delivered + x.wasted = v.delivered + v.wasted + full.got
      <4>1. /\ v.delivered \in Nat /\ v.wasted \in Nat /\ v.parked.read.got \in Nat
            /\ x.delivered + x.wasted = v.delivered + v.wasted + (r.got + n)
            /\ x.parked.read.got = v.parked.read.got
        BY <3>1, <2>2, <1>2
      <4>2. inhand => c.pos = v.delivered + v.wasted + v.parked.read.got + r.got
        BY <2>2
      <4>3. inhand => c.pos + n = x.delivered + x.wasted + v.parked.read.got
        <5> DEFINE a == v.delivered + v.wasted
                   b == x.delivered + x.wasted
                   k == v.parked.read.got
                   h == r.got
                   q == c.pos
        <5>1. a \in Nat /\ b \in Nat /\ k \in Nat /\ h \in Nat /\ q \in Nat /\ n \in Nat
          BY <4>1, <2>2, <2>4, SMTT(30)
        <5>2. (inhand => q = a + k + h) /\ b = a + (h + n)
          BY <4>1, <4>2
        <5> HIDE DEF inhand, a, b, k, h, q
        <5>3. inhand => q + n = b + k
          BY <5>1, <5>2, Account
        <5> QED BY <5>3 DEF b, k, q
      <4> QED BY <4>1, <4>3
    <3>2. CASE x.parked.read.got = full.got
               /\ x.delivered + x.wasted = v.delivered + v.wasted + v.parked.read.got
      BY <3>2, <2>2, <2>4, <1>2
    <3> QED BY <3>1, <3>2, <1>19
  <2> QED BY <2>1, <2>3 DEF Bytes
<1> HIDE DEF c, n, full, d, e, u
<1>13. CASE c.ended \/ Meets(c, r)
  <2>1. ReadQuiet(v) => v.parked.read.op = NoOp
    BY <1>11, <1>13
  <2>2. ASSUME NEW g \in {d, e}, u = ReplyBytes(WithCore(v, g), full)
        PROVE  RecvMove(v, u, ks, r.op) /\ (inhand => Bytes(u))
    <3>1. RecvCoreStep(v.core, g) /\ g.fin /\ g.recv = "gone"
      BY <2>2, <1>5, <1>6, <1>7, <1>8, <1>13
    <3>2. full.op = r.op /\ full.got \in Nat /\ ks[r.op] \in {"read", "end"}
      BY <1>3, <1>12
    <3>3. /\ RecvMove(v, u, ks, r.op) /\ u.core = g /\ u.parked = v.parked
          /\ u.delivered + u.wasted = v.delivered + v.wasted + full.got
      BY <2>1, <2>2, <3>1, <3>2, ReadReplied
    <3>4. u \in WorldType
      BY <3>3 DEF RecvMove, Alike
    <3>5. inhand => Bytes(u)
      BY <3>3, <3>4, <1>17, <1>19, <2>2
    <3> QED BY <3>3, <3>5
  <2>3. CASE r.kind = "end"
    <3>1. u = ReplyBytes(WithCore(v, e), full)
      BY <2>3, <1>4, <1>7, <1>9, <1>13
    <3> QED BY <3>1, <2>2 DEF u
  <2>4. CASE r.kind # "end"
    <3>1. u = ReplyBytes(WithCore(v, d), full)
      BY <2>4, <1>4, <1>7, <1>9, <1>13
    <3> QED BY <3>1, <2>2 DEF u
  <2> QED BY <2>3, <2>4
<1>20. ASSUME NEW g \in {d, e, c}, NEW x, NEW a \in Answer \ {"Ok", "waiting"}, RecvCoreStep(v.core, g),
              x.op = r.op, x.got \in Nat,
              u = ReplyReadError(WithCore(v, g), x, a), ReadQuiet(v) => v.parked.read.op = NoOp
       PROVE  /\ RecvMove(v, u, ks, r.op) /\ u.core = g /\ u.parked = v.parked /\ u \in WorldType
              /\ u.delivered = v.delivered /\ u.wasted = v.wasted + x.got
  <2>1. /\ RecvMove(v, u, ks, r.op) /\ u.core = g /\ u.parked = v.parked
        /\ u.delivered = v.delivered /\ u.wasted = v.wasted + x.got
    <3> DEFINE op == r.op
    <3>1. op \in 1..Len(ks) /\ x.op = op /\ ks[op] \in {"read", "end"} /\ Owed(v, op) /\ v.parked.read.op # op
      BY <1>12, <1>20
    <3> HIDE DEF op
    <3>2. /\ RecvMove(v, ReplyReadError(WithCore(v, g), x, a), ks, op)
          /\ ReplyReadError(WithCore(v, g), x, a).core = g
          /\ ReplyReadError(WithCore(v, g), x, a).parked = v.parked
          /\ ReplyReadError(WithCore(v, g), x, a).delivered = v.delivered
          /\ ReplyReadError(WithCore(v, g), x, a).wasted = v.wasted + x.got
      BY <1>20, <3>1, ReadFailed
    <3> QED BY <3>2, <1>20 DEF op
  <2> QED BY <2>1 DEF RecvMove, Alike
<1>14. CASE ~c.ended /\ c.recv = "gone"
  <2>1. ~Meets(c, r) /\ (ReadQuiet(v) => v.parked.read.op = NoOp)
    BY <1>4, <1>11, <1>14
  <2>2. u = ReplyReadError(v, r, "ClosedStream")
    BY <2>1, <1>9, <1>14
  <2>3. v = WithCore(v, c)
    BY DEF WithCore, WorldType, c
  <2>4. RecvCoreStep(v.core, c)
    BY <1>1, <1>7, <1>14, <1>18 DEF RecvCoreStep, SendCoreSame, AcceptCoreSame
  <2>5. u = ReplyReadError(WithCore(v, c), r, "ClosedStream")
    BY <2>2, <2>3
  <2>6. /\ RecvMove(v, u, ks, r.op) /\ u.core = c /\ u.parked = v.parked
        /\ u.delivered = v.delivered /\ u.wasted = v.wasted + r.got
    BY <2>1, <2>4, <2>5, <1>12, <1>20
  <2>7. inhand => Bytes(u)
    <3>1. /\ u.core.pos = v.core.pos /\ u.parked.read.got = v.parked.read.got
          /\ u.delivered = v.delivered /\ u.wasted = v.wasted + r.got
      BY <2>6, <1>18
    <3>2. v.delivered \in Nat /\ v.wasted \in Nat /\ v.parked.read.got \in Nat /\ r.got \in Nat
      BY <1>2, <1>12
    <3> QED BY ONLY <3>1, <3>2 DEF Bytes
  <2> QED BY <2>6, <2>7 DEF u
<1>15. CASE c.recv = "reset"
  <2>1. ~Meets(c, r) /\ ~c.ended /\ c.recv # "gone" /\ c.recv # "open" /\ n = 0
        /\ (ReadQuiet(v) => v.parked.read.op = NoOp)
    BY <1>3, <1>4, <1>7, <1>11, <1>15
  <2>2. u = ReplyReadError(WithCore(v, d), r, "Reset")
    BY <2>1, <1>9, <1>15
  <2>3. /\ RecvMove(v, u, ks, r.op) /\ u.core = d /\ u.parked = v.parked /\ u \in WorldType
        /\ u.delivered = v.delivered /\ u.wasted = v.wasted + r.got
    BY <2>1, <2>2, <1>8, <1>12, <1>20
  <2>4. full.got = r.got
    BY <2>1, <1>2, <1>3
  <2>5. inhand => Bytes(u)
    BY <2>3, <2>4, <1>2, <1>17, <1>19
  <2> QED BY <2>3, <2>5 DEF u
<1>16. CASE c.recv = "open" /\ ~Meets(c, r)
  <2>1. ~c.ended /\ c.recv # "gone" /\ c.recv # "reset" /\ d.recv = "open"
    BY <1>5, <1>7, <1>16 DEF RecvAfter
  <2>2. CASE r.kind = "end" /\ full.got > EndLimit
    <3>1. u = ReplyReadError(WithCore(v, d), full, "Limit")
      BY <2>1, <2>2, <1>9, <1>16
    <3>2. ReadQuiet(v) => v.parked.read.op = NoOp
      BY <2>2, <1>2, <1>3, <1>11, SizeAssumption
    <3>3. /\ RecvMove(v, u, ks, r.op) /\ u.core = d /\ u.parked = v.parked /\ u \in WorldType
          /\ u.delivered = v.delivered /\ u.wasted = v.wasted + full.got
      BY <3>1, <3>2, <1>3, <1>8, <1>12, <1>20
    <3>4. inhand => Bytes(u)
      BY <3>3, <1>2, <1>12, <1>17, <1>19, SMTT(30)
    <3> QED BY <3>3, <3>4 DEF u
  <2>3. CASE r.kind = "read" /\ n > 0
    <3>1. u = ReplyBytes(WithCore(v, d), full)
      BY <2>1, <2>3, <1>9, <1>16
    <3>2. (ReadQuiet(v) => v.parked.read.op = NoOp) /\ ks[r.op] # "end" /\ ks[r.op] = "read"
      BY <2>3, <1>1, <1>3, <1>11
    <3>3. /\ RecvMove(v, u, ks, r.op) /\ u.core = d /\ u.parked = v.parked
          /\ u.delivered + u.wasted = v.delivered + v.wasted + full.got
      BY <3>1, <3>2, <1>3, <1>8, <1>12, ReadReplied
    <3>4. u \in WorldType
      BY <3>3 DEF RecvMove, Alike
    <3>5. inhand => Bytes(u)
      BY <3>3, <3>4, <1>17, <1>19
    <3> QED BY <3>3, <3>5 DEF u
  <2>4. CASE ~(r.kind = "end" /\ full.got > EndLimit) /\ ~(r.kind = "read" /\ n > 0)
    <3>1. u = ParkRead(WithCore(v, d), full)
      BY <2>1, <2>4, <1>9, <1>16
    <3>2. full.got \in 0..EndLimit /\ (full.kind = "read" => full.got = 0)
      BY <2>4, <1>1, <1>2, <1>3, SizeAssumption
    <3>3. full \in ReadType
      BY <3>2, <1>2, <1>3 DEF ReadType, full, Fuller
    <3>4. d.unread = 0 /\ ~d.fin /\ ~d.ended
      <4>1. CASE r.kind = "read"
        BY <4>1, <2>1, <2>4, <1>1, <1>3, <1>5, <1>10, <1>16
      <4>2. CASE r.kind = "end"
        <5>1. n < Room(r)
          BY <4>2, <2>4, <1>1, <1>2, <1>3, <1>12, SizeAssumption DEF Room
        <5>2. n = c.unread /\ c.unread < Room(r)
          BY <5>1, <1>3, <1>16
        <5>3. ~c.fin
          BY <5>2, <1>16 DEF Meets
        <5> QED BY <5>2, <5>3, <2>1, <1>1, <1>5, <1>16
      <4> QED BY <4>1, <4>2, <1>2
    <3>5. /\ d \in CoreType /\ SendCoreSame(v.core, d) /\ AcceptCoreSame(v.core, d)
          /\ d.phase = v.core.phase /\ v.core.recv = "open"
      BY <1>5, <1>16, <1>18
    <3>6. full.op = r.op /\ full.kind = ks[r.op]
      BY <1>3
    <3>7. /\ RecvMove(v, u, ks, r.op) /\ u.core = d /\ u.parked.read = full
          /\ u.delivered = v.delivered /\ u.wasted = v.wasted + v.parked.read.got
      BY <2>1, <3>1, <3>2, <3>3, <3>4, <3>5, <3>6, ReadParked
    <3>8. u \in WorldType
      BY <3>7 DEF RecvMove, Alike
    <3>9. inhand => Bytes(u)
      BY <3>7, <3>8, <1>2, <1>17, <1>19
    <3> QED BY <3>7, <3>9 DEF u
  <2> QED BY <2>2, <2>3, <2>4
<1> QED BY <1>1, <1>13, <1>14, <1>15, <1>16 DEF RecvState

\* The world itself.
LEMMA NoStep ==
  ASSUME NEW v \in WorldType, NEW ks \in KindSeq, Sides(v, ks), NEW op
  PROVE  Step(v, v, ks, op)
BY DEF Step, Alike

\* An answer to an operation that neither half has to do with.
LEMMA ReplyStep ==
  ASSUME NEW v \in WorldType, NEW ks \in KindSeq, Sides(v, ks), NEW op \in 1..Len(ks),
         NEW answer \in Answer, ks[op] \notin {"read", "end", "write", "wait"}
  PROVE  Step(v, Reply(v, {op}, answer), ks, op)
<1> DEFINE u == Reply(v, {op}, answer)
<1>1. /\ u \in WorldType /\ u.core = v.core /\ u.parked = v.parked /\ u.delivered = v.delivered
      /\ u.wasted = v.wasted /\ u.given = v.given /\ u.closed = v.closed
      /\ \A o \in Op : o # op => u.ans[o] = v.ans[o]
  BY ReplyIs
<1> HIDE DEF u
<1>2. Alike(v, u) /\ RecvSame(v, u) /\ SendSame(v, u)
  BY <1>1 DEF Alike, RecvSame, SendSame, RecvCoreSame, SendCoreSame
<1>3. AcceptSide(u, ks) /\ (AcceptQuiet(v) => AcceptQuiet(u))
  BY <1>1 DEF Sides, AcceptSide, AcceptQuiet
<1>4. \A o \in Nat : o > op /\ AcceptBefore(v, o) => AcceptBefore(u, o)
  BY <1>1 DEF AcceptBefore
<1>5. AcceptStep(v, u, ks, op)
  BY <1>1, <1>2, <1>3, <1>4 DEF AcceptStep
<1>6. op \in Nat
  BY DEF KindSeq
<1> QED BY <1>5, <1>6, AcceptStepIsStep DEF u

\* The world without its parked read.
LEMMA UnparkRead ==
  ASSUME NEW v \in WorldType, NEW ks \in KindSeq, RecvSide(v, ks)
  PROVE  /\ WithParked(v, SetRead(v.parked, NoRead)) \in WorldType
         /\ RecvSide(WithParked(v, SetRead(v.parked, NoRead)), ks)
         /\ WithParked(v, SetRead(v.parked, NoRead)).parked.read = NoRead
         /\ WithParked(v, SetRead(v.parked, NoRead)).parked.write = v.parked.write
         /\ WithParked(v, SetRead(v.parked, NoRead)).parked.fins = v.parked.fins
         /\ WithParked(v, SetRead(v.parked, NoRead)).parked.accepts = v.parked.accepts
         /\ WithParked(v, SetRead(v.parked, NoRead)).core = v.core
         /\ WithParked(v, SetRead(v.parked, NoRead)).ans = v.ans
         /\ WithParked(v, SetRead(v.parked, NoRead)).delivered = v.delivered
         /\ WithParked(v, SetRead(v.parked, NoRead)).wasted = v.wasted
         /\ WithParked(v, SetRead(v.parked, NoRead)).given = v.given
         /\ WithParked(v, SetRead(v.parked, NoRead)).closed = v.closed
<1> DEFINE none == NoRead
           p == SetRead(v.parked, none)
           x == WithParked(v, p)
<1>1. none \in ReadType /\ none.op = NoOp /\ none.got = 0
  BY SizeAssumption DEF NoRead, ReadType
<1> HIDE DEF none
<1>2. /\ p \in ParkedType /\ p.read = none /\ p.write = v.parked.write
      /\ p.accepts = v.parked.accepts /\ p.fins = v.parked.fins
  BY <1>1, SetReadIs, WorldFields
<1> HIDE DEF p
<1>3. /\ x \in WorldType /\ x.core = v.core /\ x.parked = p /\ x.ans = v.ans /\ x.delivered = v.delivered
      /\ x.wasted = v.wasted /\ x.given = v.given /\ x.closed = v.closed
  BY <1>2, WithParkedIs
<1> HIDE DEF x
<1>4. RecvSide(x, ks)
  BY <1>1, <1>2, <1>3 DEF RecvSide
<1> QED BY <1>2, <1>3, <1>4 DEF x, p, none

\* The parked read, when there is one.
LEMMA ParkedRead ==
  ASSUME NEW v \in WorldType, NEW ks \in KindSeq, RecvSide(v, ks), v.parked.read.op # NoOp
  PROVE  /\ v.parked.read \in ReadType /\ v.parked.read.op \in 1..Len(ks) /\ v.parked.read.op \in Op
         /\ v.parked.read.kind = ks[v.parked.read.op] /\ ks[v.parked.read.op] \in {"read", "end"}
         /\ (v.parked.read.kind = "read" => v.parked.read.got = 0)
         /\ v.parked.read.got \in Nat /\ Owed(v, v.parked.read.op)
<1>1. v.parked.read \in ReadType
  BY WorldFields, ParkedFields
<1>2. v.parked.read.op \in 1..Len(ks) /\ v.parked.read.kind = ks[v.parked.read.op]
      /\ (v.parked.read.kind = "read" => v.parked.read.got = 0) /\ Owed(v, v.parked.read.op)
  BY DEF RecvSide
<1>3. v.parked.read.kind \in {"read", "end"} /\ v.parked.read.got \in Nat
  BY <1>1, SizeAssumption DEF ReadType
<1>4. v.parked.read.op \in Op
  BY <1>2, OpsAssumption DEF KindSeq, Op
<1> QED BY <1>1, <1>2, <1>3, <1>4

\* A step that begins with taking the parked read, whose bytes it then accounts for.
LEMMA ReadUnparked ==
  ASSUME NEW v \in WorldType, NEW ks \in KindSeq, RecvSide(v, ks), v.parked.read.op # NoOp, NEW u,
         RecvMove(WithParked(v, SetRead(v.parked, NoRead)), u, ks, v.parked.read.op),
         v.core.pos = v.delivered + v.wasted + v.parked.read.got => Bytes(u)
  PROVE  RecvStep(v, u, ks, NoOp) /\ ReadQuiet(u)
<1> DEFINE x == WithParked(v, SetRead(v.parked, NoRead))
<1>1. /\ x.parked.read = NoRead /\ x.parked.write = v.parked.write /\ x.parked.fins = v.parked.fins
      /\ x.parked.accepts = v.parked.accepts /\ x.core = v.core /\ x.ans = v.ans
      /\ x.given = v.given /\ x.closed = v.closed
  BY UnparkRead
<1> HIDE DEF x
<1>2. RecvMove(x, u, ks, v.parked.read.op)
  BY DEF x
<1>3. x.parked.read.op = NoOp
  BY <1>1 DEF NoRead
<1>4. Alike(v, u) /\ SendSame(v, u) /\ AcceptSame(v, u) /\ RecvSide(u, ks)
  BY <1>1, <1>2 DEF RecvMove, Alike, SendSame, AcceptSame
<1>5. ReadQuiet(u)
  BY <1>2, <1>3 DEF RecvMove, ReadQuiet
<1>6. u.parked.read.op \in {NoOp, v.parked.read.op, NoOp}
  BY <1>2, <1>3 DEF RecvMove
<1>7. \A o \in Op : o # NoOp
  BY OpsAssumption DEF Op, NoOp
<1>8. \A o \in Op : o \notin {v.parked.read.op, NoOp} => u.ans[o] = v.ans[o]
  BY <1>1, <1>2, <1>3, <1>7 DEF RecvMove
<1>9. Bytes(v) => Bytes(u)
  BY DEF Bytes
<1> QED BY <1>4, <1>5, <1>6, <1>8, <1>9 DEF RecvStep, RecvMove

\* on_readable.
LEMMA OnReadableStep ==
  ASSUME NEW v \in WorldType, NEW ks \in KindSeq, Sides(v, ks)
  PROVE  Step(v, OnReadable(v), ks, NoOp) /\ ReadQuiet(OnReadable(v))
<1>1. RecvSide(v, ks) /\ NoOp \in Nat
  BY DEF Sides, NoOp
<1>2. CASE v.parked.read.op = NoOp
  BY <1>2, NoStep DEF OnReadable, ReadQuiet
<1>3. CASE v.parked.read.op # NoOp
  <2> DEFINE x == WithParked(v, SetRead(v.parked, NoRead))
             r == v.parked.read
             u == PumpRead(x, r)
  <2>1. OnReadable(v) = u
    BY <1>3 DEF OnReadable, WithParked, SetRead
  <2>2. /\ x \in WorldType /\ RecvSide(x, ks) /\ x.parked.read = NoRead /\ x.core = v.core /\ x.ans = v.ans
        /\ x.delivered = v.delivered /\ x.wasted = v.wasted
    BY <1>1, UnparkRead
  <2>3. /\ r \in ReadType /\ r.op \in 1..Len(ks) /\ r.kind = ks[r.op] /\ (r.kind = "read" => r.got = 0)
        /\ r.got \in Nat /\ Owed(v, r.op)
    BY <1>1, <1>3, ParkedRead
  <2>4. Owed(x, r.op) /\ x.parked.read.op # r.op /\ x.parked.read.got = 0
    BY <1>3, <2>2, <2>3 DEF Owed, NoRead
  <2> HIDE DEF x, r
  <2>5. /\ RecvMove(x, u, ks, r.op)
        /\ x.core.pos = x.delivered + x.wasted + x.parked.read.got + r.got => Bytes(u)
    BY <2>2, <2>3, <2>4, PumpReadStep
  <2> HIDE DEF u
  <2>6. v.core.pos = v.delivered + v.wasted + r.got => Bytes(u)
    <3>1. v.delivered \in Nat /\ v.wasted \in Nat
      BY WorldFields
    <3>2. v.delivered + v.wasted + r.got = v.delivered + v.wasted + 0 + r.got
      BY <3>1, <2>3
    <3> QED BY <3>2, <2>2, <2>4, <2>5
  <2>7. RecvStep(v, u, ks, NoOp) /\ ReadQuiet(u)
    BY <1>1, <1>3, <2>5, <2>6, ReadUnparked DEF x, r
  <2>8. Step(v, u, ks, NoOp)
    BY <1>1, <2>7, RecvStepIsStep
  <2> QED BY <2>1, <2>7, <2>8
<1> QED BY <1>2, <1>3

\* fail_pending_read.
LEMMA FailPendingReadStep ==
  ASSUME NEW v \in WorldType, NEW ks \in KindSeq, Sides(v, ks), NEW answer \in Answer \ {"Ok", "waiting"}
  PROVE  Step(v, FailPendingRead(v, answer), ks, NoOp) /\ FailPendingRead(v, answer).parked.read.op = NoOp
         /\ FailPendingRead(v, answer).core = v.core
<1>1. RecvSide(v, ks) /\ NoOp \in Nat
  BY DEF Sides, NoOp
<1>2. CASE v.parked.read.op = NoOp
  BY <1>2, NoStep DEF FailPendingRead
<1>3. CASE v.parked.read.op # NoOp
  <2> DEFINE x == WithParked(v, SetRead(v.parked, NoRead))
             r == v.parked.read
             c == v.core
             u == ReplyReadError(WithCore(x, c), r, answer)
  <2>1. /\ x \in WorldType /\ RecvSide(x, ks) /\ x.parked.read = NoRead /\ x.core = c /\ x.ans = v.ans
        /\ x.delivered = v.delivered /\ x.wasted = v.wasted
    BY <1>1, UnparkRead
  <2>2. FailPendingRead(v, answer) = u
    <3>1. FailPendingRead(v, answer) = ReplyReadError(x, r, answer)
      BY <1>3 DEF FailPendingRead, WithParked, SetRead
    <3>2. WithCore(x, x.core) = x
      <4>1. x \in WorldType
        BY <2>1
      <4> HIDE DEF x
      <4> QED BY <4>1 DEF WithCore, WorldType
    <3> HIDE DEF x
    <3> QED BY <3>1, <3>2, <2>1
  <2>3. /\ r.op \in 1..Len(ks) /\ ks[r.op] \in {"read", "end"} /\ r.got \in Nat /\ Owed(v, r.op)
    BY <1>1, <1>3, ParkedRead
  <2>4. Owed(x, r.op) /\ x.parked.read.op # r.op /\ x.parked.read.got = 0 /\ x.parked.read.op = NoOp
    BY <1>3, <2>1, <2>3 DEF Owed, NoRead
  <2>5. RecvCoreStep(x.core, c)
    <3>1. c \in CoreType
      BY WorldFields
    <3>2. /\ c.unread <= c.arrived /\ (c.recv # "open" => c.unread = 0)
          /\ (c.ended => c.recv = "gone" /\ c.fin)
      BY <1>1 DEF RecvSide
    <3> HIDE DEF c, x
    <3> QED BY <3>1, <3>2, <2>1 DEF RecvCoreStep, SendCoreSame, AcceptCoreSame
  <2> HIDE DEF x, r, c
  <2>6. /\ RecvMove(x, u, ks, r.op) /\ u.core = c /\ u.parked = x.parked
        /\ u.delivered = x.delivered /\ u.wasted = x.wasted + r.got
    <3> DEFINE op == r.op
    <3>1. op \in 1..Len(ks) /\ r.op = op /\ ks[op] \in {"read", "end"} /\ Owed(x, op) /\ x.parked.read.op # op
      BY <2>3, <2>4
    <3> HIDE DEF op
    <3> QED BY <2>1, <2>3, <2>4, <2>5, <3>1, ReadFailed
  <2> HIDE DEF u
  <2>7. v.core.pos = v.delivered + v.wasted + r.got => Bytes(u)
    <3>1. v.delivered \in Nat /\ v.wasted \in Nat /\ u.core.pos = v.core.pos /\ u.parked.read.got = 0
          /\ u.delivered = v.delivered /\ u.wasted = v.wasted + r.got
      BY WorldFields, <2>1, <2>4, <2>6 DEF c
    <3>2. v.delivered + v.wasted + r.got = v.delivered + (v.wasted + r.got) + 0
      BY <3>1, <2>3
    <3> QED BY <3>1, <3>2 DEF Bytes
  <2>8. RecvStep(v, u, ks, NoOp)
    BY <1>1, <1>3, <2>6, <2>7, ReadUnparked DEF x, r
  <2>9. Step(v, u, ks, NoOp)
    BY <1>1, <2>8, RecvStepIsStep
  <2> QED BY <2>2, <2>4, <2>6, <2>9 DEF c
<1> QED BY <1>2, <1>3

ForgetEnd(c) == [c EXCEPT !.ended = FALSE]
StopRecv(c) == [c EXCEPT !.recv = "gone", !.unread = 0]

\* A core that forgets that the receive half has ended, or whose receive half is stopped.
LEMMA StopRecvIs ==
  ASSUME NEW c \in CoreType
  PROVE  /\ ForgetEnd(c) \in CoreType /\ ForgetEnd(c).phase = c.phase
         /\ SendCoreSame(c, ForgetEnd(c)) /\ AcceptCoreSame(c, ForgetEnd(c))
         /\ ForgetEnd(c).recv = c.recv /\ ForgetEnd(c).unread = c.unread /\ ForgetEnd(c).pos = c.pos
         /\ ForgetEnd(c).ended = FALSE /\ ForgetEnd(c).arrived = c.arrived /\ ForgetEnd(c).fin = c.fin
         /\ StopRecv(c) \in CoreType /\ StopRecv(c).phase = c.phase
         /\ SendCoreSame(c, StopRecv(c)) /\ AcceptCoreSame(c, StopRecv(c))
         /\ StopRecv(c).recv = "gone" /\ StopRecv(c).unread = 0 /\ StopRecv(c).pos = c.pos
         /\ StopRecv(c).ended = c.ended /\ StopRecv(c).arrived = c.arrived /\ StopRecv(c).fin = c.fin
<1>1. /\ ForgetEnd(c) \in CoreType /\ ForgetEnd(c).phase = c.phase
      /\ SendCoreSame(c, ForgetEnd(c)) /\ AcceptCoreSame(c, ForgetEnd(c))
      /\ ForgetEnd(c).recv = c.recv /\ ForgetEnd(c).unread = c.unread /\ ForgetEnd(c).pos = c.pos
      /\ ForgetEnd(c).ended = FALSE /\ ForgetEnd(c).arrived = c.arrived /\ ForgetEnd(c).fin = c.fin
  BY DEF ForgetEnd, CoreType, SendCoreSame, AcceptCoreSame
<1>2. /\ StopRecv(c) \in CoreType /\ StopRecv(c).phase = c.phase
      /\ SendCoreSame(c, StopRecv(c)) /\ AcceptCoreSame(c, StopRecv(c))
      /\ StopRecv(c).recv = "gone" /\ StopRecv(c).unread = 0 /\ StopRecv(c).pos = c.pos
      /\ StopRecv(c).ended = c.ended /\ StopRecv(c).arrived = c.arrived /\ StopRecv(c).fin = c.fin
  BY DEF StopRecv, CoreType, RecvState, SendCoreSame, AcceptCoreSame
<1> QED BY <1>1, <1>2

\* A change of the receive half's core under which nobody is answered.
LEMMA RecvCoreMoves ==
  ASSUME NEW v \in WorldType, NEW ks \in KindSeq, Sides(v, ks), NEW d, RecvCoreStep(v.core, d),
         d.pos = v.core.pos,
         \/ d.recv = v.core.recv /\ d.unread = v.core.unread /\ d.fin = v.core.fin
         \/ v.parked.read.op = NoOp
  PROVE  Step(v, WithCore(v, d), ks, NoOp)
<1> DEFINE u == WithCore(v, d)
<1>1. /\ u \in WorldType /\ u.core = d /\ u.parked = v.parked /\ u.ans = v.ans /\ u.given = v.given
      /\ u.closed = v.closed /\ u.delivered = v.delivered /\ u.wasted = v.wasted
  BY WithCoreIs DEF RecvCoreStep
<1> HIDE DEF u
<1>2. Alike(v, u) /\ SendSame(v, u) /\ AcceptSame(v, u)
  BY <1>1 DEF Alike, SendSame, AcceptSame, RecvCoreStep
<1>3. RecvSide(u, ks)
  <2>1. /\ d.unread <= d.arrived /\ (d.recv # "open" => d.unread = 0)
        /\ (d.ended => d.recv = "gone" /\ d.fin)
        /\ (v.core.fin /\ v.core.recv = "gone" => d.fin /\ d.recv = "gone")
    BY DEF RecvCoreStep
  <2>2. RecvSide(v, ks)
    BY DEF Sides
  <2> QED BY <1>1, <2>1, <2>2 DEF RecvSide, Owed
<1>4. (ReadQuiet(v) => ReadQuiet(u)) /\ (Bytes(v) => Bytes(u))
  BY <1>1 DEF ReadQuiet, Bytes
<1>5. RecvStep(v, u, ks, NoOp)
  BY <1>1, <1>2, <1>3, <1>4 DEF RecvStep, RecvMove
<1>6. NoOp \in Nat
  BY DEF NoOp
<1> QED BY <1>5, <1>6, RecvStepIsStep DEF u

\* The core forgets that the receive half has ended.
LEMMA ForgetEndStep ==
  ASSUME NEW v \in WorldType, NEW ks \in KindSeq, Sides(v, ks)
  PROVE  Step(v, WithCore(v, ForgetEnd(v.core)), ks, NoOp)
<1> DEFINE c == v.core
           d == ForgetEnd(c)
<1>1. c \in CoreType
  BY WorldFields
<1>2. /\ c.unread <= c.arrived /\ (c.recv # "open" => c.unread = 0)
  BY DEF Sides, RecvSide
<1>3. /\ d \in CoreType /\ d.phase = c.phase /\ SendCoreSame(c, d) /\ AcceptCoreSame(c, d)
      /\ d.recv = c.recv /\ d.unread = c.unread /\ d.pos = c.pos /\ d.ended = FALSE
      /\ d.arrived = c.arrived /\ d.fin = c.fin
  BY <1>1, StopRecvIs
<1> HIDE DEF d
<1>4. RecvCoreStep(c, d)
  BY <1>2, <1>3 DEF RecvCoreStep
<1> QED BY <1>3, <1>4, RecvCoreMoves DEF d

\* stop.
LEMMA StopStep ==
  ASSUME NEW v \in WorldType, NEW ks \in KindSeq, Sides(v, ks), NEW op \in 1..Len(ks), ks[op] = "stop"
  PROVE  Step(v, Stop(v, op), ks, op)
<1> DEFINE f == WithCore(v, ForgetEnd(v.core))
           closed == "ClosedStream"
           ok == "Ok"
           y == FailPendingRead(f, closed)
           z == WithCore(y, StopRecv(y.core))
<1>1. op \in Nat /\ NoOp \in Nat /\ NoOp <= op /\ NoOp <= NoOp /\ op <= op
  BY DEF KindSeq, NoOp
<1>2. Step(v, f, ks, NoOp) /\ f \in WorldType /\ Sides(f, ks)
  BY ForgetEndStep DEF Step, Alike
<1>3. closed \in Answer \ {"Ok", "waiting"} /\ ok \in Answer
  BY DEF Answer
<1>4. ks[op] \notin {"read", "end", "write", "wait"}
  OBVIOUS
<1>5. f.core = ForgetEnd(v.core) /\ ForgetEnd(v.core).ended = FALSE
  BY WithCoreIs, WorldFields, StopRecvIs
<1>11. f = [v EXCEPT !.core.ended = FALSE]
  BY DEF WithCore, ForgetEnd, WorldType
<1> HIDE DEF f, closed, ok
<1>7. Step(f, y, ks, NoOp) /\ y.parked.read.op = NoOp /\ y.core = f.core
  BY <1>2, <1>3, FailPendingReadStep
<1>8. y \in WorldType /\ Sides(y, ks)
  BY <1>7 DEF Step, Alike
<1>12. z = [y EXCEPT !.core.recv = "gone", !.core.unread = 0]
  <2> HIDE DEF y
  <2> QED BY <1>8 DEF WithCore, StopRecv, WorldType
<1> HIDE DEF z
<1>6. Stop(v, op) = IF v.core.recv \in {"open", "reset"} THEN Reply(z, {op}, ok) ELSE Reply(f, {op}, closed)
  BY <1>11, <1>12 DEF Stop, ok, closed
<1> USE DEF z
<1> HIDE DEF y
<1>9. CASE v.core.recv \in {"open", "reset"}
  <2> DEFINE d == StopRecv(y.core)
  <2>1. y.core \in CoreType /\ y.core.recv = v.core.recv /\ y.core.ended = FALSE
    <3>1. v.core \in CoreType
      BY WorldFields
    <3>2. y.core = ForgetEnd(v.core)
      BY <1>5, <1>7
    <3>3. ForgetEnd(v.core) \in CoreType /\ ForgetEnd(v.core).recv = v.core.recv /\ ForgetEnd(v.core).ended = FALSE
      BY ONLY <3>1, StopRecvIs
    <3> QED BY <3>2, <3>3
  <2>2. /\ d \in CoreType /\ d.phase = y.core.phase /\ SendCoreSame(y.core, d) /\ AcceptCoreSame(y.core, d)
        /\ d.recv = "gone" /\ d.unread = 0 /\ d.pos = y.core.pos /\ d.ended = FALSE
        /\ d.arrived = y.core.arrived /\ d.fin = y.core.fin
    BY <2>1, StopRecvIs
  <2> HIDE DEF d
  <2>3. d.arrived \in Nat
    BY <2>2, CoreFields, DriverAssumption
  <2>4. RecvCoreStep(y.core, d)
    BY <1>9, <2>1, <2>2, <2>3 DEF RecvCoreStep
  <2>5. Step(y, z, ks, NoOp)
    BY <1>7, <1>8, <2>2, <2>4, RecvCoreMoves DEF d
  <2>6. z \in WorldType /\ Sides(z, ks)
    BY <2>5 DEF Step, Alike
  <2> HIDE DEF z
  <2>7. Step(z, Reply(z, {op}, ok), ks, op)
    BY <1>3, <1>4, <2>6, ReplyStep
  <2>8. Step(v, y, ks, NoOp)
    BY <1>1, <1>2, <1>7, StepTwice
  <2>9. Step(v, z, ks, NoOp)
    BY <1>1, <2>5, <2>8, StepTwice
  <2>10. Step(v, Reply(z, {op}, ok), ks, op)
    BY <1>1, <2>7, <2>9, StepTwice
  <2> QED BY <2>10, <1>6, <1>9
<1>10. CASE v.core.recv \notin {"open", "reset"}
  <2>1. Step(f, Reply(f, {op}, closed), ks, op)
    BY <1>2, <1>3, <1>4, ReplyStep DEF Answer
  <2>2. Step(v, Reply(f, {op}, closed), ks, op)
    BY <1>1, <1>2, <2>1, StepTwice
  <2> QED BY <2>2, <1>6, <1>10
<1> QED BY <1>9, <1>10

-----------------------------------------------------------------------------
(* Streams to accept and to open                                           *)

SetReady(c, n) == [c EXCEPT !.ready = n]
SetOpens(c, n) == [c EXCEPT !.opens = n]
SetAccepts(p, q) == [p EXCEPT !.accepts = q]

\* A core with another number of streams to hand out or to open.
LEMMA SetReadyIs ==
  ASSUME NEW c \in CoreType, NEW n \in Nat
  PROVE  /\ SetReady(c, n) \in CoreType /\ SetReady(c, n).phase = c.phase
         /\ RecvCoreSame(c, SetReady(c, n)) /\ SendCoreSame(c, SetReady(c, n))
         /\ SetReady(c, n).ready = n /\ SetReady(c, n).opened = c.opened
         /\ SetOpens(c, n) \in CoreType /\ SetOpens(c, n).phase = c.phase
         /\ RecvCoreSame(c, SetOpens(c, n)) /\ SendCoreSame(c, SetOpens(c, n))
         /\ AcceptCoreSame(c, SetOpens(c, n))
<1>1. /\ SetReady(c, n) \in CoreType /\ SetReady(c, n).phase = c.phase
      /\ RecvCoreSame(c, SetReady(c, n)) /\ SendCoreSame(c, SetReady(c, n))
      /\ SetReady(c, n).ready = n /\ SetReady(c, n).opened = c.opened
  BY DEF SetReady, CoreType, RecvCoreSame, SendCoreSame
<1>2. /\ SetOpens(c, n) \in CoreType /\ SetOpens(c, n).phase = c.phase
      /\ RecvCoreSame(c, SetOpens(c, n)) /\ SendCoreSame(c, SetOpens(c, n))
      /\ AcceptCoreSame(c, SetOpens(c, n))
  BY DEF SetOpens, CoreType, RecvCoreSame, SendCoreSame, AcceptCoreSame
<1> QED BY <1>1, <1>2

\* Other accepts parked.
LEMMA SetAcceptsIs ==
  ASSUME NEW p \in ParkedType, NEW q \in Seq(Op)
  PROVE  /\ SetAccepts(p, q) \in ParkedType /\ SetAccepts(p, q).accepts = q
         /\ SetAccepts(p, q).read = p.read /\ SetAccepts(p, q).write = p.write
         /\ SetAccepts(p, q).fins = p.fins
BY DEF ParkedType, SetAccepts

\* A world in which accepts have been answered, streams handed out and accepts parked.
Accepted(x, n, g, q) ==
  WithParked(WithGiven(WithCore(x, SetReady(x.core, n)), g), SetAccepts(x.parked, q))

\* Its parts.
LEMMA AcceptedIs ==
  ASSUME NEW x \in WorldType, NEW n \in Nat, NEW g \in Seq(Op), NEW q \in Seq(Op)
  PROVE  /\ Alike(x, Accepted(x, n, g, q)) /\ RecvSame(x, Accepted(x, n, g, q))
         /\ SendSame(x, Accepted(x, n, g, q)) /\ Accepted(x, n, g, q).ans = x.ans
         /\ Accepted(x, n, g, q).core.ready = n /\ Accepted(x, n, g, q).core.opened = x.core.opened
         /\ Accepted(x, n, g, q).given = g /\ Accepted(x, n, g, q).parked.accepts = q
<1> DEFINE d == SetReady(x.core, n)
           y == WithCore(x, d)
           z == WithGiven(y, g)
           p == SetAccepts(x.parked, q)
           u == WithParked(z, p)
<1>1. /\ d \in CoreType /\ d.phase = x.core.phase /\ RecvCoreSame(x.core, d) /\ SendCoreSame(x.core, d)
      /\ d.ready = n /\ d.opened = x.core.opened
  BY SetReadyIs, WorldFields
<1>2. /\ p \in ParkedType /\ p.accepts = q /\ p.read = x.parked.read /\ p.write = x.parked.write
      /\ p.fins = x.parked.fins
  BY SetAcceptsIs, WorldFields
<1> HIDE DEF d, p
<1>3. /\ y \in WorldType /\ y.core = d /\ y.ans = x.ans /\ y.delivered = x.delivered
      /\ y.wasted = x.wasted /\ y.closed = x.closed
  BY <1>1, WithCoreIs
<1> HIDE DEF y
<1>4. /\ z \in WorldType /\ z.core = d /\ z.ans = x.ans /\ z.delivered = x.delivered
      /\ z.wasted = x.wasted /\ z.closed = x.closed /\ z.given = g
  BY <1>3, WithGivenIs
<1> HIDE DEF z
<1>5. /\ u \in WorldType /\ u.core = d /\ u.ans = x.ans /\ u.delivered = x.delivered
      /\ u.wasted = x.wasted /\ u.closed = x.closed /\ u.given = g /\ u.parked = p
  BY <1>2, <1>4, WithParkedIs
<1> HIDE DEF u
<1>6. /\ Alike(x, u) /\ RecvSame(x, u) /\ SendSame(x, u) /\ u.ans = x.ans
      /\ u.core.ready = n /\ u.core.opened = x.core.opened /\ u.given = g /\ u.parked.accepts = q
  BY <1>1, <1>2, <1>5 DEF Alike, RecvSame, SendSame
<1> QED BY <1>6 DEF u, z, y, d, p, Accepted

\* u is v after answers to ops, with n streams to accept, g handed out and q parked.
AcceptedFrom(v, u, ops, n, g, q) ==
  /\ Alike(v, u) /\ RecvSame(v, u) /\ SendSame(v, u)
  /\ u.core.ready = n /\ u.core.opened = v.core.opened
  /\ u.given = g /\ u.parked.accepts = q
  /\ \A o \in Op : o \notin ops => u.ans[o] = v.ans[o]

\* Accepts are answered, and then handed the streams.
LEMMA AcceptedAfterReply ==
  ASSUME NEW v \in WorldType, NEW ops, NEW answer \in Answer,
         NEW n \in Nat, NEW g \in Seq(Op), NEW q \in Seq(Op),
         NEW u, u = Accepted(Reply(v, ops, answer), n, g, q)
  PROVE  AcceptedFrom(v, u, ops, n, g, q)
<1> DEFINE x == Reply(v, ops, answer)
<1>1. /\ x \in WorldType /\ x.core = v.core /\ x.parked = v.parked /\ x.delivered = v.delivered
      /\ x.wasted = v.wasted /\ x.given = v.given /\ x.closed = v.closed
      /\ \A o \in Op : o \notin ops => x.ans[o] = v.ans[o]
  BY ReplyIs
<1>2. u = Accepted(x, n, g, q)
  OBVIOUS
<1>3. x \in WorldType
  BY <1>1
<1> HIDE DEF x
<1>4. /\ Alike(x, u) /\ RecvSame(x, u) /\ SendSame(x, u) /\ u.ans = x.ans
      /\ u.core.ready = n /\ u.core.opened = x.core.opened /\ u.given = g /\ u.parked.accepts = q
  BY <1>2, <1>3, AcceptedIs
<1> QED BY <1>1, <1>4 DEF AcceptedFrom, Alike, RecvSame, SendSame

\* A later operation at the end of an ordered sequence of operations.
LEMMA AppendOrdered ==
  ASSUME NEW s \in Seq(Op), NEW op \in Op, \A i, j \in 1..Len(s) : i < j => s[i] < s[j],
         \A i \in 1..Len(s) : s[i] < op
  PROVE  /\ Append(s, op) \in Seq(Op)
         /\ \A i, j \in 1..Len(Append(s, op)) : i < j => Append(s, op)[i] < Append(s, op)[j]
         /\ \A i \in 1..Len(Append(s, op)) : Append(s, op)[i] = op \/ \E j \in 1..Len(s) : Append(s, op)[i] = s[j]
<1> DEFINE t == Append(s, op)
           n == Len(s)
<1>1. /\ t \in Seq(Op) /\ Len(t) = n + 1 /\ n \in Nat /\ t[n + 1] = op
      /\ \A i \in 1..n : t[i] = s[i]
  OBVIOUS
<1> HIDE DEF t, n
<1>2. ASSUME NEW i \in 1..Len(t), NEW j \in 1..Len(t), i < j PROVE t[i] < t[j]
  <2>1. i \in 1..n /\ (j \in 1..n \/ j = n + 1)
    BY <1>1, <1>2
  <2>2. t[i] = s[i] /\ (j = n + 1 \/ t[j] = s[j])
    BY <1>1, <2>1
  <2> QED BY <1>1, <1>2, <2>1, <2>2 DEF n
<1>3. ASSUME NEW i \in 1..Len(t) PROVE t[i] = op \/ \E j \in 1..n : t[i] = s[j]
  <2>1. i \in 1..n \/ i = n + 1
    BY <1>1
  <2> QED BY <1>1, <2>1
<1> QED BY <1>1, <1>2, <1>3 DEF t, n

\* An accept is handed the next stream, or waits.
LEMMA AcceptBiStep ==
  ASSUME NEW v \in WorldType, NEW ks \in KindSeq, Sides(v, ks), NEW op \in 1..Len(ks), ks[op] = "accept",
         AcceptBefore(v, op), AcceptQuiet(v)
  PROVE  Step(v, AcceptBi(v, op), ks, op)
<1> DEFINE q == v.parked.accepts
           g == v.given
           n == v.core.ready
           ok == "Ok"
           u == AcceptBi(v, op)
<1>1. /\ q \in Seq(Op) /\ g \in Seq(Op) /\ n \in Nat /\ op \in Op /\ op \in Nat /\ ok \in Answer
      /\ v.core.opened \in Nat
  BY WorldFields, ParkedFields, CoreFields, OpsAssumption, DriverAssumption DEF KindSeq, Op, Answer
<1>2. /\ n <= v.core.opened
      /\ \A i \in 1..Len(q) : q[i] \in 1..Len(ks) /\ ks[q[i]] = "accept"
      /\ \A i, j \in 1..Len(q) : i < j => q[i] < q[j]
      /\ \A i, j \in 1..Len(g) : i < j => g[i] < g[j]
      /\ \A i \in 1..Len(g), j \in 1..Len(q) : g[i] < q[j]
  BY DEF Sides, AcceptSide
<1>3. (\A i \in 1..Len(g) : g[i] < op) /\ (\A i \in 1..Len(q) : q[i] < op)
  BY DEF AcceptBefore
<1>4. q # <<>> => n = 0
  BY DEF AcceptQuiet
<1>5. CASE n > 0
  <2> DEFINE h == Append(g, op)
             m == n - 1
  <2>1. /\ h \in Seq(Op) /\ (\A i, j \in 1..Len(h) : i < j => h[i] < h[j])
        /\ \A i \in 1..Len(h) : h[i] = op \/ \E j \in 1..Len(g) : h[i] = g[j]
    BY <1>1, <1>2, <1>3, AppendOrdered
  <2>2. m \in Nat /\ q = <<>> /\ Len(q) = 0
    BY <1>1, <1>4, <1>5
  <2>3. u = Accepted(Reply(v, {op}, ok), m, h, q)
    <3> DEFINE x == Reply(v, {op}, ok)
    <3>1. x \in WorldType /\ x.core = v.core /\ x.parked = v.parked /\ x.given = v.given
      BY <1>1, ReplyIs
    <3>2. u = [x EXCEPT !.core.ready = @ - 1, !.given = Append(@, op)]
      BY <1>5 DEF AcceptBi, HandStream
    <3> HIDE DEF x, u
    <3>3. [x EXCEPT !.core.ready = @ - 1, !.given = Append(@, op)] =
            Accepted(x, x.core.ready - 1, Append(x.given, op), x.parked.accepts)
      BY <3>1 DEF Accepted, WithParked, WithGiven, WithCore, SetAccepts, SetReady, WorldType, ParkedType
    <3> QED BY <3>1, <3>2, <3>3 DEF x
  <2> HIDE DEF h, m, u, q, g, n, ok
  <2>4. /\ Alike(v, u) /\ RecvSame(v, u) /\ SendSame(v, u)
        /\ u.core.ready = m /\ u.core.opened = v.core.opened /\ u.given = h /\ u.parked.accepts = q
        /\ \A o \in Op : o \notin {op} => u.ans[o] = v.ans[o]
    <3> DEFINE ops == {op}
    <3>1. u = Accepted(Reply(v, ops, ok), m, h, q)
      BY <2>3
    <3> HIDE DEF ops
    <3>2. /\ Alike(v, u) /\ RecvSame(v, u) /\ SendSame(v, u)
          /\ u.core.ready = m /\ u.core.opened = v.core.opened /\ u.given = h /\ u.parked.accepts = q
          /\ \A o \in Op : o \notin ops => u.ans[o] = v.ans[o]
      <4>1. v \in WorldType /\ h \in Seq(Op) /\ m \in Nat /\ q \in Seq(Op) /\ ok \in Answer
        BY <1>1, <2>1, <2>2
      <4>2. AcceptedFrom(v, u, ops, m, h, q)
        BY ONLY <3>1, <4>1, AcceptedAfterReply
      <4> QED BY ONLY <4>2 DEF AcceptedFrom
    <3> QED BY <3>2 DEF ops
  <2>5. AcceptSide(u, ks)
    <3>1. m <= v.core.opened
      BY <1>1, <1>2 DEF m
    <3> QED BY <1>2, <2>1, <2>2, <2>4, <3>1 DEF AcceptSide
  <2>6. AcceptQuiet(u)
    BY <2>2, <2>4 DEF AcceptQuiet
  <2>7. \A o \in Nat : o > op /\ AcceptBefore(v, o) => AcceptBefore(u, o)
    BY <1>1, <2>1, <2>2, <2>4 DEF AcceptBefore, g, q
  <2>8. AcceptStep(v, u, ks, op)
    BY <2>4, <2>5, <2>6, <2>7 DEF AcceptStep
  <2>9. ks[op] \notin {"read", "end", "write", "wait"}
    OBVIOUS
  <2> QED BY <1>1, <2>8, <2>9, AcceptStepIsStep DEF u
<1>6. CASE ~(n > 0)
  <2> DEFINE h == Append(q, op)
  <2>1. /\ h \in Seq(Op) /\ (\A i, j \in 1..Len(h) : i < j => h[i] < h[j])
        /\ \A i \in 1..Len(h) : h[i] = op \/ \E j \in 1..Len(q) : h[i] = q[j]
    BY <1>1, <1>2, <1>3, AppendOrdered
  <2>2. n = 0
    BY <1>1, <1>6
  <2>3. u = Accepted(v, n, g, h)
    <3>1. u = [v EXCEPT !.parked.accepts = Append(@, op)]
      BY <1>6 DEF AcceptBi
    <3>2. [v EXCEPT !.parked.accepts = Append(@, op)] =
            Accepted(v, v.core.ready, v.given, Append(v.parked.accepts, op))
      BY DEF Accepted, WithParked, WithGiven, WithCore, SetAccepts, SetReady, WorldType, ParkedType, CoreType
    <3> QED BY <3>1, <3>2
  <2> HIDE DEF h, u, q, g, n
  <2>4. /\ Alike(v, u) /\ RecvSame(v, u) /\ SendSame(v, u) /\ u.ans = v.ans
        /\ u.core.ready = n /\ u.core.opened = v.core.opened /\ u.given = g /\ u.parked.accepts = h
    BY <1>1, <2>1, <2>3, AcceptedIs
  <2>5. AcceptSide(u, ks)
    <3>1. \A i \in 1..Len(h) : h[i] \in 1..Len(ks) /\ ks[h[i]] = "accept"
      BY <1>2, <2>1
    <3>2. \A i \in 1..Len(g), j \in 1..Len(h) : g[i] < h[j]
      BY <1>2, <1>3, <2>1
    <3> QED BY <1>1, <1>2, <2>1, <2>4, <3>1, <3>2 DEF AcceptSide
  <2>6. AcceptQuiet(u)
    BY <2>2, <2>4 DEF AcceptQuiet
  <2>7. \A o \in Nat : o > op /\ AcceptBefore(v, o) => AcceptBefore(u, o)
    BY <1>1, <2>1, <2>4 DEF AcceptBefore, g, q
  <2>8. AcceptStep(v, u, ks, op)
    BY <2>4, <2>5, <2>6, <2>7 DEF AcceptStep
  <2>9. ks[op] \notin {"read", "end", "write", "wait"}
    OBVIOUS
  <2> QED BY <1>1, <2>8, <2>9, AcceptStepIsStep DEF u
<1> QED BY <1>5, <1>6

\* The first n operations of q after those of g, and the rest of q.
LEMMA SplitOrdered ==
  ASSUME NEW g \in Seq(Op), NEW q \in Seq(Op), NEW n \in 0..Len(q),
         \A i, j \in 1..Len(q) : i < j => q[i] < q[j],
         \A i, j \in 1..Len(g) : i < j => g[i] < g[j],
         \A i \in 1..Len(g), j \in 1..Len(q) : g[i] < q[j]
  PROVE  LET s == g \o SubSeq(q, 1, n)
             t == SubSeq(q, n + 1, Len(q))
         IN  /\ s \in Seq(Op) /\ t \in Seq(Op) /\ Len(t) = Len(q) - n
             /\ \A i, j \in 1..Len(s) : i < j => s[i] < s[j]
             /\ \A i, j \in 1..Len(t) : i < j => t[i] < t[j]
             /\ \A i \in 1..Len(s), j \in 1..Len(t) : s[i] < t[j]
             /\ \A i \in 1..Len(s) : (\E j \in 1..Len(g) : s[i] = g[j]) \/ \E j \in 1..Len(q) : s[i] = q[j]
             /\ \A i \in 1..Len(t) : \E j \in 1..Len(q) : t[i] = q[j]
<1> DEFINE r == SubSeq(q, 1, n)
           s == g \o r
           t == SubSeq(q, n + 1, Len(q))
           k == Len(g)
           l == Len(q)
<1>1. /\ k \in Nat /\ l \in Nat /\ n \in Nat /\ n <= l /\ r \in Seq(Op) /\ Len(r) = n
      /\ \A i \in 1..n : r[i] = q[i]
  OBVIOUS
<1>2. /\ t \in Seq(Op) /\ Len(t) = l - n /\ \A i \in 1..(l - n) : t[i] = q[n + i]
  <2>1. n + 1 \in 1..(l + 1) /\ l \in 0..l
    BY <1>1
  <2> QED BY <1>1
<1> HIDE DEF r, t
<1>3. /\ s \in Seq(Op) /\ Len(s) = k + n /\ \A i \in 1..(k + n) : s[i] = IF i <= k THEN g[i] ELSE r[i - k]
  BY <1>1
<1>4. \A i \in 1..(k + n) : IF i <= k THEN i \in 1..k /\ s[i] = g[i]
                                      ELSE i - k \in 1..n /\ i - k \in 1..l /\ s[i] = q[i - k]
  BY <1>1, <1>3
<1>5. \A i \in 1..(l - n) : n + i \in 1..l /\ t[i] = q[n + i]
  BY <1>1, <1>2
<1> HIDE DEF s
<1>6. ASSUME NEW i \in 1..Len(s), NEW j \in 1..Len(s), i < j PROVE s[i] < s[j]
  <2>1. i \in 1..(k + n) /\ j \in 1..(k + n)
    BY <1>3
  <2>2. CASE j <= k
    <3>1. i <= k
      BY <1>1, <1>6, <2>1, <2>2
    <3> QED BY <1>4, <1>6, <2>1, <2>2, <3>1
  <2>3. CASE i <= k /\ ~(j <= k)
    BY <1>4, <2>1, <2>3
  <2>4. CASE ~(i <= k) /\ ~(j <= k)
    <3>1. i - k < j - k
      BY <1>1, <1>6, <2>1
    <3> QED BY <1>4, <2>1, <2>4, <3>1
  <2>5. (j <= k => i <= k)
    BY <1>1, <1>6, <2>1
  <2> QED BY <2>2, <2>3, <2>4, <2>5
<1>7. ASSUME NEW i \in 1..Len(t), NEW j \in 1..Len(t), i < j PROVE t[i] < t[j]
  <2>1. i \in 1..(l - n) /\ j \in 1..(l - n) /\ n + i < n + j
    BY <1>1, <1>2, <1>7
  <2> QED BY <1>5, <2>1
<1>8. ASSUME NEW i \in 1..Len(s), NEW j \in 1..Len(t) PROVE s[i] < t[j]
  <2>1. i \in 1..(k + n) /\ j \in 1..(l - n)
    BY <1>2, <1>3
  <2>2. n + j \in 1..l /\ t[j] = q[n + j]
    BY <1>5, <2>1
  <2>3. CASE i <= k
    BY <1>4, <2>1, <2>2, <2>3
  <2>4. CASE ~(i <= k)
    <3>1. i - k \in 1..n /\ i - k \in 1..l /\ s[i] = q[i - k]
      BY <1>4, <2>1, <2>4
    <3>2. i - k < n + j
      BY <1>1, <2>1, <3>1
    <3> QED BY <2>2, <3>1, <3>2
  <2> QED BY <2>3, <2>4
<1>9. ASSUME NEW i \in 1..Len(s) PROVE (\E j \in 1..Len(g) : s[i] = g[j]) \/ \E j \in 1..Len(q) : s[i] = q[j]
  <2>1. i \in 1..(k + n)
    BY <1>3
  <2> QED BY <1>4, <2>1
<1>10. ASSUME NEW i \in 1..Len(t) PROVE \E j \in 1..Len(q) : t[i] = q[j]
  <2>1. i \in 1..(l - n)
    BY <1>2
  <2> QED BY <1>5, <2>1
<1> QED BY <1>2, <1>3, <1>6, <1>7, <1>8, <1>9, <1>10 DEF s, t, r

\* on_stream_opened: as many of the accepts as there are streams, the oldest first.
LEMMA OnStreamOpenedStep ==
  ASSUME NEW v \in WorldType, NEW ks \in KindSeq, Sides(v, ks)
  PROVE  Step(v, OnStreamOpened(v), ks, NoOp) /\ AcceptQuiet(OnStreamOpened(v))
<1> DEFINE q == v.parked.accepts
           g == v.given
           n == Least(v.core.ready, Len(q))
           m == v.core.ready - n
           s == g \o SubSeq(q, 1, n)
           t == SubSeq(q, n + 1, Len(q))
           ok == "Ok"
           ops == {q[i] : i \in 1..n}
           u == OnStreamOpened(v)
<1>1. q \in Seq(Op) /\ g \in Seq(Op) /\ v.core.ready \in Nat /\ v.core.opened \in Nat /\ ok \in Answer
  BY WorldFields, ParkedFields, CoreFields, DriverAssumption DEF Answer
<1>2. n \in 0..Len(q) /\ m \in Nat /\ m <= v.core.ready /\ (Len(q) - n # 0 => m = 0)
  BY <1>1 DEF Least
<1>3. /\ v.core.ready <= v.core.opened
      /\ \A i \in 1..Len(q) : q[i] \in 1..Len(ks) /\ ks[q[i]] = "accept"
      /\ \A i, j \in 1..Len(q) : i < j => q[i] < q[j]
      /\ \A i, j \in 1..Len(g) : i < j => g[i] < g[j]
      /\ \A i \in 1..Len(g), j \in 1..Len(q) : g[i] < q[j]
  BY DEF Sides, AcceptSide
<1>4. u = Accepted(Reply(v, ops, ok), m, s, t)
  <2> DEFINE x == Reply(v, ops, ok)
  <2>1. x \in WorldType /\ x.core = v.core /\ x.parked = v.parked /\ x.given = v.given
    BY <1>1, ReplyIs
  <2>2. u = [x EXCEPT !.core.ready = @ - n, !.given = @ \o SubSeq(q, 1, n),
                      !.parked.accepts = SubSeq(@, n + 1, Len(q))]
    BY DEF OnStreamOpened
  <2> HIDE DEF x, u, n
  <2>3. [x EXCEPT !.core.ready = @ - n, !.given = @ \o SubSeq(q, 1, n),
                  !.parked.accepts = SubSeq(@, n + 1, Len(q))] =
          Accepted(x, x.core.ready - n, x.given \o SubSeq(q, 1, n), SubSeq(x.parked.accepts, n + 1, Len(q)))
    BY <2>1 DEF Accepted, WithParked, WithGiven, WithCore, SetAccepts, SetReady, WorldType
  <2> QED BY <2>1, <2>2, <2>3 DEF x
<1> HIDE DEF n, q, g
<1>5. /\ s \in Seq(Op) /\ t \in Seq(Op) /\ Len(t) = Len(q) - n
      /\ (\A i, j \in 1..Len(s) : i < j => s[i] < s[j])
      /\ (\A i, j \in 1..Len(t) : i < j => t[i] < t[j])
      /\ (\A i \in 1..Len(s), j \in 1..Len(t) : s[i] < t[j])
      /\ (\A i \in 1..Len(s) : (\E j \in 1..Len(g) : s[i] = g[j]) \/ \E j \in 1..Len(q) : s[i] = q[j])
      /\ (\A i \in 1..Len(t) : \E j \in 1..Len(q) : t[i] = q[j])
  BY <1>1, <1>2, <1>3, SplitOrdered
<1>6. \A o \in Op : (\A i \in 1..Len(q) : o # q[i]) => o \notin ops
  BY <1>1, <1>2
<1> HIDE DEF m, s, t, ok, ops, u
<1>7. /\ Alike(v, u) /\ RecvSame(v, u) /\ SendSame(v, u)
      /\ u.core.ready = m /\ u.core.opened = v.core.opened /\ u.given = s /\ u.parked.accepts = t
      /\ \A o \in Op : o \notin ops => u.ans[o] = v.ans[o]
  <2>1. v \in WorldType /\ s \in Seq(Op) /\ m \in Nat /\ t \in Seq(Op) /\ ok \in Answer
    BY <1>1, <1>2, <1>5
  <2>2. AcceptedFrom(v, u, ops, m, s, t)
    BY ONLY <1>4, <2>1, AcceptedAfterReply
  <2> QED BY ONLY <2>2 DEF AcceptedFrom
<1>8. AcceptSide(u, ks)
  <2>1. m <= v.core.opened
    BY <1>1, <1>2, <1>3
  <2>2. \A i \in 1..Len(t) : t[i] \in 1..Len(ks) /\ ks[t[i]] = "accept"
    BY <1>3, <1>5
  <2> QED BY <1>5, <1>7, <2>1, <2>2 DEF AcceptSide
<1>9. AcceptQuiet(u)
  <2>1. t # <<>> => Len(t) # 0
    BY <1>5
  <2>2. t # <<>> => m = 0
    BY <1>1, <1>2, <1>5, <2>1
  <2> QED BY <1>7, <2>2 DEF AcceptQuiet
<1>10. \A o \in Nat : AcceptBefore(v, o) => AcceptBefore(u, o)
  BY <1>5, <1>7 DEF AcceptBefore, g, q
<1>11. AcceptStep(v, u, ks, NoOp)
  <2>1. \A o \in Op : o # NoOp /\ (\A i \in 1..Len(v.parked.accepts) : o # v.parked.accepts[i]) =>
          u.ans[o] = v.ans[o]
    BY <1>6, <1>7 DEF q
  <2> QED BY <1>7, <1>8, <1>9, <1>10, <2>1 DEF AcceptStep
<1>12. NoOp \in Nat
  BY DEF NoOp
<1> QED BY <1>9, <1>11, <1>12, AcceptStepIsStep DEF u

\* open_bi.
LEMMA OpenBiStep ==
  ASSUME NEW v \in WorldType, NEW ks \in KindSeq, Sides(v, ks), NEW op \in 1..Len(ks), ks[op] = "open"
  PROVE  Step(v, OpenBi(v, op), ks, op)
<1>1. /\ ks[op] \notin {"read", "end", "write", "wait"} /\ op \in Nat /\ NoOp \in Nat /\ NoOp <= op /\ op <= op
      /\ v.core.opens \in Nat
  BY WorldFields, CoreFields DEF KindSeq, NoOp
<1> DEFINE closed == "Closed"
           gone == "ClosedStream"
           ok == "Ok"
<1>2. closed \in Answer /\ gone \in Answer /\ ok \in Answer
  BY DEF Answer
<1>3. CASE v.core.phase # "open"
  <2>1. OpenBi(v, op) = Reply(v, {op}, closed)
    BY <1>3 DEF OpenBi
  <2> HIDE DEF closed
  <2> QED BY <1>1, <1>2, <2>1, ReplyStep
<1>4. CASE v.core.phase = "open" /\ v.core.opens = 0
  <2>1. OpenBi(v, op) = Reply(v, {op}, gone)
    BY <1>4 DEF OpenBi
  <2> HIDE DEF gone
  <2> QED BY <1>1, <1>2, <2>1, ReplyStep
<1>5. CASE v.core.phase = "open" /\ v.core.opens > 0
  <2> DEFINE x == Reply(v, {op}, ok)
             n == v.core.opens - 1
             d == SetOpens(x.core, n)
             u == WithCore(x, d)
  <2>1. Step(v, x, ks, op)
    <3> HIDE DEF ok
    <3> QED BY <1>1, <1>2, ReplyStep
  <2>2. x \in WorldType /\ Sides(x, ks)
    BY <2>1 DEF Step, Alike
  <2>3. OpenBi(v, op) = u
    <3>1. OpenBi(v, op) = [x EXCEPT !.core.opens = @ - 1]
      BY <1>5 DEF OpenBi
    <3>2. x.core = v.core
      BY <1>2, ReplyIs
    <3> HIDE DEF x
    <3>3. [x EXCEPT !.core.opens = @ - 1] = WithCore(x, SetOpens(x.core, x.core.opens - 1))
      BY <2>2 DEF WithCore, SetOpens, WorldType
    <3> QED BY <3>1, <3>2, <3>3
  <2> HIDE DEF x
  <2>4. n \in Nat
    BY <1>1, <1>5
  <2> HIDE DEF n
  <2>5. /\ d \in CoreType /\ d.phase = x.core.phase /\ RecvCoreSame(x.core, d) /\ SendCoreSame(x.core, d)
        /\ AcceptCoreSame(x.core, d)
    BY <2>2, <2>4, SetReadyIs, WorldFields
  <2> HIDE DEF d
  <2>6. /\ u \in WorldType /\ u.core = d /\ u.parked = x.parked /\ u.ans = x.ans /\ u.given = x.given
        /\ u.closed = x.closed /\ u.delivered = x.delivered /\ u.wasted = x.wasted
    BY <2>2, <2>5, WithCoreIs
  <2> HIDE DEF u
  <2>7. Alike(x, u) /\ RecvSame(x, u) /\ SendSame(x, u) /\ AcceptSame(x, u)
    BY <2>5, <2>6 DEF Alike, RecvSame, SendSame, AcceptSame
  <2>8. AcceptSide(x, ks)
    BY <2>2 DEF Sides
  <2>9. AcceptSide(u, ks) /\ (AcceptQuiet(x) => AcceptQuiet(u)) /\ \A o : AcceptBefore(x, o) => AcceptBefore(u, o)
    BY <2>2, <2>6, <2>7, <2>8, AcceptKept
  <2>10. AcceptStep(x, u, ks, NoOp)
    BY <2>6, <2>7, <2>9 DEF AcceptStep
  <2>11. Step(x, u, ks, NoOp)
    BY <1>1, <2>2, <2>10, AcceptStepIsStep
  <2>12. Step(v, u, ks, op)
    BY <1>1, <2>1, <2>11, StepTwice
  <2> QED BY <2>3, <2>12
<1> QED BY <1>1, <1>3, <1>4, <1>5

-----------------------------------------------------------------------------
(* The send half                                                           *)

Wrote(wire, n, op) == wire \o [i \in 1..n |-> op]

\* s is the wire with n more bytes of op.
WroteMore(wire, n, op, s) ==
  /\ s \in Seq(Op) /\ Len(s) = Len(wire) + n
  /\ \A i \in 1..Len(wire) : s[i] = wire[i]
  /\ \A i \in 1..(Len(wire) + n) : ~(i <= Len(wire)) => s[i] = op
  /\ \A o \in Op : Count(wire, o) \in Nat
  /\ \A o \in Op : Count(s, o) = Count(wire, o) + IF o = op THEN n ELSE 0

\* The wire after n more bytes of an operation: they are all there, nothing else changes,
\* and it stays in order when the operation is not earlier than any on it.
LEMMA WroteIs ==
  ASSUME NEW wire \in Seq(Op), NEW n \in Nat, NEW op \in Op
  PROVE  WroteMore(wire, n, op, Wrote(wire, n, op))
<1> DEFINE t == [i \in 1..n |-> op]
           s == Wrote(wire, n, op)
           l == Len(wire)
<1>1. l \in Nat /\ t \in Seq(Op) /\ Len(t) = n /\ \A i \in 1..n : t[i] = op
  OBVIOUS
<1> HIDE DEF t
<1>2. /\ s \in Seq(Op) /\ Len(s) = l + n
      /\ \A i \in 1..(l + n) : s[i] = IF i <= l THEN wire[i] ELSE t[i - l]
  BY <1>1 DEF Wrote, t
<1>3. /\ \A i \in 1..l : s[i] = wire[i]
      /\ \A i \in 1..(l + n) : ~(i <= l) => s[i] = op
  <2>1. ASSUME NEW i \in 1..l PROVE s[i] = wire[i]
    <3>1. i \in 1..(l + n) /\ i <= l
      BY <1>1
    <3> QED BY <1>2, <3>1
  <2>2. ASSUME NEW i \in 1..(l + n), ~(i <= l) PROVE s[i] = op
    <3>1. i - l \in 1..n
      BY <1>1, <2>2
    <3> QED BY <1>1, <1>2, <2>2, <3>1
  <2> QED BY <2>1, <2>2
<1>4. DOMAIN s = 1..(l + n) /\ DOMAIN wire = 1..l
  BY <1>2
<1> HIDE DEF s
<1>5. ASSUME NEW o \in Op
      PROVE  Count(wire, o) \in Nat /\ Count(s, o) = Count(wire, o) + IF o = op THEN n ELSE 0
  <2> DEFINE A == {i \in 1..l : wire[i] = o}
             B == {i \in 1..(l + n) : s[i] = o}
             C == (l + 1)..(l + n)
  <2>1. Count(wire, o) = Cardinality(A) /\ Count(s, o) = Cardinality(B)
    BY <1>4 DEF Count
  <2>2. IsFiniteSet(1..l) /\ IsFiniteSet(C) /\ Cardinality(C) = n
    <3>1. l + 1 \in Int /\ l + n \in Int /\ 1 \in Int /\ l \in Int
      BY <1>1
    <3>2. IsFiniteSet(1..l)
      BY <3>1, FS_Interval
    <3>3. IsFiniteSet(C) /\ Cardinality(C) = IF l + 1 > l + n THEN 0 ELSE (l + n) - (l + 1) + 1
      BY <3>1, FS_Interval
    <3> HIDE DEF C
    <3>4. (IF l + 1 > l + n THEN 0 ELSE (l + n) - (l + 1) + 1) = n
      BY <1>1
    <3> QED BY <3>2, <3>3, <3>4
  <2>3. IsFiniteSet(A) /\ Cardinality(A) \in Nat
    <3>1. A \subseteq 1..l
      OBVIOUS
    <3> QED BY <3>1, <2>2, FS_Subset, FS_CardinalityType
  <2>4. CASE o # op
    <3>1. A = B
      <4>1. ASSUME NEW i \in A PROVE i \in B
        BY <1>1, <1>3
      <4>2. ASSUME NEW i \in B PROVE i \in A
        BY <1>1, <1>3, <2>4
      <4> QED BY <4>1, <4>2
    <3>2. Cardinality(A) + 0 = Cardinality(A)
      BY <2>3
    <3>3. Cardinality(B) = Cardinality(A)
      BY <3>1
    <3> HIDE DEF A, B
    <3> QED BY <2>1, <2>3, <2>4, <3>2, <3>3
  <2>5. CASE o = op
    <3>1. B = A \cup C
      <4>1. ASSUME NEW i \in A \cup C PROVE i \in B
        <5>1. CASE i \in A
          BY <5>1, <1>1, <1>3
        <5>2. CASE i \in C
          BY <5>2, <1>1, <1>3, <2>5
        <5> QED BY <5>1, <5>2, <4>1
      <4>2. ASSUME NEW i \in B PROVE i \in A \cup C
        BY <1>1, <1>3
      <4> QED BY <4>1, <4>2
    <3>2. A \cap C = {}
      BY <1>1
    <3>3. Cardinality(A \cap C) = 0
      BY <3>2, FS_EmptySet
    <3>4. Cardinality(B) = Cardinality(A) + Cardinality(C) - Cardinality(A \cap C)
      <4>1. IsFiniteSet(C)
        BY <2>2
      <4> HIDE DEF A, B, C
      <4> QED BY <3>1, <4>1, <2>3, FS_Union
    <3> HIDE DEF A, B, C
    <3> QED BY <2>1, <2>2, <2>3, <2>5, <3>3, <3>4
  <2> QED BY <2>4, <2>5, <2>1, <2>3
<1>6. WroteMore(wire, n, op, s)
  BY <1>2, <1>3, <1>5 DEF WroteMore
<1> QED BY <1>6 DEF s

SetWrite(p, x) == [p EXCEPT !.write = x]
SetFins(p, s) == [p EXCEPT !.fins = s]
SetSend(c, send, fact) == [c EXCEPT !.send = send, !.fact = fact]
SetWire(c, n, wire) == [c EXCEPT !.credit = n, !.wire = wire]

\* Another write parked, or other waiters for the FIN.
LEMMA SetWriteIs ==
  ASSUME NEW p \in ParkedType, NEW x \in WriteType, NEW s \in SUBSET Op
  PROVE  /\ SetWrite(p, x) \in ParkedType /\ SetWrite(p, x).write = x /\ SetWrite(p, x).read = p.read
         /\ SetWrite(p, x).accepts = p.accepts /\ SetWrite(p, x).fins = p.fins
         /\ SetFins(p, s) \in ParkedType /\ SetFins(p, s).write = p.write /\ SetFins(p, s).read = p.read
         /\ SetFins(p, s).accepts = p.accepts /\ SetFins(p, s).fins = s
BY DEF ParkedType, SetWrite, SetFins

\* A core with another state of the send half.
LEMMA SetSendIs ==
  ASSUME NEW c \in CoreType, NEW send \in SendState, NEW fact \in Fact
  PROVE  /\ SetSend(c, send, fact) \in CoreType /\ SetSend(c, send, fact).phase = c.phase
         /\ RecvCoreSame(c, SetSend(c, send, fact)) /\ AcceptCoreSame(c, SetSend(c, send, fact))
         /\ SetSend(c, send, fact).send = send /\ SetSend(c, send, fact).fact = fact
         /\ SetSend(c, send, fact).credit = c.credit /\ SetSend(c, send, fact).granted = c.granted
         /\ SetSend(c, send, fact).stopped = c.stopped /\ SetSend(c, send, fact).acked = c.acked
         /\ SetSend(c, send, fact).wire = c.wire
BY DEF SetSend, CoreType, RecvCoreSame, AcceptCoreSame

\* A core with another wire.
LEMMA SetWireIs ==
  ASSUME NEW c \in CoreType, NEW n \in Nat, NEW wire \in Seq(Op)
  PROVE  /\ SetWire(c, n, wire) \in CoreType /\ SetWire(c, n, wire).phase = c.phase
         /\ RecvCoreSame(c, SetWire(c, n, wire)) /\ AcceptCoreSame(c, SetWire(c, n, wire))
         /\ SetWire(c, n, wire).send = c.send /\ SetWire(c, n, wire).fact = c.fact
         /\ SetWire(c, n, wire).credit = n /\ SetWire(c, n, wire).granted = c.granted
         /\ SetWire(c, n, wire).stopped = c.stopped /\ SetWire(c, n, wire).acked = c.acked
         /\ SetWire(c, n, wire).wire = wire
BY DEF SetWire, CoreType, RecvCoreSame, AcceptCoreSame

\* The send half's core becomes d, some are answered, and what p says is parked.
Sent(v, d, ops, answer, p) == WithParked(Reply(WithCore(v, d), ops, answer), p)

\* A core and parked operations that differ from those of v in the send half only.
SendOnly(v, d, p) ==
  /\ d \in CoreType /\ d.phase = v.core.phase /\ RecvCoreSame(v.core, d) /\ AcceptCoreSame(v.core, d)
  /\ d.acked = v.core.acked
  /\ p \in ParkedType /\ p.read = v.parked.read /\ p.accepts = v.parked.accepts

\* The write parked in p is owed its answer, and lacks what is not on the wire of d.
StillParked(v, d, p, ks) ==
  p.write.op # NoOp =>
    /\ p.write.op \in 1..Len(ks) /\ ks[p.write.op] = "write" /\ Owed(v, p.write.op)
    /\ \A i \in 1..Len(d.wire) : d.wire[i] <= p.write.op
    /\ Count(d.wire, p.write.op) + p.write.left = WriteSize

\* The parts of such a world.
LEMMA SentIs ==
  ASSUME NEW v \in WorldType, NEW d, NEW ops, NEW answer \in Answer, NEW p, SendOnly(v, d, p)
  PROVE  /\ Alike(v, Sent(v, d, ops, answer, p)) /\ RecvSame(v, Sent(v, d, ops, answer, p))
         /\ AcceptSame(v, Sent(v, d, ops, answer, p))
         /\ Sent(v, d, ops, answer, p).core = d /\ Sent(v, d, ops, answer, p).parked = p
         /\ \A o \in Op : Sent(v, d, ops, answer, p).ans[o] =
                            IF o \in ops /\ v.ans[o] = "waiting" THEN answer ELSE v.ans[o]
<1> DEFINE x == WithCore(v, d)
           y == Reply(x, ops, answer)
           u == WithParked(y, p)
<1>1. d \in CoreType /\ p \in ParkedType
  BY DEF SendOnly
<1>2. /\ x \in WorldType /\ x.core = d /\ x.ans = v.ans /\ x.delivered = v.delivered
      /\ x.wasted = v.wasted /\ x.given = v.given /\ x.closed = v.closed
  BY <1>1, WithCoreIs
<1> HIDE DEF x
<1>3. /\ y \in WorldType /\ y.core = d /\ y.delivered = v.delivered
      /\ y.wasted = v.wasted /\ y.given = v.given /\ y.closed = v.closed
      /\ \A o \in Op : y.ans[o] = IF o \in ops /\ v.ans[o] = "waiting" THEN answer ELSE v.ans[o]
  BY <1>2, ReplyIs
<1>4. y \in WorldType
  BY <1>3
<1> HIDE DEF y
<1>5. /\ u \in WorldType /\ u.core = d /\ u.parked = p /\ u.delivered = v.delivered
      /\ u.wasted = v.wasted /\ u.given = v.given /\ u.closed = v.closed /\ u.ans = y.ans
  BY <1>1, <1>3, <1>4, WithParkedIs
<1> HIDE DEF u
<1>6. Alike(v, u) /\ RecvSame(v, u) /\ AcceptSame(v, u)
  BY <1>5 DEF Alike, RecvSame, AcceptSame, SendOnly
<1> QED BY <1>3, <1>5, <1>6 DEF u, y, x, Sent

\* When it is a step of the send half.
LEMMA SentStep ==
  ASSUME NEW v \in WorldType, NEW ks \in KindSeq, SendSide(v, ks), NEW op \in Nat,
         NEW d, NEW ops, NEW answer \in Answer, answer # "waiting", NEW p, SendOnly(v, d, p),
         SendCore(d), StillParked(v, d, p, ks), p.write.op \notin ops,
         \A o \in Op : o \in ops => o \in {v.parked.write.op, op} \cup v.parked.fins,
         \A o \in 1..Len(ks) : ks[o] = "write" /\ v.ans[o] = "Ok" => Count(d.wire, o) = Count(v.core.wire, o),
         answer = "Ok" => \A o \in 1..Len(ks) : o \in ops /\ v.ans[o] = "waiting" =>
           (ks[o] = "write" => Count(d.wire, o) = WriteSize) /\ (ks[o] = "wait" => d.acked),
         \A f \in p.fins : f \in v.parked.fins \/ (f = op /\ op \in 1..Len(ks) /\ ks[op] = "wait"),
         p.write.op \in {NoOp, v.parked.write.op, op},
         \A i \in 1..Len(d.wire) : d.wire[i] \in {v.parked.write.op, op} \/ \E j \in 1..Len(v.core.wire) : d.wire[i] = v.core.wire[j],
         WriteQuiet(v) => (d.phase = "open" /\ p.write.op # NoOp =>
           (d.send = "ready" /\ d.credit = 0 /\ ~d.stopped) \/ d.send \in {"finished", "gone"}),
         FinQuiet(v) => (p.fins # {} => d.send = "finished" /\ ~d.stopped)
  PROVE  SendStep(v, Sent(v, d, ops, answer, p), ks, op)
<1> DEFINE u == Sent(v, d, ops, answer, p)
<1>1. /\ Alike(v, u) /\ RecvSame(v, u) /\ AcceptSame(v, u) /\ u.core = d /\ u.parked = p
      /\ \A o \in Op : u.ans[o] = IF o \in ops /\ v.ans[o] = "waiting" THEN answer ELSE v.ans[o]
  BY SentIs
<1> HIDE DEF u
<1>2. \A o \in 1..Len(ks) : o \in Op
  BY OpsAssumption DEF KindSeq, Op
<1>3. WriteParked(u, ks)
  BY <1>1, <1>2 DEF WriteParked, StillParked, Owed
<1>4. SentIsSent(u, ks)
  <2>1. SUFFICES ASSUME NEW o \in 1..Len(ks), u.ans[o] = "Ok"
                 PROVE  (ks[o] = "write" => Count(d.wire, o) = WriteSize) /\ (ks[o] = "wait" => d.acked)
    BY <1>1 DEF SentIsSent
  <2>2. CASE o \in ops /\ v.ans[o] = "waiting"
    BY <1>1, <1>2, <2>1, <2>2
  <2>3. CASE ~(o \in ops /\ v.ans[o] = "waiting")
    <3>1. v.ans[o] = "Ok"
      BY <1>1, <1>2, <2>1, <2>3
    <3>2. (ks[o] = "write" => Count(v.core.wire, o) = WriteSize) /\ (ks[o] = "wait" => v.core.acked)
      BY <3>1 DEF SendSide, SentIsSent
    <3> QED BY <3>1, <3>2 DEF SendOnly
  <2> QED BY <2>2, <2>3
<1>5. \A o \in u.parked.fins : o \in 1..Len(ks) /\ ks[o] = "wait"
  BY <1>1 DEF SendSide
<1>6. SendSide(u, ks)
  BY <1>1, <1>3, <1>4, <1>5 DEF SendSide
<1>7. (WriteQuiet(v) => WriteQuiet(u)) /\ (FinQuiet(v) => FinQuiet(u))
  BY <1>1 DEF WriteQuiet, FinQuiet
<1>8. ASSUME NEW o \in Nat, o > op, SendBefore(v, o) PROVE SendBefore(u, o)
  <2>1. v.parked.write.op < o /\ op < o /\ NoOp < o
    BY <1>8 DEF SendBefore, NoOp
  <2>2. \A i \in 1..Len(d.wire) : d.wire[i] < o
    BY <1>8, <2>1 DEF SendBefore
  <2>3. p.write.op < o /\ \A f \in p.fins : f < o
    BY <1>8, <2>1 DEF SendBefore
  <2> QED BY <1>1, <2>2, <2>3 DEF SendBefore
<1>9. \A o \in Op : o \notin {v.parked.write.op, op} \cup v.parked.fins => u.ans[o] = v.ans[o]
  BY <1>1
<1>10. u.core.acked = v.core.acked
  BY <1>1 DEF SendOnly
<1> QED BY <1>1, <1>6, <1>7, <1>8, <1>9, <1>10 DEF SendStep, u

\* A core compared with itself.
LEMMA SameCore ==
  ASSUME NEW v \in WorldType
  PROVE  /\ WithCore(v, v.core) = v /\ v.core \in CoreType
         /\ RecvCoreSame(v.core, v.core) /\ AcceptCoreSame(v.core, v.core)
<1>1. WithCore(v, v.core) = v
  BY DEF WithCore, WorldType
<1> QED BY <1>1, WorldFields DEF RecvCoreSame, AcceptCoreSame

\* fail_fin_waiters, and on_fin_acked when the FIN has been acknowledged.
LEMMA FailFinWaitersStep ==
  ASSUME NEW v \in WorldType, NEW ks \in KindSeq, Sides(v, ks), NEW answer \in Answer, answer # "waiting",
         answer = "Ok" => v.core.acked
  PROVE  /\ Step(v, FailFinWaiters(v, answer), ks, NoOp)
         /\ FailFinWaiters(v, answer).core = v.core
         /\ FailFinWaiters(v, answer).parked.fins = {}
         /\ FailFinWaiters(v, answer).parked.write = v.parked.write
<1> DEFINE d == v.core
           none == {}
           ops == v.parked.fins
           p == SetFins(v.parked, none)
           u == FailFinWaiters(v, answer)
<1>1. u = Sent(v, d, ops, answer, p)
  <2> DEFINE x == Reply(v, ops, answer)
  <2>1. x \in WorldType /\ x.parked = v.parked
    BY ReplyIs
  <2>2. u = [x EXCEPT !.parked.fins = {}]
    BY DEF FailFinWaiters
  <2> HIDE DEF x, u
  <2>3. [x EXCEPT !.parked.fins = {}] = WithParked(x, SetFins(x.parked, none))
    BY <2>1 DEF WithParked, SetFins, WorldType
  <2> QED BY <2>1, <2>2, <2>3, SameCore DEF Sent, x
<1>2. p \in ParkedType /\ p.write = v.parked.write /\ p.read = v.parked.read
      /\ p.accepts = v.parked.accepts /\ p.fins = none
  <2>1. v.parked \in ParkedType /\ v.parked.write \in WriteType /\ none \in SUBSET Op
    BY WorldFields, ParkedFields
  <2> HIDE DEF none
  <2> QED BY <2>1, SetWriteIs
<1>3. SendSide(v, ks) /\ NoOp \in Nat
  BY DEF Sides, NoOp
<1> HIDE DEF p, u
<1>4. SendOnly(v, d, p)
  BY <1>2, SameCore DEF SendOnly
<1>5. SendCore(d) /\ StillParked(v, d, p, ks)
  BY <1>2, <1>3 DEF SendSide, WriteParked, StillParked
<1>6. \A o \in ops : o \in 1..Len(ks) /\ ks[o] = "wait" /\ o \in Op /\ o # NoOp
  BY <1>3, OpsAssumption DEF SendSide, KindSeq, Op, NoOp
<1>7. p.write.op \notin ops
  <2>1. p.write.op # NoOp => ks[p.write.op] = "write"
    BY <1>5 DEF StillParked
  <2> QED BY <1>6, <2>1
<1>8. answer = "Ok" => \A o \in 1..Len(ks) : o \in ops /\ v.ans[o] = "waiting" =>
        (ks[o] = "write" => Count(d.wire, o) = WriteSize) /\ (ks[o] = "wait" => d.acked)
  BY <1>6
<1>9. \A o \in Op : o \in ops => o \in {v.parked.write.op, NoOp} \cup v.parked.fins
  OBVIOUS
<1>10. /\ \A f \in p.fins : f \in v.parked.fins \/ (f = NoOp /\ NoOp \in 1..Len(ks) /\ ks[NoOp] = "wait")
       /\ p.write.op \in {NoOp, v.parked.write.op, NoOp} /\ p.fins = {}
  BY <1>2
<1>11. \A i \in 1..Len(d.wire) : d.wire[i] \in {v.parked.write.op, NoOp} \/ \E j \in 1..Len(v.core.wire) : d.wire[i] = v.core.wire[j]
  OBVIOUS
<1>12. WriteQuiet(v) => (d.phase = "open" /\ p.write.op # NoOp =>
         (d.send = "ready" /\ d.credit = 0 /\ ~d.stopped) \/ d.send \in {"finished", "gone"})
  BY <1>2 DEF WriteQuiet
<1>13. SendStep(v, Sent(v, d, ops, answer, p), ks, NoOp)
  BY <1>3, <1>4, <1>5, <1>7, <1>8, <1>9, <1>10, <1>11, <1>12, SentStep
<1>14. Step(v, u, ks, NoOp)
  BY <1>1, <1>3, <1>13, SendStepIsStep
<1>15. u.core = d /\ u.parked = p
  <2> HIDE DEF d, ops
  <2> QED BY <1>1, <1>4, SentIs
<1> QED BY <1>2, <1>14, <1>15 DEF u

\* fail_blocked_write.
LEMMA FailBlockedWriteStep ==
  ASSUME NEW v \in WorldType, NEW ks \in KindSeq, Sides(v, ks), NEW answer \in Answer \ {"Ok", "waiting"}
  PROVE  /\ Step(v, FailBlockedWrite(v, answer), ks, NoOp)
         /\ FailBlockedWrite(v, answer).core = v.core
         /\ FailBlockedWrite(v, answer).parked.write.op = NoOp
         /\ FailBlockedWrite(v, answer).parked.fins = v.parked.fins
<1> DEFINE d == v.core
           none == NoWrite
           ops == {v.parked.write.op} \ {NoOp}
           p == SetWrite(v.parked, none)
           u == FailBlockedWrite(v, answer)
<1>1. u = Sent(v, d, ops, answer, p)
  <2> DEFINE x == Reply(v, ops, answer)
  <2>1. x \in WorldType /\ x.parked = v.parked
    BY ReplyIs
  <2>2. u = [x EXCEPT !.parked.write = NoWrite]
    BY DEF FailBlockedWrite
  <2> HIDE DEF x, u
  <2>3. [x EXCEPT !.parked.write = NoWrite] = WithParked(x, SetWrite(x.parked, none))
    BY <2>1 DEF WithParked, SetWrite, WorldType
  <2> QED BY <2>1, <2>2, <2>3, SameCore DEF Sent, x
<1>2. p \in ParkedType /\ p.write = none /\ p.read = v.parked.read
      /\ p.accepts = v.parked.accepts /\ p.fins = v.parked.fins /\ none.op = NoOp
  <2>1. v.parked \in ParkedType /\ v.parked.fins \in SUBSET Op /\ none \in WriteType /\ none.op = NoOp
    BY WorldFields, ParkedFields, SizeAssumption DEF NoWrite, WriteType
  <2> HIDE DEF none
  <2> QED BY <2>1, SetWriteIs
<1>3. SendSide(v, ks) /\ NoOp \in Nat
  BY DEF Sides, NoOp
<1> HIDE DEF p, u, none
<1>4. SendOnly(v, d, p)
  BY <1>2, SameCore DEF SendOnly
<1>5. SendCore(d) /\ StillParked(v, d, p, ks)
  BY <1>2, <1>3 DEF SendSide, StillParked
<1>6. p.write.op \notin ops
  BY <1>2
<1>8. answer # "Ok" /\ answer # "waiting"
  OBVIOUS
<1>9. \A o \in Op : o \in ops => o \in {v.parked.write.op, NoOp} \cup v.parked.fins
  OBVIOUS
<1>10. /\ \A f \in p.fins : f \in v.parked.fins \/ (f = NoOp /\ NoOp \in 1..Len(ks) /\ ks[NoOp] = "wait")
       /\ p.write.op \in {NoOp, v.parked.write.op, NoOp} /\ p.write.op = NoOp
  BY <1>2
<1>11. \A i \in 1..Len(d.wire) : d.wire[i] \in {v.parked.write.op, NoOp} \/ \E j \in 1..Len(v.core.wire) : d.wire[i] = v.core.wire[j]
  OBVIOUS
<1>12. FinQuiet(v) => (p.fins # {} => d.send = "finished" /\ ~d.stopped)
  BY <1>2 DEF FinQuiet
<1>13. SendStep(v, Sent(v, d, ops, answer, p), ks, NoOp)
  BY <1>3, <1>4, <1>5, <1>6, <1>8, <1>9, <1>10, <1>11, <1>12, SentStep
<1>14. Step(v, u, ks, NoOp)
  BY <1>1, <1>3, <1>13, SendStepIsStep
<1>15. u.core = d /\ u.parked = p
  BY <1>1, <1>4, SentIs
<1> QED BY <1>2, <1>14, <1>15 DEF u

\* A change of the send half's core under which nobody is answered and nothing is written.
LEMMA SendCoreMoves ==
  ASSUME NEW v \in WorldType, NEW ks \in KindSeq, Sides(v, ks), NEW d \in CoreType, d.phase = v.core.phase,
         RecvCoreSame(v.core, d), AcceptCoreSame(v.core, d), d.acked = v.core.acked, SendCore(d),
         d.wire = v.core.wire, d.credit = v.core.credit, d.stopped = v.core.stopped,
         \/ d.send = v.core.send
         \/ v.parked.write.op = NoOp /\ v.parked.fins = {}
         \/ v.core.send = "ready" /\ d.send = "finished"
  PROVE  Step(v, WithCore(v, d), ks, NoOp)
<1> DEFINE u == WithCore(v, d)
<1>1. /\ u \in WorldType /\ u.core = d /\ u.parked = v.parked /\ u.ans = v.ans /\ u.given = v.given
      /\ u.closed = v.closed /\ u.delivered = v.delivered /\ u.wasted = v.wasted
  BY WithCoreIs
<1> HIDE DEF u
<1>2. Alike(v, u) /\ RecvSame(v, u) /\ AcceptSame(v, u)
  BY <1>1 DEF Alike, RecvSame, AcceptSame
<1>3. SendSide(v, ks) /\ NoOp \in Nat
  BY DEF Sides, NoOp
<1>4. WriteParked(u, ks)
  BY <1>1, <1>3 DEF SendSide, WriteParked, Owed
<1>5. SentIsSent(u, ks)
  BY <1>1, <1>3 DEF SendSide, SentIsSent
<1>6. SendSide(u, ks)
  BY <1>1, <1>3, <1>4, <1>5 DEF SendSide
<1>7. WriteQuiet(v) => WriteQuiet(u)
  BY <1>1 DEF WriteQuiet
<1>8. FinQuiet(v) => FinQuiet(u)
  BY <1>1 DEF FinQuiet
<1>9. \A o \in Nat : SendBefore(v, o) => SendBefore(u, o)
  BY <1>1 DEF SendBefore
<1>10. SendStep(v, u, ks, NoOp)
  BY <1>1, <1>2, <1>6, <1>7, <1>8, <1>9 DEF SendStep
<1> QED BY <1>3, <1>10, SendStepIsStep DEF u

\* The same operations parked.
LEMMA SameParked ==
  ASSUME NEW v \in WorldType
  PROVE  WithParked(v, v.parked) = v /\ v.parked \in ParkedType
BY DEF WithParked, WorldType

\* A write that the core refuses: it is answered, and what is parked stays.
LEMMA WriteRefused ==
  ASSUME NEW v \in WorldType, NEW ks \in KindSeq, SendSide(v, ks), NEW op \in 1..Len(ks), op \in Op,
         NEW answer \in Answer \ {"waiting"}, v.parked.write.op # op,
         answer = "Ok" => ks[op] = "wait" /\ v.core.acked
  PROVE  SendStep(v, Reply(v, {op}, answer), ks, op)
<1> DEFINE d == v.core
           ops == {op}
           p == v.parked
           u == Reply(v, ops, answer)
<1>1. u = Sent(v, d, ops, answer, p)
  <2>1. u \in WorldType /\ u.parked = v.parked
    BY ReplyIs
  <2>2. WithParked(u, u.parked) = u
    <3> HIDE DEF u
    <3> QED BY <2>1, SameParked
  <2> QED BY <2>1, <2>2, SameCore DEF Sent
<1>2. SendOnly(v, d, p) /\ op \in Nat
  BY SameCore, SameParked DEF SendOnly, KindSeq
<1>3. SendCore(d) /\ StillParked(v, d, p, ks)
  BY DEF SendSide, WriteParked, StillParked
<1>4. /\ p.write.op \notin ops /\ (\A o \in Op : o \in ops => o \in {v.parked.write.op, op} \cup v.parked.fins)
      /\ answer # "waiting" /\ p.write.op \in {NoOp, v.parked.write.op, op}
  OBVIOUS
<1>5. answer = "Ok" => \A o \in 1..Len(ks) : o \in ops /\ v.ans[o] = "waiting" =>
        (ks[o] = "write" => Count(d.wire, o) = WriteSize) /\ (ks[o] = "wait" => d.acked)
  OBVIOUS
<1>6. WriteQuiet(v) => (d.phase = "open" /\ p.write.op # NoOp =>
         (d.send = "ready" /\ d.credit = 0 /\ ~d.stopped) \/ d.send \in {"finished", "gone"})
  BY DEF WriteQuiet
<1>7. FinQuiet(v) => (p.fins # {} => d.send = "finished" /\ ~d.stopped)
  BY DEF FinQuiet
<1>8. SendStep(v, Sent(v, d, ops, answer, p), ks, op)
  BY <1>2, <1>3, <1>4, <1>5, <1>6, <1>7, SentStep
<1> QED BY <1>1, <1>8

\* The core after n bytes of a write.
WroteCore(c, n, op) == SetWire(c, c.credit - n, Wrote(c.wire, n, op))

\* What a write that is due does to the core.
LEMMA WroteCoreIs ==
  ASSUME NEW v \in WorldType, NEW ks \in KindSeq, SendSide(v, ks), NEW op \in 1..Len(ks), op \in Op,
         Owed(v, op), \A i \in 1..Len(v.core.wire) : v.core.wire[i] <= op,
         NEW n \in Nat, n <= v.core.credit, v.parked.write.op # NoOp => n = 0
  PROVE  LET d == WroteCore(v.core, n, op)
         IN  /\ SendOnly(v, d, v.parked) /\ SendCore(d) /\ StillParked(v, d, v.parked, ks)
             /\ d.send = v.core.send /\ d.stopped = v.core.stopped /\ d.credit = v.core.credit - n
             /\ Count(d.wire, op) = Count(v.core.wire, op) + n /\ Count(v.core.wire, op) \in Nat
             /\ \A i \in 1..Len(d.wire) : d.wire[i] <= op
             /\ \A i \in 1..Len(d.wire) : d.wire[i] \in {v.parked.write.op, op}
                                            \/ \E j \in 1..Len(v.core.wire) : d.wire[i] = v.core.wire[j]
             /\ \A o \in 1..Len(ks) : v.ans[o] = "Ok" => Count(d.wire, o) = Count(v.core.wire, o)
<1> DEFINE c == v.core
           wire == c.wire
           s == Wrote(wire, n, op)
           m == c.credit - n
           d == SetWire(c, m, s)
           l == Len(wire)
<1>1. /\ c \in CoreType /\ v.parked \in ParkedType /\ wire \in Seq(Op) /\ c.credit \in Nat /\ c.granted \in Nat
      /\ m \in Nat /\ l \in Nat /\ l + c.credit <= c.granted /\ op \in Nat
  BY WorldFields, CoreFields, DriverAssumption DEF SendSide, SendCore, KindSeq
<1>2. /\ s \in Seq(Op) /\ Len(s) = l + n /\ (\A i \in 1..l : s[i] = wire[i])
      /\ (\A i \in 1..(l + n) : ~(i <= l) => s[i] = op)
      /\ (\A o \in Op : Count(wire, o) \in Nat)
      /\ (\A o \in Op : Count(s, o) = Count(wire, o) + IF o = op THEN n ELSE 0)
  <2>1. wire \in Seq(Op) /\ n \in Nat /\ op \in Op
    BY <1>1
  <2> HIDE DEF wire
  <2>2. WroteMore(wire, n, op, Wrote(wire, n, op))
    BY ONLY <2>1, WroteIs
  <2> QED BY ONLY <2>2 DEF WroteMore
<1> HIDE DEF c
<1>3. /\ d \in CoreType /\ d.phase = c.phase /\ RecvCoreSame(c, d) /\ AcceptCoreSame(c, d)
      /\ d.send = c.send /\ d.fact = c.fact /\ d.credit = m /\ d.granted = c.granted
      /\ d.stopped = c.stopped /\ d.acked = c.acked /\ d.wire = s
  <2>1. s \in Seq(Op) /\ m \in Nat /\ c \in CoreType
    BY <1>1, <1>2
  <2> HIDE DEF s, m
  <2> QED BY <2>1, SetWireIs
<1>4. \A i \in 1..l : wire[i] <= op /\ wire[i] \in Nat
  <2>1. wire = v.core.wire /\ l = Len(v.core.wire)
    BY DEF c
  <2>2. \A i \in 1..l : wire[i] \in Op
    BY <1>1
  <2>3. \A o \in Op : o \in Nat
    BY OpsAssumption DEF Op
  <2> QED BY <2>1, <2>2, <2>3
<1> HIDE DEF s, m, d, l
<1>5. /\ \A i \in 1..(l + n) : (i <= l /\ i \in 1..l /\ s[i] = wire[i]) \/ (~(i <= l) /\ s[i] = op)
  BY <1>1, <1>2
<1>6. SendOnly(v, d, v.parked)
  BY <1>1, <1>3 DEF SendOnly, c
<1>7. SendCore(d)
  <2>1. SendCore(c)
    BY DEF SendSide, c
  <2>2. Len(d.wire) + d.credit <= d.granted
    BY <1>1, <1>2, <1>3, SMTT(30) DEF m
  <2>3. ASSUME NEW i \in 1..Len(s), NEW j \in 1..Len(s), i < j PROVE s[i] <= s[j]
    <3>1. i \in 1..(l + n) /\ j \in 1..(l + n)
      BY <1>2
    <3>2. CASE j <= l
      <4>1. i \in 1..l /\ j \in 1..l
        BY <3>1, <3>2, <2>3, <1>1
      <4>2. wire[i] <= wire[j]
        BY <4>1, <2>1, <2>3 DEF SendCore, l
      <4> QED BY <4>1, <4>2, <1>2
    <3>3. CASE ~(j <= l)
      <4>1. s[j] = op
        BY <1>5, <3>1, <3>3
      <4> QED BY <4>1, <1>1, <1>4, <1>5, <3>1
    <3> QED BY <3>2, <3>3
  <2> QED BY <2>1, <2>2, <2>3, <1>3 DEF SendCore
<1>8. \A i \in 1..Len(s) : s[i] <= op
  <2>1. op <= op
    BY <1>1
  <2> QED BY <1>2, <1>4, <1>5, <2>1
<1>9. \A i \in 1..Len(s) : s[i] = op \/ \E j \in 1..l : s[i] = wire[j]
  BY <1>2, <1>5
<1>10. \A o \in 1..Len(ks) : v.ans[o] = "Ok" => Count(s, o) = Count(wire, o)
  <2>1. SUFFICES ASSUME NEW o \in 1..Len(ks), v.ans[o] = "Ok" PROVE Count(s, o) = Count(wire, o)
    OBVIOUS
  <2>2. o \in Op
    BY OpsAssumption DEF KindSeq, Op
  <2>3. o # op
    BY <2>1 DEF Owed
  <2>4. Count(s, o) = Count(wire, o) + 0 /\ Count(wire, o) \in Nat
    BY <1>2, <2>2, <2>3
  <2> QED BY <2>4
<1>11. StillParked(v, d, v.parked, ks)
  <2>1. CASE v.parked.write.op = NoOp
    BY <2>1 DEF StillParked
  <2>2. CASE v.parked.write.op # NoOp
    <3> DEFINE q == v.parked.write.op
    <3>1. /\ q \in 1..Len(ks) /\ ks[q] = "write" /\ Owed(v, q)
          /\ (\A i \in 1..l : wire[i] <= q) /\ Count(wire, q) + v.parked.write.left = WriteSize
      BY <2>2 DEF SendSide, WriteParked, c, l
    <3>2. q \in Op /\ n = 0
      BY <2>2, <3>1, OpsAssumption DEF KindSeq, Op
    <3>3. Count(s, q) = Count(wire, q)
      <4>1. Count(s, q) = Count(wire, q) + 0 /\ Count(wire, q) \in Nat
        BY <1>2, <3>2
      <4> QED BY <4>1
    <3>4. \A i \in 1..Len(s) : s[i] <= q
      <4>1. Len(s) = l
        BY <1>1, <1>2, <3>2
      <4> QED BY <4>1, <1>2, <3>1
    <3> QED BY <3>1, <3>3, <3>4, <1>3 DEF StillParked
  <2> QED BY <2>1, <2>2
<1>12. Count(s, op) = Count(wire, op) + n /\ Count(wire, op) \in Nat
  BY <1>2
<1>13. WroteCore(v.core, n, op) = d
  BY DEF WroteCore, d, m, s, c
<1> HIDE DEF d
<1>14. /\ SendOnly(v, d, v.parked) /\ SendCore(d) /\ StillParked(v, d, v.parked, ks)
       /\ d.send = v.core.send /\ d.stopped = v.core.stopped /\ d.credit = v.core.credit - n
       /\ Count(d.wire, op) = Count(v.core.wire, op) + n /\ Count(v.core.wire, op) \in Nat
  BY <1>3, <1>6, <1>7, <1>11, <1>12 DEF c, m
<1>15. /\ \A i \in 1..Len(d.wire) : d.wire[i] <= op
       /\ \A i \in 1..Len(d.wire) : d.wire[i] \in {v.parked.write.op, op}
                                      \/ \E j \in 1..Len(v.core.wire) : d.wire[i] = v.core.wire[j]
       /\ \A o \in 1..Len(ks) : v.ans[o] = "Ok" => Count(d.wire, o) = Count(v.core.wire, o)
  BY <1>3, <1>8, <1>9, <1>10 DEF c, l
<1> QED BY <1>13, <1>14, <1>15

Taking(c, left) == IF Writable(c) THEN Least(c.credit, left) ELSE 0
Rest(r, n) == [r EXCEPT !.left = @ - n]

\* pump_write, in its cases.
LEMMA PumpWriteIs ==
  ASSUME NEW v \in WorldType, NEW r \in WriteType
  PROVE  LET n == Taking(v.core, r.left)
             d == WroteCore(v.core, n, r.op)
         IN  PumpWrite(v, r) =
               CASE n = r.left -> Sent(v, d, {r.op}, "Ok", v.parked)
                 [] n < r.left /\ v.core.phase = "open" /\ v.core.send # "ready" -> Reply(v, {r.op}, "ClosedStream")
                 [] n < r.left /\ v.core.phase = "open" /\ v.core.send = "ready" /\ v.core.stopped ->
                      Reply(v, {r.op}, "Stopped")
                 [] n < r.left /\ (Writable(v.core) \/ v.core.phase # "open") ->
                      Sent(v, d, {v.parked.write.op} \ {NoOp}, "Closed", SetWrite(v.parked, Rest(r, n)))
<1> DEFINE n == Taking(v.core, r.left)
           d == WroteCore(v.core, n, r.op)
           x == WithCore(v, d)
           ok == "Ok"
           closed == "Closed"
           ops == {v.parked.write.op} \ {NoOp}
<1>1. x = [v EXCEPT !.core.credit = @ - n, !.core.wire = @ \o [i \in 1..n |-> r.op]]
  <2> HIDE DEF n
  <2> QED BY DEF WithCore, WroteCore, SetWire, Wrote, WorldType, CoreType
<1>2. x.parked = v.parked
  <2> HIDE DEF d
  <2> QED BY DEF WithCore, WorldType
<1>3. Reply(x, {r.op}, ok) = Sent(v, d, {r.op}, ok, v.parked)
  <2> DEFINE y == Reply(x, {r.op}, ok)
  <2>1. y = WithParked(y, v.parked)
    <3>1. y = WithAns(x, Replied(x.ans, {r.op}, ok))
      BY DEF Reply, WithAns, Replied
    <3> HIDE DEF x
    <3>2. WithAns(x, Replied(x.ans, {r.op}, ok)) = WithParked(WithAns(x, Replied(x.ans, {r.op}, ok)), x.parked)
      BY DEF WithAns, WithParked
    <3> QED BY <1>2, <3>1, <3>2
  <2> QED BY <2>1 DEF Sent
<1>4. ParkWrite(x, Rest(r, n)) = Sent(v, d, ops, closed, SetWrite(v.parked, Rest(r, n)))
  <2> DEFINE y == Reply(x, ops, closed)
             q == Rest(r, n)
  <2>1. ParkWrite(x, q) = [y EXCEPT !.parked.write = q]
    BY <1>2 DEF ParkWrite
  <2>2. y.parked = x.parked
    BY DEF Reply
  <2> HIDE DEF x, q
  <2>3. [y EXCEPT !.parked.write = q] = WithParked(y, SetWrite(y.parked, q))
    BY DEF WithParked, SetWrite
  <2> QED BY <2>1, <2>2, <2>3, <1>2 DEF Sent, x, q
<1> HIDE DEF d
<1>5. PumpWrite(v, r) =
        CASE n = r.left -> Reply(x, {r.op}, ok)
          [] n < r.left /\ v.core.phase = "open" /\ v.core.send # "ready" -> Reply(v, {r.op}, "ClosedStream")
          [] n < r.left /\ v.core.phase = "open" /\ v.core.send = "ready" /\ v.core.stopped ->
               Reply(v, {r.op}, "Stopped")
          [] n < r.left /\ (Writable(v.core) \/ v.core.phase # "open") -> ParkWrite(x, Rest(r, n))
  BY <1>1 DEF PumpWrite, Taking, Rest
<1> QED BY <1>3, <1>4, <1>5 DEF d

\* pump_write of a write that is due: it is answered or parked, and a write that was parked
\* before is only dropped where the core takes nothing.
LEMMA PumpWriteStep ==
  ASSUME NEW v \in WorldType, NEW ks \in KindSeq, SendSide(v, ks), WriteQuiet(v),
         NEW r \in WriteType, r.op \in 1..Len(ks), ks[r.op] = "write", Owed(v, r.op),
         v.parked.write.op # r.op, \A i \in 1..Len(v.core.wire) : v.core.wire[i] <= r.op,
         Count(v.core.wire, r.op) + r.left = WriteSize
  PROVE  SendStep(v, PumpWrite(v, r), ks, r.op)
<1> DEFINE c == v.core
           op == r.op
           n == Taking(c, r.left)
           d == WroteCore(c, n, op)
           u == PumpWrite(v, r)
           ok == "Ok"
           closed == "Closed"
           gone == "ClosedStream"
           stopped == "Stopped"
           one == {op}
           old == {v.parked.write.op} \ {NoOp}
           q == Rest(r, n)
           p == SetWrite(v.parked, q)
<1>1. /\ c.credit \in Nat /\ r.left \in Nat /\ r.left <= WriteSize /\ WriteSize \in Nat /\ op \in Op /\ op \in Nat
      /\ op # NoOp
  BY WorldFields, CoreFields, SizeAssumption, OpsAssumption DEF WriteType, KindSeq, Op, NoOp
<1>2. /\ n \in Nat /\ n <= c.credit /\ n <= r.left /\ (v.parked.write.op # NoOp => n = 0)
      /\ (c.phase = "open" /\ Writable(c) /\ n < r.left => n = c.credit)
  BY <1>1 DEF Taking, Least, WriteQuiet, Writable
<1>3. u = CASE n = r.left -> Sent(v, d, one, ok, v.parked)
            [] n < r.left /\ c.phase = "open" /\ c.send # "ready" -> Reply(v, one, gone)
            [] n < r.left /\ c.phase = "open" /\ c.send = "ready" /\ c.stopped -> Reply(v, one, stopped)
            [] n < r.left /\ (Writable(c) \/ c.phase # "open") -> Sent(v, d, old, closed, p)
  BY PumpWriteIs
<1>4. /\ ok \in Answer /\ ok # "waiting" /\ closed \in Answer /\ closed # "waiting" /\ closed # "Ok"
      /\ gone \in Answer \ {"waiting"} /\ gone # "Ok" /\ stopped \in Answer \ {"waiting"} /\ stopped # "Ok"
  BY DEF Answer
<1>5. /\ SendOnly(v, d, v.parked) /\ SendCore(d) /\ StillParked(v, d, v.parked, ks)
      /\ d.send = v.core.send /\ d.stopped = v.core.stopped /\ d.credit = v.core.credit - n
      /\ Count(d.wire, op) = Count(v.core.wire, op) + n /\ Count(v.core.wire, op) \in Nat
      /\ (\A i \in 1..Len(d.wire) : d.wire[i] <= op)
      /\ (\A i \in 1..Len(d.wire) : d.wire[i] \in {v.parked.write.op, op}
                                     \/ \E j \in 1..Len(v.core.wire) : d.wire[i] = v.core.wire[j])
      /\ (\A o \in 1..Len(ks) : v.ans[o] = "Ok" => Count(d.wire, o) = Count(v.core.wire, o))
  <2>1. op \in 1..Len(ks) /\ op \in Op /\ Owed(v, op) /\ (\A i \in 1..Len(v.core.wire) : v.core.wire[i] <= op)
    BY <1>1
  <2>2. n \in Nat /\ n <= v.core.credit /\ (v.parked.write.op # NoOp => n = 0)
    BY <1>2
  <2> HIDE DEF op, n
  <2> QED BY <2>1, <2>2, WroteCoreIs
<1>6. Count(c.wire, op) + r.left = WriteSize
  OBVIOUS
<1> HIDE DEF n, d, u, q, p
<1>7. d.phase = c.phase
  BY <1>5 DEF SendOnly
<1>8. CASE n = r.left
  <2>1. u = Sent(v, d, one, ok, v.parked)
    <3> HIDE DEF c, op, one, ok, closed, gone, stopped, old
    <3> QED BY <1>1, <1>2, <1>3, <1>8
  <2>2. /\ v.parked.write.op \notin one
        /\ (\A o \in Op : o \in one => o \in {v.parked.write.op, op} \cup v.parked.fins)
        /\ v.parked.write.op \in {NoOp, v.parked.write.op, op}
    OBVIOUS
  <2>3. Count(d.wire, op) = WriteSize
    BY <1>5, <1>6, <1>8
  <2>4. \A o \in 1..Len(ks) : o \in one /\ v.ans[o] = "waiting" =>
          (ks[o] = "write" => Count(d.wire, o) = WriteSize) /\ (ks[o] = "wait" => d.acked)
    BY <2>3
  <2>5. d.phase = "open" /\ v.parked.write.op # NoOp =>
           (d.send = "ready" /\ d.credit = 0 /\ ~d.stopped) \/ d.send \in {"finished", "gone"}
    BY <1>1, <1>2, <1>5, <1>7 DEF WriteQuiet
  <2>6. FinQuiet(v) => (v.parked.fins # {} => d.send = "finished" /\ ~d.stopped)
    BY <1>5 DEF FinQuiet
  <2> HIDE DEF one, ok, op
  <2>7. SendStep(v, Sent(v, d, one, ok, v.parked), ks, op)
    BY <1>1, <1>4, <1>5, <2>2, <2>4, <2>5, <2>6, SentStep
  <2> QED BY <2>1, <2>7 DEF op, u
<1>9. CASE n < r.left /\ c.phase = "open" /\ c.send # "ready"
  <2>1. u = Reply(v, one, gone) /\ n # r.left
    <3> HIDE DEF c, op, one, ok, closed, gone, stopped, old
    <3> QED BY <1>1, <1>2, <1>3, <1>9 DEF Writable
  <2>2. op \in 1..Len(ks) /\ op \in Op /\ v.parked.write.op # op /\ one = {op}
    BY <1>1
  <2> HIDE DEF gone, op, one
  <2> QED BY <1>4, <2>1, <2>2, WriteRefused DEF op, u
<1>10. CASE n < r.left /\ c.phase = "open" /\ c.send = "ready" /\ c.stopped
  <2>1. u = Reply(v, one, stopped) /\ n # r.left
    <3> HIDE DEF c, op, one, ok, closed, gone, stopped, old
    <3> QED BY <1>1, <1>2, <1>3, <1>10 DEF Writable
  <2>2. op \in 1..Len(ks) /\ op \in Op /\ v.parked.write.op # op /\ one = {op}
    BY <1>1
  <2> HIDE DEF stopped, op, one
  <2> QED BY <1>4, <2>1, <2>2, WriteRefused DEF op, u
<1>11. CASE n < r.left /\ (Writable(c) \/ c.phase # "open")
  <2>1. u = Sent(v, d, old, closed, p)
    BY <1>1, <1>2, <1>3, <1>11 DEF Writable
  <2>2. q \in WriteType /\ q.op = op /\ q.left = r.left - n /\ r.left - n \in Nat
    BY <1>1, <1>2, <1>11 DEF q, Rest, WriteType
  <2>3. /\ p \in ParkedType /\ p.write = q /\ p.read = v.parked.read /\ p.accepts = v.parked.accepts
        /\ p.fins = v.parked.fins
    <3>1. v.parked \in ParkedType /\ v.parked.fins \in SUBSET Op
      BY WorldFields, ParkedFields
    <3> QED BY <2>2, <3>1, SetWriteIs DEF p
  <2>4. SendOnly(v, d, p)
    BY <2>3, <1>5 DEF SendOnly
  <2>5. StillParked(v, d, p, ks)
    <3>1. Count(d.wire, op) + (r.left - n) = WriteSize
      <4> DEFINE k == Count(v.core.wire, op)
      <4>1. k \in Nat /\ Count(d.wire, op) = k + n /\ k + r.left = WriteSize
        BY <1>5, <1>6
      <4> HIDE DEF k
      <4> QED BY <4>1, <1>1, <1>2
    <3> QED BY <3>1, <2>2, <2>3, <1>5 DEF StillParked
  <2>6. /\ p.write.op \notin old
        /\ (\A o \in Op : o \in old => o \in {v.parked.write.op, op} \cup v.parked.fins)
        /\ p.write.op \in {NoOp, v.parked.write.op, op}
    BY <2>2, <2>3
  <2>7. d.phase = "open" /\ p.write.op # NoOp =>
           (d.send = "ready" /\ d.credit = 0 /\ ~d.stopped) \/ d.send \in {"finished", "gone"}
    BY <1>1, <1>2, <1>5, <1>7, <1>11 DEF Writable
  <2>8. FinQuiet(v) => (p.fins # {} => d.send = "finished" /\ ~d.stopped)
    BY <1>5, <2>3 DEF FinQuiet
  <2>9. \A f \in p.fins : f \in v.parked.fins \/ (f = op /\ op \in 1..Len(ks) /\ ks[op] = "wait")
    BY <2>3
  <2> HIDE DEF old, closed, op
  <2>10. SendStep(v, Sent(v, d, old, closed, p), ks, op)
    BY <1>1, <1>4, <1>5, <2>4, <2>5, <2>6, <2>7, <2>8, <2>9, SentStep
  <2> QED BY <2>1, <2>10 DEF op, u
<1>12. n = r.left \/ n < r.left
  BY <1>1, <1>2
<1>13. v.core.stopped \in BOOLEAN
  BY WorldFields, CoreFields
<1> QED BY <1>8, <1>9, <1>10, <1>11, <1>12, <1>13 DEF Writable

\* The world without its parked write.
LEMMA UnparkWrite ==
  ASSUME NEW v \in WorldType, NEW ks \in KindSeq, SendSide(v, ks)
  PROVE  LET x == WithParked(v, SetWrite(v.parked, NoWrite))
         IN  /\ x \in WorldType /\ SendSide(x, ks) /\ WriteQuiet(x)
             /\ x.parked.write = NoWrite /\ x.parked.read = v.parked.read
             /\ x.parked.accepts = v.parked.accepts /\ x.parked.fins = v.parked.fins
             /\ x.core = v.core /\ x.ans = v.ans /\ x.given = v.given /\ x.closed = v.closed
             /\ x.delivered = v.delivered /\ x.wasted = v.wasted
<1> DEFINE none == NoWrite
           p == SetWrite(v.parked, none)
           x == WithParked(v, p)
<1>1. none \in WriteType /\ none.op = NoOp /\ v.parked \in ParkedType /\ v.parked.fins \in SUBSET Op
  BY WorldFields, ParkedFields, SizeAssumption DEF NoWrite, WriteType
<1> HIDE DEF none
<1>2. /\ p \in ParkedType /\ p.write = none /\ p.read = v.parked.read /\ p.accepts = v.parked.accepts
      /\ p.fins = v.parked.fins
  BY <1>1, SetWriteIs
<1> HIDE DEF p
<1>3. /\ x \in WorldType /\ x.core = v.core /\ x.parked = p /\ x.ans = v.ans /\ x.delivered = v.delivered
      /\ x.wasted = v.wasted /\ x.given = v.given /\ x.closed = v.closed
  BY <1>2, WithParkedIs
<1> HIDE DEF x
<1>4. WriteParked(x, ks) /\ WriteQuiet(x)
  BY <1>1, <1>2, <1>3 DEF WriteParked, WriteQuiet
<1>5. SentIsSent(x, ks)
  BY <1>3 DEF SendSide, SentIsSent
<1>6. SendSide(x, ks)
  BY <1>2, <1>3, <1>4, <1>5 DEF SendSide
<1> QED BY <1>2, <1>3, <1>4, <1>6 DEF x, p, none

\* on_writable.
LEMMA OnWritableStep ==
  ASSUME NEW v \in WorldType, NEW ks \in KindSeq, Sides(v, ks)
  PROVE  Step(v, OnWritable(v), ks, NoOp) /\ WriteQuiet(OnWritable(v))
<1>1. SendSide(v, ks) /\ NoOp \in Nat
  BY DEF Sides, NoOp
<1>2. CASE v.parked.write.op = NoOp
  BY <1>2, NoStep DEF OnWritable, WriteQuiet
<1>3. CASE v.parked.write.op # NoOp
  <2> DEFINE x == WithParked(v, SetWrite(v.parked, NoWrite))
             r == v.parked.write
             u == PumpWrite(x, r)
  <2>1. OnWritable(v) = u
    BY <1>3 DEF OnWritable, WithParked, SetWrite
  <2>2. /\ x \in WorldType /\ SendSide(x, ks) /\ WriteQuiet(x)
        /\ x.parked.write = NoWrite /\ x.parked.read = v.parked.read
        /\ x.parked.accepts = v.parked.accepts /\ x.parked.fins = v.parked.fins
        /\ x.core = v.core /\ x.ans = v.ans /\ x.given = v.given /\ x.closed = v.closed
        /\ x.delivered = v.delivered /\ x.wasted = v.wasted
    BY <1>1, UnparkWrite
  <2>3. /\ r \in WriteType /\ r.op \in 1..Len(ks) /\ ks[r.op] = "write" /\ Owed(v, r.op)
        /\ (\A i \in 1..Len(v.core.wire) : v.core.wire[i] <= r.op)
        /\ Count(v.core.wire, r.op) + r.left = WriteSize
    BY <1>1, <1>3, WorldFields, ParkedFields DEF SendSide, WriteParked
  <2>4. Owed(x, r.op) /\ x.parked.write.op # r.op /\ x.parked.write.op = NoOp
    BY <1>3, <2>2, <2>3 DEF Owed, NoWrite
  <2>5. /\ (\A i \in 1..Len(x.core.wire) : x.core.wire[i] <= r.op)
        /\ Count(x.core.wire, r.op) + r.left = WriteSize
    <3> HIDE DEF x
    <3> QED BY <2>2, <2>3
  <2> HIDE DEF x, r
  <2>6. SendStep(x, u, ks, r.op)
    BY <2>2, <2>3, <2>4, <2>5, PumpWriteStep
  <2> HIDE DEF u
  <2>7. WriteQuiet(u)
    BY <2>2, <2>6 DEF SendStep
  <2>8. SendStep(v, u, ks, NoOp)
    <3>1. Alike(v, u) /\ RecvSame(v, u) /\ AcceptSame(v, u) /\ u.core.acked = v.core.acked /\ SendSide(u, ks)
      BY <2>2, <2>6 DEF SendStep, Alike, RecvSame, AcceptSame
    <3>2. FinQuiet(v) => FinQuiet(u)
      <4>1. FinQuiet(v) => FinQuiet(x)
        BY <2>2 DEF FinQuiet
      <4> QED BY <4>1, <2>6 DEF SendStep
    <3>3. ASSUME NEW o \in Nat, SendBefore(v, o) PROVE SendBefore(u, o)
      <4>1. o > r.op /\ NoOp < o
        BY <3>3, <2>3 DEF SendBefore, r, NoOp, KindSeq
      <4>2. SendBefore(x, o)
        BY <3>3, <2>2, <2>4, <4>1 DEF SendBefore
      <4> QED BY <4>1, <4>2, <2>6 DEF SendStep
    <3>4. \A o \in Op : o \notin {v.parked.write.op, NoOp} \cup v.parked.fins => u.ans[o] = v.ans[o]
      BY <2>2, <2>4, <2>6 DEF SendStep, r
    <3> QED BY <2>7, <3>1, <3>2, <3>3, <3>4 DEF SendStep
  <2>9. Step(v, u, ks, NoOp)
    BY <1>1, <2>8, SendStepIsStep
  <2> QED BY <2>1, <2>7, <2>9
<1> QED BY <1>2, <1>3

\* on_stopped: the waiters hear of it, and then the parked write.
LEMMA OnStoppedStep ==
  ASSUME NEW v \in WorldType, NEW ks \in KindSeq, Sides(v, ks)
  PROVE  Step(v, OnStopped(v), ks, NoOp) /\ WriteQuiet(OnStopped(v)) /\ FinQuiet(OnStopped(v))
<1> DEFINE stopped == "Stopped"
           x == FailFinWaiters(v, stopped)
           u == OnWritable(x)
<1>1. OnStopped(v) = u /\ stopped \in Answer /\ stopped # "waiting" /\ stopped # "Ok" /\ NoOp \in Nat /\ NoOp <= NoOp
  BY DEF OnStopped, Answer, NoOp
<1> HIDE DEF stopped
<1>2. Step(v, x, ks, NoOp) /\ x.parked.fins = {}
  BY <1>1, FailFinWaitersStep
<1> HIDE DEF x
<1>3. x \in WorldType /\ Sides(x, ks) /\ FinQuiet(x)
  BY <1>2 DEF Step, Alike, FinQuiet
<1>4. Step(x, u, ks, NoOp) /\ WriteQuiet(u)
  BY <1>3, OnWritableStep
<1> HIDE DEF u
<1>5. FinQuiet(u)
  BY <1>3, <1>4 DEF Step
<1>6. Step(v, u, ks, NoOp)
  BY <1>1, <1>2, <1>4, StepTwice
<1> QED BY <1>1, <1>4, <1>5, <1>6

\* Another state of the send half, or another fact, in a core that is otherwise as it was.
LEMMA SetSendStep ==
  ASSUME NEW v \in WorldType, NEW ks \in KindSeq, Sides(v, ks), NEW send \in SendState, NEW fact \in Fact,
         fact # "Acked", fact = "Stopped" => v.core.stopped,
         fact = "Queued" => send = "finished" /\ ~v.core.stopped,
         \/ send = v.core.send
         \/ v.parked.write.op = NoOp /\ v.parked.fins = {}
         \/ v.core.send = "ready" /\ send = "finished"
  PROVE  /\ Step(v, WithCore(v, SetSend(v.core, send, fact)), ks, NoOp)
         /\ WithCore(v, SetSend(v.core, send, fact)).core = SetSend(v.core, send, fact)
<1> DEFINE d == SetSend(v.core, send, fact)
<1>1. v.core \in CoreType /\ SendCore(v.core)
  BY WorldFields DEF Sides, SendSide
<1>2. /\ d \in CoreType /\ d.phase = v.core.phase /\ RecvCoreSame(v.core, d) /\ AcceptCoreSame(v.core, d)
      /\ d.send = send /\ d.fact = fact /\ d.credit = v.core.credit /\ d.granted = v.core.granted
      /\ d.stopped = v.core.stopped /\ d.acked = v.core.acked /\ d.wire = v.core.wire
  BY <1>1, SetSendIs
<1> HIDE DEF d
<1>3. SendCore(d)
  BY <1>1, <1>2 DEF SendCore
<1>4. Step(v, WithCore(v, d), ks, NoOp)
  BY <1>2, <1>3, SendCoreMoves
<1>5. WithCore(v, d).core = d
  BY <1>2, WithCoreIs
<1> QED BY <1>4, <1>5 DEF d

\* finish.
LEMMA FinishStep ==
  ASSUME NEW v \in WorldType, NEW ks \in KindSeq, Sides(v, ks), NEW op \in 1..Len(ks), ks[op] = "finish"
  PROVE  Step(v, Finish(v, op), ks, op)
<1> DEFINE c == v.core
           stopped == "Stopped"
           gone == "ClosedStream"
           ok == "Ok"
           fin == "finished"
           queued == "Queued"
<1>1. /\ op \in Nat /\ NoOp \in Nat /\ NoOp <= op /\ op <= op /\ ks[op] \notin {"read", "end", "write", "wait"}
      /\ stopped \in Answer /\ gone \in Answer /\ ok \in Answer /\ stopped \in Fact /\ queued \in Fact
      /\ fin \in SendState
  BY DEF KindSeq, NoOp, Answer, Fact, SendState
<1>2. c \in CoreType /\ SendCore(c) /\ c.send \in SendState /\ c.fact \in Fact /\ c.stopped \in BOOLEAN
  BY WorldFields, CoreFields DEF Sides, SendSide
<1>3. ASSUME NEW a \in Answer, NEW send \in SendState, NEW fact \in Fact, fact # "Acked",
             fact = "Stopped" => c.stopped, fact = "Queued" => send = "finished" /\ ~c.stopped,
             send = c.send \/ (c.send = "ready" /\ send = "finished")
      PROVE  Step(v, [Reply(v, {op}, a) EXCEPT !.core.fact = fact, !.core.send = send], ks, op)
  <2> DEFINE x == Reply(v, {op}, a)
             u == WithCore(x, SetSend(x.core, send, fact))
  <2>1. Step(v, x, ks, op) /\ x.core = v.core
    BY <1>1, ReplyStep, ReplyIs
  <2>2. x \in WorldType /\ Sides(x, ks)
    BY <2>1 DEF Step, Alike
  <2> HIDE DEF x
  <2>3. Step(x, u, ks, NoOp)
    BY <1>3, <2>1, <2>2, SetSendStep
  <2>4. [x EXCEPT !.core.fact = fact, !.core.send = send] = u
    BY <2>2 DEF WithCore, SetSend, WorldType, CoreType
  <2> HIDE DEF u
  <2>5. Step(v, u, ks, op)
    BY <1>1, <2>1, <2>3, StepTwice
  <2> QED BY <2>4, <2>5 DEF x
<1>4. CASE c.fact = "Stopped" \/ (c.fact = "None" /\ c.send \in {"ready", "finished", "reset"} /\ c.stopped)
  <2> DEFINE x == Reply(v, {op}, stopped)
             send == c.send
  <2>1. Finish(v, op) = [x EXCEPT !.core.fact = stopped]
    BY <1>4 DEF Finish
  <2>2. x \in WorldType /\ x.core = c
    BY <1>1, ReplyIs
  <2>3. [x EXCEPT !.core.fact = stopped] = [x EXCEPT !.core.fact = stopped, !.core.send = x.core.send]
    <3> HIDE DEF x, stopped
    <3> QED BY <2>2 DEF WorldType, CoreType
  <2>4. Finish(v, op) = [x EXCEPT !.core.fact = stopped, !.core.send = send]
    <3> HIDE DEF x, stopped
    <3> QED BY <2>1, <2>2, <2>3
  <2>5. c.stopped /\ stopped # "Acked" /\ stopped # "Queued"
    BY <1>2, <1>4 DEF SendCore
  <2>6. send \in SendState /\ send = c.send
    BY <1>2
  <2> HIDE DEF stopped, send
  <2>7. Step(v, [Reply(v, {op}, stopped) EXCEPT !.core.fact = stopped, !.core.send = send], ks, op)
    BY <1>1, <1>3, <2>5, <2>6
  <2> QED BY <2>4, <2>7
<1>5. CASE c.fact = "None" /\ c.send = "ready" /\ ~c.stopped
  <2>1. Finish(v, op) = [Reply(v, {op}, ok) EXCEPT !.core.fact = queued, !.core.send = fin]
    BY <1>5 DEF Finish
  <2>2. queued # "Acked" /\ queued # "Stopped" /\ fin = "finished"
    OBVIOUS
  <2> HIDE DEF ok, queued, fin
  <2>3. Step(v, [Reply(v, {op}, ok) EXCEPT !.core.fact = queued, !.core.send = fin], ks, op)
    BY <1>1, <1>3, <1>5, <2>2
  <2> QED BY <2>1, <2>3
<1>6. CASE \/ c.fact \in {"Queued", "Acked"}
           \/ c.fact = "None" /\ (c.send = "gone" \/ (c.send # "ready" /\ ~c.stopped))
  <2>1. Finish(v, op) = Reply(v, {op}, gone)
    BY <1>6 DEF Finish
  <2> HIDE DEF gone
  <2> QED BY <1>1, <2>1, ReplyStep
<1> QED BY <1>2, <1>4, <1>5, <1>6 DEF Fact, SendState

\* wait_finished.
LEMMA WaitFinishedStep ==
  ASSUME NEW v \in WorldType, NEW ks \in KindSeq, Sides(v, ks), NEW op \in 1..Len(ks), ks[op] = "wait"
  PROVE  Step(v, WaitFinished(v, op), ks, op)
<1> DEFINE c == v.core
           stopped == "Stopped"
           gone == "ClosedStream"
           ok == "Ok"
           u == WaitFinished(v, op)
<1>1. /\ op \in Nat /\ op \in Op /\ op # NoOp
      /\ stopped \in Answer \ {"waiting"} /\ gone \in Answer \ {"waiting"} /\ ok \in Answer \ {"waiting"}
      /\ stopped # "Ok" /\ gone # "Ok"
  BY OpsAssumption DEF KindSeq, NoOp, Op, Answer
<1>2. SendCore(c) /\ c.fact \in Fact /\ SendSide(v, ks)
  BY WorldFields, CoreFields DEF Sides, SendSide
<1>3. v.parked.write.op # op
  BY <1>1, <1>2 DEF SendSide, WriteParked
<1>4. SUFFICES SendStep(v, u, ks, op)
  BY <1>1, SendStepIsStep DEF u
<1>5. CASE c.fact = "Acked"
  <2>1. u = Reply(v, {op}, ok) /\ v.core.acked
    BY <1>2, <1>5 DEF WaitFinished, SendCore
  <2> HIDE DEF ok, u
  <2> QED BY <1>1, <1>2, <1>3, <2>1, WriteRefused
<1>6. CASE c.fact = "Stopped"
  <2>1. u = Reply(v, {op}, stopped)
    BY <1>6 DEF WaitFinished
  <2> HIDE DEF stopped, u
  <2> QED BY <1>1, <1>2, <1>3, <2>1, WriteRefused
<1>7. CASE c.fact = "None"
  <2>1. u = Reply(v, {op}, gone)
    BY <1>7 DEF WaitFinished
  <2> HIDE DEF gone, u
  <2> QED BY <1>1, <1>2, <1>3, <2>1, WriteRefused
<1>8. CASE c.fact = "Queued"
  <2> DEFINE s == v.parked.fins \cup {op}
             p == SetFins(v.parked, s)
  <2>1. u = WithParked(v, p)
    <3>1. u = [v EXCEPT !.parked.fins = @ \cup {op}]
      BY <1>8 DEF WaitFinished
    <3> HIDE DEF u
    <3> QED BY <3>1 DEF WithParked, SetFins, WorldType
  <2>2. v.parked \in ParkedType /\ v.parked.write \in WriteType /\ s \in SUBSET Op
    BY <1>1, WorldFields, ParkedFields
  <2> HIDE DEF u, s
  <2>3. /\ p \in ParkedType /\ p.write = v.parked.write /\ p.read = v.parked.read
        /\ p.accepts = v.parked.accepts /\ p.fins = s
    BY <2>2, SetWriteIs
  <2> HIDE DEF p
  <2>4. /\ u \in WorldType /\ u.core = v.core /\ u.parked = p /\ u.ans = v.ans /\ u.delivered = v.delivered
        /\ u.wasted = v.wasted /\ u.given = v.given /\ u.closed = v.closed
    BY <2>1, <2>3, WithParkedIs
  <2>5. Alike(v, u) /\ RecvSame(v, u) /\ AcceptSame(v, u) /\ u.core.acked = v.core.acked
    BY <2>3, <2>4 DEF Alike, RecvSame, AcceptSame, RecvCoreSame, AcceptCoreSame
  <2>6. SendSide(u, ks)
    <3>1. WriteParked(u, ks) /\ SentIsSent(u, ks)
      BY <1>2, <2>3, <2>4 DEF SendSide, WriteParked, SentIsSent, Owed
    <3>2. \A o \in s : o \in 1..Len(ks) /\ ks[o] = "wait"
      BY <1>2 DEF SendSide, s
    <3> QED BY <1>2, <2>3, <2>4, <3>1, <3>2 DEF SendSide
  <2>7. (WriteQuiet(v) => WriteQuiet(u)) /\ FinQuiet(u)
    BY <1>2, <1>8, <2>3, <2>4 DEF WriteQuiet, FinQuiet, SendCore
  <2>8. \A o \in Nat : o > op /\ SendBefore(v, o) => SendBefore(u, o)
    BY <1>1, <2>3, <2>4 DEF SendBefore, s
  <2> QED BY <2>4, <2>5, <2>6, <2>7, <2>8 DEF SendStep
<1> QED BY <1>2, <1>5, <1>6, <1>7, <1>8 DEF Fact

\* release_send.
LEMMA ReleaseSendStep ==
  ASSUME NEW v \in WorldType, NEW ks \in KindSeq, Sides(v, ks)
  PROVE  Step(v, ReleaseSend(v), ks, NoOp)
<1> DEFINE send == v.core.send
           none == "None"
<1>1. send \in SendState /\ none \in Fact /\ none # "Acked" /\ none # "Stopped" /\ none # "Queued"
  BY WorldFields, CoreFields DEF Fact
<1>2. ReleaseSend(v) = WithCore(v, SetSend(v.core, send, none))
  BY DEF ReleaseSend, WithCore, SetSend, WorldType, CoreType
<1> HIDE DEF none
<1> QED BY <1>1, <1>2, SetSendStep

\* reset.
LEMMA ResetStep ==
  ASSUME NEW v \in WorldType, NEW ks \in KindSeq, Sides(v, ks), NEW op \in 1..Len(ks), ks[op] = "reset"
  PROVE  Step(v, Reset(v, op), ks, op)
<1> DEFINE none == "None"
           gone == "ClosedStream"
           ok == "Ok"
           reset == "reset"
           f == WithCore(v, ForgetEnd(v.core))
           g == WithCore(f, SetSend(f.core, f.core.send, none))
           h == FailFinWaiters(g, gone)
           i == FailBlockedWrite(h, gone)
           j == WithCore(i, SetSend(i.core, reset, none))
<1>1. /\ op \in Nat /\ NoOp \in Nat /\ NoOp <= op /\ NoOp <= NoOp /\ op <= op
      /\ ks[op] \notin {"read", "end", "write", "wait"} /\ gone \in Answer \ {"Ok", "waiting"} /\ gone \in Answer
      /\ gone # "waiting" /\ gone # "Ok" /\ ok \in Answer /\ none \in Fact /\ reset \in SendState
      /\ none # "Acked" /\ none # "Stopped" /\ none # "Queued"
  BY DEF KindSeq, NoOp, Answer, Fact, SendState
<1>2. Step(v, f, ks, NoOp)
  BY ForgetEndStep
<1>3. f \in WorldType /\ Sides(f, ks) /\ f.core \in CoreType /\ f.core.send \in SendState
  BY <1>2, WorldFields, CoreFields DEF Step, Alike
<1>14. f.core.send = v.core.send /\ f.core = ForgetEnd(v.core)
  <2>1. v.core \in CoreType
    BY WorldFields
  <2>2. ForgetEnd(v.core) \in CoreType /\ SendCoreSame(v.core, ForgetEnd(v.core))
    BY <2>1, StopRecvIs
  <2>3. f.core = ForgetEnd(v.core)
    BY <2>2, WithCoreIs
  <2> HIDE DEF f
  <2> QED BY <2>2, <2>3 DEF SendCoreSame
<1>15. f = [v EXCEPT !.core.ended = FALSE]
  BY DEF WithCore, ForgetEnd, WorldType
<1> HIDE DEF f, none, gone, ok, reset
<1>4. Step(f, g, ks, NoOp) /\ g.core = SetSend(f.core, f.core.send, none)
  BY <1>1, <1>3, SetSendStep
<1>16. g = [v EXCEPT !.core.fact = none, !.core.ended = FALSE]
  <2>1. g = [f EXCEPT !.core.fact = none]
    BY <1>3 DEF WithCore, SetSend, WorldType, CoreType
  <2>2. [[v EXCEPT !.core.ended = FALSE] EXCEPT !.core.fact = none] = [v EXCEPT !.core.fact = none, !.core.ended = FALSE]
    BY DEF WorldType, CoreType
  <2> HIDE DEF g
  <2> QED BY <1>15, <2>1, <2>2
<1> HIDE DEF g
<1>5. g \in WorldType /\ Sides(g, ks)
  BY <1>4 DEF Step, Alike
<1>6. Step(v, g, ks, NoOp)
  BY <1>1, <1>2, <1>4, StepTwice
<1>7. Step(g, h, ks, NoOp) /\ h.core = g.core /\ h.parked.fins = {}
  BY <1>1, <1>5, FailFinWaitersStep
<1> HIDE DEF h
<1>8. h \in WorldType /\ Sides(h, ks)
  BY <1>7 DEF Step, Alike
<1>9. Step(h, i, ks, NoOp) /\ i.core = h.core /\ i.parked.write.op = NoOp /\ i.parked.fins = {}
  BY <1>1, <1>7, <1>8, FailBlockedWriteStep
<1> HIDE DEF i
<1>10. i \in WorldType /\ Sides(i, ks)
  BY <1>9 DEF Step, Alike
<1>11. Step(i, j, ks, NoOp)
  BY <1>1, <1>9, <1>10, SetSendStep
<1>17. j = [i EXCEPT !.core.send = reset]
  <2>1. i.core.fact = none
    BY <1>3, <1>1, <1>4, <1>7, <1>9, SetSendIs
  <2> QED BY <2>1, <1>10 DEF WithCore, SetSend, WorldType, CoreType
<1> HIDE DEF j
<1>12. Step(v, j, ks, NoOp) /\ j \in WorldType /\ Sides(j, ks)
  <2>1. Step(v, h, ks, NoOp)
    BY <1>1, <1>6, <1>7, StepTwice
  <2>2. Step(v, i, ks, NoOp)
    BY <1>1, <2>1, <1>9, StepTwice
  <2>3. Step(v, j, ks, NoOp)
    BY <1>1, <2>2, <1>11, StepTwice
  <2> QED BY <2>3 DEF Step, Alike
<1>13. Reset(v, op) = IF v.core.send \in {"ready", "finished"} THEN Reply(j, {op}, ok) ELSE Reply(g, {op}, gone)
  BY <1>16, <1>17 DEF Reset, i, h, none, gone, ok, reset
<1>18. Step(v, Reply(j, {op}, ok), ks, op)
  <2>1. Step(j, Reply(j, {op}, ok), ks, op)
    BY <1>1, <1>12, ReplyStep
  <2> QED BY <1>1, <1>12, <2>1, StepTwice
<1>19. Step(v, Reply(g, {op}, gone), ks, op)
  <2>1. Step(g, Reply(g, {op}, gone), ks, op)
    BY <1>1, <1>5, ReplyStep
  <2> QED BY <1>1, <1>6, <2>1, StepTwice
<1> QED BY <1>13, <1>18, <1>19

\* The accepts that are parked when another side has been failed.
LEMMA SameAccepts ==
  ASSUME NEW v \in WorldType, NEW a
  PROVE  /\ FailFinWaiters(v, a).parked.accepts = v.parked.accepts
         /\ FailBlockedWrite(v, a).parked.accepts = v.parked.accepts
         /\ FailPendingRead(v, a).parked.accepts = v.parked.accepts
<1>1. \A ops : Reply(v, ops, a) = WithAns(v, Replied(v.ans, ops, a))
  BY DEF Reply, WithAns, Replied
<1>2. FailFinWaiters(v, a).parked.accepts = v.parked.accepts
  BY <1>1 DEF FailFinWaiters, WithAns, WorldType, ParkedType
<1>3. FailBlockedWrite(v, a).parked.accepts = v.parked.accepts
  BY <1>1 DEF FailBlockedWrite, WithAns, WorldType, ParkedType
<1>4. FailPendingRead(v, a).parked.accepts = v.parked.accepts
  <2> DEFINE x == [v EXCEPT !.parked.read = NoRead]
             y == Reply(x, {v.parked.read.op}, a)
  <2>1. x.parked.accepts = v.parked.accepts
    BY DEF WorldType, ParkedType
  <2>2. y.parked = x.parked
    <3>1. y = WithAns(x, Replied(x.ans, {v.parked.read.op}, a))
      BY DEF Reply, WithAns, Replied
    <3>2. "parked" \in DOMAIN x
      BY DEF WorldType
    <3> HIDE DEF x
    <3> QED BY <3>1, <3>2 DEF WithAns
  <2>3. FailPendingRead(v, a) = IF v.parked.read.op = NoOp THEN v ELSE WithWasted(y, y.wasted + v.parked.read.got)
    BY DEF FailPendingRead, ReplyReadError, WithWasted
  <2> HIDE DEF x, y
  <2> QED BY <2>1, <2>2, <2>3 DEF WithWasted
<1> QED BY <1>2, <1>3, <1>4

\* fail_all: nothing stays parked.
LEMMA FailAllStep ==
  ASSUME NEW v \in WorldType, NEW ks \in KindSeq, Sides(v, ks)
  PROVE  Step(v, FailAll(v), ks, NoOp)
<1> DEFINE closed == "Closed"
           x == FailFinWaiters(v, closed)
           y == FailBlockedWrite(x, closed)
           z == FailPendingRead(y, closed)
           q == v.parked.accepts
           ops == {q[i] : i \in DOMAIN q}
           n == z.core.ready
           g == z.given
           none == <<>>
           u == FailAll(v)
<1>1. /\ closed \in Answer \ {"Ok", "waiting"} /\ closed \in Answer /\ closed # "waiting" /\ closed # "Ok"
      /\ NoOp \in Nat /\ NoOp <= NoOp
  BY DEF Answer, NoOp
<1>2. u = [Reply(z, ops, closed) EXCEPT !.parked.accepts = none]
  BY DEF FailAll
<1> HIDE DEF closed
<1>3. Step(v, x, ks, NoOp) /\ x.parked.accepts = q
  BY <1>1, FailFinWaitersStep, SameAccepts
<1>4. x \in WorldType /\ Sides(x, ks)
  BY <1>3 DEF Step, Alike
<1> HIDE DEF x
<1>5. Step(x, y, ks, NoOp) /\ y.parked.accepts = q
  BY <1>1, <1>3, <1>4, FailBlockedWriteStep, SameAccepts
<1>6. y \in WorldType /\ Sides(y, ks)
  BY <1>5 DEF Step, Alike
<1> HIDE DEF y
<1>7. Step(y, z, ks, NoOp) /\ z.parked.accepts = q
  BY <1>1, <1>5, <1>6, FailPendingReadStep, SameAccepts
<1>8. z \in WorldType /\ Sides(z, ks)
  BY <1>7 DEF Step, Alike
<1> HIDE DEF z
<1>9. Step(v, z, ks, NoOp)
  <2>1. Step(v, y, ks, NoOp)
    BY <1>1, <1>3, <1>5, StepTwice
  <2> QED BY <1>1, <1>7, <2>1, StepTwice
<1>10. n \in Nat /\ g \in Seq(Op) /\ none \in Seq(Op) /\ q \in Seq(Op) /\ z.core \in CoreType
  BY <1>8, WorldFields, CoreFields, ParkedFields
<1>11. u = Accepted(Reply(z, ops, closed), n, g, none)
  <2> DEFINE r == Reply(z, ops, closed)
  <2>1. r \in WorldType /\ r.core = z.core /\ r.given = z.given
    BY <1>1, <1>8, ReplyIs
  <2> HIDE DEF r, none
  <2>2. [r EXCEPT !.parked.accepts = none] = Accepted(r, r.core.ready, r.given, none)
    BY <2>1 DEF Accepted, WithParked, WithGiven, WithCore, SetAccepts, SetReady, WorldType, ParkedType, CoreType
  <2> HIDE DEF u
  <2> QED BY <1>2, <2>1, <2>2 DEF r
<1>12. none = <<>> /\ Len(none) = 0 /\ \A o \in Op : (\A i \in 1..Len(q) : o # q[i]) => o \notin ops
  BY <1>10
<1> HIDE DEF u, n, g, none, ops, q
<1>13. /\ Alike(z, u) /\ RecvSame(z, u) /\ SendSame(z, u)
       /\ u.core.ready = n /\ u.core.opened = z.core.opened /\ u.given = g /\ u.parked.accepts = none
       /\ \A o \in Op : o \notin ops => u.ans[o] = z.ans[o]
  <2>1. z \in WorldType /\ closed \in Answer
    BY <1>1, <1>8
  <2>2. AcceptedFrom(z, u, ops, n, g, none)
    BY ONLY <1>10, <1>11, <2>1, AcceptedAfterReply
  <2> QED BY ONLY <2>2 DEF AcceptedFrom
<1>14. AcceptSide(u, ks) /\ AcceptQuiet(u) /\ \A o : AcceptBefore(z, o) => AcceptBefore(u, o)
  <2>1. AcceptSide(z, ks)
    BY <1>8 DEF Sides
  <2> QED BY <1>12, <1>13, <2>1 DEF AcceptSide, AcceptQuiet, AcceptBefore, n, g
<1>15. AcceptStep(z, u, ks, NoOp)
  <2>1. \A o \in Op : o # NoOp /\ (\A i \in 1..Len(z.parked.accepts) : o # z.parked.accepts[i]) =>
          u.ans[o] = z.ans[o]
    BY <1>7, <1>12, <1>13
  <2> QED BY <1>13, <1>14, <2>1 DEF AcceptStep
<1>16. Step(z, u, ks, NoOp)
  BY <1>1, <1>8, <1>15, AcceptStepIsStep
<1>17. Step(v, u, ks, NoOp)
  BY <1>1, <1>9, <1>16, StepTwice
<1> QED BY <1>17 DEF u

\* apply_cmd, for any command but the one that closes the connection.
LEMMA ApplyCmdStep ==
  ASSUME NEW v \in WorldType, NEW ks \in KindSeq, Sides(v, ks), NEW cmd \in [op : Op, kind : Kind],
         cmd.kind # "close", cmd.op \in 1..Len(ks),
         cmd.kind \notin Silent => ks[cmd.op] = cmd.kind /\ Owed(v, cmd.op),
         Before(v, cmd.op), WriteQuiet(v), AcceptQuiet(v)
  PROVE  Step(v, ApplyCmd(v, cmd), ks, cmd.op)
<1> DEFINE op == cmd.op
           kind == cmd.kind
           u == ApplyCmd(v, cmd)
<1>1. /\ op \in Nat /\ op \in Op /\ op # NoOp /\ kind \in Kind /\ NoOp \in Nat /\ NoOp <= op /\ op <= op
      /\ op \in 1..Len(ks)
  BY OpsAssumption DEF KindSeq, Op, NoOp
<1>2. kind # "release" => ks[op] = kind /\ Owed(v, op)
  BY <1>1 DEF Silent
<1>3. RecvSide(v, ks) /\ SendSide(v, ks) /\ RecvBefore(v, op) /\ SendBefore(v, op) /\ AcceptBefore(v, op)
  BY DEF Sides, Before
<1>4. CASE kind = "open"
  <2>1. u = OpenBi(v, op)
    BY <1>4 DEF ApplyCmd
  <2> HIDE DEF u, op
  <2> QED BY <1>1, <1>2, <1>4, <2>1, OpenBiStep DEF u, op
<1>5. CASE kind = "accept"
  <2>1. u = AcceptBi(v, op)
    BY <1>5 DEF ApplyCmd
  <2> HIDE DEF u, op
  <2> QED BY <1>1, <1>2, <1>3, <1>5, <2>1, AcceptBiStep DEF u, op
<1>6. CASE kind = "write"
  <2> DEFINE r == [op |-> op, left |-> WriteSize]
  <2>1. u = PumpWrite(v, r)
    BY <1>6 DEF ApplyCmd
  <2>2. r \in WriteType /\ r.op = op /\ r.left = WriteSize
    BY <1>1, SizeAssumption DEF WriteType
  <2>3. v.parked.write.op # op /\ \A i \in 1..Len(v.core.wire) : v.core.wire[i] < op
    BY <1>1, <1>3 DEF SendBefore
  <2>4. v.core.wire \in Seq(Op) /\ \A o \in Op : o \in Nat
    BY WorldFields, CoreFields, OpsAssumption DEF Op
  <2>5. \A i \in 1..Len(v.core.wire) : v.core.wire[i] <= op /\ v.core.wire[i] # op
    BY <1>1, <2>3, <2>4
  <2>6. Count(v.core.wire, op) + r.left = WriteSize
    <3>1. {i \in DOMAIN v.core.wire : v.core.wire[i] = op} = {}
      BY <2>4, <2>5
    <3>2. Count(v.core.wire, op) = 0
      BY <3>1, FS_EmptySet DEF Count
    <3> QED BY <3>2, <2>2, SizeAssumption
  <2> HIDE DEF u, r
  <2>7. SendStep(v, u, ks, r.op)
    <3>1. r.op \in 1..Len(ks) /\ ks[r.op] = "write" /\ Owed(v, r.op) /\ v.parked.write.op # r.op
      BY <1>1, <1>2, <1>6, <2>2, <2>3
    <3>2. (\A i \in 1..Len(v.core.wire) : v.core.wire[i] <= r.op) /\ Count(v.core.wire, r.op) + r.left = WriteSize
      BY <2>2, <2>5, <2>6
    <3> QED BY <1>3, <2>1, <2>2, <3>1, <3>2, PumpWriteStep
  <2>8. SendStep(v, u, ks, op) /\ ks[op] \notin {"read", "end"}
    BY <1>2, <1>6, <2>2, <2>7
  <2> QED BY <1>1, <2>8, SendStepIsStep DEF u
<1>7. CASE kind = "finish"
  <2>1. u = Finish(v, op)
    BY <1>7 DEF ApplyCmd
  <2> HIDE DEF u, op
  <2> QED BY <1>1, <1>2, <1>7, <2>1, FinishStep DEF u, op
<1>8. CASE kind = "wait"
  <2>1. u = WaitFinished(v, op)
    BY <1>8 DEF ApplyCmd
  <2> HIDE DEF u, op
  <2> QED BY <1>1, <1>2, <1>8, <2>1, WaitFinishedStep DEF u, op
<1>9. CASE kind = "reset"
  <2>1. u = Reset(v, op)
    BY <1>9 DEF ApplyCmd
  <2> HIDE DEF u, op
  <2> QED BY <1>1, <1>2, <1>9, <2>1, ResetStep DEF u, op
<1>10. CASE kind = "stop"
  <2>1. u = Stop(v, op)
    BY <1>10 DEF ApplyCmd
  <2> HIDE DEF u, op
  <2> QED BY <1>1, <1>2, <1>10, <2>1, StopStep DEF u, op
<1>11. CASE kind = "release"
  <2>1. u = ReleaseSend(v)
    BY <1>11 DEF ApplyCmd
  <2>2. Step(v, v, ks, op)
    BY NoStep
  <2> HIDE DEF u, op
  <2>3. Step(v, u, ks, NoOp)
    BY <2>1, ReleaseSendStep
  <2> QED BY <1>1, <2>2, <2>3, StepTwice DEF u, op
<1>12. CASE kind \in {"read", "end"}
  <2> DEFINE r == [op |-> op, kind |-> kind, got |-> 0]
  <2>1. u = PumpRead(v, r)
    BY <1>12 DEF ApplyCmd
  <2>2. r \in ReadType /\ r.op = op /\ r.got = 0 /\ r.kind = kind
    BY <1>1, <1>12, SizeAssumption DEF ReadType
  <2>3. v.parked.read.op # op
    BY <1>1, <1>3 DEF RecvBefore
  <2> HIDE DEF u, r
  <2>4. /\ RecvMove(v, u, ks, r.op)
        /\ v.core.pos = v.delivered + v.wasted + v.parked.read.got + r.got => Bytes(u)
    <3>1. r.op \in 1..Len(ks) /\ r.kind = ks[r.op] /\ Owed(v, r.op) /\ v.parked.read.op # r.op
      BY <1>1, <1>2, <1>12, <2>2, <2>3
    <3> QED BY <1>3, <2>1, <2>2, <3>1, PumpReadStep
  <2>5. Bytes(v) => Bytes(u)
    <3>1. v.delivered \in Nat /\ v.wasted \in Nat /\ v.parked.read.got \in Nat
      BY WorldFields, ParkedFields, SizeAssumption DEF ReadType
    <3>2. v.delivered + v.wasted + v.parked.read.got + 0 = v.delivered + v.wasted + v.parked.read.got
      BY <3>1
    <3> QED BY <2>2, <2>4, <3>2 DEF Bytes
  <2>6. RecvStep(v, u, ks, op) /\ ks[op] \notin {"write", "wait"}
    BY <1>2, <1>12, <2>2, <2>4, <2>5 DEF RecvStep
  <2> QED BY <1>1, <2>6, RecvStepIsStep DEF u
<1> QED BY <1>1, <1>4, <1>5, <1>6, <1>7, <1>8, <1>9, <1>10, <1>11, <1>12 DEF Kind

-----------------------------------------------------------------------------
(* The inductive invariant                                                 *)

\* Unless an event for it is queued, nothing that is parked could go on.
Wakes(v, evs) ==
  v.core.phase # "lost" =>
    /\ "Readable" \notin evs => ReadQuiet(v)
    /\ "Writable" \notin evs /\ "Stopped" \notin evs => WriteQuiet(v)
    /\ "Opened" \notin evs => AcceptQuiet(v)
    /\ "FinAcked" \notin evs /\ "Stopped" \notin evs => FinQuiet(v)

\* What is queued agrees with the core.
Heard(c, evs) ==
  /\ "Connected" \in evs => c.phase # "handshake"
  /\ "FinAcked" \in evs => c.acked

Typed ==
  /\ w \in WorldType /\ events \subseteq Event
  /\ cmds \in Seq([op : Op, kind : Kind]) /\ Len(cmds) <= CmdCap
  /\ task \in [state : {"running", "aborting", "stopped"}, lost : BOOLEAN]
  /\ oneshot \in {"empty", "ok", "incomplete", "dropped"}
  /\ connect \in {"pending", "ok", "incomplete", "timedout", "abandoned"}
  /\ kinds \in KindSeq /\ scene \in Scenario

\* There are handles only once the handshake is complete.
Handles(phase, shot, conn, ks) == shot = "ok" \/ conn = "ok" \/ Len(ks) > 0 => phase # "handshake"

\* A command in the channel has a number that is larger than any the driver has dealt with,
\* and it is owed its answer.
Queued(v, cs, ks) ==
  /\ \A i \in 1..Len(cs) :
       /\ cs[i].op \in 1..Len(ks) /\ Before(v, cs[i].op)
       /\ cs[i].kind \notin Silent => ks[cs[i].op] = cs[i].kind /\ Owed(v, cs[i].op)
  /\ \A i, j \in 1..Len(cs) : i < j => cs[i].op < cs[j].op

\* The driver has yet to hear that the connection is lost exactly while the event is queued.
EndIsTold(phase, evs, tsk) ==
  /\ "Lost" \in evs <=> phase = "lost" /\ ~tsk.lost /\ tsk.state # "stopped"
  /\ tsk.lost => phase = "lost"

IInv ==
  /\ Typed
  /\ Sides(w, kinds) /\ Before(w, Len(kinds) + 1)
  /\ Queued(w, cmds, kinds)
  /\ Wakes(w, events) /\ Heard(w.core, events)
  /\ EndIsTold(w.core.phase, events, task)
  /\ Handles(w.core.phase, oneshot, connect, kinds)
  /\ task.state # "stopped" => Bytes(w)

-----------------------------------------------------------------------------
(* Datagrams                                                               *)

\* What frames may make of the core of v, and the events they queue.
Reached(v, ks, c, evs) ==
  /\ c \in CoreType /\ evs \subseteq Event
  /\ Sides(WithCore(v, c), ks) /\ Wakes(WithCore(v, c), evs) /\ Heard(c, evs)
  /\ "Lost" \in evs <=> c.phase = "lost"
  /\ c.phase = "handshake" => v.core.phase = "handshake"
  /\ c.pos = v.core.pos /\ c.wire = v.core.wire

\* A side that a frame leaves alone.
LEMMA FrameKeeps ==
  ASSUME NEW v \in WorldType, NEW ks \in KindSeq, NEW c \in CoreType, NEW d \in CoreType,
         Sides(WithCore(v, c), ks)
  PROVE  /\ RecvCoreSame(c, d) =>
              /\ RecvSide(WithCore(v, d), ks)
              /\ ReadQuiet(WithCore(v, c)) => ReadQuiet(WithCore(v, d))
         /\ SendCoreSame(c, d) =>
              /\ SendSide(WithCore(v, d), ks)
              /\ d.phase = c.phase => (WriteQuiet(WithCore(v, c)) => WriteQuiet(WithCore(v, d)))
              /\ FinQuiet(WithCore(v, c)) => FinQuiet(WithCore(v, d))
         /\ AcceptCoreSame(c, d) =>
              /\ AcceptSide(WithCore(v, d), ks)
              /\ AcceptQuiet(WithCore(v, c)) => AcceptQuiet(WithCore(v, d))
<1> DEFINE x == WithCore(v, c)
           u == WithCore(v, d)
<1>1. /\ x \in WorldType /\ x.core = c /\ x.parked = v.parked /\ x.ans = v.ans
      /\ x.delivered = v.delivered /\ x.wasted = v.wasted /\ x.given = v.given
  BY WithCoreIs
<1>2. /\ u \in WorldType /\ u.core = d /\ u.parked = v.parked /\ u.ans = v.ans
      /\ u.delivered = v.delivered /\ u.wasted = v.wasted /\ u.given = v.given
  BY WithCoreIs
<1>3. RecvSide(x, ks) /\ SendSide(x, ks) /\ AcceptSide(x, ks)
  BY DEF Sides
<1> HIDE DEF x, u
<1>4. \A o \in 1..Len(ks) : u.ans[o] = x.ans[o]
  BY <1>1, <1>2
<1>5. RecvCoreSame(c, d) => RecvSide(u, ks) /\ (ReadQuiet(x) => ReadQuiet(u))
  <2>1. HAVE RecvCoreSame(c, d)
  <2>2. RecvSame(x, u)
    BY <2>1, <1>1, <1>2 DEF RecvSame
  <2> QED BY <1>1, <1>2, <1>3, <1>4, <2>2, RecvKept
<1>6. SendCoreSame(c, d) =>
        /\ SendSide(u, ks) /\ (d.phase = c.phase => (WriteQuiet(x) => WriteQuiet(u)))
        /\ FinQuiet(x) => FinQuiet(u)
  <2>1. HAVE SendCoreSame(c, d)
  <2>2. SendSame(x, u)
    BY <2>1, <1>1, <1>2 DEF SendSame
  <2>3. /\ SendSide(u, ks) /\ (u.core.phase = x.core.phase => (WriteQuiet(x) => WriteQuiet(u)))
        /\ FinQuiet(x) => FinQuiet(u)
    BY <1>1, <1>2, <1>3, <1>4, <2>2, SendKept
  <2> QED BY <1>1, <1>2, <2>3
<1>7. AcceptCoreSame(c, d) => AcceptSide(u, ks) /\ (AcceptQuiet(x) => AcceptQuiet(u))
  <2>1. HAVE AcceptCoreSame(c, d)
  <2>2. AcceptSame(x, u)
    BY <2>1, <1>1, <1>2 DEF AcceptSame
  <2> QED BY <1>1, <1>2, <1>3, <2>2, AcceptKept
<1> QED BY <1>5, <1>6, <1>7 DEF x, u

\* One frame more.
LEMMA ReachedNext ==
  ASSUME NEW v \in WorldType, NEW ks \in KindSeq, NEW c, NEW evs, Reached(v, ks, c, evs), c.phase # "lost",
         NEW d \in CoreType, NEW told, told \subseteq Event, Sides(WithCore(v, d), ks),
         d.phase = "lost" \/
           /\ "Readable" \notin told => (ReadQuiet(WithCore(v, c)) => ReadQuiet(WithCore(v, d)))
           /\ "Writable" \notin told /\ "Stopped" \notin told =>
                (WriteQuiet(WithCore(v, c)) => WriteQuiet(WithCore(v, d)))
           /\ "Opened" \notin told => (AcceptQuiet(WithCore(v, c)) => AcceptQuiet(WithCore(v, d)))
           /\ "FinAcked" \notin told /\ "Stopped" \notin told =>
                (FinQuiet(WithCore(v, c)) => FinQuiet(WithCore(v, d))),
         Heard(d, told), c.acked => d.acked, d.phase = "handshake" => c.phase = "handshake",
         "Lost" \in told <=> d.phase = "lost", d.pos = c.pos, d.wire = c.wire
  PROVE  Reached(v, ks, d, evs \cup told)
<1> DEFINE x == WithCore(v, c)
           u == WithCore(v, d)
           all == evs \cup told
<1>1. /\ c \in CoreType /\ evs \subseteq Event /\ Wakes(x, evs) /\ Heard(c, evs)
      /\ ("Lost" \in evs <=> c.phase = "lost")
      /\ (c.phase = "handshake" => v.core.phase = "handshake")
      /\ c.pos = v.core.pos /\ c.wire = v.core.wire
  BY DEF Reached
<1>2. x.core = c /\ u.core = d
  BY <1>1, WithCoreIs
<1> HIDE DEF x, u
<1>3. Wakes(u, all)
  BY <1>1, <1>2 DEF Wakes, x, u
<1>4. Heard(d, all)
  BY <1>1 DEF Heard
<1>5. "Lost" \in all <=> d.phase = "lost"
  BY <1>1
<1> QED BY <1>1, <1>3, <1>4, <1>5 DEF Reached, u

\* A frame for the receive half.
LEMMA RecvFrame ==
  ASSUME NEW v \in WorldType, NEW ks \in KindSeq, NEW c, NEW evs, Reached(v, ks, c, evs),
         NEW f \in {"data", "fin", "reset"}, Possible(c, f)
  PROVE  Reached(v, ks, Arrived(c, f), evs \cup Told(c, f))
<1> DEFINE x == WithCore(v, c)
           d == Arrived(c, f)
           u == WithCore(v, d)
           told == {"Readable"}
<1>1. /\ c \in CoreType /\ c.unread \in Nat /\ c.arrived \in Nat /\ c.arrived <= MaxBytes /\ MaxBytes \in Nat
      /\ Sides(x, ks)
  BY CoreFields, DriverAssumption DEF Reached
<1>2. c.phase = "open" /\ c.recv = "open" /\ (f = "data" => c.arrived < MaxBytes /\ ~c.fin)
  BY DEF Possible
<1>3. x.core = c /\ x.parked = v.parked /\ x.ans = v.ans /\ x.wasted = v.wasted
  BY <1>1, WithCoreIs
<1>4. /\ d \in CoreType /\ d.phase = c.phase /\ SendCoreSame(c, d) /\ AcceptCoreSame(c, d) /\ d.pos = c.pos
      /\ d.ended = c.ended
      /\ (d.recv # "open" => d.unread = 0)
      /\ d.unread \in Nat /\ d.unread <= c.unread + (d.arrived - c.arrived) /\ d.arrived \in Nat /\ d.arrived >= c.arrived
  <2>1. CASE f = "data"
    <3>1. d = [c EXCEPT !.unread = @ + 1, !.arrived = @ + 1]
      BY <2>1 DEF Arrived
    <3> HIDE DEF d
    <3>2. d \in CoreType /\ d.phase = c.phase /\ SendCoreSame(c, d) /\ AcceptCoreSame(c, d) /\ d.pos = c.pos
      <4> DEFINE n == c.unread + 1
                 m == c.arrived + 1
      <4>1. n \in Nat /\ m \in 0..MaxBytes
        BY <2>1, <1>1, <1>2
      <4>2. d = [c EXCEPT !.unread = n, !.arrived = m]
        BY <3>1
      <4> HIDE DEF n, m
      <4> QED BY <4>1, <4>2, <1>1 DEF CoreType, SendCoreSame, AcceptCoreSame
    <3>3. /\ d.ended = c.ended /\ (d.recv # "open" => d.unread = 0)
          /\ d.unread \in Nat /\ d.unread <= c.unread + (d.arrived - c.arrived) /\ d.arrived \in Nat /\ d.arrived >= c.arrived
      BY <3>1, <2>1, <1>1, <1>2 DEF CoreType
    <3> QED BY <3>2, <3>3
  <2>2. CASE f = "fin"
    <3>1. d = [c EXCEPT !.fin = TRUE]
      BY <2>2 DEF Arrived
    <3> HIDE DEF d
    <3>2. d \in CoreType /\ d.phase = c.phase /\ SendCoreSame(c, d) /\ AcceptCoreSame(c, d) /\ d.pos = c.pos
      BY <3>1, <2>2, <1>1, <1>2 DEF CoreType, SendCoreSame, AcceptCoreSame
    <3>3. /\ d.ended = c.ended /\ (d.recv # "open" => d.unread = 0)
          /\ d.unread \in Nat /\ d.unread <= c.unread + (d.arrived - c.arrived) /\ d.arrived \in Nat /\ d.arrived >= c.arrived
      BY <3>1, <2>2, <1>1, <1>2 DEF CoreType
    <3> QED BY <3>2, <3>3
  <2>3. CASE f = "reset"
    <3>1. d = [c EXCEPT !.recv = "reset", !.unread = 0]
      BY <2>3 DEF Arrived
    <3> HIDE DEF d
    <3>2. d \in CoreType /\ d.phase = c.phase /\ SendCoreSame(c, d) /\ AcceptCoreSame(c, d) /\ d.pos = c.pos
      BY <3>1, <2>3, <1>1, <1>2 DEF CoreType, SendCoreSame, AcceptCoreSame, RecvState
    <3>3. /\ d.ended = c.ended /\ (d.recv # "open" => d.unread = 0)
          /\ d.unread \in Nat /\ d.unread <= c.unread + (d.arrived - c.arrived) /\ d.arrived \in Nat /\ d.arrived >= c.arrived
      BY <3>1, <2>3, <1>1, <1>2 DEF CoreType
    <3> QED BY <3>2, <3>3
  <2> QED BY <2>1, <2>2, <2>3
<1>5. Told(c, f) = told
  BY DEF Told
<1> HIDE DEF d, told, x
<1>6. u.core = d /\ u.parked = v.parked /\ u.ans = v.ans /\ u.wasted = v.wasted
  BY <1>4, WithCoreIs
<1> HIDE DEF u
<1>7. RecvSide(u, ks)
  <2>1. RecvSide(x, ks)
    BY <1>1 DEF Sides
  <2>2. c.unread <= c.arrived /\ ~c.ended
    BY <1>2, <1>3, <2>1 DEF RecvSide
  <2>3. d.unread <= d.arrived
    BY <1>1, <1>4, <2>2
  <2>4. \A o \in 1..Len(ks) : ~(ks[o] = "end" /\ v.ans[o] = "Ok")
    BY <1>2, <1>3, <2>1 DEF RecvSide
  <2>5. v.wasted > 0 => \E o \in 1..Len(ks) : ks[o] \in {"read", "end"} /\ v.ans[o] \notin {"Ok", "waiting"}
    BY <1>3, <2>1 DEF RecvSide
  <2>6. /\ v.parked.read.op = NoOp => v.parked.read.got = 0
        /\ v.parked.read.kind = "read" => v.parked.read.got = 0
        /\ v.parked.read.op # NoOp =>
             /\ v.parked.read.op \in 1..Len(ks) /\ ks[v.parked.read.op] = v.parked.read.kind
             /\ v.ans[v.parked.read.op] \in {"waiting", "abandoned"}
    BY <1>3, <2>1 DEF RecvSide, Owed
  <2> QED BY <1>4, <1>6, <2>2, <2>3, <2>4, <2>5, <2>6 DEF RecvSide, Owed
<1>8. /\ SendSide(u, ks) /\ (WriteQuiet(x) => WriteQuiet(u)) /\ (FinQuiet(x) => FinQuiet(u))
      /\ AcceptSide(u, ks) /\ (AcceptQuiet(x) => AcceptQuiet(u))
  BY <1>1, <1>4, FrameKeeps DEF x, u
<1>9. /\ told \subseteq Event /\ "Readable" \in told /\ "Lost" \notin told /\ Heard(d, told)
  BY DEF told, Event, Order, Heard
<1>10. d.acked = c.acked /\ d.wire = c.wire
  BY <1>4 DEF SendCoreSame
<1>11. Sides(u, ks)
  BY <1>7, <1>8 DEF Sides
<1>12. Reached(v, ks, d, evs \cup told)
  BY <1>2, <1>4, <1>8, <1>9, <1>10, <1>11, ReachedNext DEF x, u
<1> QED BY <1>5, <1>12 DEF d

\* A frame for the send half.
LEMMA SendFrameReached ==
  ASSUME NEW v \in WorldType, NEW ks \in KindSeq, NEW c, NEW evs, Reached(v, ks, c, evs), c.phase = "open",
         NEW d \in CoreType, d.phase = c.phase, RecvCoreSame(c, d), AcceptCoreSame(c, d), d.wire = c.wire,
         SendCore(d), c.acked => d.acked,
         NEW told, told \subseteq {"Writable", "Stopped", "FinAcked"}, "FinAcked" \in told => d.acked,
         "Writable" \notin told /\ "Stopped" \notin told /\ v.parked.write.op # NoOp =>
           \/ c.send = "ready" /\ c.credit = 0 /\ ~c.stopped => d.send = "ready" /\ d.credit = 0 /\ ~d.stopped
           \/ d.send \in {"finished", "gone"},
         "Writable" \notin told /\ "Stopped" \notin told /\ c.send \in {"finished", "gone"} => d.send \in {"finished", "gone"},
         "FinAcked" \notin told /\ "Stopped" \notin told /\ c.send = "finished" /\ ~c.stopped =>
           d.send = "finished" /\ ~d.stopped
  PROVE  Reached(v, ks, d, evs \cup told)
<1> DEFINE x == WithCore(v, c)
           u == WithCore(v, d)
<1>1. c \in CoreType /\ Sides(x, ks)
  BY DEF Reached
<1>2. x.core = c /\ x.parked = v.parked /\ x.ans = v.ans
  BY <1>1, WithCoreIs
<1>3. u.core = d /\ u.parked = v.parked /\ u.ans = v.ans
  BY WithCoreIs
<1>4. /\ RecvSide(u, ks) /\ (ReadQuiet(x) => ReadQuiet(u))
      /\ AcceptSide(u, ks) /\ (AcceptQuiet(x) => AcceptQuiet(u))
  BY <1>1, FrameKeeps
<1> HIDE DEF x, u
<1>5. SendSide(u, ks)
  <2>1. SendSide(x, ks)
    BY <1>1 DEF Sides
  <2>2. WriteParked(u, ks)
    BY <1>2, <1>3, <2>1 DEF SendSide, WriteParked, Owed
  <2>3. SentIsSent(u, ks)
    BY <1>2, <1>3, <2>1 DEF SendSide, SentIsSent
  <2> QED BY <1>2, <1>3, <2>1, <2>2, <2>3 DEF SendSide
<1>6. "Writable" \notin told /\ "Stopped" \notin told => (WriteQuiet(x) => WriteQuiet(u))
  BY <1>2, <1>3 DEF WriteQuiet
<1>7. "FinAcked" \notin told /\ "Stopped" \notin told => (FinQuiet(x) => FinQuiet(u))
  BY <1>2, <1>3 DEF FinQuiet
<1>8. /\ told \subseteq Event /\ "Lost" \notin told /\ Heard(d, told)
  BY DEF Event, Order, Heard
<1>9. Sides(u, ks) /\ d.pos = c.pos
  BY <1>4, <1>5 DEF Sides, RecvCoreSame
<1> QED BY <1>4, <1>6, <1>7, <1>8, <1>9, ReachedNext DEF x, u

\* More credit, a stop, the acknowledgement of the FIN.
LEMMA SendFrame ==
  ASSUME NEW v \in WorldType, NEW ks \in KindSeq, NEW c, NEW evs, Reached(v, ks, c, evs),
         NEW f \in {"credit", "stop", "ack"}, Possible(c, f)
  PROVE  Reached(v, ks, Arrived(c, f), evs \cup Told(c, f))
<1> DEFINE d == Arrived(c, f)
           told == Told(c, f)
<1>1. /\ c \in CoreType /\ c.credit \in Nat /\ c.granted \in 0..MaxCredit /\ MaxCredit \in Nat /\ c.fact \in Fact
      /\ Sides(WithCore(v, c), ks) /\ c.phase = "open" /\ Len(c.wire) \in Nat /\ c.send \in SendState
  <2>1. c \in CoreType /\ Sides(WithCore(v, c), ks)
    BY DEF Reached
  <2>2. c.phase = "open"
    BY DEF Possible
  <2>3. c.wire \in Seq(Op) /\ c.credit \in Nat /\ c.granted \in 0..MaxCredit /\ c.fact \in Fact /\ c.send \in SendState
    BY <2>1, CoreFields
  <2> QED BY <2>1, <2>2, <2>3, DriverAssumption
<1>2. SendCore(c) /\ WithCore(v, c).core = c /\ WithCore(v, c).parked = v.parked
  BY <1>1, WithCoreIs DEF Sides, SendSide
<1>3. CASE f = "credit"
  <2> DEFINE n == c.credit + 1
             m == c.granted + 1
  <2>1. c.send = "ready" /\ ~c.stopped /\ c.granted < MaxCredit
    BY <1>3 DEF Possible
  <2>2. n \in Nat /\ m \in 0..MaxCredit /\ Len(c.wire) + n <= m
    BY <1>1, <1>2, <2>1 DEF SendCore
  <2>3. d = [c EXCEPT !.credit = n, !.granted = m]
    BY <1>3 DEF Arrived
  <2>4. told = IF c.credit = 0 THEN {"Writable"} ELSE {}
    BY <1>3 DEF Told
  <2>10. n # 0
    BY <1>1
  <2> HIDE DEF n, m, d, told
  <2>5. /\ d \in CoreType /\ d.phase = c.phase /\ RecvCoreSame(c, d) /\ AcceptCoreSame(c, d)
        /\ d.wire = c.wire /\ d.acked = c.acked /\ d.send = c.send /\ d.stopped = c.stopped
        /\ d.fact = c.fact /\ d.credit = n /\ d.granted = m
    BY <1>1, <2>2, <2>3 DEF CoreType, RecvCoreSame, AcceptCoreSame
  <2>6. SendCore(d)
    BY <1>2, <2>2, <2>5 DEF SendCore
  <2>7. told \subseteq {"Writable", "Stopped", "FinAcked"} /\ "FinAcked" \notin told
        /\ ("Writable" \notin told => c.credit # 0)
    BY <2>4
  <2>8. Reached(v, ks, d, evs \cup told)
    BY <1>1, <2>1, <2>5, <2>6, <2>7, SendFrameReached
  <2> QED BY <2>8 DEF d, told
<1>4. CASE f = "stop"
  <2>1. c.send # "gone" /\ ~c.stopped
    BY <1>4 DEF Possible
  <2>2. c.fact \notin {"Acked", "Stopped"}
    BY <1>2, <2>1 DEF SendCore
  <2>3. told = {"Stopped"}
    BY <1>4, <2>2 DEF Told
  <2>4. d = [c EXCEPT !.stopped = TRUE, !.fact = "Stopped"]
    <3> DEFINE e == [c EXCEPT !.stopped = TRUE]
    <3>1. d = Record(e, "Stopped")
      BY <1>4 DEF Arrived
    <3>2. e.fact = c.fact
      BY <1>1 DEF CoreType
    <3>3. d = [e EXCEPT !.fact = "Stopped"]
      BY <2>2, <3>1, <3>2 DEF Record
    <3> HIDE DEF d
    <3> QED BY <3>3, <1>1 DEF CoreType
  <2> HIDE DEF d, told
  <2>5. /\ d \in CoreType /\ d.phase = c.phase /\ RecvCoreSame(c, d) /\ AcceptCoreSame(c, d)
        /\ d.wire = c.wire /\ d.acked = c.acked /\ d.send = c.send /\ d.stopped = TRUE
        /\ d.fact = "Stopped" /\ d.credit = c.credit /\ d.granted = c.granted
    BY <1>1, <2>4 DEF CoreType, RecvCoreSame, AcceptCoreSame, Fact
  <2>6. SendCore(d)
    BY <1>2, <2>5 DEF SendCore
  <2>7. told \subseteq {"Writable", "Stopped", "FinAcked"} /\ "FinAcked" \notin told /\ "Stopped" \in told
    BY <2>3
  <2>8. Reached(v, ks, d, evs \cup told)
    BY <1>1, <2>1, <2>5, <2>6, <2>7, SendFrameReached
  <2> QED BY <2>8 DEF d, told
<1>5. CASE f = "ack"
  <2> DEFINE e == [c EXCEPT !.send = "gone", !.acked = TRUE]
             fact == IF c.fact = "Stopped" THEN "Stopped" ELSE "Acked"
  <2>1. c.send = "finished" /\ c.fact # "Acked"
    BY <1>2, <1>5 DEF Possible, SendCore
  <2>2. told = IF c.fact = "Stopped" THEN {} ELSE {"FinAcked"}
    BY <1>5, <2>1 DEF Told
  <2>3. d = [c EXCEPT !.send = "gone", !.acked = TRUE, !.fact = fact]
    <3>1. d = Record(e, "Acked")
      BY <1>5 DEF Arrived
    <3>2. e.fact = c.fact
      BY <1>1 DEF CoreType
    <3>3. d = IF c.fact = "Stopped" THEN e ELSE [e EXCEPT !.fact = "Acked"]
      BY <2>1, <3>1, <3>2 DEF Record
    <3> HIDE DEF d
    <3> QED BY <3>3, <1>1 DEF CoreType
  <2>4. fact \in Fact /\ (fact = "Stopped" <=> c.fact = "Stopped") /\ fact \in {"Acked", "Stopped"}
    BY DEF Fact
  <2> HIDE DEF d, told, fact, e
  <2>5. /\ d \in CoreType /\ d.phase = c.phase /\ RecvCoreSame(c, d) /\ AcceptCoreSame(c, d)
        /\ d.wire = c.wire /\ d.acked = TRUE /\ d.send = "gone" /\ d.stopped = c.stopped
        /\ d.fact = fact /\ d.credit = c.credit /\ d.granted = c.granted
    BY <1>1, <2>3, <2>4 DEF CoreType, RecvCoreSame, AcceptCoreSame, SendState
  <2>6. SendCore(d)
    BY <1>2, <2>4, <2>5 DEF SendCore
  <2>7. told \subseteq {"Writable", "Stopped", "FinAcked"} /\ ("FinAcked" \notin told => c.stopped)
    BY <1>2, <2>2 DEF SendCore
  <2>8. Reached(v, ks, d, evs \cup told)
    BY <1>1, <2>1, <2>5, <2>6, <2>7, SendFrameReached
  <2> QED BY <2>8 DEF d, told
<1> QED BY <1>3, <1>4, <1>5

\* The end of the handshake, a stream, the end of the connection.
LEMMA OtherFrame ==
  ASSUME NEW v \in WorldType, NEW ks \in KindSeq, NEW c, NEW evs, Reached(v, ks, c, evs),
         v.core.phase = "handshake" => Len(ks) = 0,
         NEW f \in {"handshake", "open", "close"}, Possible(c, f)
  PROVE  Reached(v, ks, Arrived(c, f), evs \cup Told(c, f))
<1> DEFINE x == WithCore(v, c)
           d == Arrived(c, f)
           u == WithCore(v, d)
           told == Told(c, f)
<1>1. c \in CoreType /\ Sides(x, ks) /\ c.ready \in Nat /\ c.opened \in 0..MaxStreams /\ MaxStreams \in Nat
  BY CoreFields, DriverAssumption DEF Reached
<1>2. x.core = c /\ x.parked = v.parked /\ x.ans = v.ans /\ x.given = v.given
  BY <1>1, WithCoreIs
<1>3. c.phase # "lost"
  BY DEF Possible
<1>4. CASE f \in {"handshake", "close"}
  <2> DEFINE phase == IF f = "handshake" THEN "open" ELSE "lost"
             event == IF f = "handshake" THEN "Connected" ELSE "Lost"
  <2>1. phase \in Phase /\ (phase = "lost" <=> event = "Lost") /\ phase # "handshake"
        /\ event \in {"Connected", "Lost"}
    BY <1>4 DEF Phase
  <2>2. d = [c EXCEPT !.phase = phase]
    BY <1>4 DEF Arrived
  <2>3. told = {event}
    BY <1>4 DEF Told
  <2>4. phase # "lost" => v.parked.write.op = NoOp
    <3>1. HAVE phase # "lost"
    <3>2. f = "handshake"
      BY <1>4, <3>1
    <3>3. c.phase = "handshake"
      BY <3>2 DEF Possible
    <3>4. v.core.phase = "handshake"
      BY <3>3 DEF Reached
    <3>5. Len(ks) = 0
      BY <3>4
    <3>6. x.parked.write.op # NoOp => x.parked.write.op \in 1..Len(ks)
      BY <1>1 DEF Sides, SendSide, WriteParked
    <3>7. \A o : o \notin 1..0
      OBVIOUS
    <3> HIDE DEF x
    <3> QED BY <1>2, <3>5, <3>6, <3>7
  <2> HIDE DEF d, told, phase, event
  <2>5. /\ d \in CoreType /\ d.phase = phase /\ RecvCoreSame(c, d) /\ SendCoreSame(c, d) /\ AcceptCoreSame(c, d)
    BY <1>1, <2>1, <2>2 DEF CoreType, RecvCoreSame, SendCoreSame, AcceptCoreSame
  <2>6. u.core = d /\ u.parked = v.parked
    BY <2>5, WithCoreIs
  <2>7. /\ RecvSide(u, ks) /\ (ReadQuiet(x) => ReadQuiet(u))
        /\ SendSide(u, ks) /\ (FinQuiet(x) => FinQuiet(u))
        /\ AcceptSide(u, ks) /\ (AcceptQuiet(x) => AcceptQuiet(u))
    BY <1>1, <2>5, FrameKeeps
  <2> HIDE DEF x, u
  <2>8. d.phase # "lost" => WriteQuiet(u)
    BY <2>4, <2>5, <2>6 DEF WriteQuiet
  <2>9. told \subseteq Event /\ ("Lost" \in told <=> d.phase = "lost") /\ Heard(d, told)
    BY <2>1, <2>3, <2>5 DEF Event, Order, Heard
  <2>10. Sides(u, ks) /\ d.pos = c.pos /\ d.wire = c.wire /\ d.acked = c.acked /\ d.phase # "handshake"
    BY <2>1, <2>5, <2>7 DEF Sides, RecvCoreSame, SendCoreSame
  <2>11. Reached(v, ks, d, evs \cup told)
    BY <1>3, <2>5, <2>7, <2>8, <2>9, <2>10, ReachedNext DEF x, u
  <2> QED BY <2>11 DEF d, told
<1>5. CASE f = "open"
  <2> DEFINE n == c.ready + 1
             m == c.opened + 1
  <2>1. c.opened < MaxStreams /\ c.phase = "open"
    BY <1>5 DEF Possible
  <2>2. c.ready <= c.opened
    BY <1>1, <1>2 DEF Sides, AcceptSide
  <2>3. n \in Nat /\ m \in 0..MaxStreams /\ n <= m
    BY <1>1, <2>1, <2>2
  <2>4. d = [c EXCEPT !.ready = n, !.opened = m]
    BY <1>5 DEF Arrived
  <2>5. told = {"Opened"}
    BY <1>5 DEF Told
  <2> HIDE DEF d, told, n, m
  <2>6. /\ d \in CoreType /\ d.phase = c.phase /\ RecvCoreSame(c, d) /\ SendCoreSame(c, d)
        /\ d.ready = n /\ d.opened = m
    BY <1>1, <2>3, <2>4 DEF CoreType, RecvCoreSame, SendCoreSame
  <2>7. u.core = d /\ u.parked = v.parked /\ u.given = v.given
    BY <2>6, WithCoreIs
  <2>8. /\ RecvSide(u, ks) /\ (ReadQuiet(x) => ReadQuiet(u))
        /\ SendSide(u, ks) /\ (WriteQuiet(x) => WriteQuiet(u)) /\ (FinQuiet(x) => FinQuiet(u))
    BY <1>1, <2>6, FrameKeeps
  <2> HIDE DEF x, u
  <2>9. AcceptSide(u, ks)
    <3>1. AcceptSide(x, ks)
      BY <1>1 DEF Sides
    <3> QED BY <1>2, <2>3, <2>6, <2>7, <3>1 DEF AcceptSide
  <2>10. told \subseteq Event /\ "Lost" \notin told /\ "Opened" \in told /\ Heard(d, told)
    BY <2>5 DEF Event, Order, Heard
  <2>11. Sides(u, ks) /\ d.pos = c.pos /\ d.wire = c.wire /\ d.acked = c.acked
    BY <2>6, <2>8, <2>9 DEF Sides, RecvCoreSame, SendCoreSame
  <2>12. Reached(v, ks, d, evs \cup told)
    BY <2>1, <2>6, <2>8, <2>10, <2>11, ReachedNext DEF x, u
  <2> QED BY <2>12 DEF d, told
<1> QED BY <1>4, <1>5

\* What has come of a datagram so far.
Delivering == [ok : BOOLEAN, core : CoreType, events : SUBSET Event]
DeliveredWell(v, ks, d) == d \in Delivering /\ (d.ok => Reached(v, ks, d.core, d.events))

\* A frame, or what makes a datagram impossible.
LEMMA DeliverFrameWell ==
  ASSUME NEW v \in WorldType, NEW ks \in KindSeq, v.core.phase = "handshake" => Len(ks) = 0,
         NEW d, DeliveredWell(v, ks, d), NEW f \in Frame
  PROVE  DeliveredWell(v, ks, DeliverFrame(d, f))
<1>1. d \in Delivering /\ (d.ok => Reached(v, ks, d.core, d.events))
  BY DEF DeliveredWell
<1>2. CASE d.ok /\ Possible(d.core, f)
  <2> DEFINE c == d.core
             evs == d.events
             e == Arrived(c, f)
             told == Told(c, f)
             t == [ok |-> TRUE, core |-> e, events |-> evs \cup told]
  <2>1. DeliverFrame(d, f) = t
    BY <1>2 DEF DeliverFrame
  <2>2. Reached(v, ks, c, evs) /\ Possible(c, f)
    BY <1>1, <1>2
  <2> HIDE DEF c, evs
  <2>3. Reached(v, ks, e, evs \cup told)
    <3>1. CASE f \in {"data", "fin", "reset"}
      BY <2>2, <3>1, RecvFrame
    <3>2. CASE f \in {"credit", "stop", "ack"}
      BY <2>2, <3>2, SendFrame
    <3>3. CASE f \in {"handshake", "open", "close"}
      BY <2>2, <3>3, OtherFrame
    <3> QED BY <3>1, <3>2, <3>3 DEF Frame
  <2> HIDE DEF e, told
  <2>4. e \in CoreType /\ evs \cup told \subseteq Event
    BY <2>3 DEF Reached
  <2>5. t \in Delivering /\ t.core = e /\ t.events = evs \cup told
    BY <2>4 DEF Delivering
  <2> HIDE DEF t
  <2> QED BY <2>1, <2>3, <2>5 DEF DeliveredWell
<1>3. CASE ~(d.ok /\ Possible(d.core, f))
  <2> DEFINE t == [d EXCEPT !.ok = FALSE]
  <2>1. DeliverFrame(d, f) = t
    BY <1>3 DEF DeliverFrame
  <2>2. t \in Delivering /\ ~t.ok
    BY <1>1 DEF Delivering
  <2> HIDE DEF t
  <2> QED BY <2>1, <2>2 DEF DeliveredWell
<1> QED BY <1>2, <1>3

\* A datagram, however many frames it has.
LEMMA DeliverReached ==
  ASSUME w \in WorldType, kinds \in KindSeq, w.core.phase = "handshake" => Len(kinds) = 0,
         Reached(w, kinds, w.core, {}), NEW fs \in Seq(Frame), Deliver(fs).ok
  PROVE  Reached(w, kinds, Deliver(fs).core, Deliver(fs).events)
<1> DEFINE n == Len(fs)
           v == [ok |-> TRUE, core |-> w.core, events |-> {}]
           V == {d \in Delivering : DeliveredWell(w, kinds, d)}
           g == [p \in Nat \X V |-> IF p[1] \in 1..n THEN DeliverFrame(p[2], fs[p[1]]) ELSE p[2]]
           Turn(f) == [i \in 0..n |-> IF i = 0 THEN v ELSE DeliverFrame(f[i - 1], fs[i])]
           after == CHOOSE h : h = Turn(h)
<1>1. n \in Nat /\ \A i \in 1..n : fs[i] \in Frame
  OBVIOUS
<1>2. v \in V
  <2>1. v \in Delivering /\ v.core = w.core /\ v.events = {}
    BY WorldFields DEF Delivering
  <2> HIDE DEF v
  <2> QED BY <2>1 DEF DeliveredWell
<1>3. \A d \in V : \A i \in 1..n : DeliverFrame(d, fs[i]) \in V
  <2> SUFFICES ASSUME NEW d \in V, NEW i \in 1..n PROVE DeliverFrame(d, fs[i]) \in V
    OBVIOUS
  <2>1. fs[i] \in Frame /\ DeliveredWell(w, kinds, d)
    BY <1>1
  <2>2. DeliveredWell(w, kinds, DeliverFrame(d, fs[i]))
    BY <2>1, DeliverFrameWell
  <2> QED BY <2>2 DEF DeliveredWell
<1>4. g \in [Nat \X V -> V]
  <2> HIDE DEF V, n
  <2> QED BY <1>3
<1>5. PICK f : Iterates(V, v, n, g, f)
  <2> HIDE DEF V, v, n, g
  <2> QED BY <1>1, <1>2, <1>4, PrimRec
<1>6. f = Turn(f)
  <2> HIDE DEF V, v, n
  <2>1. f \in [0..n -> V] /\ f[0] = v /\ \A i \in 1..n : f[i] = g[<<i, f[i - 1]>>]
    BY <1>5 DEF Iterates
  <2>2. ASSUME NEW i \in 1..n PROVE f[i] = DeliverFrame(f[i - 1], fs[i])
    <3>1. <<i, f[i - 1]>> \in Nat \X V
      BY <1>1, <2>1
    <3> QED BY <2>1, <3>1
  <2>3. \A i \in 0..n : f[i] = Turn(f)[i]
    <3> TAKE i \in 0..n
    <3>1. CASE i = 0
      BY <2>1, <3>1
    <3>2. CASE i # 0
      <4>1. i \in 1..n
        BY <1>1, <3>2
      <4> QED BY <2>2, <3>2, <4>1
    <3> QED BY <3>1, <3>2
  <2> QED BY <2>1, <2>3
<1>7. after = Turn(after)
  <2> HIDE DEF Turn
  <2> QED BY <1>6
<1>8. Deliver(fs) = after[n]
  BY DEF Deliver
<1> HIDE DEF after
<1>9. after[0] = v /\ \A i \in 1..n : after[i] = DeliverFrame(after[i - 1], fs[i])
  <2>1. \A i \in 0..n : after[i] = Turn(after)[i]
    BY <1>7
  <2> HIDE DEF n, v
  <2> QED BY <1>1, <2>1
<1>10. 0..n \subseteq {i \in 0..n : after[i] \in V}
  <2> DEFINE T == {i \in 0..n : after[i] \in V}
  <2> HIDE DEF V, n, v
  <2>1. 0 \in T
    BY <1>1, <1>2, <1>9
  <2>2. \A k \in 0..n : k \in T /\ k < n => k + 1 \in T
    <3> SUFFICES ASSUME NEW k \in 0..n, k \in T, k < n PROVE k + 1 \in T
      OBVIOUS
    <3>1. k + 1 \in 1..n /\ (k + 1) - 1 = k /\ k + 1 \in 0..n
      BY <1>1
    <3>2. after[k + 1] = DeliverFrame(after[k], fs[k + 1])
      BY <1>9, <3>1
    <3> QED BY <1>3, <3>1, <3>2
  <2> HIDE DEF T
  <2>3. 0..n \subseteq T
    BY <1>1, <2>1, <2>2, UpTo
  <2> QED BY <2>3 DEF T
<1>11. Deliver(fs) \in V
  BY <1>1, <1>8, <1>10
<1> QED BY <1>11 DEF DeliveredWell

-----------------------------------------------------------------------------
(* The actions                                                             *)

\* A command in the channel.
LEMMA CmdFields ==
  ASSUME NEW cs \in Seq([op : Op, kind : Kind]), NEW i \in 1..Len(cs)
  PROVE  cs[i] \in [op : Op, kind : Kind] /\ cs[i].op \in Op /\ cs[i].kind \in Kind /\ cs[i].op \in Nat
<1> DEFINE Cmd == [op : Op, kind : Kind]
<1>1. cs \in Seq(Cmd)
  OBVIOUS
<1> HIDE DEF Cmd
<1>2. cs[i] \in Cmd
  BY <1>1
<1>3. cs[i].op \in Op /\ cs[i].kind \in Kind
  BY <1>2 DEF Cmd
<1> QED BY <1>2, <1>3, OpsAssumption DEF Cmd, Op

\* The commands in the channel come after whatever a step with a smaller number does.
LEMMA QueuedAfterStep ==
  ASSUME NEW v \in WorldType, NEW u, NEW ks \in KindSeq, NEW op \in Nat, Step(v, u, ks, op),
         NEW cs \in Seq([op : Op, kind : Kind]), Queued(v, cs, ks), \A i \in 1..Len(cs) : cs[i].op > op
  PROVE  Queued(u, cs, ks)
<1>1. ASSUME NEW i \in 1..Len(cs)
      PROVE  /\ cs[i].op \in 1..Len(ks) /\ Before(u, cs[i].op)
             /\ cs[i].kind \notin Silent => ks[cs[i].op] = cs[i].kind /\ Owed(u, cs[i].op)
  <2>2. cs[i].op \in Op
    BY CmdFields
  <2>3. cs[i].op \in Nat
    BY CmdFields
  <2>4. /\ cs[i].op \in 1..Len(ks) /\ Before(v, cs[i].op) /\ cs[i].op > op
        /\ (cs[i].kind \notin Silent => ks[cs[i].op] = cs[i].kind /\ Owed(v, cs[i].op))
    BY DEF Queued
  <2> DEFINE o == cs[i].op
  <2> HIDE DEF o
  <2>5. Before(u, o) /\ u.ans[o] = v.ans[o]
    BY <2>2, <2>3, <2>4 DEF Step, o
  <2> QED BY <2>4, <2>5 DEF o, Owed
<1>2. \A i, j \in 1..Len(cs) : i < j => cs[i].op < cs[j].op
  BY DEF Queued
<1> QED BY <1>1, <1>2 DEF Queued

\* What does not depend on the core.
LEMMA CoreOnly ==
  ASSUME NEW v \in WorldType, NEW d \in CoreType, d.wire = v.core.wire, d.pos = v.core.pos
  PROVE  /\ \A o : Before(v, o) => Before(WithCore(v, d), o)
         /\ Bytes(v) => Bytes(WithCore(v, d))
         /\ \A cs, ks : Queued(v, cs, ks) => Queued(WithCore(v, d), cs, ks)
<1> DEFINE u == WithCore(v, d)
<1>1. /\ u.core = d /\ u.parked = v.parked /\ u.ans = v.ans /\ u.delivered = v.delivered
      /\ u.wasted = v.wasted /\ u.given = v.given
  BY WithCoreIs
<1> HIDE DEF u
<1>2. \A o : Before(v, o) => Before(u, o)
  BY <1>1 DEF Before, RecvBefore, SendBefore, AcceptBefore
<1>3. Bytes(v) => Bytes(u)
  BY <1>1 DEF Bytes
<1>4. \A cs, ks : Queued(v, cs, ks) => Queued(u, cs, ks)
  BY <1>1, <1>2 DEF Queued, Owed
<1> QED BY <1>2, <1>3, <1>4 DEF u

SetPhase(c, phase) == [c EXCEPT !.phase = phase]

\* A connection that starts to close, or that is lost, keeps what else it has.
LEMMA PhaseMoves ==
  ASSUME NEW v \in WorldType, NEW ks \in KindSeq, Sides(v, ks), NEW phase \in {"closing", "lost"}
  PROVE  LET u == WithCore(v, SetPhase(v.core, phase))
         IN  /\ u \in WorldType /\ u.core.phase = phase /\ u.core.acked = v.core.acked /\ Sides(u, ks)
             /\ (ReadQuiet(v) => ReadQuiet(u)) /\ WriteQuiet(u)
             /\ (AcceptQuiet(v) => AcceptQuiet(u)) /\ (FinQuiet(v) => FinQuiet(u))
             /\ \A o : Before(v, o) => Before(u, o)
             /\ Bytes(v) => Bytes(u)
             /\ \A cs, ls : Queued(v, cs, ls) => Queued(u, cs, ls)
<1> DEFINE c == v.core
           d == SetPhase(c, phase)
           u == WithCore(v, d)
<1>1. c \in CoreType /\ WithCore(v, c) = v
  BY SameCore
<1>2. /\ d \in CoreType /\ d.phase = phase /\ RecvCoreSame(c, d) /\ SendCoreSame(c, d) /\ AcceptCoreSame(c, d)
  BY <1>1 DEF SetPhase, CoreType, Phase, RecvCoreSame, SendCoreSame, AcceptCoreSame
<1>3. d.wire = c.wire /\ d.pos = c.pos /\ d.acked = c.acked
  BY <1>2 DEF RecvCoreSame, SendCoreSame
<1> HIDE DEF d
<1>4. u \in WorldType /\ u.core = d
  BY <1>2, WithCoreIs
<1>5. /\ RecvSide(u, ks) /\ (ReadQuiet(v) => ReadQuiet(u))
      /\ SendSide(u, ks) /\ (FinQuiet(v) => FinQuiet(u))
      /\ AcceptSide(u, ks) /\ (AcceptQuiet(v) => AcceptQuiet(u))
  <2>1. Sides(WithCore(v, c), ks)
    BY <1>1
  <2>2. /\ RecvSide(u, ks) /\ (ReadQuiet(WithCore(v, c)) => ReadQuiet(u))
        /\ SendSide(u, ks) /\ (FinQuiet(WithCore(v, c)) => FinQuiet(u))
        /\ AcceptSide(u, ks) /\ (AcceptQuiet(WithCore(v, c)) => AcceptQuiet(u))
    <3> HIDE DEF c
    <3> QED BY <1>1, <1>2, <2>1, FrameKeeps
  <2> QED BY <1>1, <2>2
<1>6. /\ (\A o : Before(v, o) => Before(u, o)) /\ (Bytes(v) => Bytes(u))
      /\ \A cs, ls : Queued(v, cs, ls) => Queued(u, cs, ls)
  BY <1>2, <1>3, CoreOnly
<1> HIDE DEF u
<1>7. WriteQuiet(u)
  BY <1>2, <1>4 DEF WriteQuiet
<1>8. Sides(u, ks) /\ u.core.phase = phase /\ u.core.acked = v.core.acked
  BY <1>2, <1>3, <1>4, <1>5 DEF Sides
<1> QED BY <1>4, <1>5, <1>6, <1>7, <1>8 DEF u, d

\* The invariant to begin with.
LEMMA InitInv == Init => IInv
<1> SUFFICES ASSUME Init PROVE IInv
  OBVIOUS
<1> DEFINE ans == [o \in Op |-> "idle"]
           none == <<>>
<1>1. NewCore \in CoreType
  BY DriverAssumption DEF NewCore, CoreType, Phase, RecvState, SendState, Fact
<1>2. NewParked \in ParkedType
  BY SizeAssumption DEF NewParked, ParkedType, NoWrite, WriteType, NoRead, ReadType
<1>3. ans \in [Op -> Answer]
  BY DEF Answer
<1>4. /\ w = [core |-> NewCore, parked |-> NewParked, ans |-> ans,
              closed |-> FALSE, delivered |-> 0, wasted |-> 0, given |-> <<>>]
      /\ events = {} /\ cmds = <<>> /\ task = [state |-> "running", lost |-> FALSE]
      /\ oneshot = "empty" /\ connect = "pending" /\ kinds = <<>> /\ scene \in Scenario
  BY DEF Init
<1>5. w \in WorldType
  <2> HIDE DEF ans
  <2> QED BY <1>1, <1>2, <1>3, <1>4 DEF WorldType
<1>6. kinds \in KindSeq /\ Len(kinds) = 0
  BY <1>4, OpsAssumption DEF KindSeq
<1>7. Typed
  BY <1>4, <1>5, <1>6, DriverAssumption DEF Typed
<1>8. w.core = NewCore /\ w.parked = NewParked /\ w.delivered = 0 /\ w.wasted = 0 /\ w.given = <<>>
  BY <1>4
<1>9. /\ w.core.phase = "handshake" /\ w.core.recv = "open" /\ w.core.unread = 0 /\ w.core.pos = 0
      /\ w.core.arrived = 0 /\ w.core.ended = FALSE /\ w.core.credit = 0 /\ w.core.granted = 0
      /\ w.core.fact = "None" /\ w.core.wire = <<>> /\ w.core.ready = 0 /\ w.core.opened = 0
  BY <1>8 DEF NewCore
<1>10. /\ w.parked.read = NoRead /\ w.parked.write = NoWrite /\ w.parked.fins = {} /\ w.parked.accepts = <<>>
       /\ w.parked.read.op = NoOp /\ w.parked.read.got = 0 /\ w.parked.write.op = NoOp
  BY <1>8 DEF NewParked, NoRead, NoWrite
<1>11. \A o : o \notin 1..0
  OBVIOUS
<1>12. Len(w.core.wire) = 0 /\ Len(w.given) = 0 /\ Len(w.parked.accepts) = 0
  BY <1>8, <1>9, <1>10
<1>13. RecvSide(w, kinds)
  BY <1>6, <1>8, <1>9, <1>10, <1>11 DEF RecvSide
<1>14. SendSide(w, kinds)
  <2>1. SendCore(w.core)
    BY <1>9, <1>11, <1>12 DEF SendCore
  <2> QED BY <1>6, <1>10, <1>11, <2>1 DEF SendSide, WriteParked, SentIsSent
<1>15. AcceptSide(w, kinds)
  BY <1>9, <1>11, <1>12 DEF AcceptSide
<1>16. Before(w, Len(kinds) + 1)
  BY <1>6, <1>10, <1>11, <1>12 DEF Before, RecvBefore, SendBefore, AcceptBefore, NoOp
<1>17. Queued(w, cmds, kinds)
  <2>1. Len(cmds) = 0
    BY <1>4
  <2> QED BY <2>1, <1>11 DEF Queued
<1>18. Wakes(w, events) /\ Heard(w.core, events)
  BY <1>4, <1>10 DEF Wakes, Heard, ReadQuiet, WriteQuiet, AcceptQuiet, FinQuiet
<1>19. EndIsTold(w.core.phase, events, task) /\ Handles(w.core.phase, oneshot, connect, kinds)
  BY <1>4, <1>6, <1>9 DEF EndIsTold, Handles
<1>20. Bytes(w)
  BY <1>8, <1>9, <1>10 DEF Bytes
<1> QED BY <1>7, <1>13, <1>14, <1>15, <1>16, <1>17, <1>18, <1>19, <1>20 DEF IInv, Sides

\* A driver that waits in select! has heard everything.
LEMMA SelectingIs ==
  ASSUME IInv, Selecting
  PROVE  /\ task.state # "stopped" /\ events = {} /\ ~task.lost /\ w.core.phase # "lost" /\ Bytes(w)
         /\ ReadQuiet(w) /\ WriteQuiet(w) /\ AcceptQuiet(w) /\ FinQuiet(w)
<1>1. task.state # "stopped" /\ events = {} /\ ~task.lost
  BY DEF Selecting
<1>2. w.core.phase # "lost"
  BY <1>1 DEF IInv, EndIsTold
<1>3. Wakes(w, {}) /\ Bytes(w)
  BY <1>1 DEF IInv
<1>4. ReadQuiet(w) /\ WriteQuiet(w) /\ AcceptQuiet(w) /\ FinQuiet(w)
  BY <1>2, <1>3 DEF Wakes
<1> QED BY <1>1, <1>2, <1>3, <1>4

\* The frames of a datagram.
LEMMA DatagramIs ==
  ASSUME scene \in Scenario, NEW fs \in Datagrams
  PROVE  fs \in Seq(Frame)
<1>1. scene.frames \subseteq Frame
  BY ScenarioAssumption
<1>2. PICK n \in 1..MaxFrames : fs \in [1..n -> scene.frames]
  BY DEF Datagrams
<1>3. n \in Nat /\ fs \in [1..n -> Frame]
  BY <1>1, <1>2, DriverAssumption
<1> QED BY <1>3

\* A datagram arrives.
LEMMA RecvDatagramInv ==
  ASSUME IInv, NEW fs \in Datagrams, RecvDatagram(fs), scene' = scene
  PROVE  IInv'
<1> DEFINE d == Deliver(fs).core
           evs == Deliver(fs).events
           u == WithCore(w, d)
<1>1. Selecting /\ Deliver(fs).ok /\ w' = u /\ events' = evs
      /\ cmds' = cmds /\ task' = task /\ oneshot' = oneshot /\ connect' = connect /\ kinds' = kinds
  BY DEF RecvDatagram, WithCore
<1>2. /\ task.state # "stopped" /\ events = {} /\ ~task.lost /\ w.core.phase # "lost" /\ Bytes(w)
  BY <1>1, SelectingIs
<1>3. /\ w \in WorldType /\ kinds \in KindSeq /\ scene \in Scenario /\ Sides(w, kinds) /\ Wakes(w, {})
      /\ Heard(w.core, {}) /\ Before(w, Len(kinds) + 1) /\ Queued(w, cmds, kinds)
      /\ Handles(w.core.phase, oneshot, connect, kinds) /\ Typed
  BY <1>2 DEF IInv, Typed
<1>4. w.core.phase = "handshake" => Len(kinds) = 0
  <2>1. Len(kinds) \in Nat
    BY <1>3 DEF KindSeq
  <2> QED BY <1>3, <2>1 DEF Handles
<1>5. Reached(w, kinds, w.core, {})
  <2>1. WithCore(w, w.core) = w /\ w.core \in CoreType
    BY <1>3, SameCore
  <2> QED BY <1>2, <1>3, <2>1 DEF Reached
<1>6. Reached(w, kinds, d, evs)
  <2>1. fs \in Seq(Frame)
    BY <1>3, DatagramIs
  <2> QED BY <1>1, <1>3, <1>4, <1>5, <2>1, DeliverReached
<1> HIDE DEF d, evs
<1>7. /\ d \in CoreType /\ evs \subseteq Event /\ Sides(u, kinds) /\ Wakes(u, evs) /\ Heard(d, evs)
      /\ ("Lost" \in evs <=> d.phase = "lost")
      /\ (d.phase = "handshake" => w.core.phase = "handshake")
      /\ d.pos = w.core.pos /\ d.wire = w.core.wire
  BY <1>6 DEF Reached
<1>8. u \in WorldType /\ u.core = d
  BY <1>3, <1>7, WithCoreIs
<1>9. Before(u, Len(kinds) + 1) /\ Bytes(u) /\ Queued(u, cmds, kinds)
  BY <1>2, <1>3, <1>7, CoreOnly
<1> HIDE DEF u
<1>10. Typed'
  BY <1>1, <1>3, <1>7, <1>8 DEF Typed
<1>11. EndIsTold(d.phase, evs, task) /\ Handles(d.phase, oneshot, connect, kinds)
  BY <1>2, <1>3, <1>7 DEF EndIsTold, Handles
<1> QED BY <1>1, <1>7, <1>8, <1>9, <1>10, <1>11 DEF IInv

\* The timer of the connection runs out.
LEMMA ExpireInv ==
  ASSUME IInv, Expire, scene' = scene
  PROVE  IInv'
<1> DEFINE lost == "lost"
           u == WithCore(w, SetPhase(w.core, lost))
<1>1. Selecting /\ events' = {"Lost"}
      /\ cmds' = cmds /\ task' = task /\ oneshot' = oneshot /\ connect' = connect /\ kinds' = kinds
      /\ w' = [w EXCEPT !.core.phase = "lost"]
  BY DEF Expire
<1>2. /\ task.state # "stopped" /\ events = {} /\ ~task.lost /\ Bytes(w)
  BY <1>1, SelectingIs
<1>3. /\ w \in WorldType /\ kinds \in KindSeq /\ Sides(w, kinds)
      /\ Before(w, Len(kinds) + 1) /\ Queued(w, cmds, kinds) /\ Typed
  BY <1>2 DEF IInv, Typed
<1>4. w' = u
  BY <1>1, <1>3 DEF WithCore, SetPhase, WorldType
<1>5. lost \in {"closing", "lost"}
  OBVIOUS
<1>6. /\ u \in WorldType /\ u.core.phase = lost /\ Sides(u, kinds)
      /\ (\A o : Before(w, o) => Before(u, o)) /\ (Bytes(w) => Bytes(u))
      /\ \A cs, ls : Queued(w, cs, ls) => Queued(u, cs, ls)
  <2> HIDE DEF lost
  <2> QED BY <1>3, <1>5, PhaseMoves
<1> HIDE DEF u
<1>7. Typed'
  <2>1. {"Lost"} \subseteq Event
    BY DEF Event, Order
  <2> QED BY <2>1, <1>1, <1>3, <1>4, <1>6 DEF Typed
<1>8. Before(u, Len(kinds) + 1) /\ Bytes(u) /\ Queued(u, cmds, kinds)
  BY <1>2, <1>3, <1>6
<1>9. Wakes(u, {"Lost"}) /\ Heard(u.core, {"Lost"}) /\ EndIsTold(u.core.phase, {"Lost"}, task)
      /\ Handles(u.core.phase, oneshot, connect, kinds)
  BY <1>2, <1>6 DEF Wakes, Heard, EndIsTold, Handles
<1> QED BY <1>1, <1>4, <1>6, <1>7, <1>8, <1>9 DEF IInv

\* The rest of the channel.
LEMMA TailOf ==
  ASSUME NEW v, NEW ks, NEW cs \in Seq([op : Op, kind : Kind]), cs # <<>>, Queued(v, cs, ks)
  PROVE  /\ Tail(cs) \in Seq([op : Op, kind : Kind]) /\ Len(Tail(cs)) <= Len(cs) /\ Queued(v, Tail(cs), ks)
         /\ \A i \in 1..Len(Tail(cs)) : Tail(cs)[i].op > cs[1].op
         /\ Head(cs) = cs[1] /\ 1 \in 1..Len(cs)
<1> DEFINE t == Tail(cs)
           n == Len(cs)
           Cmd == [op : Op, kind : Kind]
<1>1. n \in Nat /\ n > 0 /\ t \in Seq(Cmd) /\ Len(t) = n - 1 /\ (\A i \in 1..(n - 1) : t[i] = cs[i + 1])
      /\ Head(cs) = cs[1]
  <2> HIDE DEF Cmd
  <2>1. cs \in Seq(Cmd)
    BY DEF Cmd
  <2> QED BY <2>1
<1> HIDE DEF t, Cmd
<1>2. \A i \in 1..Len(t) : i \in 1..(n - 1) /\ i + 1 \in 1..n /\ 1 < i + 1 /\ t[i] = cs[i + 1]
  BY <1>1
<1>3. 1 \in 1..n
  BY <1>1
<1>4. /\ \A i \in 1..n :
           /\ cs[i].op \in 1..Len(ks) /\ Before(v, cs[i].op)
           /\ cs[i].kind \notin Silent => ks[cs[i].op] = cs[i].kind /\ Owed(v, cs[i].op)
      /\ \A i, j \in 1..n : i < j => cs[i].op < cs[j].op
  BY DEF Queued
<1>5. \A i, j \in 1..Len(t) : i < j => i + 1 < j + 1
  BY <1>1
<1> HIDE DEF n
<1>6. Queued(v, t, ks)
  <2>1. \A i \in 1..Len(t) :
          /\ t[i].op \in 1..Len(ks) /\ Before(v, t[i].op)
          /\ t[i].kind \notin Silent => ks[t[i].op] = t[i].kind /\ Owed(v, t[i].op)
    BY <1>2, <1>4
  <2>2. \A i, j \in 1..Len(t) : i < j => t[i].op < t[j].op
    BY <1>2, <1>4, <1>5
  <2> QED BY <2>1, <2>2 DEF Queued
<1>7. \A i \in 1..Len(t) : cs[1].op < t[i].op
  BY <1>2, <1>3, <1>4
<1>8. \A i \in 1..Len(t) : t[i].op > cs[1].op
  <2> TAKE i \in 1..Len(t)
  <2>1. t[i].op \in Nat /\ cs[1].op \in Nat /\ cs[1].op < t[i].op
    BY <1>1, <1>2, <1>3, <1>7, CmdFields DEF n
  <2> QED BY <2>1
<1> QED BY <1>1, <1>3, <1>6, <1>8 DEF t, n, Cmd

\* A command is dealt with.
LEMMA OnCommandInv ==
  ASSUME IInv, OnCommand, scene' = scene
  PROVE  IInv'
<1> DEFINE cmd == Head(cmds)
           rest == Tail(cmds)
           op == cmd.op
           u == ApplyCmd(w, cmd)
<1>1. /\ Selecting /\ cmds # <<>> /\ cmds' = rest /\ events' = events
      /\ task' = task /\ oneshot' = oneshot /\ connect' = connect /\ kinds' = kinds
      /\ w' = IF w.core.phase # "lost" THEN u ELSE Reply(w, {cmd.op}, "Closed")
  BY DEF OnCommand
<1>2. /\ task.state # "stopped" /\ events = {} /\ ~task.lost /\ w.core.phase # "lost" /\ Bytes(w)
      /\ ReadQuiet(w) /\ WriteQuiet(w) /\ AcceptQuiet(w) /\ FinQuiet(w)
  BY <1>1, SelectingIs
<1>3. /\ w \in WorldType /\ kinds \in KindSeq /\ Sides(w, kinds)
      /\ Before(w, Len(kinds) + 1) /\ Queued(w, cmds, kinds) /\ Typed
      /\ cmds \in Seq([op : Op, kind : Kind]) /\ Heard(w.core, {})
      /\ Handles(w.core.phase, oneshot, connect, kinds)
  BY <1>2 DEF IInv, Typed
<1>4. /\ rest \in Seq([op : Op, kind : Kind]) /\ Len(rest) <= Len(cmds) /\ Queued(w, rest, kinds)
      /\ (\A i \in 1..Len(rest) : rest[i].op > cmds[1].op) /\ cmd = cmds[1] /\ 1 \in 1..Len(cmds)
  BY <1>1, <1>3, TailOf
<1>5. cmd \in [op : Op, kind : Kind] /\ op \in Nat
  BY <1>3, <1>4, CmdFields
<1>6. /\ op \in 1..Len(kinds) /\ Before(w, op)
      /\ (cmd.kind \notin Silent => kinds[op] = cmd.kind /\ Owed(w, op))
      /\ \A i \in 1..Len(rest) : rest[i].op > op
  BY <1>3, <1>4 DEF Queued
<1>7. w' = u
  BY <1>1, <1>2
<1>8. SUFFICES /\ u \in WorldType /\ Sides(u, kinds) /\ Before(u, Len(kinds) + 1) /\ Queued(u, rest, kinds)
               /\ ReadQuiet(u) /\ WriteQuiet(u) /\ AcceptQuiet(u) /\ FinQuiet(u) /\ Bytes(u)
               /\ u.core.phase \in {w.core.phase, "closing"}
  <2> HIDE DEF u, rest
  <2>1. Len(rest) <= CmdCap
    <3>1. Len(cmds) \in Nat /\ Len(rest) \in Nat /\ Len(cmds) <= CmdCap /\ CmdCap \in Nat
      BY <1>3, <1>4, DriverAssumption DEF Typed
    <3> QED BY <1>4, <3>1
  <2>2. Typed'
    BY <1>1, <1>3, <1>4, <1>7, <1>8, <2>1 DEF Typed
  <2>3. Wakes(u, {}) /\ Heard(u.core, {}) /\ EndIsTold(u.core.phase, {}, task)
        /\ Handles(u.core.phase, oneshot, connect, kinds)
    BY <1>2, <1>3, <1>8 DEF Wakes, Heard, EndIsTold, Handles
  <2> QED BY <1>1, <1>2, <1>7, <1>8, <2>2, <2>3 DEF IInv
<1>9. CASE cmd.kind = "close"
  <2> DEFINE closing == "closing"
             z == WithCore(w, SetPhase(w.core, closing))
  <2>1. u = z
    <3>1. u = [w EXCEPT !.core.phase = "closing"]
      BY <1>9 DEF ApplyCmd, Close
    <3> HIDE DEF u
    <3> QED BY <3>1, <1>3 DEF WithCore, SetPhase, WorldType
  <2>2. closing \in {"closing", "lost"}
    OBVIOUS
  <2>3. /\ z \in WorldType /\ z.core.phase = closing /\ Sides(z, kinds)
        /\ (ReadQuiet(w) => ReadQuiet(z)) /\ WriteQuiet(z)
        /\ (AcceptQuiet(w) => AcceptQuiet(z)) /\ (FinQuiet(w) => FinQuiet(z))
        /\ (\A o : Before(w, o) => Before(z, o)) /\ (Bytes(w) => Bytes(z))
        /\ \A cs, ls : Queued(w, cs, ls) => Queued(z, cs, ls)
    <3> HIDE DEF closing
    <3> QED BY <1>3, <2>2, PhaseMoves
  <2> HIDE DEF z, u, rest
  <2> QED BY <1>2, <1>3, <1>4, <2>1, <2>3
<1>10. CASE cmd.kind # "close"
  <2> HIDE DEF cmd, rest
  <2>1. Step(w, u, kinds, op)
    BY <1>2, <1>3, <1>5, <1>6, <1>10, ApplyCmdStep
  <2> HIDE DEF u, op
  <2>2. /\ u \in WorldType /\ u.core.phase = w.core.phase /\ Sides(u, kinds)
        /\ ReadQuiet(u) /\ WriteQuiet(u) /\ AcceptQuiet(u) /\ FinQuiet(u) /\ Bytes(u)
    BY <1>2, <2>1 DEF Step, Alike
  <2>3. Before(u, Len(kinds) + 1)
    <3>1. Len(kinds) + 1 \in Nat /\ Len(kinds) + 1 > op
      BY <1>3, <1>6 DEF KindSeq
    <3> QED BY <1>3, <2>1, <3>1 DEF Step
  <2>4. Queued(u, rest, kinds)
    BY <1>3, <1>4, <1>5, <1>6, <2>1, QueuedAfterStep
  <2> QED BY <2>2, <2>3, <2>4
<1> QED BY <1>9, <1>10

\* The pump takes one of the events that are queued.
LEMMA NextEventIs ==
  ASSUME events \subseteq Event, events # {}
  PROVE  NextEvent \in events /\ NextEvent \in Event
<1> DEFINE T == {i \in 1..7 : Order[i] \in events}
           First(i) == Order[i] \in events /\ \A j \in 1..(i - 1) : Order[j] \notin events
<1>1. DOMAIN Order = 1..7
  BY DEF Order
<1>2. T \subseteq Nat /\ T # {}
  <2>1. PICK e \in events : TRUE
    OBVIOUS
  <2>2. PICK i \in DOMAIN Order : Order[i] = e
    BY <2>1 DEF Event
  <2> QED BY <1>1, <2>1, <2>2
<1>3. PICK m \in T : \A k \in T : m <= k
  <2> HIDE DEF T
  <2> QED BY <1>2, LeastNat
<1>4. First(m)
  <2>1. ASSUME NEW j \in 1..(m - 1), Order[j] \in events PROVE FALSE
    <3>1. m \in 1..7 /\ j \in 1..7 /\ ~(m <= j)
      BY <1>3
    <3>2. j \in T
      BY <2>1, <3>1
    <3> QED BY <1>3, <3>1, <3>2
  <2> QED BY <1>3, <2>1
<1>5. m \in DOMAIN Order
  BY <1>1, <1>3
<1> DEFINE i == CHOOSE i \in DOMAIN Order : First(i)
<1>6. NextEvent = Order[i]
  BY DEF NextEvent
<1>7. First(i) /\ i \in DOMAIN Order
  <2> HIDE DEF First
  <2> QED BY <1>4, <1>5
<1>8. Order[i] \in events
  BY <1>7
<1> HIDE DEF i
<1> QED BY <1>6, <1>8

\* Without the event that has been dealt with, when what it was for is quiet.
Settled(v, e) ==
  v.core.phase # "lost" =>
    /\ e = "Readable" => ReadQuiet(v)
    /\ e = "Writable" => WriteQuiet(v)
    /\ e = "Opened" => AcceptQuiet(v)
    /\ e = "FinAcked" => FinQuiet(v)
    /\ e = "Stopped" => WriteQuiet(v) /\ FinQuiet(v)

\* Every command in the channel has a number.
LEMMA QueuedNumbers ==
  ASSUME NEW cs \in Seq([op : Op, kind : Kind])
  PROVE  \A i \in 1..Len(cs) : cs[i].op > NoOp
<1> TAKE i \in 1..Len(cs)
<1>1. cs[i].op \in Op
  BY CmdFields
<1> QED BY <1>1, OpsAssumption DEF Op, NoOp

\* A turn of the pump that works on a side of the connection.
LEMMA PumpStep ==
  ASSUME IInv, scene' = scene, task.state # "stopped", NEW u, Step(w, u, kinds, NoOp), w' = u,
         NEW e \in events, e # "Lost", Settled(u, e), events' = events \ {e},
         UNCHANGED <<cmds, task, oneshot, connect, kinds>>
  PROVE  IInv'
<1>1. /\ w \in WorldType /\ kinds \in KindSeq /\ Sides(w, kinds) /\ Before(w, Len(kinds) + 1)
      /\ Queued(w, cmds, kinds) /\ Wakes(w, events) /\ Heard(w.core, events) /\ Bytes(w) /\ Typed
      /\ EndIsTold(w.core.phase, events, task) /\ Handles(w.core.phase, oneshot, connect, kinds)
      /\ cmds \in Seq([op : Op, kind : Kind])
  BY DEF IInv, Typed
<1>2. /\ u \in WorldType /\ u.core.phase = w.core.phase /\ u.core.acked = w.core.acked /\ Sides(u, kinds)
      /\ (ReadQuiet(w) => ReadQuiet(u)) /\ (WriteQuiet(w) => WriteQuiet(u))
      /\ (AcceptQuiet(w) => AcceptQuiet(u)) /\ (FinQuiet(w) => FinQuiet(u)) /\ Bytes(u)
  BY <1>1 DEF Step, Alike
<1>3. Before(u, Len(kinds) + 1)
  <2>1. Len(kinds) + 1 \in Nat /\ Len(kinds) + 1 > NoOp
    BY <1>1 DEF KindSeq, NoOp
  <2> QED BY <1>1, <2>1 DEF Step
<1>4. Queued(u, cmds, kinds)
  <2>1. NoOp \in Nat
    BY DEF NoOp
  <2> QED BY <1>1, <2>1, QueuedNumbers, QueuedAfterStep
<1>5. Wakes(u, events \ {e})
  BY <1>1, <1>2 DEF Wakes, Settled
<1>6. Heard(u.core, events \ {e})
  BY <1>1, <1>2 DEF Heard
<1>7. EndIsTold(u.core.phase, events \ {e}, task) /\ Handles(u.core.phase, oneshot, connect, kinds)
  BY <1>1, <1>2 DEF EndIsTold, Handles
<1>8. Typed'
  BY <1>1, <1>2 DEF Typed
<1> QED BY <1>2, <1>3, <1>4, <1>5, <1>6, <1>7, <1>8 DEF IInv

WithClosed(v) == [v EXCEPT !.closed = TRUE]

\* The flag that says the connection is closed is nobody's side.
LEMMA WithClosedIs ==
  ASSUME NEW v \in WorldType, NEW ks \in KindSeq, Sides(v, ks)
  PROVE  LET u == WithClosed(v)
         IN  /\ u \in WorldType /\ u.core = v.core /\ u.parked = v.parked /\ u.ans = v.ans /\ Sides(u, ks)
             /\ (Bytes(v) => Bytes(u)) /\ (\A o : Before(v, o) => Before(u, o))
             /\ \A cs, ls : Queued(v, cs, ls) => Queued(u, cs, ls)
<1> DEFINE u == WithClosed(v)
<1>1. /\ u \in WorldType /\ u.core = v.core /\ u.parked = v.parked /\ u.ans = v.ans
      /\ u.delivered = v.delivered /\ u.wasted = v.wasted /\ u.given = v.given
  BY DEF WorldType, WithClosed
<1> HIDE DEF u
<1>2. RecvSame(v, u) /\ SendSame(v, u) /\ AcceptSame(v, u)
  BY <1>1 DEF RecvSame, SendSame, AcceptSame, RecvCoreSame, SendCoreSame, AcceptCoreSame
<1>3. RecvSide(u, ks) /\ SendSide(u, ks) /\ AcceptSide(u, ks)
  BY <1>1, <1>2, RecvKept, SendKept, AcceptKept DEF Sides
<1>4. (Bytes(v) => Bytes(u)) /\ (\A o : Before(v, o) => Before(u, o))
  BY <1>1 DEF Bytes, Before, RecvBefore, SendBefore, AcceptBefore
<1>5. \A cs, ls : Queued(v, cs, ls) => Queued(u, cs, ls)
  BY <1>1, <1>4 DEF Queued, Owed
<1> QED BY <1>1, <1>3, <1>4, <1>5 DEF u, Sides

\* surface.
LEMMA SurfaceInv ==
  ASSUME IInv, scene' = scene, task.state # "stopped", "Connected" \in events, Surface,
         events' = events \ {"Connected"}, UNCHANGED <<cmds, connect, kinds>>
  PROVE  IInv'
<1> DEFINE evs == events \ {"Connected"}
<1>1. /\ w' = w /\ task' = task /\ events' = evs /\ cmds' = cmds /\ connect' = connect /\ kinds' = kinds
      /\ oneshot' \in {oneshot, "dropped", "ok"}
  BY DEF Surface
<1>2. w.core.phase # "handshake"
  BY DEF IInv, Heard
<1>3. Wakes(w, evs) /\ Heard(w.core, evs) /\ EndIsTold(w.core.phase, evs, task)
  BY DEF IInv, Wakes, Heard, EndIsTold
<1>4. Handles(w.core.phase, oneshot', connect, kinds)
  BY <1>2 DEF Handles
<1>5. Typed'
  BY <1>1 DEF IInv, Typed
<1> QED BY <1>1, <1>3, <1>4, <1>5 DEF IInv

\* The arm ConnectionLost.
LEMMA LostInv ==
  ASSUME IInv, scene' = scene, task.state # "stopped", "Lost" \in events, Lost,
         events' = events \ {"Lost"}, UNCHANGED <<cmds, connect, kinds>>
  PROVE  IInv'
<1> DEFINE x == WithClosed(w)
           u == FailAll(x)
           evs == events \ {"Lost"}
           tsk == [task EXCEPT !.lost = TRUE]
<1>1. /\ w' = u /\ task' = tsk /\ events' = evs /\ cmds' = cmds /\ connect' = connect /\ kinds' = kinds
      /\ oneshot' \in {oneshot, "incomplete"}
  BY DEF Lost, WithClosed
<1>2. /\ w \in WorldType /\ kinds \in KindSeq /\ Sides(w, kinds) /\ Before(w, Len(kinds) + 1)
      /\ Queued(w, cmds, kinds) /\ Heard(w.core, events) /\ Bytes(w) /\ Typed
      /\ w.core.phase = "lost" /\ cmds \in Seq([op : Op, kind : Kind])
      /\ task \in [state : {"running", "aborting", "stopped"}, lost : BOOLEAN]
  BY DEF IInv, Typed, EndIsTold
<1>3. /\ x \in WorldType /\ x.core = w.core /\ Sides(x, kinds)
      /\ Bytes(x) /\ Before(x, Len(kinds) + 1) /\ Queued(x, cmds, kinds)
  BY <1>2, WithClosedIs
<1> HIDE DEF x
<1>4. Step(x, u, kinds, NoOp)
  BY <1>2, <1>3, FailAllStep
<1> HIDE DEF u
<1>5. /\ u \in WorldType /\ u.core.phase = "lost" /\ u.core.acked = w.core.acked /\ Sides(u, kinds) /\ Bytes(u)
  BY <1>2, <1>3, <1>4 DEF Step, Alike
<1>6. Before(u, Len(kinds) + 1)
  <2>1. Len(kinds) + 1 \in Nat /\ Len(kinds) + 1 > NoOp
    BY <1>2 DEF KindSeq, NoOp
  <2> QED BY <1>3, <1>4, <2>1 DEF Step
<1>7. Queued(u, cmds, kinds)
  <2>1. NoOp \in Nat
    BY DEF NoOp
  <2> QED BY <1>2, <1>3, <1>4, <2>1, QueuedNumbers, QueuedAfterStep
<1>8. tsk \in [state : {"running", "aborting", "stopped"}, lost : BOOLEAN] /\ tsk.lost /\ tsk.state # "stopped"
  BY <1>2
<1> HIDE DEF tsk
<1>9. Wakes(u, evs) /\ Heard(u.core, evs) /\ EndIsTold(u.core.phase, evs, tsk)
      /\ Handles(u.core.phase, oneshot', connect, kinds)
  BY <1>2, <1>5, <1>8 DEF Wakes, Heard, EndIsTold, Handles
<1>10. Typed'
  BY <1>1, <1>2, <1>5, <1>8 DEF Typed
<1> QED BY <1>1, <1>5, <1>6, <1>7, <1>9, <1>10 DEF IInv

\* One turn of the pump.
LEMMA PumpEventInv ==
  ASSUME IInv, PumpEvent, scene' = scene
  PROVE  IInv'
<1> DEFINE e == NextEvent
<1>1. /\ task.state # "stopped" /\ events # {} /\ events' = events \ {e} /\ UNCHANGED <<cmds, connect, kinds>>
      /\ CASE e = "Connected" -> Surface [] e = "Lost" -> Lost [] e \notin {"Connected", "Lost"} -> StreamEvent(e)
  BY DEF PumpEvent
<1>2. e \in events /\ e \in Event
  BY <1>1, NextEventIs DEF IInv, Typed
<1> HIDE DEF e
<1>3. CASE e = "Connected"
  BY <1>1, <1>2, <1>3, SurfaceInv
<1>4. CASE e = "Lost"
  BY <1>1, <1>2, <1>4, LostInv
<1>5. CASE e \notin {"Connected", "Lost"}
  <2>1. StreamEvent(e) /\ e # "Lost"
    BY <1>1, <1>5
  <2>2. e \in {"Opened", "Readable", "Writable", "FinAcked", "Stopped"}
    BY <1>2, <1>5 DEF Event, Order
  <2>3. UNCHANGED <<cmds, task, oneshot, connect, kinds>>
    BY <1>1, <2>1 DEF StreamEvent
  <2>4. w \in WorldType /\ kinds \in KindSeq /\ Sides(w, kinds) /\ Heard(w.core, events)
    BY DEF IInv, Typed
  <2>5. Step(w, w', kinds, NoOp) /\ Settled(w', e)
    <3>1. CASE e = "FinAcked"
      <4> DEFINE ok == "Ok"
                 u == FailFinWaiters(w, ok)
      <4>1. w' = u
        BY <2>1, <3>1 DEF StreamEvent, OnFinAcked
      <4>2. ok \in Answer /\ ok # "waiting" /\ (ok = "Ok" => w.core.acked)
        BY <1>2, <2>4, <3>1 DEF Answer, Heard
      <4> HIDE DEF ok
      <4>3. Step(w, u, kinds, NoOp) /\ u.parked.fins = {}
        BY <2>4, <4>2, FailFinWaitersStep
      <4> HIDE DEF u
      <4> QED BY <3>1, <4>1, <4>3 DEF Settled, FinQuiet
    <3>2. CASE e # "FinAcked" /\ w.core.phase = "lost"
      <4>1. w' = w
        BY <2>1, <3>2 DEF StreamEvent
      <4> QED BY <2>4, <3>2, <4>1, NoStep DEF Settled
    <3>3. CASE e = "Opened" /\ w.core.phase # "lost"
      <4>1. w' = OnStreamOpened(w)
        BY <2>1, <3>3 DEF StreamEvent
      <4> QED BY <2>4, <3>3, <4>1, OnStreamOpenedStep DEF Settled
    <3>4. CASE e = "Readable" /\ w.core.phase # "lost"
      <4>1. w' = OnReadable(w)
        BY <2>1, <3>4 DEF StreamEvent
      <4> QED BY <2>4, <3>4, <4>1, OnReadableStep DEF Settled
    <3>5. CASE e = "Writable" /\ w.core.phase # "lost"
      <4>1. w' = OnWritable(w)
        BY <2>1, <3>5 DEF StreamEvent
      <4> QED BY <2>4, <3>5, <4>1, OnWritableStep DEF Settled
    <3>6. CASE e = "Stopped" /\ w.core.phase # "lost"
      <4>1. w' = OnStopped(w)
        BY <2>1, <3>6 DEF StreamEvent
      <4> QED BY <2>4, <3>6, <4>1, OnStoppedStep DEF Settled
    <3> QED BY <2>2, <3>1, <3>2, <3>3, <3>4, <3>5, <3>6
  <2> DEFINE u == w'
  <2>6. w' = u
    OBVIOUS
  <2>7. Step(w, u, kinds, NoOp) /\ Settled(u, e)
    BY <2>5
  <2> HIDE DEF u
  <2> QED BY <1>1, <1>2, <2>1, <2>3, <2>6, <2>7, PumpStep
<1> QED BY <1>3, <1>4, <1>5

\* Nothing is parked any more, and nobody who did not hear Ok before hears it now.
LEMMA EndedSides ==
  ASSUME NEW v \in WorldType, NEW u \in WorldType, NEW ks \in KindSeq, Sides(v, ks),
         u.core = v.core, u.parked = NewParked, u.wasted = v.wasted, u.given = v.given,
         \A o \in Op : u.ans[o] = v.ans[o] \/ (v.ans[o] = "waiting" /\ u.ans[o] = "Closed")
  PROVE  /\ Sides(u, ks) /\ \A o \in Nat \ {0} : Before(v, o) => Before(u, o)
         /\ ReadQuiet(u) /\ WriteQuiet(u) /\ AcceptQuiet(u) /\ FinQuiet(u)
<1>1. /\ u.parked.accepts = <<>> /\ u.parked.write = NoWrite /\ u.parked.read = NoRead /\ u.parked.fins = {}
      /\ u.parked.read.op = NoOp /\ u.parked.read.got = 0 /\ u.parked.write.op = NoOp
  BY DEF NewParked, NoRead, NoWrite
<1>2. Len(u.parked.accepts) = 0 /\ \A i : i \notin 1..0
  BY <1>1
<1>3. Len(ks) \in Nat /\ \A o \in 1..Len(ks) : o \in Op
  BY OpsAssumption DEF KindSeq, Op
<1>4. \A o \in 1..Len(ks) : u.ans[o] = "Ok" => v.ans[o] = "Ok"
  BY <1>3
<1>5. \A o \in 1..Len(ks) : v.ans[o] \notin {"Ok", "waiting"} => u.ans[o] \notin {"Ok", "waiting"}
  BY <1>3
<1>6. RecvSide(u, ks)
  <2>1. RecvSide(v, ks)
    BY DEF Sides
  <2>2. u.wasted > 0 => \E o \in 1..Len(ks) : ks[o] \in {"read", "end"} /\ u.ans[o] \notin {"Ok", "waiting"}
    BY <1>5, <2>1 DEF RecvSide
  <2> QED BY <1>1, <1>4, <2>1, <2>2 DEF RecvSide
<1>7. SendSide(u, ks)
  BY <1>1, <1>4 DEF Sides, SendSide, WriteParked, SentIsSent
<1>8. AcceptSide(u, ks)
  BY <1>2 DEF Sides, AcceptSide
<1>9. ASSUME NEW o \in Nat \ {0}, Before(v, o) PROVE Before(u, o)
  <2>1. NoOp < o
    BY <1>9 DEF NoOp
  <2> QED BY <1>1, <1>2, <1>9, <2>1 DEF Before, RecvBefore, SendBefore, AcceptBefore
<1>10. ReadQuiet(u) /\ WriteQuiet(u) /\ AcceptQuiet(u) /\ FinQuiet(u)
  BY <1>1 DEF ReadQuiet, WriteQuiet, AcceptQuiet, FinQuiet
<1> QED BY <1>6, <1>7, <1>8, <1>9, <1>10 DEF Sides

\* The driver task ends.
LEMMA EndsInv ==
  ASSUME IInv, Ends, scene' = scene
  PROVE  IInv'
<1> DEFINE y == WithClosed(w)
           x == WithParked(y, NewParked)
           closed == "Closed"
           ops == Waiting
           u == Reply(x, ops, closed)
           tsk == [task EXCEPT !.state = "stopped"]
<1>1. /\ task' = tsk /\ cmds' = <<>> /\ events' = {} /\ connect' = connect /\ kinds' = kinds
      /\ oneshot' \in {oneshot, "dropped"}
      /\ w' = Reply([w EXCEPT !.parked = NewParked, !.closed = TRUE], Waiting, "Closed")
  BY DEF Ends
<1>2. /\ w \in WorldType /\ kinds \in KindSeq /\ Sides(w, kinds) /\ Before(w, Len(kinds) + 1) /\ Typed
      /\ EndIsTold(w.core.phase, events, task) /\ Handles(w.core.phase, oneshot, connect, kinds)
      /\ task \in [state : {"running", "aborting", "stopped"}, lost : BOOLEAN]
  BY DEF IInv, Typed
<1>3. x = [w EXCEPT !.parked = NewParked, !.closed = TRUE]
  BY <1>2 DEF WithParked, WithClosed, WorldType
<1>4. w' = u
  BY <1>1, <1>3
<1>5. NewParked \in ParkedType
  BY SizeAssumption DEF NewParked, ParkedType, NoWrite, WriteType, NoRead, ReadType
<1>6. /\ x \in WorldType /\ x.core = w.core /\ x.parked = NewParked /\ x.ans = w.ans
      /\ x.wasted = w.wasted /\ x.given = w.given
  <2>1. /\ y \in WorldType /\ y.core = w.core /\ y.ans = w.ans /\ y.wasted = w.wasted /\ y.given = w.given
    BY <1>2 DEF WithClosed, WorldType
  <2> HIDE DEF y
  <2> QED BY <1>5, <2>1, WithParkedIs
<1> HIDE DEF x
<1>7. closed \in Answer /\ closed = "Closed"
  BY DEF Answer
<1> HIDE DEF closed, ops
<1>8. /\ u \in WorldType /\ u.core = w.core /\ u.parked = NewParked /\ u.wasted = w.wasted /\ u.given = w.given
      /\ \A o \in Op : u.ans[o] = IF o \in ops /\ w.ans[o] = "waiting" THEN closed ELSE w.ans[o]
  BY <1>6, <1>7, ReplyIs
<1> HIDE DEF u
<1>9. /\ Sides(u, kinds) /\ (\A o \in Nat \ {0} : Before(w, o) => Before(u, o))
      /\ ReadQuiet(u) /\ WriteQuiet(u) /\ AcceptQuiet(u) /\ FinQuiet(u)
  <2>1. \A o \in Op : u.ans[o] = w.ans[o] \/ (w.ans[o] = "waiting" /\ u.ans[o] = "Closed")
    BY <1>7, <1>8
  <2> QED BY <1>2, <1>8, <2>1, EndedSides
<1>10. Before(u, Len(kinds) + 1)
  <2>1. Len(kinds) + 1 \in Nat \ {0}
    BY <1>2 DEF KindSeq
  <2> QED BY <1>2, <1>9, <2>1
<1>11. /\ tsk \in [state : {"running", "aborting", "stopped"}, lost : BOOLEAN] /\ tsk.state = "stopped"
       /\ tsk.lost = task.lost
  BY <1>2
<1> HIDE DEF tsk
<1>12. Wakes(u, {}) /\ Heard(u.core, {}) /\ EndIsTold(u.core.phase, {}, tsk)
       /\ Handles(u.core.phase, oneshot', connect, kinds)
  BY <1>1, <1>2, <1>8, <1>9, <1>11 DEF Wakes, Heard, EndIsTold, Handles
<1>13. Len(<<>>) = 0 /\ \A i : i \notin 1..0
  OBVIOUS
<1>14. Queued(u, <<>>, kinds)
  BY <1>13 DEF Queued
<1>15. Typed'
  <2>1. <<>> \in Seq([op : Op, kind : Kind]) /\ Len(<<>>) <= CmdCap
    BY DriverAssumption
  <2> QED BY <1>1, <1>2, <1>4, <1>8, <1>11, <2>1 DEF Typed
<1> QED BY <1>1, <1>4, <1>9, <1>10, <1>11, <1>12, <1>14, <1>15 DEF IInv

\* connect returns, gives up or is dropped: the connection itself does not change.
LEMMA ConnectInv ==
  ASSUME IInv, ConnectReturns \/ TimesOut \/ DropConnect, scene' = scene
  PROVE  IInv'
<1>1. w' = w /\ events' = events /\ cmds' = cmds /\ kinds' = kinds
  BY DEF ConnectReturns, TimesOut, DropConnect
<1>2. Typed
  BY DEF IInv
<1>3. /\ task' \in [state : {"running", "aborting", "stopped"}, lost : BOOLEAN] /\ task'.lost = task.lost
      /\ (task'.state = "stopped" <=> task.state = "stopped")
  <2>1. task' \in {task, [task EXCEPT !.state = "aborting"]} /\ (task' # task => task.state = "running")
    BY DEF ConnectReturns, TimesOut, DropConnect
  <2> QED BY <1>2, <2>1 DEF Typed
<1>4. /\ oneshot' \in {oneshot, "dropped"} /\ connect' \in {"ok", "incomplete", "timedout", "abandoned"}
      /\ (connect' = "ok" => oneshot = "ok")
  BY DEF ConnectReturns, TimesOut, DropConnect
<1>5. EndIsTold(w.core.phase, events, task') /\ Handles(w.core.phase, oneshot', connect', kinds)
  BY <1>3, <1>4 DEF IInv, EndIsTold, Handles
<1>6. Typed'
  BY <1>1, <1>2, <1>3, <1>4 DEF Typed
<1> QED BY <1>1, <1>3, <1>5, <1>6 DEF IInv

\* One more operation is started.
LEMMA ExtendedKinds ==
  ASSUME NEW ks \in KindSeq, Len(ks) < MaxOps, NEW k \in Kind \cup {"drop"}
  PROVE  LET n == Len(ks) + 1
             ls == Append(ks, k)
         IN  /\ n \in Op /\ n \in Nat /\ Len(ks) \in Nat /\ ls \in KindSeq /\ Len(ls) = n /\ ls[n] = k /\ n \in 1..Len(ls)
             /\ \A o \in 1..Len(ks) : o \in 1..Len(ls) /\ ls[o] = ks[o] /\ o # n /\ o < n /\ o \in Op
             /\ \A o \in 1..Len(ls) : o # n => o \in 1..Len(ks)
<1> DEFINE n == Len(ks) + 1
           K == Kind \cup {"drop"}
           ls == Append(ks, k)
<1>1. k \in K /\ ks \in Seq(K) /\ Len(ks) \in Nat
  BY DEF KindSeq
<1> HIDE DEF K
<1>2. ls \in Seq(K) /\ Len(ls) = n /\ ls[n] = k /\ \A o \in 1..Len(ks) : ls[o] = ks[o]
  BY <1>1
<1>3. n \in Op /\ n \in Nat /\ n <= MaxOps /\ \A o \in 1..Len(ks) : o # n /\ o < n /\ o \in Op /\ o \in 1..n
  BY <1>1, OpsAssumption DEF Op
<1>4. n \in 1..n /\ \A o \in 1..n : o # n => o \in 1..Len(ks)
  BY <1>1
<1>5. ls \in KindSeq
  BY <1>2, <1>3 DEF KindSeq, K
<1> QED BY <1>1, <1>2, <1>3, <1>4, <1>5

\* It changes nothing for those that were started before.
LEMMA ExtendedSides ==
  ASSUME NEW v \in WorldType, NEW ks \in KindSeq, Len(ks) < MaxOps, Sides(v, ks), Before(v, Len(ks) + 1),
         NEW k \in Kind \cup {"drop"}, NEW x \in Answer, x = "Ok" => k \notin {"end", "write", "wait"}
  PROVE  LET n == Len(ks) + 1
             ls == Append(ks, k)
             u == WithAns(v, [v.ans EXCEPT ![n] = x])
         IN  /\ u \in WorldType /\ u.core = v.core /\ u.parked = v.parked /\ u.ans[n] = x
             /\ (\A o \in Op : o # n => u.ans[o] = v.ans[o])
             /\ Sides(u, ls) /\ Before(u, n + 1) /\ (\A o : Before(v, o) => Before(u, o)) /\ (Bytes(v) => Bytes(u))
<1> DEFINE n == Len(ks) + 1
           ls == Append(ks, k)
           a == [v.ans EXCEPT ![n] = x]
           u == WithAns(v, a)
<1>1. /\ n \in Op /\ n \in Nat /\ Len(ks) \in Nat /\ ls \in KindSeq /\ Len(ls) = n /\ ls[n] = k /\ n \in 1..Len(ls)
      /\ (\A o \in 1..Len(ks) : o \in 1..Len(ls) /\ ls[o] = ks[o] /\ o # n /\ o < n /\ o \in Op)
      /\ (\A o \in 1..Len(ls) : o # n => o \in 1..Len(ks))
      /\ Before(v, n)
  BY ExtendedKinds
<1> HIDE DEF n, ls
<1>2. a \in [Op -> Answer] /\ a[n] = x /\ \A o \in Op : o # n => a[o] = v.ans[o]
  BY <1>1, WorldFields
<1> HIDE DEF a
<1>3. /\ u \in WorldType /\ u.core = v.core /\ u.parked = v.parked /\ u.ans = a
      /\ u.delivered = v.delivered /\ u.wasted = v.wasted /\ u.given = v.given
  BY <1>2, WithAnsIs
<1> HIDE DEF u
<1>4. u.ans[n] = x /\ (\A o \in Op : o # n => u.ans[o] = v.ans[o])
  BY <1>2, <1>3
<1>5. \A o \in 1..Len(ks) : u.ans[o] = v.ans[o]
  BY <1>1, <1>4
<1>6. RecvSide(u, ls)
  <2>1. RecvSide(v, ks)
    BY DEF Sides
  <2>2. v.parked.read.op # NoOp =>
          /\ v.parked.read.op \in 1..Len(ls) /\ ls[v.parked.read.op] = v.parked.read.kind
          /\ Owed(u, v.parked.read.op)
    BY <1>1, <1>5, <2>1 DEF RecvSide, Owed
  <2>3. \A o \in 1..Len(ls) : ls[o] = "end" /\ u.ans[o] = "Ok" => v.core.fin /\ v.core.recv = "gone"
    BY <1>1, <1>4, <1>5, <2>1 DEF RecvSide
  <2>4. v.wasted > 0 => \E o \in 1..Len(ls) : ls[o] \in {"read", "end"} /\ u.ans[o] \notin {"Ok", "waiting"}
    BY <1>1, <1>5, <2>1 DEF RecvSide
  <2> QED BY <1>3, <2>1, <2>2, <2>3, <2>4 DEF RecvSide
<1>7. SendSide(u, ls)
  <2>1. SendSide(v, ks)
    BY DEF Sides
  <2>2. WriteParked(u, ls)
    BY <1>1, <1>3, <1>5, <2>1 DEF SendSide, WriteParked, Owed
  <2>3. SentIsSent(u, ls)
    <3>1. \A o \in 1..Len(ks) : v.ans[o] = "Ok" =>
            /\ ks[o] = "write" => Count(v.core.wire, o) = WriteSize
            /\ ks[o] = "wait" => v.core.acked
      BY <2>1 DEF SendSide, SentIsSent
    <3> QED BY <1>1, <1>3, <1>4, <1>5, <3>1 DEF SentIsSent
  <2>4. \A o \in u.parked.fins : o \in 1..Len(ls) /\ ls[o] = "wait"
    BY <1>1, <1>3, <2>1 DEF SendSide
  <2> QED BY <1>3, <2>1, <2>2, <2>3, <2>4 DEF SendSide
<1>8. AcceptSide(u, ls)
  <2>1. AcceptSide(v, ks)
    BY DEF Sides
  <2> QED BY <1>1, <1>3, <2>1 DEF AcceptSide
<1>9. \A o : Before(v, o) => Before(u, o)
  BY <1>3 DEF Before, RecvBefore, SendBefore, AcceptBefore
<1>10. Before(v, n + 1)
  <2>1. \A o \in Op \cup {NoOp} : o < n => o < n + 1
    BY <1>1, OpsAssumption DEF Op, NoOp
  <2>2. /\ v.parked.read.op \in Op \cup {NoOp} /\ v.parked.write.op \in Op \cup {NoOp} /\ v.parked.fins \subseteq Op
    BY WorldFields, ParkedFields DEF ReadType, WriteType
  <2>3. v.core.wire \in Seq(Op) /\ v.given \in Seq(Op) /\ v.parked.accepts \in Seq(Op)
    BY WorldFields, ParkedFields, CoreFields
  <2>4. /\ \A i \in 1..Len(v.core.wire) : v.core.wire[i] \in Op
        /\ \A i \in 1..Len(v.given) : v.given[i] \in Op
        /\ \A i \in 1..Len(v.parked.accepts) : v.parked.accepts[i] \in Op
    <3> HIDE DEF Op
    <3> QED BY <2>3
  <2> QED BY <1>1, <2>1, <2>2, <2>4 DEF Before, RecvBefore, SendBefore, AcceptBefore
<1>11. Bytes(v) => Bytes(u)
  BY <1>3 DEF Bytes
<1> QED BY <1>3, <1>4, <1>6, <1>7, <1>8, <1>9, <1>10, <1>11 DEF Sides, u, a, n, ls

\* The commands in the channel do not hear of it.
LEMMA ExtendedQueue ==
  ASSUME NEW v, NEW u, NEW ks \in KindSeq, Len(ks) < MaxOps, NEW k \in Kind \cup {"drop"},
         NEW cs \in Seq([op : Op, kind : Kind]), Queued(v, cs, ks), \A o : Before(v, o) => Before(u, o),
         \A o \in Op : o # Len(ks) + 1 => u.ans[o] = v.ans[o]
  PROVE  Queued(u, cs, Append(ks, k))
<1> DEFINE n == Len(ks) + 1
           ls == Append(ks, k)
<1>1. \A o \in 1..Len(ks) : o \in 1..Len(ls) /\ ls[o] = ks[o] /\ o # n /\ o < n /\ o \in Op
  BY ExtendedKinds
<1> HIDE DEF n, ls
<1>2. \A o \in 1..Len(ks) : u.ans[o] = v.ans[o]
  BY <1>1 DEF n
<1>3. \A i \in 1..Len(cs) :
        /\ cs[i].op \in 1..Len(ls) /\ Before(u, cs[i].op)
        /\ cs[i].kind \notin Silent => ls[cs[i].op] = cs[i].kind /\ Owed(u, cs[i].op)
  BY <1>1, <1>2 DEF Queued, Owed
<1>4. \A i, j \in 1..Len(cs) : i < j => cs[i].op < cs[j].op
  BY DEF Queued
<1>5. Queued(u, cs, ls)
  BY <1>3, <1>4 DEF Queued
<1> QED BY <1>5 DEF ls

\* A command is added to the channel.
LEMMA AppendedQueue ==
  ASSUME NEW u, NEW ks \in KindSeq, Len(ks) < MaxOps, NEW k \in Kind \cup {"drop"}, NEW kind \in Kind,
         NEW cs \in Seq([op : Op, kind : Kind]), Queued(u, cs, Append(ks, k)), Before(u, Len(ks) + 1),
         \A i \in 1..Len(cs) : cs[i].op \in 1..Len(ks),
         kind \notin Silent => kind = k /\ Owed(u, Len(ks) + 1)
  PROVE  LET ds == Append(cs, [op |-> Len(ks) + 1, kind |-> kind])
         IN  ds \in Seq([op : Op, kind : Kind]) /\ Len(ds) = Len(cs) + 1 /\ Queued(u, ds, Append(ks, k))
<1> DEFINE n == Len(ks) + 1
           ls == Append(ks, k)
           cmd == [op |-> n, kind |-> kind]
           Cmd == [op : Op, kind : Kind]
           l == Len(cs)
           ds == Append(cs, cmd)
<1>1. /\ n \in Op /\ ls[n] = k /\ n \in 1..Len(ls) /\ \A o \in 1..Len(ks) : o < n
  BY ExtendedKinds
<1>2. Before(u, n) /\ (kind \notin Silent => kind = k /\ Owed(u, n)) /\ Queued(u, cs, ls)
  OBVIOUS
<1> HIDE DEF n, ls
<1>3. cmd \in Cmd /\ cmd.op = n /\ cmd.kind = kind
  BY <1>1
<1>4. cs \in Seq(Cmd) /\ l \in Nat
  OBVIOUS
<1> HIDE DEF Cmd, cmd
<1>5. ds \in Seq(Cmd) /\ Len(ds) = l + 1 /\ ds[l + 1] = cmd /\ \A i \in 1..l : ds[i] = cs[i]
  BY <1>3, <1>4
<1> HIDE DEF ds, l
<1>6. \A i \in 1..(l + 1) : i # l + 1 => i \in 1..l
  BY <1>4
<1>7. /\ \A i \in 1..l :
           /\ cs[i].op \in 1..Len(ls) /\ Before(u, cs[i].op)
           /\ cs[i].kind \notin Silent => ls[cs[i].op] = cs[i].kind /\ Owed(u, cs[i].op)
      /\ \A i, j \in 1..l : i < j => cs[i].op < cs[j].op
  BY <1>2 DEF Queued, l
<1>8. \A i \in 1..Len(ds) :
        /\ ds[i].op \in 1..Len(ls) /\ Before(u, ds[i].op)
        /\ ds[i].kind \notin Silent => ls[ds[i].op] = ds[i].kind /\ Owed(u, ds[i].op)
  <2> TAKE i \in 1..Len(ds)
  <2>1. CASE i = l + 1
    BY <1>1, <1>2, <1>3, <1>5, <2>1
  <2>2. CASE i # l + 1
    <3>1. i \in 1..l /\ ds[i] = cs[i]
      BY <1>5, <1>6, <2>2
    <3> QED BY <1>7, <3>1
  <2> QED BY <2>1, <2>2
<1>9. ASSUME NEW i \in 1..Len(ds), NEW j \in 1..Len(ds), i < j PROVE ds[i].op < ds[j].op
  <2>1. i \in 1..l /\ ds[i] = cs[i]
    BY <1>4, <1>5, <1>9
  <2>2. CASE j = l + 1
    BY <1>1, <1>3, <1>5, <2>1, <2>2 DEF l
  <2>3. CASE j # l + 1
    <3>1. j \in 1..l /\ ds[j] = cs[j]
      BY <1>5, <1>6, <2>3
    <3> QED BY <1>7, <1>9, <2>1, <3>1
  <2> QED BY <2>2, <2>3
<1>10. Queued(u, ds, ls)
  BY <1>8, <1>9 DEF Queued
<1> QED BY <1>5, <1>10 DEF ds, ls, cmd, n, Cmd, l

\* An operation is started, and its command is in the channel or not.
LEMMA StartedInv ==
  ASSUME IInv, scene' = scene, connect = "ok", Len(kinds) < MaxOps, NEW k \in Kind \cup {"drop"},
         NEW x \in Answer, x = "Ok" => k \notin {"end", "write", "wait"},
         w' = [w EXCEPT !.ans[Len(kinds) + 1] = x], kinds' = Append(kinds, k), NEW kind \in Kind,
         kind \notin Silent => kind = k /\ x = "waiting",
         \/ cmds' = cmds
         \/ Len(cmds) < CmdCap /\ cmds' = Append(cmds, [op |-> Len(kinds) + 1, kind |-> kind]),
         UNCHANGED <<events, task, oneshot, connect>>
  PROVE  IInv'
<1> DEFINE n == Len(kinds) + 1
           ls == Append(kinds, k)
           u == WithAns(w, [w.ans EXCEPT ![n] = x])
           ds == Append(cmds, [op |-> n, kind |-> kind])
<1>1. /\ w \in WorldType /\ kinds \in KindSeq /\ Sides(w, kinds) /\ Before(w, n)
      /\ Queued(w, cmds, kinds) /\ Wakes(w, events) /\ Heard(w.core, events) /\ Typed
      /\ EndIsTold(w.core.phase, events, task) /\ Handles(w.core.phase, oneshot, connect, kinds)
      /\ cmds \in Seq([op : Op, kind : Kind]) /\ Len(cmds) <= CmdCap
      /\ (task.state # "stopped" => Bytes(w))
  BY DEF IInv, Typed
<1>2. w' = u
  BY <1>1 DEF WithAns, WorldType
<1>3. n \in Op /\ ls \in KindSeq /\ Len(ls) = n
  BY <1>1, ExtendedKinds
<1>4. /\ u \in WorldType /\ u.core = w.core /\ u.parked = w.parked /\ u.ans[n] = x
      /\ (\A o \in Op : o # n => u.ans[o] = w.ans[o])
      /\ Sides(u, ls) /\ Before(u, n + 1) /\ (\A o : Before(w, o) => Before(u, o)) /\ (Bytes(w) => Bytes(u))
  <2>1. k \in Kind \cup {"drop"} /\ Len(kinds) < MaxOps /\ x \in Answer /\ (x = "Ok" => k \notin {"end", "write", "wait"})
    OBVIOUS
  <2>2. w \in WorldType /\ kinds \in KindSeq /\ Sides(w, kinds) /\ Before(w, Len(kinds) + 1)
    BY <1>1
  <2> QED BY ONLY <2>1, <2>2, ExtendedSides
<1> HIDE DEF u
<1>5. Queued(u, cmds, ls)
  BY <1>1, <1>4, ExtendedQueue
<1>6. /\ Queued(u, cmds', ls) /\ cmds' \in Seq([op : Op, kind : Kind]) /\ Len(cmds') <= CmdCap
  <2>1. CASE cmds' = cmds
    BY <1>1, <1>5, <2>1
  <2>2. CASE Len(cmds) < CmdCap /\ cmds' = ds
    <3>1. Before(u, n) /\ (kind \notin Silent => kind = k /\ Owed(u, n))
      BY <1>1, <1>4 DEF Owed
    <3>2. \A i \in 1..Len(cmds) : cmds[i].op \in 1..Len(kinds)
      BY <1>1 DEF Queued
    <3>3. ds \in Seq([op : Op, kind : Kind]) /\ Len(ds) = Len(cmds) + 1 /\ Queued(u, ds, ls)
      BY <1>1, <1>5, <3>1, <3>2, AppendedQueue
    <3>4. Len(cmds) \in Nat /\ CmdCap \in Nat
      BY <1>1, DriverAssumption
    <3> HIDE DEF ds
    <3> QED BY <2>2, <3>3, <3>4
  <2> QED BY <2>1, <2>2
<1>7. Wakes(u, events) /\ Heard(u.core, events)
  BY <1>1, <1>4 DEF Wakes, Heard, ReadQuiet, WriteQuiet, AcceptQuiet, FinQuiet
<1>8. EndIsTold(u.core.phase, events, task) /\ Handles(u.core.phase, oneshot, connect, ls)
  BY <1>1, <1>4 DEF EndIsTold, Handles
<1> HIDE DEF ls, n
<1>9. kinds' = ls /\ Len(kinds') + 1 = n + 1
  BY <1>3 DEF ls
<1>10. Typed'
  BY <1>1, <1>2, <1>3, <1>4, <1>6, <1>9 DEF Typed
<1> QED BY <1>1, <1>2, <1>4, <1>6, <1>7, <1>8, <1>9, <1>10 DEF IInv

\* The application starts an operation.
LEMMA StartInv ==
  ASSUME IInv, NEW kind \in scene.kinds, Start(kind), scene' = scene
  PROVE  IInv'
<1> DEFINE n == Len(kinds) + 1
<1>1. kind \in Kind
  <2>1. scene \in Scenario
    BY DEF IInv, Typed
  <2> QED BY <2>1, ScenarioAssumption
<1>2. /\ connect = "ok" /\ Len(kinds) < MaxOps /\ Send(kind) /\ kinds' = Append(kinds, kind)
      /\ UNCHANGED <<events, task, oneshot, connect>>
  BY DEF Start
<1>3. kind \in Kind \cup {"drop"}
  BY <1>1
<1>4. kind \in Silent => kind \notin {"end", "write", "wait"}
  BY DEF Silent
<1>5. CASE kind \in Silent
  <2> DEFINE x == "Ok"
  <2>1. x \in Answer /\ w' = [w EXCEPT !.ans[n] = x]
    BY <1>2, <1>5 DEF Answer, Send
  <2>2. \/ cmds' = cmds
        \/ Len(cmds) < CmdCap /\ cmds' = Append(cmds, [op |-> n, kind |-> kind])
    BY <1>2 DEF Send
  <2> HIDE DEF x
  <2> QED BY <1>1, <1>2, <1>3, <1>4, <1>5, <2>1, <2>2, StartedInv
<1>6. CASE kind \notin Silent /\ task.state = "stopped"
  <2> DEFINE x == "Closed"
             release == "release"
  <2>1. x \in Answer /\ w' = [w EXCEPT !.ans[n] = x] /\ cmds' = cmds /\ x # "Ok"
    BY <1>2, <1>6 DEF Answer, Send
  <2>2. release \in Kind /\ release \in Silent
    BY DEF Kind, Silent
  <2> HIDE DEF x, release
  <2> QED BY <1>2, <1>3, <2>1, <2>2, StartedInv
<1>7. CASE kind \notin Silent /\ task.state # "stopped"
  <2> DEFINE x == "waiting"
  <2>1. x \in Answer /\ w' = [w EXCEPT !.ans[n] = x] /\ x # "Ok" /\ x = "waiting"
    BY <1>2, <1>7 DEF Answer, Send
  <2>2. Len(cmds) < CmdCap /\ cmds' = Append(cmds, [op |-> n, kind |-> kind])
    BY <1>2, <1>7 DEF Send
  <2> HIDE DEF x
  <2> QED BY <1>1, <1>2, <1>3, <2>1, <2>2, StartedInv
<1> QED BY <1>5, <1>6, <1>7

\* The application drops the send half.
LEMMA DropSendInv ==
  ASSUME IInv, DropSend, scene' = scene
  PROVE  IInv'
<1> DEFINE n == Len(kinds) + 1
           x == "Ok"
           release == "release"
           drop == "drop"
<1>1. /\ connect = "ok" /\ Len(kinds) < MaxOps /\ kinds' = Append(kinds, drop) /\ w' = [w EXCEPT !.ans[n] = x]
      /\ UNCHANGED <<events, task, oneshot, connect>>
      /\ \/ cmds' = cmds
         \/ Len(cmds) < CmdCap /\ cmds' = Append(cmds, [op |-> n, kind |-> release])
  BY DEF DropSend
<1>2. /\ x \in Answer /\ drop \in Kind \cup {"drop"} /\ drop \notin {"end", "write", "wait"}
      /\ release \in Kind /\ release \in Silent
  BY DEF Answer, Kind, Silent
<1> HIDE DEF x, release, drop
<1> QED BY <1>1, <1>2, StartedInv

\* The future of an operation is dropped.
LEMMA AbandonInv ==
  ASSUME IInv, NEW o \in Waiting, Abandon(o), scene' = scene
  PROVE  IInv'
<1> DEFINE x == "abandoned"
           a == [w.ans EXCEPT ![o] = x]
           u == WithAns(w, a)
<1>1. /\ w' = [w EXCEPT !.ans[o] = x] /\ events' = events /\ cmds' = cmds /\ task' = task
      /\ oneshot' = oneshot /\ connect' = connect /\ kinds' = kinds
  BY DEF Abandon
<1>2. /\ w \in WorldType /\ kinds \in KindSeq /\ Sides(w, kinds) /\ Before(w, Len(kinds) + 1)
      /\ Queued(w, cmds, kinds) /\ Wakes(w, events) /\ Heard(w.core, events) /\ Typed
      /\ EndIsTold(w.core.phase, events, task) /\ Handles(w.core.phase, oneshot, connect, kinds)
      /\ cmds \in Seq([op : Op, kind : Kind]) /\ (task.state # "stopped" => Bytes(w))
  BY DEF IInv, Typed
<1>3. w' = u
  BY <1>1, <1>2 DEF WithAns, WorldType
<1>4. \A i \in 1..Len(kinds) : i \in Op
  BY <1>2, OpsAssumption DEF KindSeq, Op
<1>5. o \in Op /\ w.ans[o] = "waiting" /\ x \in Answer
  BY <1>4 DEF Waiting, Started, Answer
<1>6. a \in [Op -> Answer] /\ a[o] = x /\ \A i \in Op : i # o => a[i] = w.ans[i]
  BY <1>2, <1>5, WorldFields
<1> HIDE DEF a
<1>7. /\ u \in WorldType /\ u.core = w.core /\ u.parked = w.parked /\ u.ans = a
      /\ u.delivered = w.delivered /\ u.wasted = w.wasted /\ u.given = w.given
  BY <1>2, <1>6, WithAnsIs
<1> HIDE DEF u
<1>8. \A i \in Op : u.ans[i] = w.ans[i] \/ (w.ans[i] = "waiting" /\ u.ans[i] = "abandoned")
  BY <1>5, <1>6, <1>7 DEF x
<1>9. \A i \in 1..Len(kinds) : /\ u.ans[i] = "Ok" => w.ans[i] = "Ok"
                               /\ Owed(w, i) => Owed(u, i)
                               /\ w.ans[i] \notin {"Ok", "waiting"} => u.ans[i] \notin {"Ok", "waiting"}
  BY <1>4, <1>8 DEF Owed
<1>10. RecvSide(u, kinds)
  <2>1. RecvSide(w, kinds)
    BY <1>2 DEF Sides
  <2>2. w.parked.read.op # NoOp => Owed(u, w.parked.read.op)
    BY <1>9, <2>1 DEF RecvSide
  <2>3. w.wasted > 0 => \E i \in 1..Len(kinds) : kinds[i] \in {"read", "end"} /\ u.ans[i] \notin {"Ok", "waiting"}
    BY <1>9, <2>1 DEF RecvSide
  <2>4. \A i \in 1..Len(kinds) : kinds[i] = "end" /\ u.ans[i] = "Ok" => w.core.fin /\ w.core.recv = "gone"
    BY <1>9, <2>1 DEF RecvSide
  <2> QED BY <1>7, <2>1, <2>2, <2>3, <2>4 DEF RecvSide
<1>11. SendSide(u, kinds)
  <2>1. SendSide(w, kinds)
    BY <1>2 DEF Sides
  <2>2. WriteParked(u, kinds)
    BY <1>7, <1>9, <2>1 DEF SendSide, WriteParked
  <2>3. SentIsSent(u, kinds)
    BY <1>7, <1>9, <2>1 DEF SendSide, SentIsSent
  <2> QED BY <1>7, <2>1, <2>2, <2>3 DEF SendSide
<1>12. AcceptSide(u, kinds)
  BY <1>2, <1>7 DEF Sides, AcceptSide
<1>13. (\A i : Before(w, i) => Before(u, i)) /\ (Bytes(w) => Bytes(u))
  BY <1>7 DEF Before, RecvBefore, SendBefore, AcceptBefore, Bytes
<1>14. Queued(u, cmds, kinds)
  BY <1>2, <1>9, <1>13 DEF Queued
<1>15. Wakes(u, events) /\ Heard(u.core, events)
  BY <1>2, <1>7 DEF Wakes, Heard, ReadQuiet, WriteQuiet, AcceptQuiet, FinQuiet
<1>16. Typed'
  BY <1>1, <1>2, <1>3, <1>7 DEF Typed
<1> QED BY <1>1, <1>2, <1>3, <1>7, <1>10, <1>11, <1>12, <1>13, <1>14, <1>15, <1>16 DEF IInv, Sides

\* Every step of the driver, of connect and of the application keeps the invariant.
LEMMA NextInv ==
  ASSUME IInv, [Next]_vars
  PROVE  IInv'
<1>1. CASE UNCHANGED vars
  <2>1. /\ w' = w /\ events' = events /\ cmds' = cmds /\ task' = task /\ oneshot' = oneshot
        /\ connect' = connect /\ kinds' = kinds /\ scene' = scene
    BY <1>1 DEF vars, moving
  <2>2. Typed'
    BY <2>1 DEF IInv, Typed
  <2> QED BY <2>1, <2>2 DEF IInv
<1>2. CASE Next
  <2>1. scene' = scene
    BY <1>2 DEF Next
  <2>2. CASE \E fs \in Datagrams : RecvDatagram(fs)
    <3>1. PICK fs \in Datagrams : RecvDatagram(fs)
      BY <2>2
    <3> QED BY <2>1, <3>1, RecvDatagramInv
  <2>3. CASE Expire
    BY <2>1, <2>3, ExpireInv
  <2>4. CASE OnCommand
    BY <2>1, <2>4, OnCommandInv
  <2>5. CASE PumpEvent
    BY <2>1, <2>5, PumpEventInv
  <2>6. CASE Break \/ AbortLands
    <3>1. Ends
      BY <2>6 DEF Break, AbortLands
    <3> QED BY <2>1, <3>1, EndsInv
  <2>7. CASE ConnectReturns \/ TimesOut \/ DropConnect
    BY <2>1, <2>7, ConnectInv
  <2>8. CASE \E kind \in scene.kinds : Start(kind)
    <3>1. PICK kind \in scene.kinds : Start(kind)
      BY <2>8
    <3> QED BY <2>1, <3>1, StartInv
  <2>9. CASE \E o \in Waiting : Abandon(o)
    <3>1. PICK o \in Waiting : Abandon(o)
      BY <2>9
    <3> QED BY <2>1, <3>1, AbandonInv
  <2>10. CASE DropSend
    BY <2>1, <2>10, DropSendInv
  <2> QED BY <1>2, <2>2, <2>3, <2>4, <2>5, <2>6, <2>7, <2>8, <2>9, <2>10 DEF Next
<1> QED BY <1>1, <1>2

\* The inductive invariant holds of every reachable state.
THEOREM Invariance == Spec => []IInv
<1>1. Init => IInv
  BY InitInv
<1>2. IInv /\ [Next]_vars => IInv'
  BY NextInv
<1> QED BY <1>1, <1>2, PTL DEF Spec

-----------------------------------------------------------------------------
(* What it gives                                                           *)

\* The bytes unread, the credit and the streams to accept stay within what the peer sent.
LEMMA TypeFromInv == IInv => TypeOK
<1> SUFFICES ASSUME IInv PROVE TypeOK
  OBVIOUS
<1>1. w \in WorldType /\ RecvSide(w, kinds) /\ SendSide(w, kinds) /\ AcceptSide(w, kinds) /\ Typed
  BY DEF IInv, Typed, Sides
<1>2. w.core \in CoreType /\ w.parked \in ParkedType
  BY <1>1, WorldFields
<1>3. /\ w.core.phase \in Phase /\ w.core.recv \in RecvState /\ w.core.send \in SendState /\ w.core.fact \in Fact
      /\ w.core.wire \in Seq(Op) /\ w.core.unread \in Nat /\ w.core.arrived \in 0..MaxBytes /\ w.core.credit \in Nat
      /\ w.core.granted \in 0..MaxCredit /\ w.core.ready \in Nat /\ w.core.opened \in 0..MaxStreams
  BY <1>2, CoreFields
<1>4. w.core.unread \in 0..MaxBytes
  BY <1>1, <1>3, DriverAssumption DEF RecvSide
<1>5. w.core.credit \in 0..MaxCredit /\ Len(w.core.wire) <= MaxCredit
  <2> DEFINE l == Len(w.core.wire)
  <2>1. l \in Nat /\ l + w.core.credit <= w.core.granted
    BY <1>1, <1>3 DEF SendSide, SendCore
  <2> HIDE DEF l
  <2>2. w.core.credit \in 0..MaxCredit /\ l <= MaxCredit
    BY <1>3, <2>1, DriverAssumption
  <2> QED BY <2>2 DEF l
<1>6. w.core.ready \in 0..MaxStreams
  BY <1>1, <1>3, DriverAssumption DEF AcceptSide
<1>7. /\ w.parked.accepts \in Seq(Op) /\ w.parked.fins \subseteq Op
      /\ w.parked.read \in [op : Op \cup {NoOp}, kind : {"read", "end"}, got : 0..EndLimit]
      /\ w.parked.write \in [op : Op \cup {NoOp}, left : 0..WriteSize]
  BY <1>2, ParkedFields DEF ReadType, WriteType
<1>8. /\ w.ans \in [Op -> Answer] /\ w.closed \in BOOLEAN
      /\ w.given \in Seq(Op) /\ w.delivered \in Nat /\ w.wasted \in Nat
  BY <1>1, WorldFields
<1>9. kinds \in Seq(Kind \cup {"drop"})
  BY <1>1 DEF Typed, KindSeq
<1> QED BY <1>1, <1>3, <1>4, <1>5, <1>6, <1>7, <1>8, <1>9 DEF TypeOK, Typed, Phase, RecvState, SendState, Fact

\* The driver's state has its type, the amounts within what the peer sent or allowed and the
\* command channel within its capacity (src/client.rs, src/conn.rs).
THEOREM TypeCorrect == Spec => []TypeOK
<1>1. IInv => TypeOK
  BY TypeFromInv
<1> QED BY <1>1, Invariance, PTL

\* A driver that goes to sleep leaves nothing parked that could go on: Parked's methods are
\* called for every event that could unblock what is parked.
LEMMA WakeupsFromInv == IInv => NoLostWakeup
<1> SUFFICES ASSUME IInv, Selecting PROVE NoLostWakeup
  BY DEF NoLostWakeup
<1>1. ReadQuiet(w) /\ WriteQuiet(w) /\ AcceptQuiet(w) /\ FinQuiet(w)
  BY SelectingIs
<1>2. w.core.ended => w.core.recv = "gone"
  BY DEF IInv, Sides, RecvSide
<1> QED BY <1>1, <1>2 DEF NoLostWakeup, ReadQuiet, WriteQuiet, AcceptQuiet, FinQuiet

\* No lost wakeup in run_driver, for any number of operations, frames and bytes.
THEOREM Wakeups == Spec => []NoLostWakeup
<1>1. IInv => NoLostWakeup
  BY WakeupsFromInv
<1> QED BY <1>1, Invariance, PTL

\* The wire and the streams handed out are in the order of the operations.
LEMMA OrderFromInv == IInv => ServedInOrder
<1> SUFFICES ASSUME IInv PROVE ServedInOrder
  OBVIOUS
<1>1. w \in WorldType /\ SendCore(w.core) /\ AcceptSide(w, kinds)
  BY DEF IInv, Typed, Sides, SendSide
<1>2. w.core.wire \in Seq(Op) /\ w.given \in Seq(Op)
  BY <1>1, WorldFields, CoreFields
<1>3. DOMAIN w.core.wire = 1..Len(w.core.wire) /\ DOMAIN w.given = 1..Len(w.given)
  <2> HIDE DEF Op
  <2> QED BY <1>2
<1> QED BY <1>1, <1>3 DEF ServedInOrder, SendCore, AcceptSide

\* Writes never mix on the wire, and a stream goes to the accept that has waited longest.
THEOREM Served == Spec => []ServedInOrder
<1>1. IInv => ServedInOrder
  BY OrderFromInv
<1> QED BY <1>1, Invariance, PTL

\* An operation that succeeded was carried out, and no byte is lost but on a failed read.
LEMMA DoneFromInv == IInv => OkMeansDone
<1> SUFFICES ASSUME IInv PROVE OkMeansDone
  OBVIOUS
<1>1. RecvSide(w, kinds) /\ SentIsSent(w, kinds) /\ (task.state # "stopped" => Bytes(w))
  BY DEF IInv, Sides, SendSide
<1>2. ASSUME NEW o \in Started, w.ans[o] = "Ok"
      PROVE  /\ kinds[o] = "write" => Cardinality({i \in DOMAIN w.core.wire : w.core.wire[i] = o}) = WriteSize
             /\ kinds[o] = "wait" => w.core.acked
             /\ kinds[o] = "end" => w.core.fin /\ w.core.unread = 0 /\ w.core.recv = "gone"
  <2>1. /\ kinds[o] = "write" => Count(w.core.wire, o) = WriteSize
        /\ kinds[o] = "wait" => w.core.acked
    BY <1>1, <1>2 DEF SentIsSent, Started
  <2>2. kinds[o] = "end" => w.core.fin /\ w.core.unread = 0 /\ w.core.recv = "gone"
    BY <1>1, <1>2 DEF RecvSide, Started
  <2> QED BY <2>1, <2>2 DEF Count
<1>3. task.state # "stopped" => w.core.pos = w.delivered + w.wasted + w.parked.read.got
  BY <1>1 DEF Bytes
<1>4. w.wasted > 0 => \E o \in Started : kinds[o] \in {"read", "end"} /\ w.ans[o] # "Ok"
  BY <1>1 DEF RecvSide, Started
<1> QED BY <1>2, <1>3, <1>4 DEF OkMeansDone

\* Ok is only said of what has been done, and every byte that left the core is accounted for.
THEOREM Done == Spec => []OkMeansDone
<1>1. IInv => OkMeansDone
  BY DoneFromInv
<1> QED BY <1>1, Invariance, PTL
=============================================================================
