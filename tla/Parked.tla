------------------------------- MODULE Parked -------------------------------
(***************************************************************************)
(* Parked of src/conn.rs: the operations of a connection's handles that    *)
(* the core answered with "not right now", and what becomes of them.       *)
(*                                                                         *)
(* Each operator takes a world w to the world after a method of Parked:    *)
(* w.core is the ConnState the method borrows, w.parked the Parked, w.ans  *)
(* what has come back over each operation's oneshot. One stream carries    *)
(* the traffic; its halves are those of module ConnState. Of other streams *)
(* only the queue of those to accept and the number still to open count.   *)
(***************************************************************************)
EXTENDS Integers, Sequences, FiniteSets

CONSTANTS
  MaxOps,      \* bound: operations an application ever starts
  WriteSize,   \* bytes of a write_all
  ReadMax,     \* max of a read
  EndLimit     \* limit of a read_to_end

ASSUME OpsAssumption == MaxOps \in Nat \ {0}
ASSUME SizeAssumption == WriteSize \in Nat \ {0} /\ ReadMax \in Nat \ {0} /\ EndLimit \in Nat

Op == 1..MaxOps
NoOp == 0
Kind == {"open", "accept", "write", "finish", "wait", "reset", "stop", "release", "read", "end", "close"}
\* the variants of Cmd without a reply channel
Silent == {"release", "close"}

\* "waiting" is a receiver that is being awaited, "abandoned" one whose future was dropped.
Answer == {"idle", "waiting", "abandoned", "Ok", "Closed", "ClosedStream", "Stopped", "Reset", "Limit"}

NoRead == [op |-> NoOp, kind |-> "read", got |-> 0]
NoWrite == [op |-> NoOp, left |-> 0]
NewParked == [accepts |-> <<>>, write |-> NoWrite, read |-> NoRead, fins |-> {}]

Least(a, b) == IF a < b THEN a ELSE b

-----------------------------------------------------------------------------
(* Replies                                                                 *)

\* oneshot::Sender::send, the result ignored.
Reply(w, ops, answer) ==
  [w EXCEPT !.ans = [o \in Op |-> IF o \in ops /\ @[o] = "waiting" THEN answer ELSE @[o]]]

\* A read's bytes leave with a reply that carries them to somebody, or they are gone.
ReplyBytes(w, r) ==
  IF w.ans[r.op] = "waiting"
  THEN [Reply(w, {r.op}, "Ok") EXCEPT !.delivered = @ + r.got]
  ELSE [w EXCEPT !.wasted = @ + r.got]
ReplyReadError(w, r, answer) == [Reply(w, {r.op}, answer) EXCEPT !.wasted = @ + r.got]

-----------------------------------------------------------------------------
(* Reads                                                                   *)

\* pending_reads.insert: what was parked for the stream before is dropped.
ParkRead(w, r) ==
  LET old == w.parked.read
      dropped == IF old.op = NoOp THEN w ELSE ReplyReadError(w, old, "Closed")
  IN  [dropped EXCEPT !.parked.read = r]

\* The loop of pump_read, all its stream_reads at once: a read takes what there is, a
\* read_to_end everything up to one byte beyond its limit, and goes on to the FIN.
PumpRead(w, r) ==
  LET c == w.core
      room == (IF r.kind = "read" THEN ReadMax ELSE EndLimit + 1) - r.got
      n == IF c.recv = "open" THEN Least(c.unread, room) ELSE 0
      meets == c.recv = "open" /\ c.fin /\ c.unread < room
      full == [r EXCEPT !.got = @ + n]
      taken == [w EXCEPT !.core.unread = @ - n, !.core.pos = @ + n,
                         !.core.recv = IF meets \/ @ = "reset" THEN "gone" ELSE @,
                         !.core.ended = @ \/ meets]
      finished == IF r.kind = "end" THEN [taken EXCEPT !.core.ended = FALSE] ELSE taken
  IN  CASE c.ended \/ meets -> ReplyBytes(finished, full)
        [] ~c.ended /\ c.recv = "gone" -> ReplyReadError(w, r, "ClosedStream")
        [] c.recv = "reset" -> ReplyReadError(taken, r, "Reset")
        [] c.recv = "open" /\ ~meets ->
             IF r.kind = "end" /\ full.got > EndLimit THEN ReplyReadError(taken, full, "Limit")
             ELSE IF r.kind = "read" /\ n > 0 THEN ReplyBytes(taken, full)
             ELSE ParkRead(taken, full)

OnReadable(w) ==
  IF w.parked.read.op = NoOp THEN w
  ELSE PumpRead([w EXCEPT !.parked.read = NoRead], w.parked.read)

FailPendingRead(w, answer) ==
  IF w.parked.read.op = NoOp THEN w
  ELSE ReplyReadError([w EXCEPT !.parked.read = NoRead], w.parked.read, answer)

-----------------------------------------------------------------------------
(* Writes                                                                  *)

ParkWrite(w, p) ==
  [Reply(w, {w.parked.write.op} \ {NoOp}, "Closed") EXCEPT !.parked.write = p]

\* quinn takes no bytes on a connection that is closing, on a half that is finished,
\* reset or stopped, or beyond the stream's credit.
Writable(c) == c.phase = "open" /\ c.send = "ready" /\ ~c.stopped

PumpWrite(w, p) ==
  LET n == IF Writable(w.core) THEN Least(w.core.credit, p.left) ELSE 0
      wrote == [w EXCEPT !.core.credit = @ - n, !.core.wire = @ \o [i \in 1..n |-> p.op]]
  IN  CASE n = p.left -> Reply(wrote, {p.op}, "Ok")
        [] n < p.left /\ w.core.phase = "open" /\ w.core.send # "ready" -> Reply(w, {p.op}, "ClosedStream")
        [] n < p.left /\ w.core.phase = "open" /\ w.core.send = "ready" /\ w.core.stopped ->
             Reply(w, {p.op}, "Stopped")
        [] n < p.left /\ (Writable(w.core) \/ w.core.phase # "open") ->
             ParkWrite(wrote, [p EXCEPT !.left = @ - n])

OnWritable(w) ==
  IF w.parked.write.op = NoOp THEN w
  ELSE PumpWrite([w EXCEPT !.parked.write = NoWrite], w.parked.write)

FailBlockedWrite(w, answer) ==
  [Reply(w, {w.parked.write.op} \ {NoOp}, answer) EXCEPT !.parked.write = NoWrite]

-----------------------------------------------------------------------------
(* The end of the send half, and accepts                                   *)

FailFinWaiters(w, answer) == [Reply(w, w.parked.fins, answer) EXCEPT !.parked.fins = {}]

OnFinAcked(w) == FailFinWaiters(w, "Ok")

\* A stop that only the waiters for the FIN hear of.
OnStoppedWaitersOnly(w) == FailFinWaiters(w, "Stopped")

OnStopped(w) == OnWritable(FailFinWaiters(w, "Stopped"))

\* The next stream goes to the accept that asked for it.
HandStream(w, op) == [Reply(w, {op}, "Ok") EXCEPT !.core.ready = @ - 1, !.given = Append(@, op)]

\* Newest first.
OnStreamOpenedLifo(w) ==
  LET q == w.parked.accepts
      n == Least(w.core.ready, Len(q))
  IN  [Reply(w, {q[i] : i \in (Len(q) - n + 1)..Len(q)}, "Ok") EXCEPT
        !.core.ready = @ - n,
        !.given = @ \o [i \in 1..n |-> q[Len(q) + 1 - i]],
        !.parked.accepts = SubSeq(@, 1, Len(q) - n)]

OnStreamOpened(w) ==
  LET q == w.parked.accepts
      n == Least(w.core.ready, Len(q))
  IN  [Reply(w, {q[i] : i \in 1..n}, "Ok") EXCEPT
        !.core.ready = @ - n,
        !.given = @ \o SubSeq(q, 1, n),
        !.parked.accepts = SubSeq(@, n + 1, Len(q))]

\* fail_all; the accepts, the write, the read and the waiters.
FailAll(w) ==
  LET accepts == {w.parked.accepts[i] : i \in DOMAIN w.parked.accepts}
  IN  [Reply(FailPendingRead(FailBlockedWrite(FailFinWaiters(w, "Closed"), "Closed"), "Closed"),
             accepts, "Closed")
         EXCEPT !.parked.accepts = <<>>]

-----------------------------------------------------------------------------
(* apply_cmd                                                               *)

OpenBi(w, op) ==
  CASE w.core.phase # "open" -> Reply(w, {op}, "Closed")
    [] w.core.phase = "open" /\ w.core.opens = 0 -> Reply(w, {op}, "ClosedStream")
    [] w.core.phase = "open" /\ w.core.opens > 0 -> [Reply(w, {op}, "Ok") EXCEPT !.core.opens = @ - 1]

AcceptBi(w, op) ==
  IF w.core.ready > 0 THEN HandStream(w, op) ELSE [w EXCEPT !.parked.accepts = Append(@, op)]

\* stream_finish of the core answers from the recorded fact before it asks quinn.
Finish(w, op) ==
  LET c == w.core
  IN  CASE c.fact = "Stopped" \/ (c.fact = "None" /\ c.send \in {"ready", "finished", "reset"} /\ c.stopped) ->
             [Reply(w, {op}, "Stopped") EXCEPT !.core.fact = "Stopped"]
        [] c.fact = "None" /\ c.send = "ready" /\ ~c.stopped ->
             [Reply(w, {op}, "Ok") EXCEPT !.core.fact = "Queued", !.core.send = "finished"]
        [] c.fact \in {"Queued", "Acked"}
           \/ (c.fact = "None" /\ (c.send = "gone" \/ (c.send # "ready" /\ ~c.stopped))) ->
             Reply(w, {op}, "ClosedStream")

\* A FIN that is queued is taken for one that has arrived.
WaitForQueued(w, op) ==
  CASE w.core.fact \in {"Acked", "Queued"} -> Reply(w, {op}, "Ok")
    [] w.core.fact = "Stopped" -> Reply(w, {op}, "Stopped")
    [] w.core.fact = "None" -> Reply(w, {op}, "ClosedStream")

WaitFinished(w, op) ==
  CASE w.core.fact = "Acked" -> Reply(w, {op}, "Ok")
    [] w.core.fact = "Stopped" -> Reply(w, {op}, "Stopped")
    [] w.core.fact = "Queued" -> [w EXCEPT !.parked.fins = @ \cup {op}]
    [] w.core.fact = "None" -> Reply(w, {op}, "ClosedStream")

\* stream_reset forgets both facts, whether or not quinn then agrees.
Reset(w, op) ==
  LET forgot == [w EXCEPT !.core.fact = "None", !.core.ended = FALSE]
      failed == FailBlockedWrite(FailFinWaiters(forgot, "ClosedStream"), "ClosedStream")
  IN  IF w.core.send \in {"ready", "finished"}
      THEN Reply([failed EXCEPT !.core.send = "reset"], {op}, "Ok")
      ELSE Reply(forgot, {op}, "ClosedStream")

Stop(w, op) ==
  LET forgot == [w EXCEPT !.core.ended = FALSE]
  IN  IF w.core.recv \in {"open", "reset"}
      THEN Reply([FailPendingRead(forgot, "ClosedStream") EXCEPT !.core.recv = "gone", !.core.unread = 0],
                 {op}, "Ok")
      ELSE Reply(forgot, {op}, "ClosedStream")

ReleaseSend(w) == [w EXCEPT !.core.fact = "None"]

Close(w) == [w EXCEPT !.core.phase = "closing"]

ApplyCmd(w, cmd) ==
  CASE cmd.kind = "open" -> OpenBi(w, cmd.op)
    [] cmd.kind = "accept" -> AcceptBi(w, cmd.op)
    [] cmd.kind = "write" -> PumpWrite(w, [op |-> cmd.op, left |-> WriteSize])
    [] cmd.kind = "finish" -> Finish(w, cmd.op)
    [] cmd.kind = "wait" -> WaitFinished(w, cmd.op)
    [] cmd.kind = "reset" -> Reset(w, cmd.op)
    [] cmd.kind = "stop" -> Stop(w, cmd.op)
    [] cmd.kind = "release" -> ReleaseSend(w)
    [] cmd.kind \in {"read", "end"} -> PumpRead(w, [op |-> cmd.op, kind |-> cmd.kind, got |-> 0])
    [] cmd.kind = "close" -> Close(w)
=============================================================================
