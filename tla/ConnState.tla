------------------------------ MODULE ConnState ------------------------------
(***************************************************************************)
(* proto/src/conn.rs: the per-stream bookkeeping of one connection, which  *)
(* makes stable answers out of the one-shot ones of quinn_proto.           *)
(*                                                                         *)
(* recv, send, remote and events are quinn_proto's: the receive and the    *)
(* send half of every stream, the streams the peer has opened, and the     *)
(* events poll() has yet to yield. The peer's frames change them. Readable *)
(* and Writable events pass through ConnState unchanged and are left out.  *)
(* The endpoint services a connection right after each datagram; ConnState *)
(* itself, whose methods are public, lets a caller act in between, and so  *)
(* does this module.                                                       *)
(***************************************************************************)
EXTENDS Integers, Sequences

CONSTANTS
  NumPeer,    \* bidirectional streams the peer may open, numbered from 1
  NumLocal,   \* bidirectional streams the peer's credit lets us open
  Busy,       \* the streams that carry traffic: the others are only opened and accepted
  MaxBytes    \* bytes the peer sends on a stream, and the longest read

ASSUME NumAssumption == NumPeer \in Nat /\ NumLocal \in Nat /\ MaxBytes \in Nat
ASSUME BusyAssumption == Busy \subseteq 1..(NumPeer + NumLocal)

VARIABLES
  cs,        \* the ConnState: ready_accepts, finished_reads, send_fins, dirty
  recv,      \* quinn: each stream's receive half
  send,      \* quinn: each stream's send half
  remote,    \* quinn: streams the peer has opened, and taken by accept
  local,     \* quinn: streams opened here
  events,    \* quinn: what poll() will yield
  unsent,    \* quinn: a caller's operation has left frames to send
  hist       \* history: streams handed out by accept_bi, reads that met the end,
             \* how often a terminal send fact was told

quinn == <<recv, send, remote, local, events>>
vars == <<cs, recv, send, remote, local, events, unsent, hist>>

Stream == 1..(NumPeer + NumLocal)
Open == (1..remote.opened) \cup {NumPeer + i : i \in 1..local}
\* the streams a caller has been told of, by a StreamOpened event or its own calls
Known == (1..remote.taken) \cup {NumPeer + i : i \in 1..local}
Fin == {"Queued", "Acked", "Stopped"}
Terminal == {"Acked", "Stopped"}
NoFin == "None"

\* unread bytes, whether all of the peer's data and its FIN are here, and the state:
\* a half that has been read to the end, reset and seen to be so, or stopped is gone.
RecvHalf == [unread : 0..MaxBytes, sent : 0..MaxBytes, fin : BOOLEAN, state : {"open", "reset", "gone"}]
SendHalf == [state : {"ready", "finished", "reset", "gone"}, stopped : BOOLEAN]

-----------------------------------------------------------------------------
(* What the bookkeeping does                                               *)

\* The first terminal fact stands. send_fins is total here: NoFin where the map has no
\* entry.
RecordSendFin(c, id, fact) ==
  IF c.send_fins[id] \in Terminal THEN c ELSE [c EXCEPT !.send_fins[id] = fact]

\* Reports a fact even when one stands.
ReportsAlways(c, id) == TRUE

\* record_send_fin's answer: the fact is new and is passed on to the caller.
Reports(c, id) == c.send_fins[id] \notin Terminal

\* A read that takes an empty buffer for the end of the stream.
EndsWhenBlocked(half, len) == half.state = "open" /\ half.unread < len

\* The loop of stream_read asks for more than there is and meets the FIN.
MeetsEnd(half, len) == half.state = "open" /\ half.unread < len /\ half.fin

\* A copy that trusts the buffer's length.
CopiedWhole(half, len) == len

Copied(half, len) == IF half.unread < len THEN half.unread ELSE len

\* What stream_read answers: the remembered end first, then what quinn says, in which
\* bytes copied are reported before the end that followed them.
ReadAnswer(id, len) ==
  LET half == recv[id]
  IN  CASE id \in cs.finished_reads -> "Finished"
        [] id \notin cs.finished_reads /\ len = 0 -> "Blocked"
        [] id \notin cs.finished_reads /\ len > 0 ->
             CASE half.state = "gone" -> "ClosedStream"
               [] half.state = "reset" -> "Reset"
               [] half.state = "open" /\ Copied(half, len) > 0 -> "Read"
               [] half.state = "open" /\ Copied(half, len) = 0 ->
                    IF MeetsEnd(half, len) THEN "Finished" ELSE "Blocked"

-----------------------------------------------------------------------------
(* The caller                                                              *)

OpenBi ==
  /\ local < NumLocal
  /\ local' = local + 1
  /\ UNCHANGED <<cs, recv, send, remote, events, unsent, hist>>

\* accept_bi that asks quinn first.
AcceptQuinnFirst ==
  \/ /\ remote.taken = remote.opened /\ cs.ready_accepts # <<>>
     /\ cs' = [cs EXCEPT !.ready_accepts = Tail(@)]
     /\ hist' = [hist EXCEPT !.accepted = Append(@, Head(cs.ready_accepts))]
     /\ UNCHANGED <<recv, send, remote, local, events, unsent>>
  \/ /\ remote.taken < remote.opened
     /\ remote' = [remote EXCEPT !.taken = @ + 1]
     /\ hist' = [hist EXCEPT !.accepted = Append(@, remote.taken + 1)]
     /\ UNCHANGED <<cs, recv, send, local, events, unsent>>

\* Streams queued by a servicing pass first, then what quinn still holds.
AcceptBi ==
  \/ /\ cs.ready_accepts # <<>>
     /\ cs' = [cs EXCEPT !.ready_accepts = Tail(@)]
     /\ hist' = [hist EXCEPT !.accepted = Append(@, Head(cs.ready_accepts))]
     /\ UNCHANGED <<recv, send, remote, local, events, unsent>>
  \/ /\ cs.ready_accepts = <<>> /\ remote.taken < remote.opened
     /\ remote' = [remote EXCEPT !.taken = @ + 1]
     /\ hist' = [hist EXCEPT !.accepted = Append(@, remote.taken + 1)]
     /\ UNCHANGED <<cs, recv, send, local, events, unsent>>

\* stream_read that leaves the dirty flag alone.
ReadUnmarked(c) == c

MarkDirty(c) == [c EXCEPT !.dirty = TRUE]

\* A read that meets the end and does not remember it when it also copied bytes.
NoteBareEnd(c, id, half, len) ==
  IF MeetsEnd(half, len) /\ half.unread = 0
  THEN [c EXCEPT !.finished_reads = @ \cup {id}] ELSE c

NoteEnd(c, id, half, len) ==
  IF MeetsEnd(half, len) THEN [c EXCEPT !.finished_reads = @ \cup {id}] ELSE c

\* stream_read past its early returns, a remembered end and an empty buffer. quinn
\* frees the half when its end or its reset is observed.
StreamRead(id, len) ==
  LET half == recv[id]
      ends == MeetsEnd(half, len)
      n == IF half.state = "open" THEN Copied(half, len) ELSE 0
  IN  /\ id \notin cs.finished_reads
      /\ recv' = [recv EXCEPT ![id].unread = @ - n,
                              ![id].state = IF ends \/ @ = "reset" THEN "gone" ELSE @]
      /\ cs' = NoteEnd(MarkDirty(cs), id, half, len)
      /\ unsent' = (unsent \/ n > 0 \/ ends)
      /\ hist' = [hist EXCEPT !.ended = IF ends THEN @ \cup {id} ELSE @]
      /\ UNCHANGED <<send, remote, local, events>>

StreamWrite(id) ==
  /\ cs' = [cs EXCEPT !.dirty = TRUE]
  /\ unsent' = (unsent \/ (send[id].state = "ready" /\ ~send[id].stopped))
  /\ UNCHANGED <<quinn, hist>>

\* stream_finish: a stream with a recorded fact is turned away unasked; quinn refuses
\* a stopped one, which is recorded, and one that is not ready.
StreamFinish(id) ==
  /\ cs.send_fins[id] = NoFin
  /\ \/ /\ send[id].state = "ready" /\ ~send[id].stopped
        /\ send' = [send EXCEPT ![id].state = "finished"]
        /\ cs' = [cs EXCEPT !.dirty = TRUE, !.send_fins[id] = "Queued"]
        /\ unsent' = TRUE
        /\ UNCHANGED hist
     \/ /\ send[id].state # "gone" /\ send[id].stopped
        /\ cs' = RecordSendFin([cs EXCEPT !.dirty = TRUE], id, "Stopped")
        /\ hist' = [hist EXCEPT !.told[id] = @ + 1]
        /\ UNCHANGED <<send, unsent>>
     \/ /\ send[id].state = "gone" \/ (send[id].state # "ready" /\ ~send[id].stopped)
        /\ cs' = [cs EXCEPT !.dirty = TRUE]
        /\ UNCHANGED <<send, unsent, hist>>
  /\ UNCHANGED <<recv, remote, local, events>>

\* The caller gives up what is remembered of a stream's halves.
Release(id, halves) ==
  [hist EXCEPT !.ended = IF "recv" \in halves THEN @ \ {id} ELSE @,
               !.told = IF "send" \in halves THEN [@ EXCEPT ![id] = 0] ELSE @]

\* stream_reset clears both facts, whatever quinn then says.
StreamReset(id) ==
  /\ cs' = [cs EXCEPT !.dirty = TRUE, !.finished_reads = @ \ {id}, !.send_fins[id] = NoFin]
  /\ IF send[id].state \in {"ready", "finished"}
     THEN send' = [send EXCEPT ![id].state = "reset"] /\ unsent' = TRUE
     ELSE UNCHANGED <<send, unsent>>
  /\ hist' = Release(id, {"recv", "send"})
  /\ UNCHANGED <<recv, remote, local, events>>

StreamStop(id) ==
  /\ cs' = [cs EXCEPT !.dirty = TRUE, !.finished_reads = @ \ {id}]
  /\ recv' = [recv EXCEPT ![id].state = "gone"]
  /\ unsent' = (unsent \/ recv[id].state # "gone")
  /\ hist' = Release(id, {"recv"})
  /\ UNCHANGED <<send, remote, local, events>>

ForgetRecv(id) ==
  /\ cs' = [cs EXCEPT !.finished_reads = @ \ {id}]
  /\ hist' = Release(id, {"recv"})
  /\ UNCHANGED <<quinn, unsent>>

ForgetSend(id) ==
  /\ cs' = [cs EXCEPT !.send_fins[id] = NoFin]
  /\ hist' = Release(id, {"send"})
  /\ UNCHANGED <<quinn, unsent>>

ForgetStream(id) ==
  /\ cs' = [cs EXCEPT !.finished_reads = @ \ {id}, !.send_fins[id] = NoFin]
  /\ hist' = Release(id, {"recv", "send"})
  /\ UNCHANGED <<quinn, unsent>>

-----------------------------------------------------------------------------
(* The servicing pass                                                      *)

\* One event of poll(): a batch of streams to accept, or a send half's end.
Poll(s, ev) ==
  CASE ev.kind = "Opened" ->
         [s EXCEPT !.cs.ready_accepts =
                      @ \o [i \in 1..(remote.opened - s.taken) |-> s.taken + i],
                   !.taken = remote.opened]
    [] ev.kind \in Terminal ->
         [s EXCEPT !.cs = RecordSendFin(@, ev.id, ev.kind),
                   !.told[ev.id] = IF Reports(s.cs, ev.id) THEN @ + 1 ELSE @]

\* poll() after poll(), in order.
Polled[n \in 0..Len(events)] ==
  IF n = 0 THEN [cs |-> cs, taken |-> remote.taken, told |-> hist.told]
  ELSE Poll(Polled[n - 1], events[n])

\* service_streams, then the endpoint's drain of the transmits and clear_dirty.
ServicePass ==
  LET done == Polled[Len(events)]
  IN  /\ cs' = [done.cs EXCEPT !.dirty = FALSE]
      /\ remote' = [remote EXCEPT !.taken = done.taken]
      /\ hist' = [hist EXCEPT !.told = done.told]
      /\ events' = <<>>
      /\ unsent' = FALSE
      /\ UNCHANGED <<recv, send, local>>

-----------------------------------------------------------------------------
(* The peer                                                                *)

PeerOpens ==
  /\ remote.opened < NumPeer
  /\ remote' = [remote EXCEPT !.opened = @ + 1]
  /\ events' = IF \E i \in DOMAIN events : events[i].kind = "Opened" THEN events
               ELSE Append(events, [kind |-> "Opened", id |-> 0])
  /\ UNCHANGED <<cs, recv, send, local, unsent, hist>>

PeerData(id, fin) ==
  /\ recv[id].state = "open" /\ ~recv[id].fin
  /\ recv[id].sent < MaxBytes \/ fin
  /\ recv' = [recv EXCEPT ![id].fin = fin,
                          ![id].sent = IF fin THEN @ ELSE @ + 1,
                          ![id].unread = IF fin THEN @ ELSE @ + 1]
  /\ UNCHANGED <<cs, send, remote, local, events, unsent, hist>>

\* quinn discards what it had buffered.
PeerResets(id) ==
  /\ recv[id].state = "open"
  /\ recv' = [recv EXCEPT ![id].state = "reset", ![id].unread = 0]
  /\ UNCHANGED <<cs, send, remote, local, events, unsent, hist>>

PeerStops(id) ==
  /\ send[id].state # "gone" /\ ~send[id].stopped
  /\ send' = [send EXCEPT ![id].stopped = TRUE]
  /\ events' = Append(events, [kind |-> "Stopped", id |-> id])
  /\ UNCHANGED <<cs, recv, remote, local, unsent, hist>>

\* The last acknowledgement: of the FIN, which is reported, or of the reset.
PeerAcks(id) ==
  /\ send[id].state \in {"finished", "reset"}
  /\ send' = [send EXCEPT ![id].state = "gone"]
  /\ events' = IF send[id].state = "finished" THEN Append(events, [kind |-> "Acked", id |-> id])
               ELSE events
  /\ UNCHANGED <<cs, recv, remote, local, unsent, hist>>

-----------------------------------------------------------------------------
Init ==
  /\ cs = [ready_accepts |-> <<>>, finished_reads |-> {},
           send_fins |-> [id \in Stream |-> NoFin], dirty |-> FALSE]
  /\ recv = [id \in Stream |-> [unread |-> 0, sent |-> 0, fin |-> FALSE, state |-> "open"]]
  /\ send = [id \in Stream |-> [state |-> "ready", stopped |-> FALSE]]
  /\ remote = [opened |-> 0, taken |-> 0]
  /\ local = 0
  /\ events = <<>>
  /\ unsent = FALSE
  /\ hist = [accepted |-> <<>>, ended |-> {}, told |-> [id \in Stream |-> 0]]

CallerUses(id) ==
  \/ \E len \in 1..MaxBytes : StreamRead(id, len)
  \/ StreamWrite(id) \/ StreamFinish(id) \/ StreamReset(id) \/ StreamStop(id)
  \/ ForgetRecv(id) \/ ForgetSend(id) \/ ForgetStream(id)

PeerUses(id) ==
  \/ \E fin \in BOOLEAN : PeerData(id, fin)
  \/ PeerResets(id) \/ PeerStops(id) \/ PeerAcks(id)

Next ==
  \/ OpenBi \/ AcceptBi \/ ServicePass \/ PeerOpens
  \/ \E id \in Known \cap Busy : CallerUses(id)
  \/ \E id \in Open \cap Busy : PeerUses(id)

Spec == Init /\ [][Next]_vars
-----------------------------------------------------------------------------
TypeOK ==
  /\ cs \in [ready_accepts : Seq(1..NumPeer), finished_reads : SUBSET Stream,
             send_fins : [Stream -> Fin \cup {NoFin}], dirty : BOOLEAN]
  /\ recv \in [Stream -> RecvHalf]
  /\ send \in [Stream -> SendHalf]
  /\ remote \in [opened : 0..NumPeer, taken : 0..NumPeer]
  /\ local \in 0..NumLocal
  /\ events \in Seq([kind : Terminal \cup {"Opened"}, id : Stream \cup {0}])
  /\ unsent \in BOOLEAN
  /\ hist \in [accepted : Seq(1..NumPeer), ended : SUBSET Stream, told : [Stream -> Nat]]

(* Whatever a caller's operation left to send, the connection is dirty     *)
(* until a pass has sent it, so next_timeout never lets the caller sleep   *)
(* on flow-control credit its peer is waiting for.                         *)
UnsentIsDirty == unsent => cs.dirty

(* End of stream is a stable answer: once a read has met the end, the next *)
(* one says Finished whatever its buffer, although quinn has freed the     *)
(* stream, until the caller releases it.                                   *)
EndIsStable == \A id \in hist.ended, len \in 0..MaxBytes : ReadAnswer(id, len) = "Finished"

(* A read only ever says that a stream has ended when its FIN has arrived  *)
(* and every byte before it has been handed to the caller: not when the    *)
(* buffer is merely empty, and not when the peer reset the stream.         *)
EndMeansAllRead ==
  \A id \in Stream, len \in 0..MaxBytes :
     ReadAnswer(id, len) = "Finished" => recv[id].fin /\ recv[id].unread = 0 /\ recv[id].state # "reset"

(* The first terminal fact about a send half stands: a STOP_SENDING and an *)
(* acknowledgement that cross change neither it nor each other, unless the *)
(* caller releases it in between; and the caller is told of it once, by an *)
(* event or by the error of its own stream_finish.                         *)
SendFactToldOnce ==
  /\ [](\A id \in Stream :
          hist.told[id] <= 1 /\ (hist.told[id] = 1 <=> cs.send_fins[id] \in Terminal))
  /\ [][\A id \in Stream :
          cs.send_fins[id] \in Terminal => cs'.send_fins[id] \in {cs.send_fins[id], NoFin}]_vars

(* accept_bi hands out every stream of the peer once, in the order of      *)
(* arrival, from whichever of the two queues it takes it.                  *)
AcceptsInOrder ==
  LET handed == hist.accepted \o cs.ready_accepts
  IN  handed = [i \in 1..remote.taken |-> i]
=============================================================================
