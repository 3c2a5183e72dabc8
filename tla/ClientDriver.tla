---------------------------- MODULE ClientDriver ----------------------------
(***************************************************************************)
(* src/client.rs: connect, the driver task it spawns, and the handles of   *)
(* src/conn.rs that talk to the driver. Three actors run concurrently: the *)
(* caller of connect, the driver, and the application's operations, which  *)
(* it may drop at any await.                                               *)
(*                                                                         *)
(* The driver is a loop of one select! arm (a datagram, a command, the     *)
(* timer) and a pump that drains the core's events, one action each; it    *)
(* awaits only between them. What leaves the socket is module Endpoint's   *)
(* business. A datagram or a timer makes the core queue events in the      *)
(* order of service_connections.                                           *)
(***************************************************************************)
EXTENDS Parked

CONSTANTS
  CmdCap,      \* CMD_CHANNEL_CAP
  MaxFrames,   \* bound: frames of interest in a datagram
  MaxBytes,    \* bound: bytes the peer sends
  MaxCredit,   \* bound: bytes the peer lets us write
  MaxStreams,  \* bound: further streams the peer opens
  MaxOpens,    \* further streams the peer lets us open
  Scenario     \* which operations and frames occur together: the halves of a stream and
               \* its siblings are independent, so they need not all be busy at once

ASSUME DriverAssumption ==
  /\ CmdCap \in Nat \ {0} /\ MaxFrames \in Nat \ {0}
  /\ MaxBytes \in Nat /\ MaxCredit \in Nat /\ MaxStreams \in Nat /\ MaxOpens \in Nat

VARIABLES
  w,         \* the core, the Parked, the replies; see Parked
  events,    \* what poll_event will yield
  cmds,      \* the command channel
  task,      \* the driver task: running, aborting, stopped; lost once it has seen the end
  oneshot,   \* what the driver has sent to connect
  connect,   \* what connect has returned
  kinds,     \* the operations started, by number
  scene      \* the Scenario of this behaviour

moving == <<w, events, cmds, task, oneshot, connect, kinds>>
vars == <<moving, scene>>

Started == 1..Len(kinds)
Waiting == {o \in Started : w.ans[o] = "waiting"}

\* The order in which a servicing pass queues what it has to tell.
Order == <<"Connected", "Opened", "Readable", "Writable", "FinAcked", "Stopped", "Lost">>
Event == {Order[i] : i \in DOMAIN Order}
NextEvent == Order[CHOOSE i \in DOMAIN Order : Order[i] \in events /\ \A j \in 1..(i - 1) : Order[j] \notin events]

-----------------------------------------------------------------------------
(* The core: what a datagram or a timer does to the connection             *)

Frame == {"handshake", "data", "fin", "reset", "credit", "stop", "ack", "open", "close"}

ASSUME ScenarioAssumption == Scenario \subseteq [kinds : SUBSET Kind, frames : SUBSET Frame]

\* record_send_fin.
Record(c, fact) == IF c.fact \in {"Acked", "Stopped"} THEN c ELSE [c EXCEPT !.fact = fact]

Possible(c, f) ==
  CASE f = "handshake" -> c.phase = "handshake"
    [] f = "data" -> c.phase = "open" /\ c.recv = "open" /\ ~c.fin /\ c.arrived < MaxBytes
    [] f = "fin" -> c.phase = "open" /\ c.recv = "open" /\ ~c.fin
    [] f = "reset" -> c.phase = "open" /\ c.recv = "open"
    [] f = "credit" -> c.phase = "open" /\ c.send = "ready" /\ ~c.stopped /\ c.granted < MaxCredit
    [] f = "stop" -> c.phase = "open" /\ c.send # "gone" /\ ~c.stopped
    [] f = "ack" -> c.phase = "open" /\ c.send = "finished"
    [] f = "open" -> c.phase = "open" /\ c.opened < MaxStreams
    [] f = "close" -> c.phase # "lost"

Arrived(c, f) ==
  CASE f = "handshake" -> [c EXCEPT !.phase = "open"]
    [] f = "data" -> [c EXCEPT !.unread = @ + 1, !.arrived = @ + 1]
    [] f = "fin" -> [c EXCEPT !.fin = TRUE]
    [] f = "reset" -> [c EXCEPT !.recv = "reset", !.unread = 0]
    [] f = "credit" -> [c EXCEPT !.credit = @ + 1, !.granted = @ + 1]
    [] f = "stop" -> Record([c EXCEPT !.stopped = TRUE], "Stopped")
    [] f = "ack" -> Record([c EXCEPT !.send = "gone", !.acked = TRUE], "Acked")
    [] f = "open" -> [c EXCEPT !.ready = @ + 1, !.opened = @ + 1]
    [] f = "close" -> [c EXCEPT !.phase = "lost"]

\* quinn reports a stream writable when credit comes to one that had none left.
Told(c, f) ==
  CASE f = "handshake" -> {"Connected"}
    [] f \in {"data", "fin", "reset"} -> {"Readable"}
    [] f = "credit" -> IF c.credit = 0 THEN {"Writable"} ELSE {}
    [] f = "stop" -> IF c.fact \in {"Acked", "Stopped"} THEN {} ELSE {"Stopped"}
    [] f = "ack" -> IF c.fact \in {"Acked", "Stopped"} THEN {} ELSE {"FinAcked"}
    [] f = "open" -> {"Opened"}
    [] f = "close" -> {"Lost"}

\* What comes of a frame after what came of those before it.
DeliverFrame(d, f) ==
  IF d.ok /\ Possible(d.core, f)
  THEN [ok |-> TRUE, core |-> Arrived(d.core, f), events |-> d.events \cup Told(d.core, f)]
  ELSE [d EXCEPT !.ok = FALSE]

\* The frames of a datagram, each of them possible after the ones before.
Deliver(fs) ==
  LET after[i \in 0..Len(fs)] ==
        IF i = 0 THEN [ok |-> TRUE, core |-> w.core, events |-> {}] ELSE DeliverFrame(after[i - 1], fs[i])
  IN  after[Len(fs)]

-----------------------------------------------------------------------------
(* The driver                                                              *)

\* select! is reached when the pump has drained the core and has seen no end.
Selecting == task.state # "stopped" /\ events = {} /\ ~task.lost

\* The arm recv_from, handle_datagram.
RecvDatagram(fs) ==
  /\ Selecting
  /\ Deliver(fs).ok
  /\ w' = [w EXCEPT !.core = Deliver(fs).core]
  /\ events' = Deliver(fs).events
  /\ UNCHANGED <<cmds, task, oneshot, connect, kinds>>

\* The arm of the timer: the close timer of a closing connection, or the idle timer.
Expire ==
  /\ Selecting
  /\ w' = [w EXCEPT !.core.phase = "lost"]
  /\ events' = {"Lost"}
  /\ UNCHANGED <<cmds, task, oneshot, connect, kinds>>

\* The arm cmd_rx.recv, on_command. A command for a connection that is gone is dropped,
\* and its reply channel with it.
OnCommand ==
  /\ Selecting /\ cmds # <<>>
  /\ w' = IF w.core.phase # "lost" THEN ApplyCmd(w, Head(cmds)) ELSE Reply(w, {Head(cmds).op}, "Closed")
  /\ cmds' = Tail(cmds)
  /\ UNCHANGED <<events, task, oneshot, connect, kinds>>

\* surface: the sender is taken first; without a connection it is dropped unused. What
\* is sent after connect has given up goes nowhere.
Surface ==
  /\ oneshot' = IF oneshot # "empty" THEN oneshot ELSE IF w.core.phase = "lost" THEN "dropped" ELSE "ok"
  /\ UNCHANGED <<w, task>>

\* The arm's guard fails, and the event falls through to the one that ignores it.
LostIgnored == UNCHANGED <<w, task, oneshot>>

\* The arm ConnectionLost of on_event: mark_closed, fail_all, and connect's answer if
\* it is still owed.
Lost ==
  /\ w' = FailAll([w EXCEPT !.closed = TRUE])
  /\ task' = [task EXCEPT !.lost = TRUE]
  /\ oneshot' = IF oneshot = "empty" THEN "incomplete" ELSE oneshot

\* The other arms need the connection, except for that of StreamFinAcked.
StreamEvent(ev) ==
  LET there == w.core.phase # "lost"
  IN  /\ w' = CASE ev = "FinAcked" -> OnFinAcked(w)
                [] ev = "Opened" /\ there -> OnStreamOpened(w)
                [] ev = "Readable" /\ there -> OnReadable(w)
                [] ev = "Writable" /\ there -> OnWritable(w)
                [] ev = "Stopped" /\ there -> OnStopped(w)
                [] ev # "FinAcked" /\ ~there -> w
      /\ UNCHANGED <<task, oneshot>>

\* One turn of the pump's event loop.
PumpEvent ==
  /\ task.state # "stopped" /\ events # {}
  /\ CASE NextEvent = "Connected" -> Surface
       [] NextEvent = "Lost" -> Lost
       [] NextEvent \notin {"Connected", "Lost"} -> StreamEvent(NextEvent)
  /\ events' = events \ {NextEvent}
  /\ UNCHANGED <<cmds, connect, kinds>>

\* The task ends: its channels go, so whoever waits on one hears that it is closed.
Ends ==
  /\ task' = [task EXCEPT !.state = "stopped"]
  /\ w' = Reply([w EXCEPT !.parked = NewParked, !.closed = TRUE], Waiting, "Closed")
  /\ cmds' = <<>> /\ events' = {}
  /\ oneshot' = IF oneshot = "empty" THEN "dropped" ELSE oneshot
  /\ UNCHANGED <<connect, kinds>>

\* ControlFlow::Break, after the last transmits.
Break == task.state # "stopped" /\ task.lost /\ events = {} /\ Ends

\* JoinHandle::abort takes effect when the task next awaits.
AbortLands == task.state = "aborting" /\ events = {} /\ Ends

-----------------------------------------------------------------------------
(* connect_with_timeout                                                    *)

\* A result that is there wins over a deadline that has passed.
ConnectReturns ==
  /\ connect = "pending" /\ oneshot # "empty"
  /\ connect' = IF oneshot = "ok" THEN "ok" ELSE "incomplete"
  /\ UNCHANGED <<w, events, cmds, task, oneshot, kinds>>

\* The driver is left to itself.
GiveUp ==
  /\ connect = "pending" /\ oneshot = "empty"
  /\ connect' = "timedout"
  /\ oneshot' = "dropped"
  /\ UNCHANGED <<w, events, cmds, task, kinds>>

TimesOut ==
  /\ connect = "pending" /\ oneshot = "empty"
  /\ connect' = "timedout"
  /\ oneshot' = "dropped"
  /\ task' = IF task.state = "running" THEN [task EXCEPT !.state = "aborting"] ELSE task
  /\ UNCHANGED <<w, events, cmds, kinds>>

\* The future of connect is dropped. The JoinHandle goes with it, which detaches the
\* task: nobody aborts it, and a Connection that it still surfaces goes nowhere.
DropConnect ==
  /\ connect = "pending"
  /\ connect' = "abandoned"
  /\ oneshot' = IF oneshot = "empty" THEN "dropped" ELSE oneshot
  /\ UNCHANGED <<w, events, cmds, task, kinds>>

-----------------------------------------------------------------------------
(* The application's handles                                               *)

\* &mut self: a half has one operation at a time through SendStream or RecvStream.
\* finish, wait_finished and forget_send are also methods of QuinnHandle.
Exclusive(kind) ==
  CASE kind \in {"write", "reset"} -> {"write", "reset"}
    [] kind \in {"read", "end", "stop"} -> {"read", "end", "stop"}
    [] kind \notin {"write", "reset", "read", "end", "stop"} -> {}

\* A command that ignores the channel's capacity.
SendUnbounded(kind) ==
  /\ cmds' = Append(cmds, [op |-> Len(kinds) + 1, kind |-> kind])
  /\ w' = [w EXCEPT !.ans[Len(kinds) + 1] = "waiting"]

\* CmdSender::send: it waits for room, and fails when the driver is gone.
Send(kind) ==
  LET op == Len(kinds) + 1
  IN  IF task.state = "stopped"
      THEN /\ w' = [w EXCEPT !.ans[op] = IF kind \in Silent THEN "Ok" ELSE "Closed"]
           /\ UNCHANGED cmds
      ELSE /\ Len(cmds) < CmdCap
           /\ cmds' = Append(cmds, [op |-> op, kind |-> kind])
           /\ w' = [w EXCEPT !.ans[op] = IF kind \in Silent THEN "Ok" ELSE "waiting"]

Start(kind) ==
  /\ connect = "ok" /\ Len(kinds) < MaxOps
  /\ \A o \in Waiting : kinds[o] \notin Exclusive(kind)
  /\ kind \in {"write", "reset"} => \A o \in Started : kinds[o] # "drop"
  /\ Send(kind)
  /\ kinds' = Append(kinds, kind)
  /\ UNCHANGED <<events, task, oneshot, connect>>

\* Drop of SendStream, when no operation borrows it: the release is sent only if the
\* channel has room for it at once.
DropSend ==
  LET fits == task.state # "stopped" /\ Len(cmds) < CmdCap
  IN  /\ connect = "ok" /\ Len(kinds) < MaxOps
      /\ \A o \in Waiting : kinds[o] \notin {"write", "reset"}
      /\ \A o \in Started : kinds[o] # "drop"
      /\ cmds' = IF fits THEN Append(cmds, [op |-> Len(kinds) + 1, kind |-> "release"]) ELSE cmds
      /\ w' = [w EXCEPT !.ans[Len(kinds) + 1] = "Ok"]
      /\ kinds' = Append(kinds, "drop")
      /\ UNCHANGED <<events, task, oneshot, connect>>

\* The future of an operation is dropped, by a timeout or a select! around it.
Abandon(o) ==
  /\ w' = [w EXCEPT !.ans[o] = "abandoned"]
  /\ UNCHANGED <<events, cmds, task, oneshot, connect, kinds>>

-----------------------------------------------------------------------------
NewCore ==
  [phase |-> "handshake",
   recv |-> "open", unread |-> 0, pos |-> 0, arrived |-> 0, fin |-> FALSE, ended |-> FALSE,
   send |-> "ready", credit |-> 0, granted |-> 0, stopped |-> FALSE, acked |-> FALSE,
   fact |-> "None", wire |-> <<>>,
   ready |-> 0, opened |-> 0, opens |-> MaxOpens]

Init ==
  /\ w = [core |-> NewCore, parked |-> NewParked, ans |-> [o \in Op |-> "idle"],
          closed |-> FALSE, delivered |-> 0, wasted |-> 0, given |-> <<>>]
  /\ events = {}
  /\ cmds = <<>>
  /\ task = [state |-> "running", lost |-> FALSE]
  /\ oneshot = "empty"
  /\ connect = "pending"
  /\ kinds = <<>>
  /\ scene \in Scenario

Datagrams == UNION {[1..n -> scene.frames] : n \in 1..MaxFrames}

Next ==
  /\ \/ \E fs \in Datagrams : RecvDatagram(fs)
     \/ Expire \/ OnCommand \/ PumpEvent \/ Break \/ AbortLands
     \/ ConnectReturns \/ TimesOut \/ DropConnect
     \/ \E kind \in scene.kinds : Start(kind)
     \/ \E o \in Waiting : Abandon(o)
     \/ "release" \in scene.kinds /\ DropSend
  /\ UNCHANGED scene

Spec == Init /\ [][Next]_vars

\* The runtime polls a task that is ready, select! takes its ready arms at random, and
\* the timers of tokio and of a closing connection run out.
Fairness ==
  /\ WF_moving(PumpEvent) /\ WF_moving(Break) /\ WF_moving(AbortLands)
  /\ WF_moving(ConnectReturns) /\ WF_moving(TimesOut)
  /\ SF_moving(OnCommand)
  /\ SF_moving(w.core.phase = "closing" /\ Expire)

FairSpec == Spec /\ Fairness
-----------------------------------------------------------------------------
TypeOK ==
  /\ w.core.phase \in {"handshake", "open", "closing", "lost"}
  /\ w.core.recv \in {"open", "reset", "gone"} /\ w.core.send \in {"ready", "finished", "reset", "gone"}
  /\ w.core.unread \in 0..MaxBytes /\ w.core.credit \in 0..MaxCredit /\ w.core.ready \in 0..MaxStreams
  /\ w.core.fact \in {"None", "Queued", "Acked", "Stopped"}
  /\ w.core.wire \in Seq(Op) /\ Len(w.core.wire) <= MaxCredit
  /\ w.parked.accepts \in Seq(Op) /\ w.parked.fins \subseteq Op
  /\ w.parked.read \in [op : Op \cup {NoOp}, kind : {"read", "end"}, got : 0..EndLimit]
  /\ w.parked.write \in [op : Op \cup {NoOp}, left : 0..WriteSize]
  /\ w.ans \in [Op -> Answer] /\ w.closed \in BOOLEAN
  /\ w.given \in Seq(Op) /\ w.delivered \in Nat /\ w.wasted \in Nat
  /\ events \subseteq Event
  /\ cmds \in Seq([op : Op, kind : Kind]) /\ Len(cmds) <= CmdCap
  /\ task \in [state : {"running", "aborting", "stopped"}, lost : BOOLEAN]
  /\ oneshot \in {"empty", "ok", "incomplete", "dropped"}
  /\ connect \in {"pending", "ok", "incomplete", "timedout", "abandoned"}
  /\ kinds \in Seq(Kind \cup {"drop"})
  /\ scene \in Scenario

(* No lost wakeup: when the pump has drained the events and the driver     *)
(* goes to sleep, whatever is still parked would be answered "not right    *)
(* now" again, so an event of its own will wake it. The exception is a     *)
(* write under which the stream was finished through QuinnHandle: quinn    *)
(* has no event for it and it waits for the connection to end.             *)
NoLostWakeup ==
  Selecting =>
    /\ w.parked.read.op # NoOp =>
         w.core.recv = "open" /\ w.core.unread = 0 /\ ~w.core.fin /\ ~w.core.ended
    /\ w.parked.write.op # NoOp /\ w.core.phase = "open" =>
         \/ w.core.send = "ready" /\ w.core.credit = 0 /\ ~w.core.stopped
         \/ w.core.send \in {"finished", "gone"}
    /\ w.parked.accepts # <<>> => w.core.ready = 0
    /\ w.parked.fins # {} => w.core.send = "finished" /\ ~w.core.stopped

(* Operations of the same kind are served in the order in which they were  *)
(* started, cancelled ones or not: writes never mix on the wire, and a     *)
(* stream goes to the accept that has waited longest.                      *)
ServedInOrder ==
  /\ \A i \in DOMAIN w.core.wire, j \in DOMAIN w.core.wire : i < j => w.core.wire[i] <= w.core.wire[j]
  /\ \A i \in DOMAIN w.given, j \in DOMAIN w.given : i < j => w.given[i] < w.given[j]

(* Ok is only said of what has been done: all bytes of a write are on the  *)
(* wire, the FIN of a wait has been acknowledged, a read_to_end has met    *)
(* the FIN, and every byte that left the core is with a reader, waits in a *)
(* parked read, or belonged to a read that was abandoned or failed.        *)
OkMeansDone ==
  /\ \A o \in Started : w.ans[o] = "Ok" =>
       /\ kinds[o] = "write" => Cardinality({i \in DOMAIN w.core.wire : w.core.wire[i] = o}) = WriteSize
       /\ kinds[o] = "wait" => w.core.acked
       /\ kinds[o] = "end" => w.core.fin /\ w.core.unread = 0 /\ w.core.recv = "gone"
  /\ task.state # "stopped" => w.core.pos = w.delivered + w.wasted + w.parked.read.got
  /\ w.wasted > 0 => \E o \in Started : kinds[o] \in {"read", "end"} /\ w.ans[o] # "Ok"

(* Nobody waits on a connection that is gone: once the application has     *)
(* closed it, or it is lost, every operation, parked, still in the channel *)
(* or sent later, is answered, and so is closed().                         *)
EveryoneIsAnswered ==
  /\ w.core.phase \in {"closing", "lost"} ~> (w.closed /\ Waiting = {})
  /\ [](w.closed /\ task.state = "stopped" => Waiting = {})

(* connect always returns or is dropped, and when it returns an error the  *)
(* driver task does not outlive it ("no leaked task"). The driver of a     *)
(* connect that was dropped ends with its connection.                      *)
ConnectSettles ==
  /\ <>(connect # "pending")
  /\ (connect \in {"timedout", "incomplete"} \/ w.core.phase = "lost") ~> task.state = "stopped"

(* "Read a recv stream to end-of-stream; reply with all bytes once FIN is  *)
(* observed" (src/conn.rs): when a read_to_end succeeds, every byte of the *)
(* stream has been handed to the application, here or by earlier reads.    *)
ReadToEndIsWhole ==
  \A o \in Started : w.ans[o] = "Ok" /\ kinds[o] = "end" => w.delivered = w.core.arrived
=============================================================================
