---------------------------- MODULE ServerDriver ----------------------------
(***************************************************************************)
(* src/server.rs: the driver task of a server, which pumps the core, hands *)
(* connections to Server::accept without ever waiting for it, and routes   *)
(* the commands of their handles.                                          *)
(*                                                                         *)
(* The core (module Endpoint) is seen through the events it queues: its    *)
(* handles are never used twice, here numbered in order of admission. What *)
(* an operation does to a connection is module Parked's business: here it  *)
(* is answered at once, or parked until an event of its connection.        *)
(***************************************************************************)
EXTENDS Integers, Sequences, FiniteSets, Functions

CONSTANTS
  MaxConn,    \* bound: connections ever admitted
  MaxOps,     \* bound: operations the application ever starts
  AcceptCap,  \* accept_capacity
  CmdCap      \* CMD_CHANNEL_CAP

ASSUME BoundAssumption == MaxConn \in Nat /\ MaxOps \in Nat
ASSUME CapAssumption == AcceptCap \in Nat \ {0} /\ CmdCap \in Nat \ {0}

VARIABLES
  phase,    \* core: the phase of each connection
  events,   \* core: what poll_event will yield
  driver,   \* the Driver: parked, surfaced, pending_accept, and whether it runs
  accepted, \* the channel to Server::accept
  cmds,     \* the command channel
  server,   \* whether the application still holds the Server
  taken,    \* the connections accept has returned, in order
  ops,      \* the operations of the application: their connection and their answer
  order     \* history: the connections in the order in which the core connected them

core == <<phase, events, order>>
app == <<server, taken, ops>>
vars == <<core, driver, accepted, cmds, app>>

Conn == 1..MaxConn
Op == 1..MaxOps
NoConn == 0
Live == {c \in Conn : phase[c] \in {"handshake", "open"}}
OpenConns == {c \in Conn : phase[c] = "open"}
Waiting(c) == {o \in Op : ops[o].conn = c /\ ops[o].answer = "waiting"}

\* Replies to the operations in O, for as far as they are still awaited.
Reply(O, answer) ==
  [o \in Op |-> IF o \in O /\ ops[o].answer = "waiting" THEN [ops[o] EXCEPT !.answer = answer] ELSE ops[o]]

-----------------------------------------------------------------------------
(* The core                                                                *)

\* select! is reached when the pump has drained the core.
Selecting == driver.runs /\ events = <<>>

\* What a datagram can bring about for a connection, in the order in which the core
\* tells of it. A first datagram that fails its handshake admits it all the same.
News(c) ==
  CASE phase[c] = "none" -> {<<>>, <<"Lost">>}
    [] phase[c] = "handshake" -> {<<"Connected">>, <<"Connected", "Stream">>, <<"Connected", "Lost">>, <<"Lost">>}
    [] phase[c] = "open" -> {<<"Stream">>, <<"Stream", "Lost">>, <<"Lost">>}
    [] phase[c] = "lost" -> {}

\* The arm recv_from, handle_datagram.
RecvDatagram(c, news) ==
  /\ Selecting
  /\ \A d \in 1..(c - 1) : phase[d] # "none"
  /\ phase' = [phase EXCEPT ![c] = IF "Lost" \in Range(news) THEN "lost"
                                   ELSE IF @ = "none" THEN "handshake" ELSE "open"]
  /\ events' = [i \in DOMAIN news |-> [kind |-> news[i], conn |-> c]]
  /\ order' = IF "Connected" \in Range(news) THEN Append(order, c) ELSE order
  /\ UNCHANGED <<driver, accepted, cmds, app>>

\* The arm of the timer, handle_timeout: it may end several connections at once, and
\* tells of them in the order of a HashMap.
Expire(lost) ==
  /\ Selecting
  /\ phase' = [c \in Conn |-> IF c \in lost THEN "lost" ELSE phase[c]]
  /\ \E seq \in [1..Cardinality(lost) -> lost] :
       /\ Range(seq) = lost
       /\ events' = [i \in DOMAIN seq |-> [kind |-> "Lost", conn |-> seq[i]]]
  /\ UNCHANGED <<order, driver, accepted, cmds, app>>

-----------------------------------------------------------------------------
(* The driver                                                              *)

\* pending_accept.push_front.
SurfaceFirst(c) ==
  /\ driver' = IF c \in driver.surfaced \/ c \notin Live THEN driver
               ELSE [driver EXCEPT !.surfaced = @ \cup {c}, !.parked[c] = {},
                                   !.pending_accept = <<c>> \o @]
  /\ UNCHANGED ops

\* accepted.send().await within the pump.
SurfaceAndWait(c) ==
  /\ Len(accepted) < AcceptCap
  /\ driver' = IF c \in driver.surfaced \/ c \notin Live THEN driver
               ELSE [driver EXCEPT !.surfaced = @ \cup {c}, !.parked[c] = {},
                                   !.pending_accept = Append(@, c)]
  /\ UNCHANGED ops

\* surface. A connection that is already gone is taken out of surfaced again.
Surface(c) ==
  /\ driver' = IF c \in driver.surfaced \/ c \notin Live THEN driver
               ELSE [driver EXCEPT !.surfaced = @ \cup {c}, !.parked[c] = {},
                                   !.pending_accept = Append(@, c)]
  /\ UNCHANGED ops

\* The other arms of on_event: some of what is parked is answered. An acknowledged FIN
\* is even told when the connection is already gone.
StreamEvent(c) ==
  IF c \notin driver.surfaced THEN UNCHANGED <<driver, ops>>
  ELSE \E done \in SUBSET driver.parked[c] :
         /\ driver' = [driver EXCEPT !.parked[c] = @ \ done]
         /\ ops' = Reply(done, "Ok")

\* VecDeque::retain of all that is not c.
Retain(s, c) ==
  LET kept[i \in 0..Len(s)] == IF i = 0 THEN <<>>
                               ELSE IF s[i] = c THEN kept[i - 1] ELSE Append(kept[i - 1], s[i])
  IN  kept[Len(s)]

\* The entry of the lost connection stays, and what is parked in it.
OnLostKeepsParked(c) ==
  /\ driver' = [driver EXCEPT !.surfaced = @ \ {c},
                              !.pending_accept = Retain(@, c)]
  /\ UNCHANGED ops

\* on_lost: the watch, fail_all, and every retained copy of the handle.
OnLost(c) ==
  /\ ops' = Reply(driver.parked[c], "Closed")
  /\ driver' = [driver EXCEPT !.parked[c] = {}, !.surfaced = @ \ {c},
                              !.pending_accept = Retain(@, c)]

\* One turn of the pump's event loop.
PumpEvent ==
  /\ driver.runs /\ events # <<>>
  /\ LET ev == Head(events)
     IN  CASE ev.kind = "Connected" -> Surface(ev.conn)
           [] ev.kind = "Stream" -> StreamEvent(ev.conn)
           [] ev.kind = "Lost" -> OnLost(ev.conn)
  /\ events' = Tail(events)
  /\ UNCHANGED <<phase, order, accepted, cmds, server, taken>>

\* The arm cmd_rx.recv, on_command: applied, parked, or dropped with its reply channel.
OnCommand ==
  /\ Selecting /\ cmds # <<>>
  /\ LET o == Head(cmds)
         c == ops[o].conn
     IN  IF c \in driver.surfaced /\ c \in Live
         THEN \/ ops' = Reply({o}, "Ok") /\ UNCHANGED driver
              \/ driver' = [driver EXCEPT !.parked[c] = @ \cup {o}] /\ UNCHANGED ops
         ELSE ops' = Reply({o}, "Closed") /\ UNCHANGED driver
  /\ cmds' = Tail(cmds)
  /\ UNCHANGED <<core, accepted, server, taken>>

\* A permit for a channel without a limit.
DeliverUnbounded ==
  /\ Selecting /\ server /\ driver.pending_accept # <<>>
  /\ accepted' = Append(accepted, Head(driver.pending_accept))
  /\ driver' = [driver EXCEPT !.pending_accept = Tail(@)]
  /\ UNCHANGED <<core, cmds, app>>

\* The arm reserve: a permit as soon as there is room, for the connection in front.
Deliver ==
  /\ Selecting /\ server /\ driver.pending_accept # <<>>
  /\ Len(accepted) < AcceptCap
  /\ accepted' = Append(accepted, Head(driver.pending_accept))
  /\ driver' = [driver EXCEPT !.pending_accept = Tail(@)]
  /\ UNCHANGED <<core, cmds, app>>

NewDriver == [runs |-> TRUE, parked |-> [c \in Conn |-> {}], surfaced |-> {}, pending_accept |-> <<>>]

\* The arm closed, or reserve on a closed channel: the task ends and all it owns goes.
Return ==
  /\ Selecting /\ ~server
  /\ driver' = [NewDriver EXCEPT !.runs = FALSE]
  /\ cmds' = <<>>
  /\ ops' = Reply(Op, "Closed")
  /\ UNCHANGED <<core, accepted, server, taken>>

-----------------------------------------------------------------------------
(* The application                                                         *)

Accept ==
  /\ server /\ accepted # <<>>
  /\ taken' = Append(taken, Head(accepted))
  /\ accepted' = Tail(accepted)
  /\ UNCHANGED <<core, driver, cmds, server, ops>>

DropServer ==
  /\ server
  /\ server' = FALSE
  /\ accepted' = <<>>
  /\ UNCHANGED <<core, driver, cmds, taken, ops>>

\* An operation on a connection, through any clone of its handle.
Start(o, c) ==
  /\ ops[o].answer = "idle" /\ \A p \in 1..(o - 1) : ops[p].answer # "idle"
  /\ IF driver.runs
     THEN /\ Len(cmds) < CmdCap
          /\ cmds' = Append(cmds, o)
          /\ ops' = [ops EXCEPT ![o] = [conn |-> c, answer |-> "waiting"]]
     ELSE /\ ops' = [ops EXCEPT ![o] = [conn |-> c, answer |-> "Closed"]]
          /\ UNCHANGED cmds
  /\ UNCHANGED <<core, driver, accepted, server, taken>>

-----------------------------------------------------------------------------
Init ==
  /\ phase = [c \in Conn |-> "none"]
  /\ events = <<>>
  /\ driver = NewDriver
  /\ accepted = <<>> /\ cmds = <<>>
  /\ server = TRUE
  /\ taken = <<>>
  /\ ops = [o \in Op |-> [conn |-> NoConn, answer |-> "idle"]]
  /\ order = <<>>

Next ==
  \/ \E c \in Conn : \E news \in News(c) : RecvDatagram(c, news)
  \/ \E lost \in SUBSET Live \ {{}} : Expire(lost)
  \/ PumpEvent \/ OnCommand \/ Deliver \/ Return
  \/ Accept \/ DropServer
  \/ \E o \in Op, c \in Range(taken) : Start(o, c)

Spec == Init /\ [][Next]_vars

\* The runtime polls the task when it is ready, and select! takes its ready arms at
\* random. Nothing is asked of peers or of the application.
Fairness == WF_vars(PumpEvent) /\ SF_vars(OnCommand) /\ SF_vars(Deliver) /\ SF_vars(Return)

FairSpec == Spec /\ Fairness
-----------------------------------------------------------------------------
TypeOK ==
  /\ phase \in [Conn -> {"none", "handshake", "open", "lost"}]
  /\ events \in Seq([kind : {"Connected", "Stream", "Lost"}, conn : Conn])
  /\ driver \in [runs : BOOLEAN, parked : [Conn -> SUBSET Op], surfaced : SUBSET Conn,
                 pending_accept : Seq(Conn)]
  /\ accepted \in Seq(Conn) /\ Len(accepted) <= AcceptCap
  /\ cmds \in Seq(Op) /\ Len(cmds) <= CmdCap
  /\ server \in BOOLEAN
  /\ taken \in Seq(Conn) /\ order \in Seq(Conn)
  /\ ops \in [Op -> [conn : Conn \cup {NoConn}, answer : {"idle", "waiting", "Ok", "Closed"}]]

(* A connection is offered to accept once, in the order in which the core  *)
(* connected them, whether it comes from the queue or from the channel;    *)
(* none that is open is left out ("connections are delivered in the order  *)
(* they connected").                                                       *)
OfferedOnceInOrder ==
  LET offered == taken \o accepted \o driver.pending_accept
      Rank(c) == CHOOSE i \in DOMAIN order : order[i] = c
  IN  /\ \A i \in DOMAIN offered : offered[i] \in Range(order)
      /\ \A i, j \in DOMAIN offered : i < j => Rank(offered[i]) < Rank(offered[j])
      /\ Selecting /\ server => OpenConns \subseteq Range(offered)

(* When the driver goes to sleep its books agree with the core: it keeps   *)
(* entries for the open connections and no others, and an operation that   *)
(* is still awaited is in the command channel or parked with an open       *)
(* connection, so nobody waits on a handle that is gone.                   *)
BooksMatchCore ==
  Selecting =>
    /\ driver.surfaced = OpenConns
    /\ \A c \in Conn :
         /\ driver.parked[c] # {} => c \in OpenConns
         /\ Waiting(c) = {o \in Op : ops[o].conn = c /\ o \in Range(cmds)} \cup driver.parked[c]

(* A slow or absent accept never freezes the driver: a command in the      *)
(* channel is taken out of it although the application may never call      *)
(* accept again; operations on a connection that is lost are answered; and *)
(* an application that does call accept gets every connection that stays   *)
(* open.                                                                   *)
DriverKeepsServing ==
  /\ \A o \in Op : o \in Range(cmds) ~> o \notin Range(cmds)
  /\ \A c \in Conn : (phase[c] = "lost" /\ Waiting(c) # {}) ~> Waiting(c) = {}
  /\ WF_vars(Accept) =>
       \A c \in Conn : phase[c] = "open" ~> (c \in Range(taken) \/ phase[c] = "lost" \/ ~server)
=============================================================================
