------------------------------ MODULE PollLoop ------------------------------
(***************************************************************************)
(* proto/examples/poll_loop.rs: the reference loop that drives an Endpoint *)
(* without a runtime, in the variant its last comment recommends, which    *)
(* sleeps until next_timeout when there is nothing to do. The loop is the  *)
(* same for either role.                                                   *)
(*                                                                         *)
(* A caller that "gets the loop order wrong" is part of it: after the      *)
(* flush it may touch streams once more before it sleeps.                  *)
(***************************************************************************)
EXTENDS Endpoint

VARIABLE step   \* where the loop is

loopVars == <<vars, step>>

Step == {"ingest", "timer", "work", "flush", "other", "sleep"}

At(here, there) == step = here /\ step' = there

-----------------------------------------------------------------------------
(* 1 and 2. Peer::ingest                                                   *)

\* recv_from returns a datagram.
Ingest == At("ingest", "ingest") /\ HandleDatagram

\* recv_from returns WouldBlock or another error.
Dry == At("ingest", "timer") /\ UNCHANGED vars

\* The timer is serviced if its deadline has passed: an elapsed one always has, one in
\* the future may have by now.
Timer(expired) == At("timer", "work") /\ HandleTimeout(expired)
NotDue == At("timer", "work") /\ NextTimeout(ep) # "past" /\ UNCHANGED vars

-----------------------------------------------------------------------------
(* 3. Events, and the stream work they unblock                             *)

Drain(h) == At("work", "work") /\ PollEvent(h)

StreamWork(h, sends) == At("work", "work") /\ StreamOp(h, sends)

CloseWork(h) == At("work", "work") /\ Close(h)

WorkDone ==
  /\ At("work", "flush")
  /\ \A h \in Handle : ep.events[h] = <<>>
  /\ UNCHANGED vars

-----------------------------------------------------------------------------
(* 4. Peer::flush                                                          *)

\* One datagram per pass.
FlushOnce == At("flush", "other") /\ PollTransmit

\* poll_transmit until it returns None.
Flush ==
  /\ step = "flush" /\ PollTransmit
  /\ step' = IF Polled(ep).outbound = <<>> THEN "other" ELSE "flush"

\* "Here is where a real program does its OTHER work."
OtherWork(h, sends) == At("other", "other") /\ StreamOp(h, sends)

Sleep == At("other", "sleep") /\ UNCHANGED vars

\* The sleep ends when a datagram arrives or the deadline passes.
WakeForDatagram == At("sleep", "ingest") /\ UNCHANGED vars
WakeForDeadline == NextTimeout(ep) # "none" /\ At("sleep", "ingest") /\ UNCHANGED vars

-----------------------------------------------------------------------------
LoopInit == Init /\ step = "ingest"

LoopNext ==
  \/ Ingest \/ Dry \/ NotDue \/ WorkDone \/ Flush \/ Sleep \/ WakeForDatagram \/ WakeForDeadline
  \/ \E expired \in SUBSET Live(ep) : Timer(expired)
  \/ \E h \in Handle : Drain(h)
  \/ \E h \in Live(ep), sends \in BOOLEAN : StreamWork(h, sends) \/ OtherWork(h, sends)
  \/ \E h \in Live(ep) : CloseWork(h)

\* The loop runs, sockets run dry and work comes to an end. Nothing says that another
\* datagram ever arrives. The close timer of a connection is not pushed back by traffic:
\* it has run out at some pass.
LoopFairness ==
  /\ WF_loopVars(Dry) /\ WF_loopVars(WorkDone) /\ WF_loopVars(Flush) /\ WF_loopVars(Sleep)
  /\ WF_loopVars(WakeForDeadline)
  /\ WF_loopVars(NotDue \/ \E expired \in SUBSET Live(ep) : Timer(expired))
  /\ \A h \in Handle :
       /\ WF_loopVars(Drain(h))
       /\ SF_loopVars(/\ h \in Live(ep) /\ ep.connections[h].phase = "closing"
                      /\ \E expired \in SUBSET Live(ep) : h \in expired /\ Timer(expired))

LoopSpec == LoopInit /\ [][LoopNext]_loopVars /\ LoopFairness
-----------------------------------------------------------------------------
(* The loop never sleeps on work: with a connection there is a deadline,   *)
(* and whatever a connection has to send when the loop goes to sleep makes *)
(* that deadline one that has already passed ("the dirty guarantee"),      *)
(* although close() leaves the connection clean.                           *)
SafeToSleep ==
  step = "sleep" =>
    /\ Live(ep) # {} => NextTimeout(ep) # "none"
    /\ (\E h \in Live(ep) : ep.connections[h].tx \/ ep.connections[h].dirty) =>
         NextTimeout(ep) = "past"

(* Every connection its holder closes is eventually reported lost to it,   *)
(* although quinn never reports a local close and nothing may ever arrive  *)
(* again.                                                                  *)
CloseIsReported ==
  \A h \in Handle :
    (h \in Live(ep) /\ ep.connections[h].phase = "closing") ~> ("ConnectionLost" \in heard[h])

(* What a connection has to send, a first flight, stream data, credit or a *)
(* close, leaves it even if no datagram arrives and even if the caller     *)
(* touched the stream after the flush.                                     *)
WorkIsFlushed ==
  \A h \in Handle :
    (h \in Live(ep) /\ ep.connections[h].tx) ~> (h \notin Live(ep) \/ ~ep.connections[h].tx)
=============================================================================
