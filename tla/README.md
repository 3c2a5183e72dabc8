# Verification of quietquic

TLA+ models of quietquic, the model-checking runs over them and the proofs about
them. quietquic is QUIC behind a silence: a server answers nobody who has not proved,
with the connection ID of the very first packet, that he holds a pre-shared key. The
workspace has two crates. `quietquic-proto` (`proto/`) is a sans-IO core in which
everything of protocol interest happens inside `&mut self` calls; `quietquic` (`src/`)
drives it with tokio.

## Inventory

| Component | State it keeps | Operations | Talks to |
|---|---|---|---|
| Rate limiter, `ratelimit.rs` | a global token bucket; a bounded map of per-source buckets; an intrusive LRU list threaded through the map | `check`, which touches a source, evicts and takes tokens | called by the endpoint for each datagram of an unknown connection ID |
| Pre-filter, `selector.rs`, `freshness.rs`, `replay.rs` and `Endpoint::prefilter` | per client, the (nonce, minute) pairs seen in the window | `prefilter`: parse, freshness, PSK, replay | called after the rate limiter; reads the wall clock |
| Endpoint, `endpoint.rs`, `RecordingCidGenerator` of `crypto.rs` | connections, connection IDs issued, pending and per owner, handles with generations, identities, outbound datagrams, events, deadline | `handle_datagram`, `poll_transmit`, `poll_event`, `next_timeout`, `handle_timeout`, `conn_mut` | owns `quinn_proto::Endpoint` and every `ConnState` |
| Stream bookkeeping, `conn.rs` | per connection: streams to accept, streams read to their end, facts about send halves, a dirty flag | `open_bi`, `accept_bi`, `stream_*`, `forget_*`, `service_streams` | wraps `quinn_proto::Connection`; serviced by the endpoint |
| Server driver, `src/server.rs` | parked operations and surfaced handles, connections waiting for `accept` | the `select!` loop, `pump`, `on_event`, `on_lost`, `on_command` | core, socket, accept channel, command channel |
| Client driver, `src/client.rs` | one connection, a connect result to send | `connect`, the same loop | core, socket, command channel |
| Handles, `src/conn.rs` | parked accepts, reads, writes, finish waiters | `Connection`, `SendStream`, `RecvStream`, `Parked::apply_cmd` and its event handlers | the drivers, by channel |
| Initial keys, `initial_keys.rs` | none | derive keys from PSK and DCID, protect and open Initial packets | quinn's crypto traits, on both sides |
| Reference loop, `proto/examples/poll_loop.rs` | where it is in a pass | ingest, timer, events and work, flush, sleep | one endpoint, one socket |
| TLS identities, `crypto.rs` | none | certificate, verifier | constructors |
| Configuration, `config.rs` | none | parse, refuse duplicates | constructors |

What is hard here:

* the core is single-threaded, but its callers are not in charge of the order of
  datagrams, timeouts and their own operations, and quinn_proto keeps state of its own
  (a slab of connections, routes, one-shot events) that the code mirrors;
* connection IDs bypass the pre-filter, so every one must go when its connection goes,
  including those minted for connections that never come to be;
* quinn reuses slab slots, forgets streams once their end has been seen, and never says
  that a local close is complete;
* the replay guard forgets, on a clock that may be set and with every restart, and it
  stands in the way of a client's own retransmissions, so a handshake over a lossy network
  must converge without them;
* two endpoints must agree on keys, directions and masked bits, packet by packet;
* a caller that sleeps on a wrong deadline stalls both peers;
* the tokio layer is concurrent: the caller of `connect`, the driver task and the futures
  of the handles, each of which may be dropped at any await, meet over bounded channels.

`PROJECT.json` lists these hazards at their lines, each with the properties aimed at it.

## Modules

| Module | Models |
|---|---|
| `RateLimiter` | `ratelimit.rs` in full: buckets in whole units of a token, the list with its real links |
| `RecencyList` | what the list promises: a sequence in order of use, its oldest element leaving when it is full |
| `RateLimiterRecency` | the refinement from `RateLimiter` to `RecencyList`: walk the links from the head |
| `RateLimiterProofs` | theorems about `RateLimiter`, the refinement included |
| `PreFilter` | selector, freshness, replay guard, the prefilter's order, clients that dial, a network that repeats and recombines, the wall clock |
| `PreFilterProofs` | theorems about `PreFilter` |
| `InitialKeys` | `initial_keys.rs`: derivation, packet protection, header protection bit by bit |
| `Handshake` | composes `PreFilter` and `InitialKeys` with dialling clients, admission, a network that loses, damages, repeats, delays and reorders, and restarts of the server |
| `HandshakeProofs` | theorems about `InitialKeys` and `Handshake` |
| `Endpoint` | `endpoint.rs` for both roles, with quinn's slab and routes |
| `ConnectionLife` | what an endpoint promises the holder of a handle: one life, told in order |
| `EndpointLife` | the refinement from `Endpoint` to `ConnectionLife` |
| `PollLoop` | composes `Endpoint` with the loop of `proto/examples/poll_loop.rs` |
| `EndpointProofs` | theorems about `Endpoint`, the refinement included, and about `PollLoop` |
| `ConnState` | `conn.rs`, with quinn's stream halves and event queue |
| `ConnStateProofs` | theorems about `ConnState` |
| `Parked` | `Parked` of `src/conn.rs`: what each command and each event does to a connection and to the operations parked on it |
| `ClientDriver` | composes `Parked` with the driver of `src/client.rs`, `connect`, its timeout and its abandonment, and the application's handles |
| `ClientDriverProofs` | theorems about `ClientDriver` |
| `ServerDriver` | the driver of `src/server.rs` over several connections, with the accept queue, the accept channel and the command channel |
| `ServerDriverProofs` | theorems about `ServerDriver` |
| `Recursion` | lemmas: the least number of a set, induction and recursion up to a bound |
| `MCRateLimiter`, `MCNoisySource`, `MCPreFilter`, `MCHandshake`, `MCEndpoint`, `MCConnStateForget`, `MCClientDriver` | instances for TLC |

Names follow the code: `DrainPendingCids` is `drain_pending_cids`. A call of the core is
one action, for the borrow checker makes it atomic; its stages are operators composed in
the code's order. Operators that precede a definition and are used by nothing (for
example `DetachKeepsTail` before `Detach`) are that definition with a plausible bug: put
in its place they break a property, which shows that the property is about the code.

### Correspondence

*RateLimiter.* `global` and `buckets` are `TokenBucket`s; `lru` holds the map's key set,
the `older` and `newer` links, head and tail. `CheckGlobalEmpty` and `CheckSource` are the
two ways through `check`. `window` and `passed` are history: an observer may start a
window at any time (`OpenWindow`) and counts the packets let through; each source's count
restarts with its bucket. The code's `f64` amounts are whole units here, so rounding is
not modelled; instants may repeat and go back, as `saturating_duration_since` allows.

*PreFilter.* The selector is an uninterpreted injective function of key, nonce and
minute: BLAKE3 is taken to be unforgeable, and 64-bit truncation not to collide. The
network delivers anything dialled, any recombination of its fields, and junk, in any
order and number. `PskAssumption` is what `build_clients` enforces.

*Endpoint.* `ep` is the struct, with `slab`, `index` (routes), `server_config` and each
connection's `phase`, `armed` and `tx` on quinn's side. `Stimuli` and `Expiries` say what
quinn may make of a datagram and of an expired timer. Grants stand for what the pre-filter
decided. All datagrams the connections emit in one pass are one entry of `outbound`; the
event queue is kept per handle, since the order between connections is a `HashMap`'s;
random connection IDs do not collide with ones in use. `heard` and `keyed` are history:
the events a caller has polled, and whose configuration quinn made a connection with.

*InitialKeys.* A secret is the tuple of what it was derived from; a sealed payload opens
under the key, nonce and header it was sealed with and no other. Bytes are sets of bits,
and of a packet the first byte, the four bytes from the packet number's offset and the
rest are kept, so `Apply` is `apply` bit for bit. `Mask` stands for AES: any function of
key and sample.

*Handshake.* An attempt is one `new_client`; attempts follow each other from the same
address, so late answers to one reach the next. `Fate` is what the network does to a
datagram; what got through stays in `net` and may arrive any number of times, at any time,
in any order. quinn_proto is what the code leaves to it: Initials and flights repeated on
the PTO, at most `Amplification` flights for each datagram received from an address that
is not validated, one flight and one answer for the whole TLS exchange. `received` and
`sent` count for that limit. `ServerReceives` is `handle_datagram`: a DCID the endpoint
issued goes to its connection, anything else to `PreFilter!Consult` and then, with the
keys of the selected client, to `Opens`. `Restart` empties guards and connections. The
rate limiter is taken not to refuse.

*ConnectionLife.* `stage` is `unborn` until the handle is allocated and `lost` from when
`conn_mut` returns `None`; a step of `Endpoint` is for each handle a birth, an advance with
what it adds to the event queue, a polled event, or nothing.

*PollLoop.* Each statement of a pass is an action. The example spins; the model takes its
last comment's advice and sleeps until `next_timeout`, and lets the program touch streams
once more between flush and sleep, the wrong order that `next_timeout` defends against.

*ConnState.* `cs` is the struct; the other variables are quinn's. The caller may act
between a frame's arrival and the pass, as the public methods allow. `unsent` is ground
truth about frames a caller's operation has left to send.

*Parked.* Operators from world to world: `w.core` is the connection the method borrows,
`w.parked` the struct, `w.ans` what each operation's oneshot has brought back. Bytes are
counted; `wire` records whose bytes were written in which order, and `delivered` and
`wasted` where bytes read have gone. An operation is known by its number.

*ClientDriver.* The driver awaits only in `select!` and in `send_to`, so each arm and each
turn of the pump's event loop is an action; events are drained before the next arm. A
datagram is a short sequence of frames, whose events come in the order of
`service_connections`. `task` is the spawned task with its abort, `oneshot` and `connect`
the two ends of the handshake's result. `DropConnect` is the drop of `connect`'s future,
which detaches the driver. `Start` is a method of a handle, `Abandon` the drop of its future,
`DropSend` the drop of a `SendStream`, whose release is lost if the channel is full. `&mut self` keeps two operations off the same half, except through
`QuinnHandle`.

*ServerDriver.* `driver` is the struct; connections are numbered as they are admitted, for
handles are never used twice (`ConnectionLife`). What an operation does is
left open: it is answered at once or parked.

## Runs

| Run | Shows | States |
|---|---|---|
| `rate_limiter` | the list stays a list and implements recency order; the map is bounded; both budgets hold over every window | 96 thousand |
| `noisy_source` (violation) | one source alone empties the global budget: `check` charges it before the source's own bucket refuses | |
| `prefilter` | no selector is let in twice, none that was not dialled, none fresh and new is turned away, the guard holds only the current window | 42 thousand |
| `handshake` | what opens was sealed by the right peer for the right attempt; repeats draw no answer; a dial surfaces at most one connection, restarts or not; attempts connect unless hopeless | 35 thousand |
| `endpoint_server` | connection IDs belong to live connections and reach them and no others, strangers get no answer, and the endpoint implements `ConnectionLife`: handles never come back to life, identities are those whose PSK made the keys, every end is told once and last | 214 thousand |
| `poll_loop` | the loop never sleeps on work; under fairness every local close is reported and whatever is to be sent leaves, if no datagram ever arrives too | 7 thousand |
| `endpoint_slots` (violation) | a connection lost to its peer leaves its slot in quinn's slab occupied | |
| `conn_state` | end of stream is a stable and truthful answer, facts about send halves are final and told once, streams are accepted in order, unsent work keeps the connection dirty | 57 thousand |
| `conn_state_forget` (violation) | a late acknowledgement or STOP_SENDING re-creates the entry of a forgotten stream | |
| `client_driver` | no parked operation misses its event, operations are served in order, Ok is said only of what is done, everybody is answered when the connection ends, `connect` leaves no task behind when it fails, and none beyond the connection when it is dropped | 425 thousand |
| `read_cancelled` (violation) | a read whose future was dropped takes bytes with it, and a later `read_to_end` succeeds without them | |
| `server_driver` | connections are offered once and in order, the driver's books match the core whenever it sleeps, a slow `accept` holds up nobody | 161 thousand |

### Bounds

* Four sources for three entries reach every shape of `detach` (head, middle, tail, only
  element) and every eviction; a token of two units and a refill of one make a refill
  fall short of a packet. Instants are `0..3`.
* Minutes `0..4` with a window of one reach both saturations and an expiry; two clients
  and two nonces tell clients and selectors apart; three dials suffice for a selector of
  each client and one more minute.
* Two dials, or one dial and a restart (`Bounds`); the first dial is client 1's, the second
  either client's, since clients are alike (`Dialler`). With a window of zero minutes an
  attempt expires within two minutes. An `Amplification` of two lets the first flight be lost
  and the second arrive, or both be lost. The masks of the instance change the bits that
  carry the packet number's length, and differ between the directions.
* Two generations, two slots, three connection IDs: two connections at once, or one after
  the other in a reused slot, a reissued and a retired connection ID, and a refused peer's
  two connection IDs in between. `MaxOutbound` and `MaxEvents` stop the network while the
  caller is behind; neither queue's content steers the code.
* `poll_loop` has one slot for two generations, so that a slot is reused under the loop, and
  two connection IDs, so that one is reissued and one retired.
* Two streams of the peer's and one of ours for the accept queue, with traffic on one
  (`Busy`): the facts of different streams do not interact. Two bytes make reads that are
  short, exact and that run into the FIN.

* Three operations make an abandoned one, its successor and one on the other half. Each
  behaviour of `client_driver` keeps one part busy (`Scenario`: the send half, the receive
  half, or opening and accepting), since the parts share only the connection's end; two
  frames in a datagram make events that arrive together.
* Three connections for an accept channel of one: one accepted, one in the channel, one in
  `pending_accept`. A command channel of one is full with a single command.

### Fairness

`LoopFairness` holds of a program that keeps running the documented loop: sockets run dry,
work comes to an end, each step is followed by the next, and a sleep with a deadline ends.
A sleep without one ends only if a datagram arrives, which nothing promises. The close
timer of a closing connection is set once and not pushed back by traffic, so it has run
out at some pass (strong fairness, for the loop passes the timer step again and again).

`Handshake!Fairness`: endpoints process what has arrived, quinn's PTO repeats Initials and
flights, and a network to which Initials are entrusted again and again lets one through
(strong fairness of the whole delivery). Server flights have no such luck: the limit on
unvalidated addresses allows finitely many, and all of them may be lost. Hence
`HandshakeConverges` excepts the attempts that are `Hopeless`: no Initial in time, a
damaged Initial first, the connection gone, or every allowed flight lost.

In the drivers the runtime polls a task that is ready (weak fairness of the pump, of
`connect` and of its timer). `select!` starts with a random arm, so an arm that is ready
again and again is taken (strong fairness of commands, deliveries and the end), and a
closing connection's timer runs out. The application owes nothing: only the last part of
`DriverKeepsServing` supposes that it keeps calling `accept`. The applications and peers
may stop, so the drivers' runs do not check for deadlock.

## Proofs

TLAPS checks these for every value of the constants, from the `ASSUME`s of the module
that declares them (`TokenUnit` positive, capacities and refills natural numbers, keys
distinct per client, and the like).

`RateLimiterProofs`: `TypeCorrect`, `ListStaysLinked`, `MapStaysBounded`, `GlobalBudget`,
`SourceBudget`, `Refinement`. The conjunction of local link equations (`LruLinked`) is not inductive: a
ring disjoint from the list satisfies it and eviction then breaks it. `LimiterInv`
therefore carries a witness, a sequence without repetition whose elements are the tracked
sources and whose neighbours are the links (`Chained`); a touch is a removal from that
sequence and an append. The budgets rest on potential arguments: packets counted plus
tokens left never exceed capacity plus what time has refilled (`GlobalAccount`,
`SourceAccount`), and an untracked source's bucket is a new one (`Forgotten`). For the
refinement to `RecencyList` the witness is shown to be what the walk along the `newer` links
finds (`ChainIsOrder`, by induction along the list), and `TouchOrder` says what a touch makes
of it: the source moves to the end, enters there, or takes the place of the oldest.

`PreFilterProofs`: `TypeCorrect`, `AtMostOnce`, `Authenticity`, `GuardStaysFresh`,
`FirstArrival`. Once a pair has been admitted it is in the guard or below the window; with a
clock that does not go back (`MaxStepBack = 0`, an assumption of `AtMostOnce`, which fails
without it) what is below the window stays there. A selector on the wire was made by a
client's key for just its nonce and minute. `FirstArrival` is the converse, that nobody is
locked out: a guard records only what it lets in (`RecordedWasAdmitted`), however the clock
moves.

`EndpointProofs`: `TypeCorrect`, `CidBooks`, `Reachable`, `Silence`, `Refinement`. Every
public call ends in a servicing pass, so the core of the proof is one lemma about the pass,
`PassSound`, for any work that quinn may come up with. It keeps `Sound`, which is `Shape`
(the fields there are), `Typed`, `Books` (pending is empty; routing set, owners and quinn's
routes say the same; `by_quinn`, the slab and the handles agree; generations are below the
counter) and `Silent` (nothing that is queued is for a stranger). The properties alone are not
inductive: `CidsOwnedByLive`, say, does not exclude a route to a slot that is handed out
again. For the refinement each action is classified by what it does to one handle (born,
advanced, polled, untouched); `LInv` adds that handles are keyed when they are made, that
nothing is queued for one before, and that a connection is past its handshake exactly when
its holder has been told or will be.

The module ends with `NeverSleepsOnWork`, about `PollLoop`. A connection always has a timer armed or something to
send (`Armed`), and the flush leaves every connection armed, its deadline known, and only
dirty connections able to change that (`Rested`).

`ConnStateProofs`: `TypeCorrect`, `Dirty`, `StableEnd`, `TrueEnd`, `FactOnce`, `InOrderOnce`.
`TypeOK` is not inductive, since reading takes away bytes: `UnreadWasSent` bounds what is
unread. `Ends`: the streams read to their end are those the code records, and quinn has
drained and freed them. `Facts`: the caller has been told just of the terminal facts that
stand. `Order`: the streams handed out and those in `ready_accepts` are, in this order, the
first ones taken from quinn. `Named`: events are about streams that exist. The pass drains
quinn's event queue in a loop, for which `Recursion` supplies the induction.

`ClientDriverProofs`: `TypeCorrect`, `Wakeups`, `Served`, `Done`, for every number of
operations and every size of channel, datagram, write, read and credit, and for every set of
scenarios (`ScenarioAssumption` only says that their parts are operations and frames there
are). None of the properties is inductive: a parked operation that nobody is owed an answer
for, or one younger than a command in the channel, satisfies them and breaks them when it is
served. A connection has three sides that share nothing but its end: the receive half with
the parked read, the send half with the parked write and the waiters for the FIN, the streams
to accept with the parked accepts (`RecvSide`, `SendSide`, `AcceptSide`). Each method of
`Parked` is shown to be a step on one of them that leaves the others alone (`RecvStep`,
`SendStep`, `AcceptStep`), and each frame likewise. What relates the sides to the driver is
`Wakes` (unless an event for it is queued, nothing that is parked could go on), `Heard` and
`EndIsTold` (the queued events agree with the core; the end is queued until it has been
told), `Queued` and `Before` (commands are numbered, owed an answer, and younger than all the
driver has dealt with), `Handles` (nobody has a handle before the handshake is complete) and
`Bytes` (each byte taken from the core is with a reader, wasted, or in the parked read). The
frames of a datagram are a loop, for which `Recursion` supplies the induction.

`ServerDriverProofs`: `TypeCorrect`, `Books`, `Offered`. The invariant is a conjunction of
`Connections` (each connects once), `Tidings` (the queued events agree with the core),
`Entries` (the driver's entries are those of the open connections, but for what the queued
events will change), `Operations` (an operation is awaited while it is in the channel or
parked, in one of them only), `Line` (accepted, in the channel and in `pending_accept` are in
the order of connecting, and before what is still queued) and `Complete` (nothing the driver
has an entry for is missing from that line). `BooksMatchCore` speaks of moments when the
driver sleeps; the queued events are what books and core differ by in between.

`HandshakeProofs`: `HeaderProtection` and `SealedOpens` about `InitialKeys`, for every mask:
`apply` is its own inverse although the number of bytes it masks is itself under the mask,
and what one side protects the other opens. Then `Opened`, `Surfaced`, `Repeats`,
`TypeCorrect` about `Handshake`. The invariant `IInv` says of every datagram on the wire whose
it is (`Wire`): an Initial of a dial under that dial's outbound key, which opens only if it is
whole; a flight of a connection under that connection's key; or an answer to a peer that the
dial has. Keys are injective in PSK, selector and direction (`KeysDiffer`), dials differ in
their nonce, and so what opens is the peer's (`Genuine`). With `Attempts` and `Connections`,
which relate a connection to its dial, `Opened` and `Surfaced` hold whatever the clock does.
`Repeats` and the bound on connections in `TypeOK` need a clock that is not set back
(`MaxStepBack = 0`, an assumption of these two theorems): `EpochInv` adds that the guard
remembers the dial of every connection of the running process until it is below the window
(`Remembered`) and counts the connections of the processes before it (`OnePerBoot`).

Only model-checked, and why: liveness (`EveryoneIsAnswered`, `ConnectSettles`,
`DriverKeepsServing`, `HandshakeConverges`, `CloseIsReported`, `WorkIsFlushed`), which is
beyond this prover. Every invariant and both refinements of the runs that pass are also
proved. That distinct keys give distinct bits, that AES-GCM does not open what it did not seal
and that BLAKE3 is not forged is assumed by the form of the terms.

## What the code does that its comments do not say

* A packet that the per-source bucket refuses has been paid for by the global bucket
  (`ratelimit.rs:175-178`, against the comment at 103-105).
* A connection lost to its peer is dropped before quinn drains it, so its slot and routes
  remain in quinn's endpoint (`endpoint.rs:803`).
* `forget_stream` does not keep a stream forgotten (`conn.rs:471`).
* Reads are not cancel safe: a read whose future is dropped, in a timeout say, stays
  parked and takes bytes off the stream (`src/conn.rs:841`), or is replaced by the next one
  together with the bytes it has gathered (`src/conn.rs:642`).

Smaller observations, without a run of their own. The replay guard is only as good as the
wall clock's monotony (`replay.rs:29`): with `MaxStepBack` positive, TLC finds a purged pair
admitted again. It is also empty after a restart, but an Initial admitted again surfaces
nothing (`SurfacedOnce`). "Handshakes still converge" (README.md, limitation 5) has
exceptions (`Hopeless`), among them an Initial damaged on its way: it uses up the selector,
for the guard records before quinn opens the packet (`endpoint.rs:567`). A close between
flush and sleep is not covered by the dirty guarantee, since `close` marks nothing dirty; it
leaves with the next datagram or timer. A connection lost while its handle is
already in the accept channel is still accepted, dead (`src/server.rs:417-421` speaks of
the queue only; its commands are answered with `Closed`). `QuinnHandle::finish` under a
write that is blocked leaves that write waiting until the connection ends, which
`NoLostWakeup` states as its exception.

## Not modelled

The arithmetic of HKDF, AES and BLAKE3; TLS identities and the TLS handshake itself; the
wrappers of `initial_keys.rs` that pass a call on to rustls; parsing of headers and of
configuration files; sockets; the wording of errors; fuzz targets, the test pair of
`testing.rs` and the echo examples. quinn_proto is modelled by what the code relies on. In
the drivers: flow control of the connection as a whole and the datagrams that leave the
socket (module `Endpoint` has them). The entries that a lost release leaves behind are
memory only, and the model, which carries one busy stream, does not count them. The panic of
`next_generation` at 2^64 connections is out of reach of the bound.

## Plan

Done, in this order: `RateLimiter`, `PreFilter`, `Endpoint`, `ConnState`, the tokio layer
(`Parked`, `ClientDriver`, `ServerDriver`), `InitialKeys` and `Handshake`, `ConnectionLife`
with its refinement, and `PollLoop`; proofs of every invariant and refinement that the
passing runs check. Ahead, when the code moves: the corresponding definition first, then its
run, then the lemma about it. The one gap worth closing is a count of the entries that a lost
release leaves behind, which takes more than one busy stream in `ClientDriver`.
