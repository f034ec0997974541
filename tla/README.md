# Formal model of the Carrier endpoint (src/src)

This directory holds TLA+ models of the Carrier endpoint in `src/src`:

- TLC configurations that model-check them on small instances;
- TLAPS proofs, for every value of the constants, of their main safety
  invariants, of an action property of the connect bookkeeping, and of two
  refinements onto abstract protocols (`connect()` answers and the DNS
  bootstrap).

`PROJECT.json` lists the components, runs, mutants, the source lines behind
every definition (`map`), the findings, the hazards and the theorems.

## The system

The source has four files.

- `endpoint.rs`
  - `Endpoint` owns the UDP socket and a table `channels` from routing key to
    `UdpChannel`.
    - Each channel holds a reliable channel engine (`channel.rs`, not in the
      source), an address mode and a table `streams` from stream id to the
      user task that reads it.
    - Each task has a single-slot inbox (`Cell`).
  - Two tables carry the connect protocol that runs over the broker channel:
    - `outstanding_connect_incomming` holds the `/peer/connect` streams whose
      body is awaited.
    - `outstanding_connect_outgoing` holds our `connect()` calls waiting for
      headers or the response.
  - `Endpoint::poll` receives one datagram, then loops over all channels until
    no channel made progress. For each channel it:
    1. polls every task;
    2. asks the engine for one `ChannelProgress`: `Later`, `SendPacket`,
       `ReceiveHeader`, `ReceiveStream`, `Close` or `Disconnect`;
    3. polls every task again.

    Several branches return an `Event` from inside the loop.
  - The caller's API is: `connect`, `publish`, `open`, `reject`,
    `accept_incomming` and `accept_outgoing`.
  - `EndpointBuilder::connect` bootstraps the broker channel from DNS records
    with retries.
- `packet.rs` is the wire codec of the outer packet and of the frames.
- `subscriber.rs` is a client of the endpoint with one task on
  `/broker/subscribe`.
- `lib.rs` holds the module declarations and the generated protobuf types.

Everything runs on one thread. The caller's event loop calls `poll` when it
is woken and calls the API between two polls. Tasks are coroutines that the
loop polls.

## Modules

### `Endpoint.tla`: the multiplexer and the connect bookkeeping

The constants are:

- `Routes`, `Broker`, `Sids`;
- `StickyDisconnect`: whether the engine keeps returning `Disconnect` once it
  has;
- `EngineErrors`: whether `progress()` may return an `Err`.

The last two describe the external engine, whose code is not in the source.

The variables correspond to the code as follows.

| variable | code |
|---|---|
| `live` | `DOMAIN channels` |
| `est[r][s]` | the engine's view of each stream: free, open, closed by us, closed by the peer |
| `hand[r][s]` | `chan.streams`: no task, a task waiting on its stream, a task waiting on something else |
| `inbox[r][s]` | whether the task's `Cell` holds a frame |
| `pin` | `outstanding_connect_incomming` |
| `pout` | `outstanding_connect_outgoing`: `WaitingForHeaders` or `WaitingForResponse` |
| `publishing` | `publish_secret.is_some()` |
| `creqs` | the `IncommingConnect` events held by the caller |
| `cresps` | the `OutgoingConnect` events held by the caller, with outcome `cr` = None, refused or ok |
| `eng` | the state of each engine |
| `pc`, `cur`, `todo`, `again`, `killme` | the locals of the loop in `poll` |

`poll` is split into the steps the code takes between observable changes:

- `PollStart`: the receive, then the start of the first pass.
- `Visit`: the `for` loop over `channels`, in any order.
- `PrePoll`: the first round of task polls.
- `Progress`: the engine's one `ChannelProgress`, one action per branch:
  - `ProgError`: `try!`.
  - `ProgLater`, `ProgSend`.
  - `ProgHeader`: `HeaderMalformed`, `HeaderBroker` or `HeaderPeer`.
  - `ProgStream`: `StreamToIncoming`, `StreamToOutgoing`, `StreamToHandler`
    or `StreamDropped`, in the order of the code's `if` chain. The chain's
    first test removes the stream from `pin` whenever the channel is the
    broker (`PinAfterTest`).
  - `ProgClose`, `ProgDisconnect`.
- `PostPoll`: the second round of task polls.
- At the end of a pass:
  - `ReapDisconnect` removes the first route of `killme` and returns.
  - `NextPass` starts another pass because `again` is set.
  - `PollDone` returns because no channel progressed.

`Return` is every `return FutureResult::Done(...)`. It resets the loop's
locals, so a `killme` not yet reaped is lost.

A task is abstracted to what polling it yields: it waits on its stream, waits
on something else, or is done (`PollOutcomes`).

- A task waiting on an empty inbox stays as it is.
- A task that reads its stream empties the slot.
- A finished task is removed, and its stream is closed by our end.

Payloads, headers, identities, handshakes and addresses are abstracted to the
outcome the code branches on. Examples: a malformed header, a `/peer/connect`
path or another path, a valid request or an invalid one, a refused response or
an accepted one.

The receive of a datagram, the address modes, the timers and the sends change
no modelled state. The one exception is the `again` flag, which `SendPacket`
sets.

New channels take a route from `FreshRoutes`: a route that is not live and is
not the broker's. That is the broker's assignment, which the endpoint trusts
(see the hazard at `endpoint.rs:326`).

### `MCEndpoint.tla` and the `.cfg` files

The instances have two routes (the broker `b` and one peer `r1`) and two
stream ids.

This is enough to reach every interesting case:

- a peer channel alongside the broker;
- two streams per channel, so that a pending connect, an incoming request and
  a task can coexist on the broker channel;
- a channel added, removed and added again.

Three stream ids took more than 10 minutes.

Stream ids are interchangeable, so the safety runs use symmetry on them. The
`disconnect_starved` run, which checks liveness, does not.

Two stream ids bound what the peer can do: the engine never reuses an id,
and a finite `Sids` would run out. So `disconnect_starved` uses `FreshSpec`. It
adds `ForgetStream(r, s)`, which returns to "free" a stream of which nothing
is left: the peer closed it, no task or pending connect holds it, and the
caller holds no event about it. Its id then stands for the next fresh one.
That step changes nothing the endpoint can observe, so it is sound as a
model of fresh ids. The safety runs and the proofs keep the bounded ids of
`Spec`.

### `ConnectProtocol.tla` and `EndpointConnect.tla`: what `connect()` promises

`ConnectProtocol` is the abstract protocol of spec.md 4.4, with no channels,
engines or loop.

- `conn[s]` says, for each broker stream id, whether it is unused, pending (a
  `connect()` awaits its answer) or done.
- `outbox` is the set of answers (`[s, cr]`) handed to the caller and not yet
  taken.
- The actions are `Request` (connect), `Answer` (one `OutgoingConnect`),
  `Use` (a broker stream used for something else) and `Consume`
  (the caller takes an event).

`EndpointConnect` maps `Endpoint` onto it.

- `ConnOf[s]` is "pending" while `pout[s]` is set.
- Otherwise it is "unused" while the broker's engine has `s` free, and "done"
  after that.
- `outbox` is `cresps`.

`ConnectRefinement == CP!Spec` is checked by the safety run and proved.

`ConnectAnswered` is an action property of the endpoint's own variables. A
step that removes a `connect()` from `outstanding_connect_outgoing` must add an
`OutgoingConnect` for it that the caller did not hold yet. The protocol
states the same promise as `AnswerOnResolve`. It is proved in the protocol
and carried over through the refinement.

## Runs of `Endpoint`

| run | cfg | expect | what it shows |
|---|---|---|---|
| safety | `MCEndpoint_safety.cfg` (module `MCEndpointConnect`) | pass | The invariants below hold, with engine errors, and so do `ConnectAnswered` and `ConnectRefinement`. About 356k distinct states, 70 s. |
| disconnect_starved | `MCEndpoint_liveness.cfg` | violation | `DisconnectReported` fails under `FreshSpec`, even when the engine repeats `Disconnect` and returns no `Err`: in every call of `poll` the broker returns an answer before the dying channel's route can be reaped. |
| disconnect_lost | `..._disconnect_lost.cfg` | violation | `DisconnectNotLost` fails: a `Disconnect` queued on `killme` is dropped when a later channel of the same pass makes `poll` return. |
| orphaned_connect | `..._orphaned.cfg` | violation | `OrphanedConnect` fails: removing the broker channel leaves `connect()` calls that are never answered. |
| pending_in_leak | `..._pending_in.cfg` | violation | `PendingInOpen` fails: a Close of a `/peer/connect` stream leaves it in `outstanding_connect_incomming`. |
| peer_connect_dropped | `..._unanswered.cfg` | violation | `PeerConnectAnswered` fails: a request body that arrives before `publish()` is dropped unanswered. |

The properties are these.

- `TypeOK`.
- `HandlerStreamsOpen`: every registered task is on a stream the engine has
  open in both directions.
- `PendingOutOpen`: while the broker channel exists, every pending outgoing
  connect is on an open broker stream. No task and no incoming request
  claims that stream.
- `ConnectAnswered` (action property): a pending `connect()` leaves
  `outstanding_connect_outgoing` only in the step of `poll` that returns a new
  `Event::OutgoingConnect` for it.
- `ConnectRefinement`: the endpoint implements the abstract connect protocol
  (see `ConnectProtocol.tla` below).
- `DisconnectReported` (liveness, violated): a channel whose engine reports
  `Disconnect` is eventually removed (spec 4.5).

Each violation run checks one claim of `spec.md` or of the code's comments.
The findings in `PROJECT.json` explain what each one shows.

Every property of a passing run has a mutant in `PROJECT.json`: a fault variant
defined in `Endpoint.tla`, which TLC catches under the run's own cfg.

- A finished task kept in the table breaks `TypeOK`.
- A Close that keeps the task breaks `HandlerStreamsOpen`.
- A Close that forgets the pending connect breaks `PendingOutOpen`.
- A Close of any broker stream that reports a failed connect
  (`ProgCloseAlwaysReport`) breaks `ConnectRefinement`: it answers a stream
  that no `connect()` is pending on.
- A Close that removes the pending connect without returning its event
  (`ProgCloseDropConnect`) breaks `ConnectAnswered`.

### Fairness

`FairSpec` adds `WF_vars(Poll)`.

- The caller's event loop calls `poll` again whenever the endpoint is woken.
- One call of `poll` is straight-line code that always runs to its end.
- The caller's own API calls get no fairness.

`disconnect_starved` assumes an engine that returns no `Err`
(`EngineErrors = FALSE`) and repeats `Disconnect` (`StickyDisconnect = TRUE`),
the most favourable engine. `disconnect_lost` shows that a single report can
be lost. `disconnect_starved` shows that even repeated reports are not
enough. `killme` lives for one call of `poll`, and any return from inside the
loop drops it. A peer that makes the broker return in every call starves
the reap for ever. In the trace, the peer closes the stream of each new
`connect()`. No fairness the code justifies rules this out.

The cfg `MCEndpoint_overwrite.cfg` belongs to no run. It checked that a
second frame replaces an unread one in a task's single-slot inbox. spec.md
4.3 says that the slot is replaced and that back-pressure is the engine's
job, so that check was dropped.

## Proofs (`EndpointProofs.tla`)

The theorems hold for every value of the constants. The proofs assume only
`Broker \in Routes`, taken from `EndpointAssumption` by the lemma
`BrokerRoute`.

- `TypeCorrect`: `Spec => []TypeOK`. Its lemmas are `TypeInit` and
  `TypeStep`. `TypeStep` has one case per action, and under `Progress` one
  case per engine branch. It uses helper lemmas on `PollHandlers`,
  `AddChannel`, `Return` and the added `cresps` record.
- `IInvInvariant`: `Spec => []IInv`, the inductive invariant the other two
  rest on.
- `StreamOwnership`: `Spec => [](HandlerStreamsOpen /\ PendingOutOpen)`.
- `PendingOutOpenHolds`: `Spec => []PendingOutOpen`, the invariant of the
  safety run on its own, from `StreamOwnership`.

`HandlerStreamsOpen /\ PendingOutOpen` is not inductive as it stands.

- `Connect`, `OpenHandler` and a peer's `ReceiveHeader` claim a stream the
  engine had free. They must know that nothing owned that stream.
- `StreamToIncoming` closes a `/peer/connect` stream. It must know that no
  task and no pending connect is on it.
- The progress step on `cur` must know that `cur` is still live.

`IInv` therefore adds two claims.

- `StreamClaims`:
  - a free stream has no task;
  - a free broker stream is neither in `pin` nor pending in `pout`;
  - a stream in `pin` has no task.
- `LoopClaims`:
  - `todo` holds only live channels;
  - the visited channel is live.

TLC checked `IInv` first, as an invariant of the safety instance. Then it
was proved in two lemmas:

- `OwnedStep` covers the stream claims, with one case per action. Under it,
  one step per invariant that the action can disturb. It rests on
  `OwnedFrame`, `HandlerOpenFrame` (changing the state of a stream no task
  holds), `PollHandlersOwned`, `AddChannelOwned` and `ProgressOwned`.
- `LoopStep` covers the loop claims, with `LoopIdle`, `LoopReturn`,
  `LoopContinue` and `ProgressLoop`.

Some results stay with TLC only:

- `DisconnectReported`, because it is liveness, which is beyond the prover
  (and it is violated);
- the five violations of `Endpoint`;
- the mutants.


## `Bootstrap.tla`: `EndpointBuilder::connect` (endpoint.rs 808-906)

The state is the coroutine's position `bpc`: resolve, pop (outer loop), try
(inner loop), wait (yielded on `poll.again`) or done. It also holds the
locals `records`, `rec` and `attempts`, plus:

- `sent`, the handshakes sent to `rec`;
- `sock`, the datagrams queued on the socket as a FIFO sequence (`recv_from`
  reads the oldest);
- `now` and `deadline`, in units of 200 ms since the record's socket was
  bound.

A datagram is `"resp"` (an answer to a handshake of `rec`) or `"junk"`
(anything that fails decode or `recv_response`).

The actions follow the code.

- `Resolve`: `osaka_dns::resolve` gives any subset of the records.
- `Pop`: `records.pop()`, or `OutOfOptions`. It binds a fresh socket and
  resets the counters.
- `Attempt`: one turn of the inner loop.
  - `attempts += 1`.
  - Over 4, `GiveUp` and return to `Pop`.
  - Otherwise one of:
    - `RecvResponse`: read the answer and return `Ok`;
    - `RecvJunk`: `continue` without sending;
    - `SendHandshake`: `send_to`, then yield with a timeout of
      `2^attempts * 200 ms`.
- `Wake`: the level-triggered yield returns when the socket is readable or
  the timer fires.
- `Fail`: every `?` on resolve, initiate, bind, `into_transport` and
  `send_to`, when `BootErrors`.
- `Tick` and `Arrive` are the environment: the clock, and a datagram (an
  answer only after a handshake was sent, junk only when `Strays`), bounded by
  `MaxQueue`.

The properties are these.

- `BootTypeOK`: the type; `attempts` never exceeds 5.
- `RecordBudget`: a record gets at most 4 handshakes and at most 30 units
  (6 s) of waiting, the sum 2+4+8+16 of its backoffs.
- `BootTerminates`: connect always ends.
- `BootRefinement`: connect implements `BootstrapProtocol` (below).
- `ResponseNotDiscarded` (violation run): the loop never abandons a record
  while an answer is queued on its socket.

Fairness: `WF(Task)`, because the coroutine is polled whenever it is woken.
`WF(Tick)`, because time passes. Arrivals get no fairness: the network may
lose everything.

The instance has two records and a socket of 2 datagrams.

- Two records exercise moving on to the next record and `OutOfOptions`.
- Two queued datagrams let a junk datagram precede an answer.

| run | cfg | expect | what it shows |
|---|---|---|---|
| bootstrap | `MCBootstrap.cfg` | pass | `BootTypeOK`, `RecordBudget`, `BootInv` (the inductive invariant of `BootstrapProofs`), `BootTerminates` and `BootRefinement` under `FairBootSpec`, with stray datagrams and errors; 40,808 states. |
| bootstrap_response_discarded | `MCBootstrap_discarded.cfg` | violation | `ResponseNotDiscarded` fails. The answer to the 4th handshake arrives during its 3.2 s wait and wakes the loop. `attempts` becomes 5 and the loop breaks before `recv_from` (endpoint.rs 859-861). Only three of the four handshakes can ever be answered. |

`GivenUpAfterSchedule` says a record is abandoned only after its whole
backoff schedule. With `Strays = TRUE` and `BootErrors = FALSE`, TLC finds it
violated: each junk datagram wakes the level-triggered yield and burns an
attempt without a send, so a record can be abandoned at t = 0. It is kept as
a hazard and is not a run. Spec section 5 (4 attempts) and section 8 (5
attempt times) disagree on the schedule it would be held to.

Mutants:

- `AttemptOffByOne` (`attempts > 5`) breaks `BootTypeOK`;
- `SendHandshakeLongWait` (a backoff of `2^(attempts+1)`) breaks
  `RecordBudget`;
- `AttemptCountSends` (counting only sends, so junk never exhausts a record)
  breaks `BootTerminates`;
- `PopNoReset` (the attempt counter not reset for the next record) breaks
  `BootInv`;
- `PopKeepRecord` (a popped record left in the list) breaks
  `BootRefinement`.

### `BootstrapProtocol.tla` and `BootstrapRefinement.tla`: what connect promises

`BootstrapProtocol` leaves out time, the socket and the network. Its state is
a stage (resolve, pop, trying, done), the records not yet tried, the current
record, the handshakes sent to it, and the outcome. Its steps are these.

- `Resolved`: resolve the records.
- `Take(r)`: take a record; it is never offered again.
- `Send`: one more handshake, at most `MaxSends`.
- `Abandon`: give the record up.
- `Succeed`: connect; needs at least one handshake to the current record.
- `Exhausted`: `OutOfOptions`, when no record is left.
- `Error`: fail at any stage.

`BootstrapRefinement` maps `Bootstrap` onto it.

- `try` and `wait` are both "trying" (`StageOf`).
- `records`, `rec`, `sent` and `result` map to themselves.
- `MaxSends` is `MaxAttempts`.

A junk datagram, a wake-up, a tick and an arrival are stutters.

The protocol makes no promise that a record is kept for its whole backoff
schedule. The code does not keep that promise (`GivenUpAfterSchedule`
above).

### Proofs (`BootstrapRefinementProofs.tla`)

- `BootRefines`: `BootSpec => BootRefinement`.
The step simulation runs under `RInv == BootInv /\ RespAfterSend`.
`RespAfterSend` is defined in the proof module: while no handshake has gone
to the current record, its socket holds no response. It is not checked as a
property of a run. It restates `Pop`'s fresh socket and `Arrive`'s guard.
A late answer on a reused socket would also fail `recv_response`, because
each record gets a fresh noise state (endpoint.rs 849). It has one
lemma per stage of the task: `ResolveMaps`, `PopMaps`, `AttemptMaps` and
`EnvMaps`. Two steps need the invariant.

- A send is `Send` only if `sent < 4`. That follows from `sent <= attempts`
  and `attempts + 1 <= 4` (`BootInv`).
- A response is `Succeed` only if `sent >= 1`. That follows from
  `RespAfterSend` (`HeadResp`).

`RespAfterSend` is inductive together with `BootInv` (`RespStep`). A new
record gets an empty socket, `Tail` keeps a socket of junk all junk
(`TailJunk`), and the network sends a response only after a handshake.

### Proofs (`BootstrapProofs.tla`)

The theorems hold for every set of records, every queue bound `MaxQueue \in
Nat` and every setting of `Strays` and `BootErrors` (`BootstrapAssumption`).

- `BootInvariant`: `BootSpec => []BootInv`.
- `RecordBudgetHolds`: `BootSpec => []RecordBudget`.
- `BootTypeCorrect`: `BootSpec => []BootTypeOK`.

`RecordBudget` is not inductive. A send sets `deadline = now + 2^attempts`.
To keep `now <= 30` it must know how far the clock already is. `BootInv`
records that with `Waited(a) = 2^(a+1) - 2`, the waits of attempts 1..a:

- `sent <= attempts`, and `attempts <= 4` while the record is being tried;
- while trying, `now <= Waited(attempts)`;
- while waiting, `attempts >= 1` and `now <= deadline <= Waited(attempts)`.

`Waited(a) + 2^(a+1) = Waited(a+1)`, so each send keeps the last conjunct.
The provers do not compute `2^k` for a variable `k`. The lemma `Powers`
evaluates the four backoffs and the five sums, and `WaitedStep` and
`WaitedBound` split on the value of `attempts`. `BootStep` has one case per
action; the loop body `Attempt` has its own lemma, `AttemptKeeps`, with one
case per branch (give up, answer, junk, send).

## `PathDiscovery.tla`: address modes (endpoint.rs 486-547)

One channel's `addrs` is modelled.

- `mode` is Discovering or Established.
- `cat` and `cnt` are the map of the Discovering mode: the category and count
  of each address, with `NoCat` for an absent key.
- In Established, `addr` is the current address and `prevcat`/`prevcnt` is
  the `previous` map taken at settle time.

`Init` holds the seeds.

- A peer channel (accept_outgoing 307-323, accept_incomming 346-362) starts
  Discovering with the relayed paths in any categories, plus the broker's
  address as `BrokerOrigin`.
- The broker channel (new, 166) starts Established on the broker's address
  with an empty `previous`.

`Receive(a, ok)` is one datagram from `a`; `ok` says whether
`chanchan.recv` authenticates it.

- `RecvDiscovering` counts it with `or_insert((Internet, 0))` before the
  authentication.
- At count 5, `RecvSettle` picks an address of least category among those
  with count at least 1 (`Best`). It moves the map into `previous` and then
  runs the authentication and migration of the same datagram (`AfterRecv`).
- `RecvEstablished` migrates to an authenticated new address when
  `current_cat >= migrate_cat` (`Migrates`), with absent addresses as
  Internet (`CatOf`).

The scan of the `HashMap` in the code keeps the first entry of least
category; the spec says the last. Its order is unspecified, so the model lets
`Best` return any of them.

The properties are these.

- `PDTypeOK`: the type, and no count reaches 5 while Discovering.
- `EstablishedOnBest`: an established channel's address is never of a worse
  category than any candidate it settled among. Migration has to preserve
  this too.
- `Settles`: a discovering channel eventually settles, under weak fairness
  of receiving from `PeerAddr` (the peer keeps sending; that is the
  engine's keep-alive, outside the source).
- `MigrateOnlyToKnown` (violation run): an established channel only migrates
  to an address of its `previous` map.

`EstablishedOnBest` and `Settles` accept whatever datagrams arrive. The model
lets any address send, and only the engine (not in the source) tells a
forged datagram from a genuine one. So neither property can see that the
count is raised before `chanchan.recv` authenticates the datagram
(endpoint.rs 492).

The instance has three addresses: the broker's, a relayed one and the peer's
actual one. With all category seeds this covers ties, a better unseen
address, and migration in both directions.

| run | cfg | expect | what it shows |
|---|---|---|---|
| path_discovery | `MCPathDiscovery.cfg` | pass | `PDTypeOK`, `EstablishedOnBest`, `Settles`; 2,491 states. |
| path_migrate_unknown | `MCPathDiscovery_unknown.cfg` | violation | `MigrateOnlyToKnown` fails. The broker channel, with an empty `previous`, follows any authenticated address (spec 4.2 says "known prior candidate"). |

Mutants:

- `MigratesWorse` (migrating to a worse category) breaks `EstablishedOnBest`;
- `RecvDiscoveringLate` (settling on `count > 5`) breaks `PDTypeOK`;
- `RecvDiscoveringKnownOnly` (counting only known addresses) breaks
  `Settles`.

### Proofs (`PathDiscoveryProofs.tla`)

The theorems hold for every set of addresses, under
`PathDiscoveryAssumption` (the broker's and the peer's addresses are
addresses).

- `PDInvariant`: `PDSpec => []PDInv`, the inductive invariant of the other
  two. `PDInv` is not a property of the run: the `HashMap` of line 491 holds
  a count only together with its entry.
- `EstablishedOnBestHolds`: `PDSpec => []EstablishedOnBest`.
- `PDTypeCorrect`: `PDSpec => []PDTypeOK`.

`EstablishedOnBest` is not inductive. At settle time, `Best` compares the
categories of the counted addresses. If a counted address could be absent
from the map, its `NoCat` would win the scan, and `CatOf` would read it as
Internet, worse than a Local candidate. `PDInv` adds that while
Discovering every address with a count is in the map. That holds because
`or_insert` runs before the count. `SettleKeeps` shows the picked entry
beats every counted one and that a migration on the same datagram does not
make it worse. `EstablishedKeeps` shows the same for a later migration.

## `PacketCodec.tla`: the wire codec (packet.rs)

The codec operates on byte strings, which are sequences of 0..255.

- `BE(n, w)` and `BEVal` are the big-endian `write_uN`/`read_uN`.
- `EncryptedPacketEncode`/`Decode` are lines 22-67.
  - The direction is bit 0 of the route's last byte. Decode masks it out.
  - The header reads fail with `Io` on a short input before the version and
    reserved bytes are checked.
- `FrameLen`, `FrameEncode` and `FrameDecode` are lines 137-308.
  - There is one decoder per tag.
  - The end of input at a tag ends the list with `Ok`; tag 0 is skipped.
  - A short body is `Io`; an unknown tag is `InvalidFrameType`.
  - `Ack` is encoded sorted with `*delay as u16`.
  - `Config`'s timeout is read from its `datalen` bytes.

The state is the packet `pkt` and the frame list `fs` under test, and every
step picks new ones. The samples include:

- routes with bit 0 clear and set;
- versions 8 and 9;
- the largest integer TLC holds (2^31 - 1, still written as 8 bytes);
- a payload that starts with a frame tag;
- Ack delays 0 and 65535, at the u16 boundary;
- every list of up to two frames.

The `Debug` formatting and the encode asserts (payloads of 64 KiB) are left
out.

The properties are these.

- `PacketRoundTrip`: decode inverts encode. The route's bit 0 is lost (spec:
  the recovered route is `R & !1`), and version 9 is refused.
- `FramesRoundTrip`: decoding the encoded frames gives them back in order,
  with acks sorted.
- `FrameLenMatches`: `len()` is the encoded size. It says nothing about a
  truncated datagram; `TruncatedDecode` covers that.
- `TruncatedDecode`: a cut body decodes only when the cut is at a frame
  boundary, and then to a prefix of the frames. A datagram truncated at a
  boundary loses frames silently.

With `Delays = {65536}` TLC finds `FramesRoundTrip` violated at once: the
u64 delay is truncated by `as u16`, unguarded, unlike the lengths. The
delays come from the engine, which is not in the source, so it is unknown
whether one reaches 65536. The hazard in `PROJECT.json` therefore has no
property.

| run | cfg | expect | what it shows |
|---|---|---|---|
| codec | `MCPacketCodec.cfg` | pass | All four properties; 50,736 states, about 70 s. |

Mutants:

- `EncryptedPacketDecodeNoMask` breaks `PacketRoundTrip`;
- `DecodeStreamSwapped` (order read before the stream id) breaks
  `FramesRoundTrip`;
- `FrameLenNoTimeout` breaks `FrameLenMatches`;
- `DecodeFromEofOk` (a failed read ends the list successfully) breaks
  `TruncatedDecode`.

The codec is recursive (`BE`, `DecodeFrom`) and is checked by TLC only.


## Proofs (`ConnectProtocol.tla`, `ConnectRefinementProofs.tla`)

- `AnsweredOnceInvariant` (in `ConnectProtocol`): in the abstract protocol,
  every held answer is the only one for its stream, and that stream is done.
  `CPTypeOK /\ AnsweredOnce` is inductive (`CPInvStep`).
- `ConnectRefines`: `Spec => ConnectRefinement`, for every value of the
  constants.
  - `Init` maps to `CP!Init`.
  - `ConnStep`: under `IInv`, every step of `Next` is a `CP!Next` step or
    leaves `<<ConnOf, cresps>>` unchanged.
  - `ConnStep` needs the invariant. A stream that `Connect` claims must be
    free and not pending (`StreamClaims`). A Close or a response on a pending
    stream must find the broker live (`PendingOutOpen`). The visited channel
    must be live (`LoopClaims`).
  - The lemmas are:
    - `ConnStutter`, for the actions that keep `cresps`, the none-ness of
      `pout` and the free streams of the broker;
    - `ConnClaim`, a fresh broker stream becomes `Request` or `Use`;
    - `ConnAnswer`;
    - `PollHandlersFree`, `AddChannelBroker`, `ProgressConn`.
  - The last step combines them with `IInvInvariant` by PTL.
- `AnswerOnResolveHolds` (in `ConnectProtocol`): `Spec =>
  [][AnswerOnResolve]_cpvars`. Only `Answer` ends a pending connect, and the
  answer it adds is new, because by `CPInv` a held answer is never for a
  pending stream.
- `ConnectAnsweredHolds`: `Spec => ConnectAnswered`. Through `ConnOf`, a
  protocol step ends a pending entry only with a fresh answer, and a
  protocol stutter ends none (`AnsweredFromProtocol`). The theorem combines
  this with `ConnectRefines` and `CP!AnswerOnResolveHolds` by PTL.
- `ConnectAnsweredOnceInvariant`: the endpoint never answers a `connect()`
  twice, nor with two outcomes. It follows from `ConnectRefines` and
  `CP!AnsweredOnceInvariant`.

## What stays with TLC

- Liveness: `BootTerminates`, `Settles`, and the violated
  `DisconnectReported`. Liveness and
  ENABLED are beyond the prover.
- The codec. Its operators are recursive, and what a recursive definition
  computes for every input would need induction over data, which the
  installed provers cannot instantiate.
- `ResponseNotDiscarded`, `MigrateOnlyToKnown` and the other violations: they
  are false of the code, and TLC shows the counterexample.
- The mutants.

## Not modelled

| part | where | status | reason |
|---|---|---|---|
| Address used by `SendPacket` | `endpoint.rs` 599-617 | partly | The address of a send is `PathDiscovery`'s `addr`; the send itself changes no modelled state in `Endpoint`. |
| Subscriber | `subscriber.rs` | not modelled | A user of `Endpoint` whose task is one of `Endpoint`'s nondeterministic handler tasks. Its body is protobuf decoding and logging. The publish task's drop panic (`endpoint.rs:193`) needs task kinds in `Endpoint`, not yet added. |
| External modules | `channel.rs`, noise, identity, DNS, `local_addrs` | not modelled | They are not in the source. The engine is represented only by what `progress()` may return, and DNS by the records `Resolve` may yield. |
| Crate root and protobuf types | `lib.rs` | not modelled | Declarations and generated code, with no state. |
