# Verification of the MyQRLWallet backend

TLA+ models of the parts of `src/` in which something can go wrong between two steps: the
Socket.IO relay that connects a dapp with a wallet and the admission in front of it, the RPC proxy
that routes calls to monitored upstream nodes and the checks a request passes first, the IPFS
gateway proxy, and the configuration that keeps mainnet apart. TLC checks the models on small
instances; TLAPS proves for every value of the constants every safety and action property that the
passing runs check, and the refinement between the relay and what it promises. Liveness is left to TLC.

## 1. The system

| Part | State | Operations | Modelled in |
|---|---|---|---|
| Channel manager (`relay/channelManager.ts`) | channels with participants, offline buffers, sequence numbers and bound key; tombstones and their eviction queue; in-flight reservations; byte counters per channel, per address, in total | `join`, `leave`, `close`, `routeMessage`, `releaseDirectDelivery`, `advanceDirectDelivery`, the `cleanup` timer | `ChannelManager`, `Queues` |
| Relay server (`relay/relayServer.ts`) | connected sockets, each with `currentChannelId`; Socket.IO rooms; one drain or ready listener per socket | connection, `join_channel`, `message`, `leave_channel`, `close_channel`, disconnect; transport events | `RelayServer`; what it promises in `Mailbox` |
| Admission and rate limits (`relay/relayServer.ts`) | engine sessions and full sockets, in total and per address; a rate-limit window per address with five counters | `admitEngineRequest`, the engine's connection and close events, the caps of the connection handler, `connectTimeout`, `checkRateLimit`, its timer | `AdmissionControl`, `RateLimiter` |
| RPC health monitor (`services/rpc/healthMonitor.ts`) | a record per endpoint (state, counters, height, times, identity), the re-entrancy guard, polls in progress | interval, poll outcomes, readiness queries | `HealthMonitor` |
| RPC service (`services/rpc.service.ts`) | slots in use, in total and per client; a cache of invariant results | `executeRPC` with failover, `makeRPCCall` | `RpcService` |
| RPC request security (`middleware/rpc-security.ts`) | none across requests; a request and its body along the chain | batch reject, whitelist, write limit, parameter validation with the rewriting of log filters | `RpcRequests` |
| IPFS gateway proxy (`routes/ipfs.routes.ts`) | cooldown and failing CIDs per gateway, fetch slots, two timers per request | `ipfsHandler` | `IpfsGateway` |
| Configuration (`config/index.ts`) | endpoint lists, identity pins and history origins per network | evaluation at start-up, separation of mainnet | `NetworkConfig` |
| Server start and shutdown (`server.ts`) | the HTTP server and the timers | listen, `shutdown` | not modelled |
| Transaction history, other routes, middleware, notifier, metrics, utilities, crypto | none, or write-only | per-request checks | not modelled: no behaviour over time |

How they interact. `relayServer` owns one `ChannelManager` and calls it synchronously from its
handlers; the manager asks back through two callbacks, `isSocketActive` and `canSocketReceive`.
A direct delivery ties three parts together: a reservation in the manager, a listener on the
Engine.IO transport, and the write itself. Admission decides which sockets exist, and otherwise
shares nothing with the channels. `executeRPC` reads the ready endpoints of the health monitor, which
changes them on its own timer. The requests it serves have passed the checks of `rpc-security`. The
configuration is evaluated once, before anything else runs.

What is hard.

- *Interleaving.* Node.js runs a handler to its first `await`. `join_channel` waits for
  `socket.join`, and handlers of packets the same socket has queued run in that window; a handshake is
  admitted and counted at two different moments; the polls of all endpoints, all RPC calls and
  all IPFS fetches interleave freely.
- *Ordering.* A message may reach its target directly, through the buffer and a drain, or with the
  ack of a join; the three must not overtake one another.
- *Resources.* Byte counters are adjusted in eight places and clamped at zero, which would hide
  a mistake. Tombstones, channels per address, sessions, slots and buffers all have limits.
- *Failure.* Sockets disappear at any moment; targets are slow; nodes and gateways give any answer or none.
- *Time.* Messages, channels and tombstones expire; health evidence ages; rate windows and
  gateway cooldowns run out while requests are under way.

The properties that make each part correct are in section 3, next to the run that checks them. The
hazards they answer, with their lines, are listed in `PROJECT.json`.

## 2. Modules

`Queues` - arrays as sequences: filter, find, sum of bytes, clamped subtraction.

`ChannelManager` - the class as one record `mgr`. Each method is an operator from a manager to
a manager and its return value (`Join`, `Leave`, `Close`, `RouteMessage`, ...), because the
handlers of the server call several methods in one turn. `Spec` calls the methods in any order
with any answer from the callbacks, so what holds of it holds of every client of the class.
An absent object is `None`; a reservation whose channel object has been dropped from the map
has channel `None`.

`RelayServer` - the handlers around it. A handler is one action; `join_channel` is two
(`StartJoin`, `ContinueJoin`) when it awaits, with `joining` holding its locals, and one (`Rejoin`)
when it does not. With the in-memory adapter, which is the one the server creates, the awaited
promise settles without I/O: only handlers of the same socket run in between (`MayRun`), never a timer
or another socket (`Quiet`). The transport under a socket is `ready`, `busy` or `drained`;
`Drain` and `Ready` are its events, `ReadyForControl` and `ControlWrite` let Engine.IO's own packets
compete for it, and `Upgrade` is the client's move from polling to websocket. `delivered`
and `crossed` are history variables no action reads.

`Mailbox` - what the relay promises about messages, without transports, budgets or reservations:
one mailbox per role of a channel. A message is handed over at once if nothing older waits, or
stored; what is stored is handed over oldest first, or lost. `RelayServer` implements it
(`ImplementsMailbox`): `posted` is the number of messages routed, `waiting` the ids in a live channel's buffer for
the role, `handed` what its sockets were given. `exposed` are the mailboxes whose owner joined
while its delivery belonged to another channel (`crossed`); in those a message may overtake,
which is finding `stranded` below.

`RateLimiter` - `checkRateLimit` and its timer: fixed windows, five counters per address that share
one window, refused events counted too. `grants` is the history of what was let through.

`AdmissionControl` - extends it. A session goes from a handshake request (`pending`) over the engine's
connection event (`fresh`) to a full socket; it may disconnect and connect again
in the same session (`parked`), and either side may close it. The counters per address are the
code's, the phases are the truth they are compared with.

`HealthMonitor` - the monitor of one network. A poll takes two steps, the answer to
`qrl_blockNumber` and the outcome of the whole, because nothing in between is visible.

`RpcService` - extends `HealthMonitor`, whose steps interleave with those of requests. A request slot is
used again after it has ended. What follows a failed call up to the next one runs without I/O, so the
monitor takes no step between `CallFails` and `NextAttempt`.

`RpcRequests` - the middleware chain one request passes, one action per middleware, and what
the node makes of a log filter that gets through.

`IpfsGateway` - concurrent `ipfsHandler` calls over shared cooldowns, windows of failing contents and
slots. An action is what happens to one request: a kind of answer, the first bytes, a timer, or
the client going away; the loop over the remaining gateways (`Continue`, `BeginAttempt`)
is part of it, since the code runs it without an `await`. `failing` and `counted` are history.

`NetworkConfig` - the evaluation of `config/index.ts` as a sequence of stages, each reading any value
of its variables.

`MCChannelManager`, `MCRelay`, `MCAdmission`, `MCHealth`, `MCFailover`, `MCConfig`, `MCProxies` - instances for TLC
(`MCConfig` is the part of `MCProxies` about the configuration).
Proof modules, with what they are about:

- `QueuesProofs` - `Queues`: filtered and appended sequences, sums of bytes.
- `ChannelManagerProofs`, `DeliveryProofs`, `AccountingProofs` - `ChannelManager`, each resting on the one before: its state
  in general, what a step may do to tombstones, sequence numbers and mail, and the byte counters.
- `RelayProofs` - `RelayServer`, from what the three before it say each method of the manager does.
- `MailboxProofs` - `Mailbox`.
- `AdmissionProofs` - `RateLimiter` and `AdmissionControl`.
- `ProxiesProofs` - what stands between a client and other servers: `IpfsGateway`, `NetworkConfig`, `RpcRequests`,
  `HealthMonitor` and `RpcService`.

An operator named `Definition_Mistake` is a faulty variant of `Definition`: a plausible bug. No
specification uses one. Each is substituted, alone, for its definition to see that a property
notices; `PROJECT.json` pairs them with properties.

### Abstractions

Relay.

- Message contents, ids of clients and key material are members of small sets; the shape, size and
  key checks of the handlers pass. A refused malformed event changes no modelled state.
- A socket id is used for one connection. After its end its connection variables are reset, since nothing
  reads them any more.
- `RelayServer` leaves out rate limits and admission, which only prevent its actions; they are
  modelled in `AdmissionControl`.
- For websockets `drain` and `ready` are separate steps as for polling; the library emits them closer
  together, so the model has more behaviours.
- The second `await` of `join_channel`, which leaves the previous channel's room, is one step
  with the continuation after it.
- A parked session has no timer: the library arms `connectTimeout` when the session opens
  and clears it with the first CONNECT.

RPC.

- Identity checks, syncing and head block queries of a poll are one outcome. A poll may take
  longer than `POLL_TIMEOUT_MS`, as timers have no upper bound. Counters stop at the threshold
  they are compared with. Latency is left out, so ready endpoints come in any order.
- Every RPC call reserves the same number of bytes, so the byte limit is a limit on calls. All requests
  have a client key.
- Methods that are checked alike are one kind; an address, hash or topic fits its format or does not.
  The write limit belongs to the `express-rate-limit` library and may refuse any write. How the node reads a
  range (tags, omissions, other spellings of a key) is external, taken from the comments and
  checks of `rpcParamsValidator`.

IPFS.

- `performance.now()` and `Date.now()` are one clock, and timers are punctual: a later timer would
  end an attempt later by the same amount.
- The headers and the first bytes of an answer are one event, as nothing is sent to the client
  between them. Wording, headers and media types of answers, the checks of CID and path, and the
  library's limit of requests per minute are left out.
- The code accepts an `IPFS_FALLBACK_RESERVE_MS` below `MIN_ATTEMPT_MS` and a timeout too short for all
  gateways. `FallbackKeepsReserve` has the premise `ReservesFit`, which the defaults satisfy.

Configuration. Endpoint lists are sets; an origin or a pin is the value it has after parsing, or
malformed; `rpcEndpointKey` is a function from spellings of a URL to the upstream they name. `Blank` is one of
the spellings: the code trims the members of a list, and reads the older variable of dev and mainnet as a list too, but
takes that of the testnet as it is, so that white space becomes an endpoint there and only the empty string counts as unset.

## 3. What is checked

Bounds are the constants of the `.cfg` files. `MaxClock`, `LastInstant`, `MaxMessages`, `MaxAsked` and
`MaxPending` bound clocks and numbers of events; nothing else is bounded that the code does not bound.
`CHECK_DEADLOCK FALSE` is set in most runs: once the bounds are reached, sockets closed and buffers
empty, the instance really stops. `admission` checks deadlock too. Symmetry is used for identities
(sockets, channels, keys, addresses, sessions, endpoints) in runs without liveness properties.

| Run | Instance | Properties |
|---|---|---|
| `lifecycle` | 3 channels, 3 sockets, 2 keys, 2 addresses, 2 tombstones, 1 live channel per address, clock to 2, no messages | `TypeOK`, `OneSocketPerRole`, `TombstoneFifoIsExact`, `LiveChannelsPerCreatorBounded`, `KeyBindingIsStable`, `TombstonesLast` |
| `messages` | 1 channel, 2 sockets, no keys, 3 messages of 1 or 2 bytes from 2 addresses, budgets of 3, 2 and 3 bytes, clock to 3 | `BytesAreExact`, `BudgetsHold`, `SeqOnlyAdvancesWithMessage`, `BufferedMessagesAreNotDropped` |
| `server`, members | 2 channels, 3 sockets, capacity 1, clock to 3 | `RelayTypeOK`, `ParticipantsAreConnected`, `ChannelCapacityHolds` and, in both scenes, `ImplementsMailbox` |
| `server`, mail | 1 channel, 3 sockets of which 2 open at once, 3 messages, control packets | the same |
| `switching` | server: 2 channels, 2 sockets, 2 messages | `ListenersMatchReservations`, `MailHasConsumer` |
| `liveness` | server: 1 channel, 2 sockets, 3 messages, polling with upgrades | `MailIsConsumedOrListenerLost` |
| `admission` | 4 sessions, 3 of one address, 2 handshakes in flight, caps of 1 per address and 2 in all, limits 1 and 2, clock to 2 | `AdmissionTypeOK`, `CountersAreExact`, `SocketCapsHold`, `OvershootIsInFlight`, `BurstsAreBounded`, `RefusedOnlyWhenSpent`, `LimiterBehaves` |
| `readiness` | 2 pinned endpoints, heights 1 and 2, heads 1 ahead or 1 behind, clock to 4 | `HealthTypeOK`, `OnePollPerEndpoint`, `UpMeansProgress`, `BestHeadIsReady` |
| `proxies`, RPC | 3 requests of 2 clients, 2 slots, 1 per client, first round of polls | `RpcTypeOK`, `SlotsAreExact`, `RequestsEnd` |
| `proxies`, failover | 1 request at a time over the 2 pinned endpoints, polled meanwhile, clock to 2 | `OnlyFailoverIsStale` (also checked in the row above) |
| `proxies`, IPFS | 2 requests, 3 gateways, 2 contents in 3 spellings, timeout 3, reserve 1 | `IpfsTypeOK`, `DeadlineIsKept`, `ErrorWindowIsExact`, `CooldownsAreKept`, `FallbackKeepsReserve`, `OneSourcePerResponse` |
| `proxies`, checks of a request | 4 block numbers, 4 heads, range 2, 1 address | `LogScansAreBounded` |
| `proxies`, configuration | 2 nodes with 3 spellings, white space, 2 values of each pin, 2 origins | `MainnetStaysApart` |
| `stranded`, `lost_room`, `upgrade`, `revoked` | see section 4 | each one claim of a comment or document that the code does not keep |

Two runs put several questions to one instance. In `proxies` the parts share no variable but for the two instances of the RPC proxy; a variable chosen in the
initial state says which one runs while the others stay idle, as the product of independent parts would be large
and show nothing more. In `server` a state constraint (`Scenes`) keeps to states in which either nobody has sent anything,
or one channel is in use, no time has passed and two sockets at most are open; the full product is too large.
Constraint and symmetry are sound there because nothing that is checked is a liveness property: every step
between states of a scene is explored, and so is the first step out of it.

Why the bounds are enough.

- Roles are two, so three sockets give a rival for a role and an
  occupied channel. Two tombstones and three channels give an eviction with a younger tombstone left, and
  a re-created id.
- In `server`, three messages give a full buffer of two with one in flight, displacement and
  promotion, and the third socket replaces one that has gone while its mail waits. Displacement,
  promotion and expiry with two sizes and all budgets within reach are in `messages`, where each of the three
  budgets can be the one that refuses.
- Three messages in `messages` are one in flight, one in the buffer, and one that is then accepted or refused: a refused one must
  not have displaced the one that waits (`BufferedMessagesAreNotDropped`). The buffer holds one message, so "the oldest" is the only one
  there; the theorem covers longer buffers, and `server` has a buffer of two under `ImplementsMailbox`. The binding of keys, which
  concerns no message, is left to `lifecycle`.
- Clocks run past each TTL by more than one, so that expiry on time and late, and reuse after reaping, happen.
- In `admission`, two handshakes of one address can pass a cap of one before either is counted, and the
  limiter gets a whole window and the beginning of the next.
- For the monitor, `StallAfter` is 1 and the clock 4: an endpoint can stall, fail, recover and stall again.
- The RPC part takes the health monitor only through its first round of polls: nothing there
  depends on how an endpoint became ready. The failover part and `revoked` do depend on it: there the clock goes to 2, for three
  rounds of polls with the request in any phase in each of them.
- In the IPFS part the clock runs to one instant after the deadline and no request starts
  later than it can end, so all requests begin at instant 0. Their attempts do not: they spread
  over all instants, and two gateways fail or cool down between them. The slot limit of 2 does not refuse a third request here
  (there is none); that it is kept is proved for every number of requests.
- Block numbers are 0, a number below, at and above the range from each other, and heads lie before, between and after them.

Fairness. `liveness` assumes that an awaited promise settles, and strong fairness of `Drain` and `Ready`
per socket: Node's event loop polls every connection, so a write that can finish does.
A client that never reads is dropped by Engine.IO's ping timeout (a `Disconnect`, which also ends the
obligation). It does not assume that anyone sends, leaves or joins. Strong fairness is needed because other handlers
of the same socket can keep an I/O turn waiting in the model.
Control packets are absent from this run; they are in `server`, which checks safety alone. `RequestsEnd` assumes
that `REQUEST_TIMEOUT_MS` ends every call and that a continuation runs; it does not assume that a
node ever answers. That an IPFS request ends is stated as safety (`DeadlineIsKept`): no instant after its
deadline sees it in progress.

## 4. Where the code and its documents differ

- `stranded` (`LiveTargetConsumesBuffer`). `channelManager.ts:474` says that a live target
  with a reservation consumes the buffer one message per drain. A socket that switches
  channels keeps its reservation for the old one; a message for it in the new channel is buffered
  because a delivery is in flight, and the drain promotes from the old channel only. The message waits
  for a new join, or for a later message, which goes out directly, ahead of it, and whose drain then takes it.
  `MailHasConsumer` and `ImplementsMailbox` show that nothing else strands or reorders messages.
- `lost_room` (`ParticipantsInRoom`). A `leave_channel` handled inside the `await` of a
  `join_channel` of the same channel takes the socket out of the room, then the join makes it a participant:
  it gets no presence or close event, and a re-join of the current channel does not enter the room again.
- `upgrade` (`BufferedMailIsConsumed`). `onDrain` waits for `ready` on the transport it captured. If the
  client upgrades between the two events, that transport never becomes ready, and everything for this socket
  is buffered until it disconnects. `MailIsConsumedOrListenerLost` shows that this is the only such case in its instance.
- `revoked` (`RevokedEndpointsAreNotCalled`). `README.md:140-143` of the repository says that a failed poll immediately
  revokes an endpoint until a complete matching poll. That holds of the ready set, so of requests that begin
  afterwards (`OnlyFailoverIsStale`). A request under way has read its order before its first call (`rpc.service.ts:212`): when that call fails, it is
  sent to the second endpoint, although its poll has failed meanwhile. The same property shows that this one call is all
  that an old reading can lead to.

A fifth difference is in a document alone and has no run. `README.md:74-77` of the repository says that startup stops when mainnet
endpoints are unpinned or shared, or the pins equal the testnet's. The code logs the problem, keeps mainnet
without endpoints and history, and serves the other networks, as the comment at `config/index.ts:452-455` says.
`MainnetStaysApart` shows that the purpose of the rule, separation, is met.

## 5. What is proved

All theorems hold for every finite set of identities and all limits, budgets and times that satisfy the
assumption of the module, which TLC evaluates in the runs.

| Module | Theorem | Says |
|---|---|---|
| `ChannelManagerProofs` | `TypeCorrect`, `OneSocketPerRoleHolds`, `TombstoneFifoIsExactHolds`, `LiveChannelsPerCreatorBoundedHolds`, `KeyBindingIsStableHolds` | the properties of `lifecycle` but one |
| | `TombstonesBoundedHolds` | never more than `MAX_TOMBSTONES` |
| `DeliveryProofs` | `TombstonesLastHolds` | the remaining property of `lifecycle` |
| | `SeqOnlyAdvancesWithMessageHolds`, `BufferedMessagesAreNotDroppedHolds` | the action properties of `messages` |
| `AccountingProofs` | `BytesAreExactHolds`, `BudgetsHoldForAll` | its invariants: every counter is the sum it stands for, and no budget is exceeded |
| `RelayProofs` | `RelayTyped`, `ParticipantsAreConnectedHolds`, `ChannelCapacityHoldsAcrossAwait` | the invariants of `server` |
| | `ListenersMatchReservationsHolds`, `MailHasConsumerHolds` | the properties of `switching` |
| | `RelayImplementsMailbox` | the refinement that `server` checks |
| | `ManagerKeepsItsPromises` | the invariants of `lifecycle` and `messages` hold of the server too |
| | `HandedOnceAndInOrder` | so no message of the relay is handed over twice or, outside a crossed channel, out of order |
| `MailboxProofs` | `InOrderHolds`, `AtMostOnceHolds` | in the mailboxes nothing is reordered or handed over twice |
| `AdmissionProofs` | `BurstsAreBoundedHolds`, `RefusedOnlyWhenSpentHolds` | of `2 * limit + 1` consecutive grants the first and the last are more than a window apart; a refusal means the limit was used up |
| | `LimiterBehavesHolds` | admission implements the limiter, so the two above hold of it |
| | `AdmissionTyped`, `CountersAreExactHolds`, `SocketCapsHoldForAll`, `OvershootIsInFlightHolds` | the other properties of `admission` |
| `ProxiesProofs` | `IpfsTyped`, `DeadlineIsKeptHolds`, `ErrorWindowIsExactHolds`, `CooldownsAreKeptHolds`, `FallbackKeepsReserveHolds`, `OneSourcePerResponseHolds` | the properties of the IPFS part |
| | `MainnetApart`, `LogScansBounded` | those of the configuration and of the checks of a request |
| | `HealthTyped`, `OnePollPerEndpointHolds`, `UpMeansProgressHolds`, `BestHeadIsReadyHolds` | the properties of `readiness` |
| | `MonitorKeepsItsPromises` | the last three, about polls and the ready set, hold while requests are served too; they say nothing of calls |
| | `RpcTyped`, `SlotsAreExactHolds` | the invariants of the RPC part |
| | `OnlyFailoverIsStaleHolds` | the property of the failover part: which calls may rest on readiness read earlier |

The assumptions are `ConstantsAssumption` of the manager, `LimiterAssumption`, `AdmissionAssumption`,
`RelayAssumption`, `HealthAssumption`, `RpcAssumption`, `IpfsAssumption`, `RequestsAssumption` and `ConfigAssumption`, and for each module that uses
an absent value that this value is none of the present ones (`NoneIsNoObject`, `NoneIsNoRecord`, `NoneIsNoEntry`, `NoneIsNoRequest`).
The last conjunct of `ConstantsAssumption`, that a buffered message
expires before its channel does, is the relation of the two constants in the source (5 and 30 minutes,
`channelManager.ts:8` and `11`). `HealthAssumption` asks for at least one endpoint: a network without endpoints has no monitor.

*Channel manager.* `IInv` is the inductive invariant: every value has its type, a reservation that
refers to a channel refers to one in the map (`Linked`; without it a release could write to a
channel that is not there, and types would be lost), each role has at most one socket, the eviction queue is exact and
bounded, and no address exceeds its channels. Most methods only take participants, messages or channels away: they satisfy
`Step`, which preserves every conjunct. `Join`, `Close` and `Cleanup`, which add a channel, add a
tombstone and remove channels, have lemmas of their own. `QueuesProofs` has the facts about
filtered sequences and sums; since no installed prover can use an induction rule that takes a predicate,
its lemmas take a least counterexample instead.

*Deliveries.* What a step may do to a tombstone, a sequence number or a stored message depends on when channels
were last active: `cleanup` drops an abandoned channel with whatever it stores, and that breaks the promise to keep a message
for its whole TTL unless the message is older than the channel's inactivity. `DeliveryInv` therefore adds to `IInv` that no message is younger
than the last activity of its channel and no activity lies in the future (`Aged`), and that no buffer is too long
(`Bounded`). Each method satisfies `Delivers`, which says what one call may do to tombstones and sequence numbers. For
stored messages each method has its own account: most leave every buffer as it is or longer (`NothingGone`), a routed message
displaces the oldest or nothing (`OldestGone`), a join or a drain hands over what it takes (`HandedOver`), and `StepKeepsMail` puts
them together.

*Accounts.* `AccountInv` has three parts beyond `DeliveryInv`. `Exact` is `BytesAreExact` with every sum taken over all
channels and all sockets, absent ones weighing nothing, so that a change in one place changes one term.
`Within` is `BudgetsHold` for bytes. `Tidy` is what makes subtraction right: a message is stored once (`Unrepeated`, which holds because
ids are new, `Numbered`), so taking one out takes exactly its bytes; and a tombstone stores nothing (`HollowTombs`), so
that forgetting it, which adjusts no counter, loses none. An abandoned channel is safe to forget for the reason given above: by `Aged` it
is empty once `cleanup` has removed what expired. So the clamp at zero never cuts anything off. The budgets need the order in which a drain works: it gives
back what was in flight before it counts the next message, so no sum of the two grows. These two theorems are about `Spec`, where the
methods are called in any order, one per step. The handlers of the server call several in one step (a disconnect releases and
leaves, a switch joins and leaves, a refused message may cut off its target), which is no step of `Spec`; so `RelayProofs` states for each method
that it keeps a manager in balance (`Balanced`) and composes them along each handler. `ManagerKeepsItsPromises` is the result.

*Relay server.* `RelayInv` relates the manager to the connections: a participant is an open socket whose current channel that is, a listener is armed
exactly for a reservation, tombstones have no participants (so `close` never meets one), and while a join awaits (`JoinsFit`) it is the only one,
and the room for the channel it is about to create is still there, which is why the capacity checked before the await holds after it.
`MailInv` adds that in a channel no join has crossed, the delivery in flight to a participant is the channel's own, and
without one no mail waits (`Supplied`). `OfficeInv` adds that messages are stored in the order of their ids,
below the next one, and that no id is in two buffers (`Posted`). From it each handler's step is shown to be
a step of the mailboxes: a post, a handover, a loss, or nothing they can see. Together with `MailboxProofs`, whose
results are about `Mailbox` alone, this gives `HandedOnceAndInOrder`.

*Monitor and RPC proxy.* `HealthInv` says of each record what its last poll left behind (`RecordFits`): a verified identity means
no failure since, and an endpoint that is up had made progress when it was last verified. The two promises about ready endpoints, which look
at the clock, follow from it and from the age limit of the evidence. `RpcInv` adds `SlotsFit`: the counters are the numbers of requests
whose upstream call is in flight, in all and per client. `FailoverInv` adds that a request that has two endpoints left has two different
ones, and one that is about to fail over has one.

*Rate limiter.* A bound on bursts says nothing of the counters. `LimiterInv` ties the two together: every grant
carries the window it was counted in, the last grants of the history are exactly those the current counter stands for, all
others belong to windows that were over when the current one began, and grant `i + limit` is of a window that began after
that of grant `i` was over. Two such distances take `2 * limit + 1` grants beyond the window.

*Admission.* `AdmissionInv` says that each counter is the cardinality of the set of sessions it stands for, and
bounds the sessions by the cap and the handshakes still in flight.

*IPFS.* For the reserve, `FetchInv` says of each request how much time is left for the gateways whose reserve has
been set aside: later attempts take none of it. For the window, `WindowInv` relates the record per gateway to the
history of failures, and gives up on entries that are outside the window and may be stale in the record.

*Mailboxes.* `MailInv` adds to the two properties that everything has been posted and that each mailbox is in
order itself.

*Configuration* and *requests.* Separation is established at the stage that empties mainnet and kept by the
one after it; a filter that passes the checks keeps, when it is rewritten, the bounds it was checked for.

Only model-checked: `MailIsConsumedOrListenerLost` and `RequestsEnd`, because liveness under fairness and `ENABLED` are out of the
prover's reach.

## 6. Not modelled

- Shutdown (`server.ts`, both `destroy` methods): it runs once, and the process ends. The order in which it closes
  the HTTP server, open connections and timers is the one hazard there.
- The health monitor's latency, `stop` and snapshot: the snapshot is read by a status route only, latency orders
  endpoints that are all ready.
- CORS, error formatting, metrics, logging, the notifier, CID and address checks, the body reader and the
  cryptographic primitives keep no state that a later step depends on.
- The routing of clients to replicas (`k8s/`): the model is of one process.

## 7. Plan

1. The action properties of the manager for the server: `SeqOnlyAdvancesWithMessage`, `TombstonesLast`,
   `KeyBindingIsStable` and `BufferedMessagesAreNotDropped` over a handler's whole step, which may call two methods.
2. Safety parts of the two liveness properties: what a stored message, or a request, can be waiting for.
3. Shutdown as a component of its own.
