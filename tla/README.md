# Verification of mqttium

mqttium is an asyncio MQTT 3.1.1 / 5 client. Its session logic is a
synchronous, I/O-free engine (`src/src/mqttium/protocol`) driven by an asyncio
runtime (`src/src/mqttium/api`) over pluggable transports and a pluggable
store. This directory holds TLA+ modules translated from that code, TLC
configurations that check them on small instances, and TLAPS proofs.
(The repository's own `formal/` directory is a separate set of models; nothing
here depends on it.)

## The system

| Part | State | Operations | Talks to |
|---|---|---|---|
| `PacketIdPool` | frontier, holes, out-of-order reservations | allocate, reserve, release, clear | owned by OutboundSession, shared with SUBSCRIBE/UNSUBSCRIBE |
| `FlowControl` | set of packet identifiers that own a send slot, limit | try_acquire, release, reset, apply limit | owned by OutboundSession |
| `OutboundSession` | queue, parked and sealed exchanges, unacknowledged budget; durable rows in the store | publish admission, PUBACK/PUBREC/PUBCOMP, drain, replay, purge, seal, hydrate | emits SEND and PUBLISH_COMPLETE/FAILED effects through the engine |
| `InboundSession` | receive window, durable QoS 2 and manual-ack records, replay cursor | PUBLISH, PUBREL, ack, mark delivered, replay | emits DELIVER and SEND effects |
| `ProtocolEngine` | connection state, negotiated settings, pending SUBSCRIBEs, AUTH exchange, effect list | begin_connect, handle_raw, begin_disconnect, notify_transport_closed | dispatches to both sessions |
| stores | outbound and inbound rows (memory, SQLite) | put, transition, complete, delete, pages, batch | called by both sessions |
| `EffectPump`, `DeliveryLane` | ordered effects not yet applied, by connection epoch | collect, drain, discard | engine to writer, receipts and application |
| `WritePump` | bounded queue of frames, parked writers, epoch | enqueue, flush, seal, stop | transport |
| `ApplicationDelivery` | bounded message stream | admit, consume, close | application |
| `AsyncClient` | receipts, tasks, connect/reconnect state, local-failure latch | connect, publish, subscribe, ack, disconnect, reader and reconnect loops | all of the above |
| codec, packets, matcher, transports | bytes, topic trie, sockets | encode, decode, match | |

What is hard in it: the four pieces of bookkeeping of a publication
(identifier, budget, send slot, receipt) must be taken and given back together
on more than a dozen paths; the queue holds snapshots of durable rows that can
change under it; sessions are resumed, lost and replaced with other limits;
the store can fail at every write; a receipt that failed must stay failed
although its row survives for another process; and the runtime suspends
between the steps of a teardown. `PROJECT.json` lists the hazards with the
line where each one bites and the properties that would catch it.

## Modules

| Module | Models |
|---|---|
| `PacketIds` | what the identifier pool promises: a set of identifiers in use |
| `PacketIdPool` | `protocol/packet_ids.py`, method by method, and its refinement of `PacketIds` |
| `PacketIdPoolProofs` | the TLAPS proofs about it |
| `OutboundSession` | `protocol/outbound.py`, `protocol/flow_control.py`, and the handlers of `engine.py` and `async_client.py` that drive them |
| `PublishDelivery` | `OutboundSession` composed with a broker (external) over lossy connections |
| `InboundSession` | `protocol/inbound.py`, the inbound rows of the store, the reader's lot in `async_client.py`, `api/_delivery_lane.py` |
| `InboundDelivery` | `InboundSession` composed with a conforming broker (external) and the application |
| `WritePump` | `api/_writer.py`, and the calls `async_client.py` makes on it over a connection's life |
| `EffectPump` | `api/_effects.py`, and the collect, drain, discard and close calls of `async_client.py` |
| `IteratorDelivery` | `api/_delivery.py` in iterator mode, fed by `api/_delivery_lane.py` |
| `PacketReceive` | `codec/buffer.py`, `codec/vbi.py`, `transport/_push.py`, the receiving side of the reader |
| `TopicRouter` | `dispatch/matcher.py`, the filter rules of `topics.py` |
| `Store` | `persistence/sqlite.py`, with `persistence/memory.py` as its reference, and the batch the reader opens around a lot |
| `Lifecycle` | `connect()`, `disconnect()`, the reader's retirement and the reconnect supervisor of `async_client.py`, `api/_lifecycle.py`, `protocol/reconnect.py` |
| `SeqFolds` | recursive functions over sequences that several modules use: what is kept of one, its total size |
| `SeqFoldsProofs` | induction over naturals and sequences, and what those functions return |
| `StoreProofs`, `EffectPumpProofs`, `IteratorDeliveryProofs`, `WritePumpProofs` | the TLAPS proofs about the four modules |
| `LifecycleProofs` | the TLAPS proofs about `Lifecycle`: who owns the connection; who has the pending work |
| `InboundSessionProofs` | the TLAPS proofs about `InboundSession` |
| `MC*` | constants for TLC |

`PublishDelivery` extends `OutboundSession` and `InboundDelivery` extends
`InboundSession`; the others stand alone and meet in the code where one's
abstraction names the other (the writer in `EffectPump` is `WritePump` seen
through its answers; the lot in `IteratorDelivery` is the one `InboundSession`
collects). An operator introduced as a variant of the definition below it ("As Fence,
forgetting the failure") is a plausible mistake, kept to show that a property
notices it; no specification uses one.

### PacketIdPool

The variables are the five fields of the class. `next` is the allocation
frontier: everything below it is in use except the holes in `freeOne` and
`freeMany`; everything at or above it is free except `reserved`. The loops that
move the frontier past reservations are `SkipReserved`; `set.pop()` is any
member. `answer` records what the call returned or raised, so that the
refinement speaks about results and not only about state. An absent Python set
and an empty one are the same value: the code never tells them apart other than
by that.

### OutboundSession

Every handler of the engine runs under the engine lock without suspending, and
its effects are collected before the lock is released, so a handler is one
step. The session object with its store is the record `ob`; the methods are
operators from one value of it to the next (`Drain`, `Replay`, `Purge`,
`Seal`, `Finish`, ...), and the actions are the handlers that call them. The
fields `sends` and `settled` are the effects of the last step.

A publication is a member of `Message` with a QoS and a logical size. Packet
contents matter only through the limits of a negotiation, so a negotiation
names the messages it refuses: as submitted (a Topic Alias may shorten the
topic), as stored (canonical topic and alias), and as retransmitted (no
alias). This is enough to tell apart the size checks of admission, `drain()`,
`check_session_replayable()` and `fail_queued_violating_negotiation()`.

DUP is not a function of the row: a stored message object carries a sticky
`dup` flag and, if its frame is segmented, the frame of its last send, and
`_launch()` sends what it finds there. `ob.kept` is that memory, and the steps
that write it are those of the code: `_retransmit()` sets the flag and marks
the kept frame, `drain()` clears both before a requeued publication is launched
(`FirstAttempt`), a launch keeps the new frame, the later states drop it. The
memory store hands out the objects it holds, so what they keep outlives the
connection and even the client; SQLite keeps neither field and hands out copies
(`Stores`, chosen in `Init`). `DupIffResent` says what comes out of it: a
PUBLISH has DUP exactly when the session was resumed and the row says it was
sent in it, so never after a CONNACK that found no session.

Connections: `pending` stands for `_connection_pending()`; `TransportClosed`
is a loss after which the client reconnects, `GiveUp` every path into
`_fail_pending` (intentional disconnect, no reconnect policy, `connect()`
abandoned). The gap between the two in `_retire_reader_connection` is covered
because both orders of steps are behaviours. `Restart` ends the process and
hydrates a new client from the rows; a crash between a store write and the
SEND effect is the same as a crash after it with the packet lost.

Failures of store writes: a put whose cleanup also fails (`QueuePublishFails`,
with the outcomes in `AdmissionFaults`), a `complete_out` under a terminal
answer (`AnswerStoreFails`) and a `transition_out` under a PUBREC
(`PubrecStoreFails`). The last two retire the client (`usable`).

### PublishDelivery

Adds two FIFO channels and a broker that answers what it receives, may refuse
a publication, may lose its session, and still reads what was written before a
loss. QoS 2 identifiers it has received and not released are in `held`.
`delivered` counts deliveries of each message, `outcome` what the application
was told. `faults` bounds the losses, give-ups, store failures and restarts.

### InboundSession

The session object and its store are the record `ib`, its methods operators
(`Acquire`, `CompleteQos2`, `DrainAcks`, `Marked`, `DrainReplay`, ...). Unlike
the outbound half, one packet is not one step of the runtime: the reader
decodes a *lot* of up to 256 packets under the engine lock, and slots and
identifiers of the acknowledgements it produces stay owned until the lot's
effects are collected. So each packet is an action that adds to the open lot
(`lot` counts), `Collect` ends it, and nothing else runs in between. The lot's
deliveries then pass one by one through `lane`; between two of them the
application may acknowledge, and the connection may be lost. A message is
handed over and marked in one step, because the code marks before any await.
Object identities (`object()` tokens) are numbers that no live reference
uses. The application keeps every handle that is still good and at most one
that is not, which is enough for a stale one to meet a reused identifier.
`manual` is chosen anew by each process, so a store written in one
acknowledgement mode is reopened in the other.

Left out: topic aliases and decoding, the byte bound of a replay page (its
message bound is kept), failing store calls, and the negotiated packet size
under a mandatory acknowledgement.

### InboundDelivery

The broker publishes `Outbox` in order within the announced Receive Maximum,
under any free identifier, resends unfinished exchanges on a resumed session,
may lose its session, and may still read what a lost connection carried.
History variables record what it finished (`completed`), whether a PUBACK
overtook another on this connection (`reordered`), and what the application
was given, owns and acknowledged. One assumption about the broker is explicit:
it does not keep a session whose CONNACK (Session Present 0) the client never
read. Without it the next CONNACK resumes a session the client never learned
was new and identifiers collide with the rows of the old one; that is inherent
to MQTT, not to this client.

### WritePump

The pump is the record `w`: the `asyncio.Queue`, the counters, the writer
task's batch and how many parts of it were written, the two eager permits, the
re-arm callbacks, the epoch. Three paths reach the transport: an eager write
inside `try_enqueue`, a latency flush of several queued frames, and the writer
task, which suspends between parts. A producer is a task that captured an
epoch with its frame, offers it, and may park in `space.wait()` (a FIFO line);
`notify` moves it to "woken", and it may be cancelled there. The client's
teardown is three separate steps because it awaits between them: the epoch is
retired (`ForceClose`, `Retire`), the pump is stopped (`Stop`), the queue is
discarded (`Discard`). `Retire` may leave up to `MaxLeftover` effects that the
ending reader collects and offers itself.

### EffectPump

Positions (`enqueued`, `applied`) count the ordered lane; a drain waits until
the position it read is applied. A flusher task applies the lane one effect at
a time and can be awaiting the writer or a transport close when the lane is
discarded, when it is cancelled, or when another connection starts. `fl` are
the flusher tasks, of which a cancelled one may still be unwinding while the
next one runs.

The writer is two variables. `writer` says that sends reach the open
connection; `output` is what `WritePump` would answer: its task runs, has
exited and left the epoch, it accepts an epoch that has no task
("parks"), or it is shut until the next connection (sealed, or an eager write
failed and was latched). `_retire_connection_epoch()` makes the pump accept the
next epoch, so what the ending reader still emits (`Leftovers`: sends released
by delivery marks, then the DISCONNECTED effect) is taken or parked like
anything else; parked behind a writer that has exited it is *stranded*, because
nobody makes room and the wake-up of the retirement has passed.
`EveryDrainEnds` is therefore false (`EffectPumpHang.cfg` below); `DrainEnds`
has every drain end unless a flusher stays stranded for ever.

Assumptions about the callers, from `async_client.py`: a new connection is
dialled only after the previous close has ended (everyone who closes waits for
the same event) and after the emptied queue has released a flusher of
leftovers, which takes one turn of the loop while opening a transport takes
several.

### IteratorDelivery

`Decode` is one ingress lot; the reader then admits it message by message and
waits when `max_iterator_messages` or `max_iterator_bytes` is reached. While it
waits the connection can be retired, its admissions invalidated, its deadline
pass. Iterators live through `reset_stream()`, close and reopen, and be
cancelled while waiting. `expired` marks in the history the message whose own
admission reached its deadline.

### PacketReceive

The decoder is the record `d` with the slab's actual bytes, stale ones behind
`end` included, because what the code reads there is the hazard. The event
loop's callback (`get_buffer`, `recv_into`, `buffer_updated`) is one step that
receives any number of bytes up to the window; `UnusedWindow` is the callback
that gets nothing. A pulled transport is `ReadAndFeed`. `Wires` says what a
peer sends on each connection. The base of a Variable Byte Integer is 2
instead of 128, so encodings of one to four bytes, overlong and not minimal
ones all occur within five bytes. Of a header only its type nibble matters,
and of that only whether it is 0, the one value `PacketType.from_byte` refuses.
`next_packet` looks at it when the frame is complete and raises without
consuming it; `peek_packet_bounds`, which exists to tell whether a frame is
ready, does not look. So the two paths agree on every content of the slab but
such a frame, and even there on whether the reader would wait (`PathsAgree`).

### TopicRouter

Routes are added and removed before the first connection. A node of the tree
is named by the levels that lead to it and holds the filters that end there
and whether it has a wildcard child; `Reached` is the walk of `iter_match`.
The reference definition compares each registered filter with a topic level by
level.

### Store

One member of `Conn` is one `SqliteInflightStore` object: an opening of the
file, with its batch depth, its `_transaction_started` and rollback-only flags
and its two sequence counters (`st`). `disk` holds the committed tables and
`work` the tables as the opening with the write lock sees them. What the module
needs of SQLite itself is external and small: one write lock, snapshots that
can no longer be written from after someone else's commit, and Python's
implicit transaction, which a failing statement outside a batch leaves open. A
conditional call is two steps, its SELECT (`ReadRow`) and its UPDATE or DELETE,
because another process may write in between. `mem` is what the memory store
holds after exactly the calls that succeeded; `told` is what the client sent or
reported because of them, and `gone` names records that were really removed.
A failing statement, commit or rollback, an exception out of a nested or the
outermost batch, `close()` and a crash may come between any two steps. A lot
that fails locally hands on its terminal publish outcomes only, as the reader
loop does (`async_client.py:1905`); those are marked `lost` in `told`.

### Lifecycle

Every task runs from one await to the next in one step, and `pc` names the
await it is suspended in: `connect()`, `disconnect()`, the supervisors
(`_reconnect_loop`), and one reader per transport with its locals (`reader`).
`lock` is `_lifecycle_lock` with its FIFO waiters, `hooks` is
`LifecycleHooks`, `client` are the attributes these tasks share. Cancelling a
task happens in the step of the canceller, and its effect depends on the await
it meets: a task that joins another passes the request on, an attempt first
closes what it opened, a reader that closes its transport loses the rest of its
retirement. `connect()` that finds a supervisor cancels it and awaits its end
("cancel") before it drops the reference and closes the connection: three steps
(`TakeOver`, `SupervisorCancelled`, `ConnectJoined`) between which readers run.
The second `_cancel_automatic_reconnect()`, after the old reader was joined, is
part of `ConnectBegins`: no reader is alive then, so nothing can start a
supervisor while it waits.

The code leaves six windows between awaits unprotected. `cut` remembers which
was hit, and a property excuses only the windows that break it:

| Window | What happens in it | Excused in |
|---|---|---|
| retire | a reader is cancelled while it closes its transport, or has decided to reconnect before an intentional close | `WorkIsOwned`, `NobodyStuck` |
| overtaken | a `connect()` still waiting for the lock, or for the old connection to close, resets the intent of a later `disconnect()` | `OneOwner`, `DisconnectIsFinal`, `HooksMatchState`, `WorkIsOwned` |
| orphaned | a reader that decided to reconnect starts a supervisor while `connect()` awaits the end of the one before it, and `connect()` then drops its reference | `OneOwner`, `DisconnectIsFinal`, `WorkIsOwned` |
| waiting | a `connect()` is cancelled while it waits for the lock | `WorkIsOwned` |
| backoff | a `connect()` is cancelled in its backoff | `WorkIsOwned` |
| doomed | a publication is admitted because a connection is pending that nobody will make | `WorkIsOwned` |

The observations below give the runs without the excuses.

Scheduling taken from asyncio: a woken task runs before a timer fires or a dial
ends; callers that close the same transport wait for one close future
(`transport/_stream.py:30`), so `disconnect()` has closed and dropped the old
transport before the dial that follows that close ends; a supervisor's first step runs before those who join the reader that
started it; the lock is handed over in order. A supervisor started under an intentional
disconnection ends at that first step. One whose gate was opened and closed
again before it ran would still go on (`asyncio.Event.wait()` remembers that it
was set); the model has it look again, one turn of the loop later. `NobodyStuck` needs no fairness:
it says that a client which can take no step of its own has none left to take.

## Runs

One run per question; where a module has liveness properties the same run
checks them on the same instance as the invariants. The invariants of a
module that speak of the same state are checked as one conjunction of named
parts: `PoolExact`, `SessionExact` (outbound), `SessionExact` and
`DeliveryExact` (inbound), `WireExact`, `LaneExact`, `StreamExact`,
`ReceiveExact`, `RouterExact`, `StoreExact`. Each part has its own statement in
the module.

| Run | Instance | Shows |
|---|---|---|
| `packet_id_pool` | 5 identifiers (plus 0 and 6 as invalid arguments) | representation, length, reset and refinement |
| `outbound_session` | 3 identifiers (symmetric), 3 messages (QoS 1, QoS 2, alias-only QoS 1), one of them segmented, 5 negotiations, windows 1 and 2, budget 3 messages / 4 bytes, memory and durable store | the bookkeeping invariants and two action properties |
| `publish_delivery` | 2 identifiers, 3 messages (two QoS 2, one QoS 1), windows 1 and 2, 2 faults | end-to-end safety and liveness |
| `inbound_session` | 2 identifiers (symmetric), one message per QoS, Receive Maximum 2, bytes for one QoS 1 and one QoS 2 row, replay pages of 1, lots of 2, both modes | the bookkeeping invariants under any peer |
| `inbound_delivery` | 2 identifiers, 4 messages (QoS 1, 2, 0, 2), Receive Maximum 2, lots of 2, 2 faults, both modes | end-to-end safety and liveness |
| `write_pump` | 2 producers, small and oversized frames, queue of 2 messages / 3 bytes, batches of 2, 4 frames per connection, 2 connections | order, accounting, fencing between generations; no producer parked for ever |
| `effect_pump` | 2 drains (one the reader's), 2 flusher tasks, 3 effects in batches of up to 2, 4 epochs | positions, order, failure reports, own transport; every drain ends |
| `iterator_delivery` | 3 iterators (symmetric), 3 messages of two sizes (one that never fits), queue of 2, deadline on, 2 streams and reconnects | the stream, its charges, wake-ups, nothing acknowledged is lost |
| `packet_receive` | every continuation of a header by 4 bytes (base 2), or 3 if it has no packet type, and five longer streams; pushed and pulled transports; 2 connections | framing against the reference, stream, watermarks; every frame is taken |
| `topic_router` | 9 filters that share nodes, 8 topics, 4 registrations | the tree against the reference definition |
| `store` | 2 openings (symmetric), 1 outbound and 2 inbound identifiers, 2 states, pages of 2 messages / 1 byte, five budgets of calls, faults, openings, paged reads and nesting | disk against the memory store, durability of what was exposed, pages, conditional calls |
| `lifecycle` | 2 supervisors (symmetric), 3 policies, 2 retries, 2 transports, 2 `connect()`, 1 `disconnect()`, 1 loss, 1 cancelled `connect()` | one owner, nothing dropped, nobody stuck, `disconnect()` final, hooks true to the state |

Bounds. Five identifiers give a scalar hole, two set holes, and a reservation
beyond a gap at the same time. Three rows are one more than the widest window,
so a queue exists behind a full window and a resumed session parks; shrinking
from window 2 to 1 parks a sent exchange; three identifiers let one publication
be sealed, one in flight and one queued, and let identifiers be reused. In
`publish_delivery` fewer identifiers than messages forces reuse; two faults are
a loss followed by another one during recovery. Broker answers in
`outbound_session` are unconstrained (any identifier, any kind, at any time).

On the inbound side two identifiers, a Receive Maximum of 2 and lots of
2 packets fill the window from one lot, with slots of all three owners; pages
of one message leave a replay unfinished while acknowledgements and resends of
the same rows happen; four messages over two identifiers force reuse; two
faults are a loss and a restart, or a loss during recovery.

In the runtime modules two connections are what a stale task needs to meet the
next one; two producers and a queue of two give a full queue with one parked
behind another; four frames per connection fill the queue, a batch and a wait.
`write_pump` also passes with a transport without `write_nowait`, with the
ACK permit restored by the pump, and with ordinary frames that all fit.
Four epochs let a closing flusher outlive its connection while the second next
one opens, which `ClosesOwnTransport` (a part of `LaneExact`) needs to notice a
missing join; two flushers are one that was cancelled or closes and its
successor; three effects put one behind another in a batch and one in the
next epoch. In `packet_receive` the capacities, windows, watermarks and retention are scaled down so that growing,
promoting, compacting, retiring and pausing all happen within 15 bytes, and
the limit on packets (6) is passed by an announced length.

`outbound_session` leaves the admission faults "queued" and "unknown" out,
because with them `IdsExact` (a part of `SessionExact`) fails for the reason
given under Observations.

In `store` the budgets are alternatives: faults and nested batches in a store of
one process, two processes without faults, two with one fault, and paged reads
in either setting. Their product is out of reach, and each property needs at
most two of these dimensions at once. Two inbound identifiers make an order and
a page boundary; four calls are insert, read, remove and insert again.
In `lifecycle` two supervisors let one that is being cancelled meet its
successor. The same properties also pass with one `connect()`, two
losses and three transports (`MaxConnects = 1`, `MaxLosses = 2`, `MaxGens = 3`;
3.0 million states).

Deadlock is checked in the pool run and in both session runs. The others
really stop: when everything is settled, faults, frames or connections are
used up and nothing is in transit; a client that is down stays down, and a
closed store stays closed.

Fairness. `publish_delivery`: the reader task handles what arrives, the broker
answers what it receives and accepts connections, the connect or reconnect loop
opens one while a connection is pending, and the application calls `connect()`
again after the client gave up. The first and third are the event loop running
ready tasks; the second and fourth are assumptions about the environment,
without which no client can promise progress. Faults need no fairness and are
bounded. `inbound_delivery` assumes in the same way that the reader decodes,
collects and delivers, that the reconnect loop and the broker go on, and that
the application takes what it is given and acknowledges each message it holds
a good handle for. `ExchangesEnd` leaves out a manual process that started on
a store with exchanges, for the reason of `InboundRecoveredLost.cfg` below.
`write_pump`:
ready tasks run, a transport call returns or raises, and a connection whose
writer exited is torn down. `effect_pump`: ready tasks run, a transport call
ends (its close is timed), a started retirement or close goes on, and a writer
call ends unless it is stranded: room is made, the writer exits or the epoch is
refused. `packet_receive`: the loop calls back for a readable socket and runs a
reader that can go on. All of it is weak fairness, written with the enabling
condition spelled out, which TLC evaluates much faster than ENABLED: `[]<>~C`
alone where every step of the action ends its condition `C`, otherwise `WF` or
`[]<>~C \/ []<><<A>>_vars`.

## Observations

Each of these is shown by a configuration of its own, in which TLC finds the
named property violated.

* `WritePumpHang.cfg` (`MCWritePump`, `LeftoversLeave`): a failed writer
  advances the pump's epoch; the reader that ends then retires its connection
  to that same epoch, collects what the engine still holds under it and drains
  it (`async_client.py:2049`) before it stops the pump. The pump takes those
  effects for current, and once the queue of the exited writer is full they
  park with nobody to wake them: the reader's `finally` never ends.
  `ProducersLeave` is the same promise for everyone else, and holds.
* `EffectPumpHang.cfg` (`MCEffectPump`, `EveryDrainEnds`): the same wait seen
  from the drain. The writer exits, the reader retires the epoch and drains
  what is left over; the flusher parks, and the drain at `async_client.py:2049`
  does not end until somebody closes the connection by force.
* `InboundRecoveredLost.cfg` (`MCInboundSession`, `UnackedQos2Reachable`):
  `_recovered_mids` is what makes a new process with manual acknowledgement
  redeliver a QoS 2 row its predecessor had delivered; `drain_replay()` clears
  it when the redelivery is *emitted*. If the connection is lost before the
  lane hands it over, no later resume in that process redelivers it, nobody can
  acknowledge it, and the exchange stays open.
* `OutboundSealLeak.cfg` (`MCOutboundSession`, `SealedIdsReserved`): a failed
  admission whose cleanup also fails seals the row as *sent*
  (`outbound.py:912`) even if it was never sent, or if nothing is known about
  it. At the next CONNACK without a session, purge sees only sealed rows that
  look sent and resets the pool, while the row is still stored and still
  sealed. The next publication gets the same identifier and overwrites it; as
  that identifier is in `_sealed`, its acknowledgement frees neither its
  budget nor its slot. The docstring promises that the identifier stays
  reserved.
* `OutboundSessionState.cfg` (`MCOutboundSession`, `SessionStateReported`):
  `has_client_session_state()` counts slots, and a resumed WAIT_PUBCOMP
  exchange owns none, so it can answer no while the broker holds an exchange
  to resume.
* `InboundPubackOrder.cfg` (`MCInboundDelivery`, `ManualPubackOrder`): the
  manual acknowledgement order is the order in which rows were stored. A
  PUBACK lost after its row was retired makes the broker resend that message,
  which is stored again *behind* rows that arrived after it: their PUBACKs
  leave first although their PUBLISHes arrive second
  (`docs/implementation-guide.md:205` says otherwise).
* `InboundAutoPubackOrder.cfg` (`MCInboundDelivery`, `AutoPubackOrder`):
  reopened without manual acknowledgement, a stored undelivered QoS 1 row waits
  for its delivery mark while a fresh QoS 1 PUBLISH behind it in the same lot
  is acknowledged at once (`docs/conformance.md:173`).
* `IteratorDeadlineLoss.cfg` (`MCIteratorDelivery`, `AckedSurvivesDeadline`):
  `DeliveryLane.drain()` puts the message it was delivering back only when it
  is cancelled. When `iterator_admission_timeout` passes, an acknowledged
  message has left the lot and is neither delivered nor redelivered
  (`tests/unit/test_acknowledged_delivery_survives.py:1`). `AckedNeverLost`
  excepts it, and one larger than `max_iterator_bytes`, which is refused the
  same way.
* `StoreLeftOpen.cfg` (`MCStore`, `NoTransactionLeftOpen`): a write outside a
  batch whose statement fails leaves Python's implicit transaction open, with
  the write lock or with a snapshot that ages. The next batch then cannot
  `BEGIN`; the next single write commits it, which `StoresAgree` shows to be
  harmless.
* `StoreStaleRead.cfg` (`MCStore`, `StaleReadSettlesNothing`): the conditional
  UPDATE and DELETE repeat the insertion sequence so that they cannot settle
  another record than the one that was read (comment at `sqlite.py:640`). The
  counters are per opening, so two openings can hand out the same number, and a
  row removed by one and inserted by the other in between is settled.
  `SettlesWhatItRead` holds for rows of the same opening.
* `LifecycleReceipts.cfg` (`MCLifecycle`, `ReceiptsSettled`): in the windows
  retire, waiting and doomed a receipt is never settled, and in the first
  `on_disconnect` is not called. `docs/architecture.md:205` has terminal
  teardown settle receipts; here none runs.
* `LifecycleOrphan.cfg` (`MCLifecycle`, `LiveConnectionKept`): `connect()`
  cancels the supervisor and awaits it (`async_client.py:2807`). The
  supervisor's `finally` has cleared `_reconnect_task`, so a reader that is
  closing its transport and has decided to reconnect starts another one
  (`async_client.py:2106`); line 2810 then sets the reference to `None`, and the
  second cancellation at line 2841, which is to "cancel that successor as part
  of the same takeover boundary" (comment at 2838), finds nothing. The orphan
  wakes up after `connect()` has succeeded, sees no intentional disconnection
  (`async_client.py:2363`) and force-closes the live connection.
* `LifecycleReversed.cfg` (`MCLifecycle`, `DisconnectNotReversed`): a
  `connect()` that waits for the lock, or for the old connection to close, when
  `disconnect()` is called resets `_intentional_disconnect`
  (`async_client.py:935`) and connects. The `disconnect()` behind it closes that
  connection, whose reader takes it for a loss and starts a supervisor that
  outlives `disconnect()`. `docs/architecture.md:209` promises only that an
  in-progress reconnect attempt cannot reverse it.
* `ReconnectingIsTrue` in place of `ReceiptsSettled` in `LifecycleReceipts.cfg`,
  with `MaxCancels = 1`: a `connect()`
  cancelled in its backoff leaves the state RECONNECTING with nobody to retry
  (`async_client.py:617`).

Three more follow from the lifecycle code by reading: a terminal
`_last_disconnect` of an earlier connection stops the retries of a later dial
that fails; an accepted CONNACK resets `_reconnect_pending` even if the reader
of that connection has already decided to reconnect; and the `on_disconnect` of
a failed attempt may run during a later teardown that has the same token.

A broker that answers a resumed PUBREL with 0x92 makes the receipt fail
although the message was delivered. The model allows this (`BrokerPubrel`);
`CompleteMeansDelivered` only speaks of completed receipts.

## Proofs

`PacketIdPoolProofs` proves for every `MaxId`, from `MaxId \in Nat \ {0}`
alone:

* `PoolIsExact`: the invariant `PoolExact` that the run checks, the conjunction
  of the three results that follow.
* `PoolShape`: the representation invariant `PoolInvariant` (frontier range,
  holes below it and disjoint, reservations at or above it, `freeCount` exact).
  It is inductive as it stands. `SkipReservedStops` shows, by the least-element
  principle, that the frontier loop stops within range.
* `LenIsExact`: `len` is the cardinality of the set in use, by counting the
  holes (`HolesCounted`) in every state of that shape.
* `IdleReset`: with nothing in use the pool is in its initial state. This needs
  a strengthening, "an empty pool below the frontier was reset", which the two
  reset tests of `release` preserve by the counting lemma.
* `PoolRefinesPacketIds`: each method maps to the abstract operation with the
  same answer; the effect lemmas (`AllocateEffect`, `ReserveEffect`,
  `ReleaseEffect`, `ClearEffect`) state what each does to the set in use.

`OutboundSession` uses the pool as that set, which is what the refinement
justifies.

The modules below are proved for every value of their constants, from the
named assumption of each module alone (`StoreAssumption`, `EffectAssumptions`,
`DeliveryAssumptions`, `WriterAssumptions`, `LifecycleAssumption`,
`InboundAssumptions`: kinds of the constants, positive limits and sizes). In each the safety properties of the run are consequences of
one inductive invariant; TLC checked that invariant on the run's instance
before it was proved.

`StoreProofs`: `StoreIsExact`, `ExposedStaysDurable`, `SettlesOnlyWhatItRead`
from `StoreInv`. Durability is not inductive as it stands: a completed exchange
must not only be gone from the tables, nothing may be able to bring its
identity back. `Spent` says so of every identity in a table, in an open batch
or exposed: its opening has been numbered and will not hand out its sequence
number again. With it go the shape of rows (the identity names table and
sequence, `RowInv`) and the agreement of lock, transaction and batch of each
opening (`LockInv`), of which "a transaction no batch started holds no change"
is the part that makes the implicit transaction of a failed statement harmless.
`SettlesOnlyWhatItRead` is an action property: from the two distinctness
parts, a row with the sequence that was read is the row that was read.

`EffectPumpProofs`: `LaneAlwaysExact`, `FailuresReported`, `SendsInOrder` from
`LaneInv` (and `OutputInv`, that the two variables of the writer agree, for the
types). The heart is who may apply an effect: a flusher that is ready or
applying is the one the pump names, one that closes a failed connection is
alone and nothing is pending meanwhile, and while the writer accepts, the effect
being applied is the first pending one (`TaskInv`). `ClosesOwnTransport` needs
in addition that after the reader's drain nothing is being applied any more and
what is left begins with the error raised to it (`ReaderInv`); `SendOrder` that
what the engine emitted for the open epoch is what the writer took followed by
what is pending.

`IteratorDeliveryProofs`: `StreamAlwaysExact`, `NoAckedLoss` from `StreamInv`.
`AckedNeverLost` speaks of what was committed; it becomes inductive with the
reader's place: its lot is the end of what arrived, so there is a settled
beginning, and of that exactly the owed messages that did not expire were
committed (`OwedInv`). The two exceptions of the property are two filters, and
the proof is about how filters commute with appending. Charges need sums over
sequences, wake-ups that one iterator at most waits on the current stream.

`WritePumpProofs`: `WireAlwaysExact`, `FailedStaysSilent` from `WriterInv`. The
order on the wire is inductive only together with what tells the three writers
apart (`Modes`): a bound pump is healthy and one that is not writing holds no
batch, so that an eager write or a latency flush past the writer task carries
exactly what the wire misses next, and `WriterFail` leaves a prefix. No frame
reaches another transport because whoever holds a frame of an earlier
connection has an epoch below the pump's (`HeldBy`); that survives an epoch that
runs ahead of the client's after a failure because no holder's epoch exceeds
the client's, and this is also why a failed generation is silent. The terminal
packet is last because a pump that admitted one is sealed, or latched by its
failed eager write (`Ended`).

`LifecycleProofs`: `OneOwnerHolds`, `DisconnectIsFinalHolds` from
`LifecycleInvariant`, for any number of supervisors, transports, retries and
calls. `Inv` has two parts. `BaseInv` holds always: the lock's queue holds
exactly the tasks whose await says so and a task in an attempt is its head
(`LockInv`), no `connect()` queues behind the last `disconnect()` (`OrderInv`),
the hooks are held once per task that closes (`HoldsInv`), tokens never run
ahead (`TokenInv`). `OwnerInv` holds unless a `connect()` overtook a
`disconnect()` or a supervisor was orphaned (`Protected`). That at most one reader is live is not inductive: a dial makes a
new one, so it must start with none. What makes it so is that a live reader is
always the one of the transport the client names (`ReaderInv`) and that a second
task in an attempt would have to hold the lock. A supervisor does not join the
reader before it dials unless it knows the connection is down, which is the
argument of `SupervisorInv`: beside an attempt of `connect()` a supervisor has
not begun, one that waits or dials found the engine not up, and while
`connect()` awaits a cancelled one, that one is the only one there is. It needs
`WaitingInv` for the one caller who can bring the connection up in between, a
`connect()` that waited for the lock. `DisconnectInv` follows `disconnect()`
from await to await, and `FinalInv` is what is left when it returns.

In the same module, `WorkIsOwnedHolds` from `HandOverInvariant`, relative to
`Inv`. The pending work is handed from task to task between awaits, so "somebody
has it" is not preserved unless one says who is next. `WorkInv` does, by the
phase of the current reader: undecided, it will settle or keep the work itself;
decided to retry, it starts a supervisor when it has closed its transport, and
a supervisor or `connect()` that is there already takes it over; decided not
to, it has failed the receipts, and what was admitted since belongs to a
`connect()` that has an attempt before it. The flags these tasks leave each
other must agree with that: an intentional end takes RECONNECTING back, a
latched failure meets a reader that will see it (`RetryInv`), whoever gives an
attempt up has ended its reader first, and a supervisor is only cancelled
by an intentional end (`ClosingInv`).

`InboundSessionProofs`: `InboundSessionExact` from `InboundInvariant`, for any
identifiers, messages, Receive Maximum, byte limit, lot and page size, and both
acknowledgement modes. The methods of the session are operators on its record,
so the invariant is first one about the record: `Good(s, m)` is what every
method may rely on and leaves behind, and there is one lemma per method. Three
parts of it are not in the property. A completion that waits for a delivery mark
waits for a row in the very state it will complete from (`WaitInv`), without
which the assertion in `_complete_stored_inbound` could fail when the mark
comes; and without manual acknowledgement every QoS 1 row that has a slot is one
that waits, or a repeated PUBLISH would complete a row whose slot nobody gives
back. In manual mode no acknowledgement is automatic (a part of `SlotInv`). And
nothing due stands at the head of the order (`HeadInv`), which the methods break
and `_drain_manual_qos1_acks` restores: its loop is a recursive function, and
the lemma `DrainGood` follows it by induction over the acknowledged prefix.
Around the record, `InboundInv` relates it to the runtime. `SlotsOwned` says that
a connection whose lane is empty holds no acknowledgement; since a mark can put
a PUBCOMP into the batch after the lot was collected, this rests on `LaneInv`:
the lane ends with the flush of its lot, so a delivery is never its last entry.

In the same module, `InboundDeliveryExact` from `DeliveryInvariant`, relative to
`InboundInv`. Nothing the property says survives a step by itself, because a
delivery moves: from a replay page into the effects of the open lot, from there
into the lane. `RoadInv` reads the two as one queue (`Onward`: the effects while
a lot is open, the lane otherwise; outside a connection both are empty). `Road`
then says of each row that it has a delivery in the queue or is due in a page to
come, and of a QoS 2 row that it has at most one of these, counting only
deliveries that carry the row's current token, since the marks of the rows an
identifier had before are in the same queue. Four facts make that inductive. The
next page is announced in the queue, its identifiers are distinct and no more
than `remaining` (`Replaying`), so no row is replayed twice and the last page
ends the replay. In the lot that starts a replay no new exchange can take an
identifier that is due (`Held`): each is still stored, or its acknowledgement
is still in the batch. A step that completes exchanges leaves the other rows with
the tokens and the delivery marks they had (`Lessens`). And a row in WAIT_PUBACK
is never a QoS 2 one (`Kinds`), so a repeated PUBLISH that is delivered a second
time in manual mode is one of QoS 1.
TLC checked `RoadInv` on the instance of `inbound_session` first.

For these proofs the filters of the lock's queue and of the inbound rows became
`Only` of `SeqFolds`, and the two loops of the inbound session recursive
functions; object identities are the least number not alive instead of a fixed
pool. The runs visit the same states as before.

Counting, sums, filters and parts are recursive functions over sequences. The
library's induction theorems take the property as an operator, which the
provers cannot instantiate; `SeqFoldsProofs` states induction over naturals and
sequences with the property as a *set* (`InductiveSet`, `InductiveSeqs`,
proved from well-foundedness), and everything about `Only`, `TotalSize` and
`AllParts` rests on that.

An attempt to prove `ClosesOwnTransport` failed for a good reason: the model
let the drain of a retiring reader be cancelled like any caller's, and then took
its connection for open again. TLC finds that with seven epochs, which the run's
four do not reach. In the code only `_force_close()` cancels a reader, which ends
it, and `EffectPump` now says so (`CancelDrain`, `ForceClose`).

Only model-checked:

* Liveness and fairness (`DrainEnds`, `ProducersLeave`, `ExchangesEnd`, ...) and
  `NobodyStuck`, which is about enabled steps: TLAPS proves neither.
* `StoresAgree` and `PagesExact`: folds over histories of calls and over pages
  in both stores; their set half is within reach, their order half needs
  another induction for every call.
* `HooksMatchState`: it needs, beside `Inv` and `HandInv`, for every note
  still to run that the state it announces has not passed.
* The outbound session, both compositions with a broker, `PacketReceive` and
  `TopicRouter`. The last two compare a loop with a reference definition; both
  are recursive over data with early exits.

## Not modelled

* Data: QoS 0 publications (no session state), packet contents other than the
  length field (abstracted to the refusals of a negotiation), the
  connection-scoped Topic Alias table, the statistics counters.
* Sessions and stores: failing store calls inside the inbound session (`Store`
  has them one level below), SQLite errors that roll a transaction back by
  themselves, power loss under `synchronous=NORMAL`, the checks for corrupt
  rows, the schema's text.
* Lifecycle: operations called from inside a hook, cancelling `disconnect()`,
  a loop shutdown that cancels the reader from outside, producers parked across
  a teardown (`WritePump` has them), the AUTH exchange, keep-alive timing, the
  length of a backoff.
* Delivery in callback mode; sockets, WebSocket framing and TLS.

The parts marked `not_modelled` in `PROJECT.json` give a reason each.

## Plan

Done: the identifier pool, both sessions with their broker compositions, the
write and effect pumps, iterator delivery, packet reception, topic routing, the
stores, the connection lifecycle; proofs of the pool, the store, both pumps,
iterator delivery, the inbound session and the lifecycle. Left, most important
first:

1. Proofs: a sets-only ledger of the outbound bookkeeping (budget,
   identifiers, slots) that `OutboundSession` implements; `HooksMatchState`;
   the set half of `StoresAgree`.
2. `EffectPump` composed with `WritePump`, which would show the parked reader
   of `WritePumpHang.cfg` end to end.
3. Callback-mode delivery, and the AUTH exchange inside `Lifecycle`.
