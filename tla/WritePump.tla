------------------------------ MODULE WritePump ------------------------------
(***************************************************************************)
(* The bounded ordered transport writer: class WritePump of                *)
(* api/_writer.py, with the calls AsyncClient makes on it over a           *)
(* connection's life (connect, loss, teardown, reconnect).                 *)
(*                                                                         *)
(* The pump is the record `w`.  Producers are the tasks that call          *)
(* enqueue(): each captures the client's epoch with its frame, offers it   *)
(* later, and parks when the queue is full.  Everything between two awaits *)
(* is one action.  `async with self.space` never suspends, because no task *)
(* holds that lock across an await, so a notification and the state change *)
(* it announces are one step; the notified task runs in a step of its own. *)
(*                                                                         *)
(* Abstractions.  A frame is an identifier, a kind and a size; a segmented *)
(* publish has two parts.  A re-arm callback of an older generation does   *)
(* nothing and is forgotten when its generation ends.  Statistics and the  *)
(* last-write timestamp are left out.                                      *)
(***************************************************************************)
EXTENDS Integers, Sequences, FiniteSets, FiniteSetsExt, SequencesExt, SeqFolds

CONSTANTS
    Producers,        \* how many tasks call enqueue()
    Shapes,           \* [kind, size] of the frames they send
    MaxMessages,      \* max_write_queue_messages
    MaxBytes,         \* max_write_queue_bytes
    BatchLimit,       \* frames the writer takes at once (256)
    LatencyMin, LatencyMax, LatencyTarget,   \* _LATENCY_BATCH_*
    Nowait,           \* whether the transport offers write_nowait
    AckOwned,         \* whether the reader restores the ACK permit itself
    MaxLeftover,      \* bound: effects left uncollected when a reader ends
    MaxFrames,        \* bound: frames per connection
    MaxConnections    \* bound: connections attempted

Proc == 1..Producers
TerminalShape == [kind |-> "terminal", size |-> 1]

ASSUME WriterAssumptions ==
    /\ Producers \in Nat /\ MaxMessages \in Nat \ {0} /\ MaxBytes \in Nat \ {0}
    /\ \A s \in Shapes : s.kind \in {"data", "ack", "seg"} /\ s.size \in Nat \ {0}
    /\ BatchLimit \in Nat \ {0} /\ LatencyMin \in Nat \ {0} /\ LatencyMax \in Nat
    /\ LatencyTarget \in Nat
    /\ {Nowait, AckOwned} \subseteq BOOLEAN
    /\ {MaxLeftover, MaxFrames, MaxConnections} \subseteq Nat

VARIABLES
    w,       \* the WritePump object, its asyncio.Queue and its task
    prod,    \* the producer tasks
    client,  \* AsyncClient: phase, _connection_epoch, connections attempted
    wire,    \* parts the current transport has accepted
    log      \* history: frames admitted on the current connection, in order

vars == <<w, prod, client, wire, log>>

-----------------------------------------------------------------------------
(* Frames *)

Frame(id, shape) ==
    [id |-> id, kind |-> shape.kind, size |-> shape.size, conn |-> client.opened]

Parts(f) ==
    IF f.kind = "seg" THEN <<[f |-> f, part |-> 1], [f |-> f, part |-> 2]>>
    ELSE <<[f |-> f, part |-> 1]>>
AllParts(s) ==
    LET upTo[n \in 0..Len(s)] == IF n = 0 THEN <<>> ELSE upTo[n - 1] \o Parts(s[n])
    IN  upTo[Len(s)]

-----------------------------------------------------------------------------
(* The pump *)

NewPump ==
    [queue |-> <<>>, bytes |-> 0, resident |-> 0, unfinished |-> 0,
     task |-> "none",                  \* "none", "waiting", "writing", "done"
     batch |-> <<>>, pos |-> 0,        \* the writer's batch, parts written of it
     bound |-> FALSE,                  \* _write_nowait is not None
     armed |-> FALSE, ackArmed |-> FALSE,
     rearm |-> FALSE,                  \* a live re-arm callback is scheduled
     deferred |-> FALSE,               \* _ack_rearm_deferred
     sealed |-> FALSE,
     latch |-> FALSE,                  \* _latency_failure is not None
     epoch |-> 0,
     line |-> <<>>]                    \* producers in space.wait(), FIFO

Idle == [at |-> "idle"]
Holding(at, f, e) == [at |-> at, frame |-> f, epoch |-> e]
Waiters == {p \in Proc : prod[p].at \in {"parked", "woken"}}

\* notify(n): the first n tasks still in wait().
Woken(x, n) == {x.line[i] : i \in 1..Min({n, Len(x.line)})}
Notify(x, n) == [x EXCEPT !.line = SubSeq(@, Min({n, Len(@)}) + 1, Len(@))]
WakeIn(ps, W) == [p \in Proc |-> IF p \in W THEN [ps[p] EXCEPT !.at = "woken"] ELSE ps[p]]
WakeAll(x) ==
    /\ w' = [x EXCEPT !.line = <<>>]
    /\ prod' = WakeIn(prod, Range(x.line))

DropEagerBinding(x) ==
    [x EXCEPT !.bound = FALSE, !.armed = FALSE, !.ackArmed = FALSE,
              !.rearm = FALSE, !.deferred = FALSE]

Put(x, f) ==
    [x EXCEPT !.queue = Append(@, f), !.bytes = @ + f.size,
              !.resident = @ + 1, !.unfinished = @ + 1]

CanEnqueueSize(size) ==
    /\ w.resident < MaxMessages
    /\ w.bytes + size <= MaxBytes \/ (w.resident = 0 /\ w.bytes = 0)

Stale(e) == w.sealed \/ w.latch \/ e # w.epoch

\* As Fence, forgetting the failure.
FenceWithoutLatch(x) == [DropEagerBinding(x) EXCEPT !.epoch = @ + 1]

\* _fence_eager_failure
Fence(x) == [DropEagerBinding(x) EXCEPT !.latch = TRUE, !.epoch = @ + 1]

\* The conditions of _try_write_data_eager and _try_write_ack_eager
MayWriteEager(f) ==
    /\ IF f.kind = "ack" THEN w.ackArmed ELSE w.armed
    /\ w.bound /\ w.task # "writing"
    /\ Waiters = {} /\ f.kind # "seg" /\ w.queue = <<>>

SpendPermit(x, f) ==
    IF f.kind # "ack" THEN [x EXCEPT !.armed = FALSE, !.rearm = TRUE]
    ELSE IF AckOwned THEN [x EXCEPT !.ackArmed = FALSE, !.deferred = TRUE]
    ELSE [x EXCEPT !.ackArmed = FALSE, !.rearm = TRUE]

\* try_enqueue() past its checks: the frame is written through, written through
\* with a failure that may already have exposed bytes, or queued (also when
\* write_nowait declined).
Outcome(pump, parts) == [pump |-> pump, parts |-> parts]
Admissions(f) ==
    {Outcome(Put(w, f), <<>>)} \cup
    (IF MayWriteEager(f)
     THEN {Outcome(SpendPermit(w, f), Parts(f))} \cup
          {Outcome(Put(Fence(w), f), SubSeq(Parts(f), 1, n)) : n \in 0..1}
     ELSE {})
Admit(f, a) == log' = Append(log, f) /\ wire' = wire \o a.parts

-----------------------------------------------------------------------------
(* Producers *)

\* A task has one frame at a time; 0 is the client itself.
NewId(p) == <<p, Cardinality({i \in DOMAIN log : log[i].id[1] = p}) + 1>>
Used == Len(log) + Cardinality({p \in Proc : prod[p].at # "idle"})

\* EffectPump.collect_from_engine() and the direct publish path: the frame is
\* tied to the epoch of its collection.  _force_close() leaves the engine
\* CONNECTED until the reader has ended.
Capture(p, shape) ==
    /\ client.phase \in {"up", "closing"}
    /\ prod[p] = Idle /\ Used < MaxFrames
    /\ prod' = [prod EXCEPT ![p] = Holding("ready", Frame(NewId(p), shape), client.epoch)]
    /\ UNCHANGED <<w, client, wire, log>>

\* enqueue() and enqueue_ack(), up to their first suspension
Enqueue(p) ==
    /\ prod[p].at = "ready"
    /\ LET f == prod[p].frame IN
       \/ /\ Stale(prod[p].epoch)                    \* StaleConnectionEffect
          /\ prod' = [prod EXCEPT ![p] = Idle]
          /\ UNCHANGED <<w, wire, log>>
       \/ /\ ~Stale(prod[p].epoch) /\ CanEnqueueSize(f.size)
          /\ \E a \in Admissions(f) : w' = a.pump /\ Admit(f, a)
          /\ prod' = [prod EXCEPT ![p] = Idle]
       \/ /\ ~Stale(prod[p].epoch) /\ ~CanEnqueueSize(f.size)
          /\ prod' = [prod EXCEPT ![p].at = "parked"]
          /\ w' = [w EXCEPT !.line = Append(@, p)]
          /\ UNCHANGED <<wire, log>>
    /\ UNCHANGED client

\* try_enqueue() returned False to a nowait caller: FlowControlError
Refuse(p) ==
    /\ prod[p].at = "ready"
    /\ ~Stale(prod[p].epoch) /\ ~CanEnqueueSize(prod[p].frame.size)
    /\ prod' = [prod EXCEPT ![p] = Idle]
    /\ UNCHANGED <<w, client, wire, log>>

\* _enqueue_after_wait, from one wake-up to the next wait or the return
ResumeWaiter(p) ==
    /\ prod[p].at = "woken"
    /\ LET f == prod[p].frame
           wedged == w.queue = <<>> /\ w.bytes = 0
           full == ~CanEnqueueSize(f.size) /\ ~wedged IN
       \/ /\ Stale(prod[p].epoch)
          /\ prod' = [prod EXCEPT ![p] = Idle]
          /\ UNCHANGED <<w, log>>
       \/ /\ ~Stale(prod[p].epoch) /\ full
          /\ prod' = [prod EXCEPT ![p].at = "parked"]
          /\ w' = [w EXCEPT !.line = Append(@, p)]
          /\ UNCHANGED log
       \/ /\ ~Stale(prod[p].epoch) /\ ~full
          /\ prod' = [prod EXCEPT ![p] = Idle]
          /\ w' = Put(w, f)
          /\ log' = Append(log, f)
    /\ UNCHANGED <<client, wire>>

\* As CancelWaiter, keeping the wake-up to itself.
CancelWaiterSilently(p) ==
    /\ p \in Waiters
    /\ w' = [w EXCEPT !.line = Only(@, Proc \ {p})]
    /\ prod' = [prod EXCEPT ![p] = Idle]
    /\ UNCHANGED <<client, wire, log>>

\* A waiting producer is cancelled: it hands its wake-up on.
CancelWaiter(p) ==
    /\ p \in Waiters
    /\ LET x == [w EXCEPT !.line = Only(@, Proc \ {p})]
           n == IF Cardinality(Waiters) > 1 THEN 1 ELSE 0 IN
       /\ w' = Notify(x, n)
       /\ prod' = [WakeIn(prod, Woken(x, n)) EXCEPT ![p] = Idle]
    /\ UNCHANGED <<client, wire, log>>

\* _flush_terminal_packet: the last packet, never parked; nothing follows it.
SendTerminal ==
    /\ client.phase = "up" /\ w.task # "done" /\ Used < MaxFrames
    /\ LET f == Frame(NewId(0), TerminalShape)
           Sealed(x) == IF client.epoch = x.epoch THEN [x EXCEPT !.sealed = TRUE] ELSE x IN
       IF Stale(client.epoch) \/ ~CanEnqueueSize(f.size)
       THEN w' = Sealed(w) /\ UNCHANGED <<wire, log>>
       ELSE \E a \in Admissions(f) : w' = Sealed(a.pump) /\ Admit(f, a)
    /\ UNCHANGED <<prod, client>>

\* _observe_broker_disconnect, with the reader's wake-up of parked output
ObserveBrokerDisconnect ==
    /\ client.phase = "up" /\ ~w.sealed
    /\ WakeAll([w EXCEPT !.sealed = TRUE])
    /\ UNCHANGED <<client, wire, log>>

\* _try_flush_latency_batch, after a QoS 1/2 publish
FlushLatencyBatch ==
    LET n == Len(w.queue) IN
    /\ client.phase \in {"up", "closing"}
    /\ n \in LatencyMin..LatencyMax
    /\ n = LatencyMax \/ w.bytes >= LatencyTarget
    /\ w.bound /\ w.task # "writing" /\ Waiters = {}
    /\ \A i \in 1..n : w.queue[i].kind # "seg"
    /\ \/ /\ w' = [w EXCEPT !.queue = <<>>, !.bytes = @ - TotalSize(w.queue),
                            !.resident = @ - n, !.unfinished = @ - n]
          /\ wire' = wire \o AllParts(w.queue)
       \/ /\ w' = Fence(w)
          /\ \E k \in 0..n : wire' = wire \o AllParts(SubSeq(w.queue, 1, k))
    /\ UNCHANGED <<prod, client, log>>

\* _rearm_eager_if_idle of the current generation, and rearm_deferred_ack
Rearm ==
    LET idle == w.bound /\ w.task # "writing" /\ w.queue = <<>> IN
    /\ w.rearm
    /\ w' = [w EXCEPT !.rearm = FALSE, !.armed = @ \/ idle, !.ackArmed = @ \/ idle]
    /\ UNCHANGED <<prod, client, wire, log>>

RearmDeferredAck ==
    LET idle == w.bound /\ w.task # "writing" /\ w.queue = <<>> IN
    /\ w.deferred
    /\ w' = [w EXCEPT !.deferred = FALSE, !.ackArmed = @ \/ idle]
    /\ UNCHANGED <<prod, client, wire, log>>

-----------------------------------------------------------------------------
(* The writer task *)

\* The finally block of a batch: accounting returns whatever the outcome.
ReleaseBatch(x) ==
    LET n == Len(x.batch) IN
    [x EXCEPT !.batch = <<>>, !.pos = 0, !.bytes = Max({0, @ - TotalSize(x.batch)}),
              !.resident = @ - n, !.unfinished = @ - n]

TakeBatch(x) ==
    LET n == Min({BatchLimit, Len(x.queue)}) IN
    [x EXCEPT !.batch = SubSeq(x.queue, 1, n), !.pos = 0,
              !.queue = SubSeq(@, n + 1, Len(@)), !.armed = FALSE, !.task = "writing"]

\* The writer gives up on its transport: every parked producer is woken into a
\* new generation.  A latched eager failure has advanced the epoch already.
GiveUp(x) ==
    WakeAll([DropEagerBinding(ReleaseBatch(x))
                EXCEPT !.task = "done", !.epoch = IF x.latch THEN @ ELSE @ + 1])

WriterTake ==
    /\ w.task = "waiting" /\ w.queue # <<>>
    /\ IF w.latch THEN GiveUp(TakeBatch(w)) ELSE w' = TakeBatch(w) /\ UNCHANGED prod
    /\ UNCHANGED <<client, wire, log>>

\* One call on the transport; it may suspend after the bytes are accepted.
WriterWrite ==
    /\ w.task = "writing" /\ w.pos < Len(AllParts(w.batch))
    /\ w' = [w EXCEPT !.pos = @ + 1]
    /\ wire' = Append(wire, AllParts(w.batch)[w.pos + 1])
    /\ UNCHANGED <<prod, client, log>>

WriterComplete ==
    /\ w.task = "writing" /\ w.pos = Len(AllParts(w.batch))
    /\ LET n == Len(w.batch)
           x == [ReleaseBatch(w) EXCEPT !.task = "waiting"]
           idle == x.queue = <<>> /\ x.bound IN
       /\ w' = [Notify(x, n) EXCEPT !.armed = @ \/ idle, !.ackArmed = @ \/ idle]
       /\ prod' = WakeIn(prod, Woken(x, n))
    /\ UNCHANGED <<client, wire, log>>

WriterFail ==
    /\ w.task = "writing"
    /\ GiveUp(w)
    /\ UNCHANGED <<client, wire, log>>

-----------------------------------------------------------------------------
(* The connection's life, as AsyncClient drives the pump *)

\* As NextEpoch, without telling the pump.
NextEpochUnset(x) == x

\* _retire_connection_epoch, then wake_waiters
NextEpoch(x) == [x EXCEPT !.epoch = client.epoch + 1]

\* _invalidate_connection_epoch at the head of _force_close
ForceClose ==
    /\ client.phase = "up"
    /\ client' = [client EXCEPT !.phase = "closing", !.epoch = @ + 1]
    /\ WakeAll(NextEpoch(w))
    /\ UNCHANGED <<wire, log>>

\* _retire_reader_connection up to its drain(): a new epoch, and the effects
\* the reader left uncollected (completions released by delivery marks of an
\* interrupted lot) collected under it.
Retire ==
    /\ client.phase \in {"up", "closing"}
    /\ \E L \in SUBSET {p \in Proc : prod[p] = Idle} :
         /\ Cardinality(L) <= Min({MaxLeftover, MaxFrames - Min({Used, MaxFrames})})
         /\ LET left(p) == Frame(NewId(p), [kind |-> "ack", size |-> 1])
                ps == WakeIn(prod, Range(w.line)) IN
            prod' = [p \in Proc |-> IF p \in L THEN Holding("ready", left(p), client.epoch + 1)
                                    ELSE ps[p]]
    /\ w' = [NextEpoch(w) EXCEPT !.line = <<>>]
    /\ client' = [client EXCEPT !.phase = "retired", !.epoch = @ + 1]
    /\ UNCHANGED <<wire, log>>

\* The rest of it, once drain() has applied that work: wake_waiters and stop.
CanStop ==
    /\ client.phase = "retired"
    /\ \A p \in Proc : prod[p].at # "idle" => prod[p].epoch # client.epoch
Stop ==
    /\ CanStop
    /\ WakeAll([DropEagerBinding(ReleaseBatch(w)) EXCEPT !.task = "none"])
    /\ client' = [client EXCEPT !.phase = "stopped"]
    /\ UNCHANGED <<wire, log>>

\* discard()
Emptied(x) ==
    [DropEagerBinding(x) EXCEPT !.queue = <<>>, !.bytes = 0,
        !.resident = @ - Len(x.queue), !.unfinished = @ - Len(x.queue)]

\* The end of _force_close_transport
Discard ==
    /\ client.phase = "stopped" /\ w.queue # <<>>
    /\ WakeAll(Emptied(w))
    /\ UNCHANGED <<client, wire, log>>

\* The head of _connect_transport, before the transport is opened
Dial ==
    /\ client.phase = "stopped" /\ client.opened < MaxConnections
    /\ client' = [phase |-> "dialing", epoch |-> client.epoch + 1, opened |-> client.opened + 1]
    /\ WakeAll(NextEpoch(w))
    /\ wire' = <<>> /\ log' = <<>>

\* The transport factory raises or times out: _force_close
DialFails ==
    /\ client.phase = "dialing"
    /\ client' = [client EXCEPT !.phase = "stopped", !.epoch = @ + 1]
    /\ WakeAll(Emptied(NextEpoch(w)))
    /\ UNCHANGED <<wire, log>>

\* reset() and start(transport)
Started(x) ==
    [NewPump EXCEPT !.epoch = x.epoch, !.line = x.line, !.task = "waiting",
                    !.bound = Nowait, !.armed = Nowait, !.ackArmed = Nowait]

\* The rest of it: the CONNECT packet goes out with the pump's own epoch.
Connect ==
    /\ client.phase = "dialing"
    /\ client' = [client EXCEPT !.phase = "up"]
    /\ LET f == Frame(NewId(0), [kind |-> "data", size |-> 1]) IN
       /\ log' = <<f>>
       /\ \/ Nowait /\ w' = SpendPermit(Started(w), f) /\ wire' = Parts(f)
          \/ w' = Put(Started(w), f) /\ wire' = <<>>
    /\ UNCHANGED prod

-----------------------------------------------------------------------------
Init ==
    /\ w = NewPump /\ prod = [p \in Proc |-> Idle]
    /\ client = [phase |-> "stopped", epoch |-> 0, opened |-> 0]
    /\ wire = <<>> /\ log = <<>>

Produce ==
    \E p \in Proc :
        \/ \E s \in Shapes : Capture(p, s)
        \/ Enqueue(p) \/ Refuse(p) \/ ResumeWaiter(p) \/ CancelWaiter(p)
Write == WriterTake \/ WriterWrite \/ WriterComplete \/ WriterFail

Next ==
    \/ Produce \/ Write
    \/ SendTerminal \/ ObserveBrokerDisconnect \/ FlushLatencyBatch
    \/ Rearm \/ RearmDeferredAck
    \/ ForceClose \/ Retire \/ Stop \/ Discard \/ Dial \/ DialFails \/ Connect

Spec == Init /\ [][Next]_vars

\* Tasks the event loop has made ready run; a transport call returns or raises;
\* a connection whose writer exited or whose close began is torn down.  This is
\* weak fairness of Write, Stop, Retire, Enqueue and ResumeWaiter; each but the
\* first ends the condition that enables it, so the condition's end says it all.
MustRetire == client.phase = "closing" \/ (client.phase = "up" /\ w.task = "done")
Fairness ==
    /\ WF_vars(Write)
    /\ []<>(~CanStop) /\ []<>(~MustRetire)
    /\ \A p \in Proc : []<>(prod[p].at # "ready") /\ []<>(prod[p].at # "woken")
LiveSpec == Spec /\ Fairness

-----------------------------------------------------------------------------
(* Properties *)

TypeOK ==
    /\ w.task \in {"none", "waiting", "writing", "done"}
    /\ {w.bytes, w.resident, w.unfinished, w.epoch, w.pos} \subseteq Nat
    /\ {w.bound, w.armed, w.ackArmed, w.rearm, w.deferred, w.sealed, w.latch}
           \subseteq BOOLEAN
    /\ \A p \in Proc : prod[p].at \in {"idle", "ready", "parked", "woken"}
    /\ Range(w.line) = {p \in Proc : prod[p].at = "parked"}
    /\ client.phase \in {"up", "closing", "retired", "stopped", "dialing"}

\* The transport sees the frames in the order they were admitted, each at most
\* once and a segmented one in one piece, whichever of the eager write, the
\* latency flush and the writer task carried them; while the connection is
\* healthy every admitted frame is on the wire, in the batch or in the queue.
WireOrder ==
    /\ IsPrefix(wire, AllParts(log))
    /\ (w.task \in {"waiting", "writing"} /\ ~w.latch) =>
         LET todo == AllParts(w.batch) IN
         AllParts(log) = wire \o SubSeq(todo, w.pos + 1, Len(todo)) \o AllParts(w.queue)

\* The byte, message and join() counters equal what the pump owns through
\* failures, cancellation and restoration, and stay within their bounds: only
\* a frame alone in the pump may exceed the byte limit.
Accounting ==
    LET owned == w.batch \o w.queue IN
    /\ w.bytes = TotalSize(owned)
    /\ w.resident = Len(owned) /\ w.unfinished = Len(owned)
    /\ w.resident <= MaxMessages
    /\ w.bytes <= MaxBytes \/ w.resident = 1

\* Nothing is written after the DISCONNECT that try_enqueue_terminal admitted.
TerminalLast ==
    \A i \in DOMAIN wire : wire[i].f.kind = "terminal" => i = Len(wire)

\* A frame captured for one transport never reaches another, however long its
\* producer was parked or the reconnect took.
OwnTransport == \A i \in DOMAIN wire : wire[i].f.conn = client.opened

\* What the pump owns and what one transport carries, in whichever of three ways
\* it was written.
WireExact == TypeOK /\ Accounting /\ WireOrder /\ TerminalLast /\ OwnTransport

\* Once an eager or latency write has failed the pump has left the client's
\* epoch, and nothing more reaches that transport: it may own any prefix of the
\* retained bytes already.
FailedGenerationSilent ==
    [][(client.phase = "up" /\ w.epoch # client.epoch) => wire' = wire]_vars

\* The effects a retiring reader collected under the epoch it retired to
Leftover(p) == client.phase = "retired" /\ prod[p].epoch = client.epoch

\* No producer that took its frame while the connection was open waits for ever:
\* capacity, a new epoch or a seal releases it.
ProducersLeave ==
    \A p \in Proc :
        (p \in Waiters /\ ~Leftover(p)) ~> prod[p].at = "idle"

\* Nor does one that sends what the ending reader left over: the writer that
\* gave up has left the generation they wait in, and stop() comes after them.
LeftoversLeave ==
    \A p \in Proc : (p \in Waiters /\ Leftover(p)) ~> prod[p].at = "idle"
=============================================================================
