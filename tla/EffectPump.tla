----------------------------- MODULE EffectPump -----------------------------
(***************************************************************************)
(* The ordered application of engine effects: class EffectPump of          *)
(* api/_effects.py, with the client calls that collect, drain and discard  *)
(* them.                                                                   *)
(*                                                                         *)
(* Effects that need no waiting are applied where they are collected; the  *)
(* others queue in `pending` for a scheduled flusher task, which may wait  *)
(* for writer capacity or for the transport to close.  Meanwhile other     *)
(* tasks collect more and wait in drain(), the flusher is cancelled and    *)
(* joined, and the connection is replaced under it.  A step runs from one  *)
(* await to the next.                                                      *)
(*                                                                         *)
(* Abstractions.  An effect is a number, its epoch and a kind: "send"      *)
(* (SEND, SEND_ACK), "close" (the ordered part of DISCONNECTED), "error"   *)
(* (that of PROTOCOL_ERROR).  Results settle when they are collected and   *)
(* deliveries go to the lane: OutboundSession and InboundSession have      *)
(* them.  The writer is WritePump: it takes a send, has no room for it,    *)
(* raises because an eager write failed, or refuses the epoch.  Retiring   *)
(* an epoch makes it accept the next one, also when its task has exited:   *)
(* what it takes then goes to no open connection and is not recorded.      *)
(***************************************************************************)
EXTENDS Integers, Sequences, FiniteSets, FiniteSetsExt, SequencesExt, SeqFolds

CONSTANTS
    Drainer,        \* tasks that call drain()
    Reader,         \* the one that is the reader, in its finally block
    Flusher,        \* bound: flusher tasks at once; one is reused once ended
    MaxEffects,     \* bound: effects collected
    MaxBatch,       \* bound: effects taken from the engine at once
    MaxEpoch        \* bound: connection epochs

Kind == {"send", "close", "error"}
EffectOf(kinds, epochs) == [id : 1..MaxEffects, kind : kinds, epoch : epochs]
Effect == EffectOf(Kind, 1..MaxEpoch)
None == 0

ASSUME EffectAssumptions ==
    /\ Reader \in Drainer
    /\ Flusher \subseteq Nat \ {None} /\ IsFiniteSet(Flusher)
    /\ {MaxEffects, MaxBatch} \subseteq Nat /\ MaxEpoch \in Nat \ {0}

VARIABLES
    p,          \* the EffectPump object
    fl,         \* its flusher tasks
    drain,      \* the tasks in drain()
    epoch,      \* AsyncClient._connection_epoch
    writer,     \* whether sends reach the open connection: the WritePump accepts
                \* its epoch, and nobody has failed, closed or retired it
    output,     \* the WritePump: "runs", "exited" (its task gave up and left the
                \* epoch), "parks" (an epoch it accepts and no task that makes
                \* room), or "shut" (sealed, or an eager write failed)
    transport,  \* the epoch AsyncClient._transport was opened for, or None
    reader,     \* whether a reader task is alive
    closer,     \* _force_close_transport: how far it is, and the flusher it joins
    emitted,    \* history: effects collected, in order
    sent,       \* history: sends the writer took, in order
    failed,     \* history: positions in the lane whose application failed
    closedBy    \* history: <<epoch of a close effect, transport it closed>>

link == <<writer, output>>
hist == <<emitted, sent, failed, closedBy>>
client == <<epoch, transport, reader, closer>>
vars == <<p, fl, drain, epoch, writer, output, transport, reader, closer, emitted, sent, failed, closedBy>>

-----------------------------------------------------------------------------
(* The pump object *)

Sends(s) == Only(s, EffectOf({"send"}, 1..MaxEpoch))
Others(s) == Only(s, EffectOf(Kind \ {"send"}, 1..MaxEpoch))
OfEpoch(s, ep) == Only(s, EffectOf(Kind, {ep}))

NewPump ==
    [pending |-> <<>>, pendingEpoch |-> 0, enqueued |-> 0, applied |-> 0,
     task |-> None, flush |-> FALSE,         \* flush_requested
     failing |-> FALSE]                      \* _failing_close
Free == [at |-> "free", cur |-> None, cancel |-> FALSE]
Closer(at, f) == [at |-> at, task |-> f]
NotDraining == [at |-> "idle", from |-> 0, target |-> 0, error |-> FALSE]

Waiting(d) == d.at \in {"waiting", "woken"}

\* progress.set(): wakes every drain() in progress.wait()
Progress(ds) ==
    [i \in Drainer |-> IF ds[i].at = "waiting" THEN [ds[i] EXCEPT !.at = "woken"] ELSE ds[i]]

\* discard_connection_effects: what is pending is transport work only.
Discarded(x) == [x EXCEPT !.pending = <<>>, !.applied = @ + Len(x.pending)]

\* pending.popleft() and _complete(), n times
Completed(x, n) == [x EXCEPT !.pending = SubSeq(@, n + 1, Len(@)), !.applied = @ + n]

\* _partition_effects: sends first, in wire order, then the ordered rest.
Lane(batch) == Sends(batch) \o Others(batch)

\* schedule(): a live task goes on, one that ended is replaced even before its
\* done callback ran.
Live(x) == x.task # None /\ fl[x.task].at \notin {"free", "done"}
Unused == {f \in Flusher : fl[f].at = "free"}
NextTask(x) == IF Live(x) THEN x.task ELSE Min(Unused)
Scheduled(x) == [x EXCEPT !.flush = TRUE, !.task = NextTask(x)]
Started(x) == IF Live(x) THEN fl ELSE [fl EXCEPT ![NextTask(x)] = [Free EXCEPT !.at = "ready"]]
Schedule(x) ==
    /\ Live(x) \/ Unused # {}
    /\ p' = Scheduled(x) /\ fl' = Started(x)

Locked == \E f \in Flusher : fl[f].at \in {"applying", "closing"}

-----------------------------------------------------------------------------
(* What one pass over pending can do without waiting *)

Leading(s) == Min({i - 1 : i \in {j \in DOMAIN s : s[j].kind # "send"}} \cup {Len(s)})

\* The WritePump accepts the epoch.
Accepts == output \in {"runs", "parks"}

\* Sends go through while there is room; a refused epoch counts as applied.
InlineCounts(s) == IF Accepts THEN 0..Leading(s) ELSE {Leading(s)}
Taken(s, n) == IF writer THEN SubSeq(s, 1, n) ELSE <<>>

\* Where a pass stops: a protocol error raises, a send may (an eager write
\* failed) instead of having no room, a close needs the flusher.
RaiseChoices(s) ==
    IF s = <<>> THEN {FALSE}
    ELSE CASE Head(s).kind = "error" -> {TRUE}
           [] Head(s).kind = "close" -> {FALSE}
           [] Head(s).kind = "send"  -> BOOLEAN

\* drain_inline(): the pump, the sends taken, and whether it raised.
Unmoved(x) == [x |-> x, took |-> <<>>, raised |-> FALSE]
Moved(x, n) ==
    {[x |-> Completed(x, n), took |-> Taken(x.pending, n), raised |-> r] :
        r \in RaiseChoices(Completed(x, n).pending)}
InlineOutcomes(x) ==
    IF Locked \/ x.pending = <<>> THEN {Unmoved(x)}
    ELSE IF x.pendingEpoch # epoch THEN {Unmoved(Discarded(x))}
    ELSE UNION {Moved(x, n) : n \in InlineCounts(x.pending)}

\* The writer after a send raised: the failure is latched until the next
\* connection.  A protocol error leaves it alone.
Latches(o) == o.raised /\ Head(o.x.pending).kind = "send"
WriterAfter(o) ==
    /\ writer' = (writer /\ ~Latches(o))
    /\ output' = IF Latches(o) THEN "shut" ELSE output
Shut == writer' = FALSE /\ output' = "shut"

-----------------------------------------------------------------------------
(* Collection *)

Batch(ks, ep) ==
    [i \in DOMAIN ks |-> [id |-> Len(emitted) + i, kind |-> ks[i], epoch |-> ep]]
Batches(ep) ==
    {Batch(ks, ep) : ks \in {s \in BoundedSeq(Kind, MaxBatch) :
                                 Len(s) \in 1..(MaxEffects - Len(emitted))}}

\* Effects left from another epoch are dropped before anything is added.
Purged(x, ep) == IF x.pending # <<>> /\ x.pendingEpoch # ep THEN Discarded(x) ELSE x

Queued(x, s, ep) ==
    [x EXCEPT !.pending = @ \o s, !.enqueued = @ + Len(s),
              !.pendingEpoch = IF x.pending = <<>> THEN ep ELSE @]

\* collect_from_engine() once it has the batch, without the inline attempt at a
\* lone effect; while a failed connection is closing, all of it is dropped.
Collected(x, batch, ep) ==
    IF x.failing THEN Discarded(Queued(Purged(x, ep), batch, ep))
    ELSE Queued(Purged(x, ep), Lane(batch), ep)

\* The engine emits no ordered effect once its connection is retired.
Online == reader /\ drain[Reader].at = "idle"

\* As Woken, without progress.set().
WokenNobody(x) == drain
Woken(x) == IF x.applied # p.applied THEN Progress(drain) ELSE drain

\* As Alone, whatever is pending in front of it.
AloneAlways(x, batch) == Len(batch) = 1 /\ ~x.failing

\* A lone effect with nothing in front of it is tried inline.
Alone(x, batch) == Len(batch) = 1 /\ x.pending = <<>> /\ ~x.failing

\* An operation's collect_from_engine().  A broker's DISCONNECT seals the writer
\* as soon as it is observed.
Collect ==
    /\ Online
    /\ \E batch \in Batches(epoch) :
         LET x == Purged(p, epoch)
             alone == Alone(x, batch)
             kind == batch[1].kind IN
         /\ emitted' = emitted \o batch
         /\ \/ /\ alone /\ kind = "send"                    \* _collect_single
               /\ p' = x /\ drain' = Woken(x)
               /\ \/ sent' = sent \o Taken(batch, 1) /\ UNCHANGED link
                  \/ Accepts /\ Shut /\ UNCHANGED sent
            \/ /\ alone /\ kind = "error"                   \* raised to the caller
               /\ p' = x /\ drain' = Woken(x) /\ UNCHANGED <<sent, link>>
            \/ /\ ~(alone /\ (kind = "error" \/ (kind = "send" /\ ~Accepts)))
               /\ p' = Collected(p, batch, epoch) /\ drain' = Woken(p')
               /\ \/ UNCHANGED link
                  \/ ~p.failing /\ (\E i \in DOMAIN batch : batch[i].kind = "close") /\ Shut
               /\ UNCHANGED sent
    /\ UNCHANGED <<fl, client, failed, closedBy>>

\* drain_inline() after a loop command
DrainInline ==
    /\ p.pending # <<>>
    /\ \E o \in InlineOutcomes(p) :
         /\ sent' = sent \o o.took /\ WriterAfter(o) /\ drain' = Woken(o.x)
         /\ IF o.x.pending # <<>> /\ ~o.raised /\ ~Locked
            THEN Schedule(o.x) ELSE p' = o.x /\ UNCHANGED fl
    /\ UNCHANGED <<client, emitted, failed, closedBy>>

-----------------------------------------------------------------------------
(* drain() *)

\* drain() of a pump x: its inline attempt, then the wait for all enqueued.
Drain(i, x, ds) ==
    \E o \in InlineOutcomes(x) :
      LET awoken == IF o.x.applied # p.applied THEN Progress(ds) ELSE ds
          at == IF o.raised THEN "raised" ELSE IF o.x.applied >= o.x.enqueued THEN "ok" ELSE "waiting" IN
      /\ sent' = sent \o o.took /\ WriterAfter(o)
      /\ drain' = [awoken EXCEPT ![i] = [at |-> at, from |-> o.x.applied,
                                         target |-> o.x.enqueued, error |-> FALSE]]
      /\ IF at = "waiting" THEN Schedule(o.x) ELSE p' = o.x /\ UNCHANGED fl

BeginDrain(i) ==
    /\ i # Reader /\ ~Waiting(drain[i]) /\ p.pending # <<>>
    /\ Drain(i, p, drain)
    /\ UNCHANGED <<client, emitted, failed, closedBy>>

\* The loop of drain(), from one wake-up on: an error it owns comes first.
Answer(d) ==
    IF d.error THEN "raised" ELSE IF p.applied >= d.target THEN "ok" ELSE "waiting"
ResumeDrain(i) ==
    /\ drain[i].at = "woken"
    /\ drain' = [drain EXCEPT ![i].at = Answer(drain[i])]
    /\ IF Answer(drain[i]) = "waiting" THEN Schedule(p) ELSE UNCHANGED <<p, fl>>
    /\ UNCHANGED <<client, link, hist>>

\* Its caller is cancelled; only ForceClose cancels the reader.
CancelDrain(i) ==
    /\ i # Reader /\ Waiting(drain[i])
    /\ drain' = [drain EXCEPT ![i] = NotDraining]
    /\ UNCHANGED <<p, fl, client, link, hist>>

-----------------------------------------------------------------------------
(* The flusher *)

At(f, at, e) == fl' = [fl EXCEPT ![f].at = at, ![f].cur = e]

\* As Owners, with an off-by-one on the position that failed.
OwnersBeyond(ds, n) == {i \in Drainer : Waiting(ds[i]) /\ ds[i].target > n}

\* The drains a failure at lane position n belongs to
Owners(ds, n) == {i \in Drainer : Waiting(ds[i]) /\ ds[i].target >= n}

\* _fail_connection up to its await: the drains that cover the effect get its
\* error, what is pending is dropped, and the transport's close is called.  A
\* send failed in an eager write, which is latched.
Fail(f, x, ds, kind) ==
    /\ p' = [Discarded(x) EXCEPT !.failing = TRUE]
    /\ drain' = Progress([i \in Drainer |->
                    [ds[i] EXCEPT !.error = @ \/ i \in Owners(ds, x.applied)]])
    /\ failed' = failed \cup {x.applied}
    /\ writer' = FALSE /\ output' = IF kind = "send" THEN "shut" ELSE output
    /\ At(f, "closing", None)

\* _run_scheduled from a point where f holds the lock to its next await, or to
\* its end: on an effect that waits, or one that raises at once.
Hold(f, x, ds, s) ==
    LET y == [x EXCEPT !.flush = FALSE]
        stale == y.pending # <<>> /\ y.pendingEpoch # epoch IN
    IF y.pending = <<>> \/ stale
    THEN /\ p' = Discarded(y) /\ drain' = IF stale THEN Progress(ds) ELSE ds
         /\ sent' = s /\ At(f, "done", None) /\ UNCHANGED <<link, failed>>
    ELSE \E n \in InlineCounts(y.pending) :
         LET z == Completed(y, n)
             awoken == IF n > 0 THEN Progress(ds) ELSE ds IN
         /\ sent' = s \o Taken(y.pending, n)
         /\ \/ /\ z.pending = <<>>
               /\ p' = z /\ drain' = awoken /\ At(f, "done", None) /\ UNCHANGED <<link, failed>>
            \/ /\ z.pending # <<>> /\ Head(z.pending).kind # "error"
               /\ p' = z /\ drain' = awoken /\ At(f, "applying", Head(z.pending))
               /\ UNCHANGED <<link, failed>>
            \/ /\ z.pending # <<>> /\ TRUE \in RaiseChoices(z.pending)
               /\ Fail(f, Completed(z, 1), Progress(awoken), Head(z.pending).kind)

FlusherStarts(f) ==
    /\ fl[f].at = "ready" /\ ~fl[f].cancel /\ ~Locked
    /\ Hold(f, p, drain, sent)
    /\ UNCHANGED <<client, emitted, closedBy>>

\* The effect is popped if nobody dropped it while it was awaited.
Popped(x, e) == IF x.pending # <<>> /\ Head(x.pending) = e THEN Completed(x, 1) ELSE x

\* A send got its room, or its epoch is refused: once it has waited it is queued
\* and never written eagerly.
SendApplied(f) ==
    LET e == fl[f].cur IN
    /\ fl[f].at = "applying" /\ e.kind = "send" /\ ~fl[f].cancel
    /\ Hold(f, Popped(p, e), Woken(Popped(p, e)),
            IF writer /\ e.epoch = epoch THEN Append(sent, e) ELSE sent)
    /\ UNCHANGED <<client, emitted, closedBy>>

\* DISCONNECTED: output was flushed, or the timeout passed; the client's current
\* transport is closed
CloseTransport(f) ==
    /\ fl[f].at = "applying" /\ fl[f].cur.kind = "close" /\ ~fl[f].cancel
    /\ closedBy' = closedBy \cup {<<fl[f].cur.epoch, transport>>}
    /\ writer' = IF transport = None THEN writer ELSE FALSE
    /\ fl' = [fl EXCEPT ![f].cur.kind = "closed"]
    /\ UNCHANGED <<p, drain, client, output, emitted, sent, failed>>
CloseApplied(f) ==
    LET e == [fl[f].cur EXCEPT !.kind = "close"] IN
    /\ fl[f].at = "applying" /\ fl[f].cur.kind = "closed" /\ ~fl[f].cancel
    /\ Hold(f, Popped(p, e), Woken(Popped(p, e)), sent)
    /\ UNCHANGED <<client, emitted, closedBy>>

\* The end of _fail_connection, also when the flusher is cancelled there
EndFailing(x) == [Discarded(x) EXCEPT !.failing = FALSE]
FlusherClosed(f) ==
    /\ fl[f].at = "closing"
    /\ p' = EndFailing(p) /\ drain' = Woken(p') /\ At(f, "done", None)
    /\ UNCHANGED <<client, link, hist>>

FlusherCancelled(f) ==
    /\ fl[f].at \in {"ready", "applying"} /\ fl[f].cancel
    /\ At(f, "done", None)
    /\ UNCHANGED <<p, drain, client, link, hist>>

Reschedules(f) == p.task = f /\ p.flush /\ p.pending # <<>>

\* The task's done callback, and then the wake-up of who joins it
Done(f) ==
    /\ fl[f].at = "done"
    /\ LET owned == p.task = f
           x == IF owned THEN [p EXCEPT !.task = None] ELSE p
           g == Min(Unused) IN
       IF Reschedules(f)
       THEN /\ Unused # {}
            /\ p' = [x EXCEPT !.task = g]
            /\ fl' = [fl EXCEPT ![f] = Free, ![g] = [Free EXCEPT !.at = "ready"]]
       ELSE p' = x /\ fl' = [fl EXCEPT ![f] = Free]
    /\ closer' = IF closer.at = "joining" /\ closer.task = f THEN Closer("joined", None) ELSE closer
    /\ UNCHANGED <<drain, epoch, transport, reader, link, hist>>

-----------------------------------------------------------------------------
(* The connection *)

\* The writer task gives up on its transport: a new generation, of which the
\* client knows nothing yet.
WriterExits ==
    /\ output = "runs"
    /\ output' = "exited" /\ writer' = FALSE
    /\ UNCHANGED <<p, fl, drain, client, hist>>

\* _retire_connection_epoch: the pump accepts the next epoch, unless it is shut.
NextEpoch ==
    /\ epoch' = epoch + 1 /\ writer' = FALSE
    /\ output' = IF output = "exited" THEN "parks" ELSE output

\* stop(): the task is gone, and what the pump accepts stays as it was.
Stopped == IF output = "runs" THEN "parks" ELSE output

\* What the ended connection still emitted: sends that delivery marks released,
\* and the close notify_transport_closed() ends a connection with
Leftovers(ep) ==
    {b \in Batches(ep) : \A i \in DOMAIN b : b[i].kind = IF i = Len(b) THEN "close" ELSE "send"}

\* _retire_reader_connection, from the ending reader's finally block to its
\* drain() of that
Retire ==
    /\ Online /\ epoch < MaxEpoch
    /\ NextEpoch
    /\ \E batch \in {<<>>} \cup Leftovers(epoch + 1) :
         LET x == IF batch = <<>> THEN p ELSE Collected(p, batch, epoch + 1) IN
         /\ emitted' = emitted \o batch
         /\ p' = x
         /\ drain' = [Woken(x) EXCEPT ![Reader].at = "retiring"]
    /\ UNCHANGED <<fl, transport, reader, closer, sent, failed, closedBy>>

RetireDrains ==
    /\ drain[Reader].at = "retiring"
    /\ Drain(Reader, p, drain)
    /\ UNCHANGED <<client, emitted, failed, closedBy>>

\* After the drain: resources are released and the reader ends.
ReaderEnds ==
    /\ reader /\ drain[Reader].at \in {"ok", "raised"}
    /\ reader' = FALSE /\ transport' = None
    /\ writer' = FALSE /\ output' = Stopped
    /\ drain' = [drain EXCEPT ![Reader] = NotDraining]
    /\ UNCHANGED <<p, fl, epoch, closer, hist>>

\* Cancelling the reader ends its drain(), and the reader goes on.
ReaderCancelled(ds) ==
    IF Waiting(ds[Reader]) THEN [ds EXCEPT ![Reader].at = "raised"] ELSE ds

\* As ForceClose, neither cancelling nor joining the flusher.
ForceCloseLeavesFlusher ==
    /\ closer.at = "no" /\ epoch < MaxEpoch
    /\ NextEpoch
    /\ p' = Discarded(p) /\ drain' = ReaderCancelled(Woken(p'))
    /\ closer' = Closer("joined", None)
    /\ UNCHANGED <<fl, transport, reader, hist>>

\* _force_close_transport, up to the join of the tasks it cancelled
ForceClose ==
    /\ closer.at = "no" /\ epoch < MaxEpoch
    /\ NextEpoch
    /\ p' = Discarded(p) /\ drain' = ReaderCancelled(Woken(p'))
    /\ IF p.task # None
       THEN closer' = Closer("joining", p.task) /\ fl' = [fl EXCEPT ![p.task].cancel = TRUE]
       ELSE closer' = Closer("joined", None) /\ UNCHANGED fl
    /\ UNCHANGED <<transport, reader, hist>>

\* ... and after it.  A flusher that was made ready while the reader ended has
\* run by now: nothing holds the lock, and the writer is stopped first.
CanEnd == closer.at = "joined" /\ ~reader /\ \A f \in Flusher : fl[f].at # "ready"
ForceCloseEnds ==
    /\ CanEnd
    /\ closer' = Closer("closed", None) /\ transport' = None
    /\ p' = [Discarded(p) EXCEPT !.task = None, !.flush = FALSE] /\ drain' = Woken(p')
    /\ writer' = FALSE /\ output' = Stopped
    /\ UNCHANGED <<fl, epoch, reader, hist>>

\* _connect_once: every caller has closed what was there before.  All who close
\* a transport wait for one event, so nobody still does when the next is open;
\* nor does a flusher of what the ending reader left over, which emptying the
\* queue has released, while opening a transport takes turns of the loop.
Dial ==
    /\ closer.at = "closed" /\ epoch < MaxEpoch
    /\ \A f \in Flusher : fl[f].at # "closing" /\ ~(fl[f].at = "applying" /\ fl[f].cur.epoch = epoch)
    /\ epoch' = epoch + 1 /\ transport' = epoch + 1
    /\ p' = Discarded(p) /\ drain' = Woken(p')
    /\ writer' = TRUE /\ output' = "runs" /\ reader' = TRUE /\ closer' = Closer("no", None)
    /\ UNCHANGED <<fl, hist>>

-----------------------------------------------------------------------------
Init ==
    /\ p = [NewPump EXCEPT !.pendingEpoch = 1]
    /\ fl = [f \in Flusher |-> Free]
    /\ drain = [i \in Drainer |-> NotDraining]
    /\ epoch = 1 /\ writer = TRUE /\ output = "runs" /\ transport = 1 /\ reader = TRUE /\ closer = Closer("no", None)
    /\ emitted = <<>> /\ sent = <<>> /\ failed = {} /\ closedBy = {}

FlusherSteps(f) ==
    \/ FlusherStarts(f) \/ SendApplied(f) \/ CloseTransport(f) \/ CloseApplied(f)
    \/ FlusherClosed(f) \/ FlusherCancelled(f) \/ Done(f)

Next ==
    \/ Collect \/ DrainInline
    \/ \E i \in Drainer : BeginDrain(i) \/ ResumeDrain(i) \/ CancelDrain(i)
    \/ \E f \in Flusher : FlusherSteps(f)
    \/ WriterExits \/ Retire \/ RetireDrains \/ ReaderEnds \/ ForceClose \/ ForceCloseEnds \/ Dial

Spec == Init /\ [][Next]_vars

\* A send parked in an epoch the pump accepts, whose writer task is gone: nobody
\* makes room, and the wake-up of the next epoch comes after it.  Only the end
\* of _force_close_transport empties the queue.
Stranded(f) ==
    /\ fl[f].at = "applying" /\ fl[f].cur.kind = "send" /\ ~fl[f].cancel
    /\ fl[f].cur.epoch = epoch /\ output = "parks" /\ closer.at # "closed"

\* The event loop runs every task that can go on; a transport call ends (its
\* close is timed), and so does a writer call that is not stranded: room is
\* made, the writer exits, or the epoch is refused.  This is weak fairness of
\* FlusherSteps and of ResumeDrain, which leaves "woken", written out.
MustRetire ==
    \/ Online /\ closer.at # "no"
    \/ reader /\ drain[Reader].at \in {"retiring", "ok", "raised"}
CanGoOn(f) ==
    /\ fl[f].at # "free" /\ ~Stranded(f)
    /\ ~(fl[f].at = "ready" /\ ~fl[f].cancel /\ Locked)
Fairness ==
    /\ \A f \in Flusher : []<>(~CanGoOn(f)) \/ []<><<FlusherSteps(f)>>_vars
    /\ \A i \in Drainer : []<>(drain[i].at # "woken")
    /\ []<>(~MustRetire) /\ []<>(~CanEnd)
LiveSpec == Spec /\ Fairness

-----------------------------------------------------------------------------
(* Properties *)

\* The types
TypeOK ==
    /\ p.pending \in Seq(Effect)
    /\ p.enqueued \in Nat /\ p.applied \in 0..p.enqueued /\ p.pendingEpoch \in 1..MaxEpoch
    /\ p.task \in Flusher \cup {None}
    /\ \A f \in Flusher : fl[f].at \in {"free", "ready", "applying", "closing", "done"}
    /\ \A i \in Drainer : drain[i].at \in {"idle", "retiring", "waiting", "woken", "ok", "raised"}
    /\ epoch \in 1..MaxEpoch /\ transport \in 0..MaxEpoch
    /\ output \in {"runs", "exited", "parks", "shut"} /\ (writer => output = "runs")

\* What drain() waits for can always be reached: the two positions differ by
\* exactly what is pending, however often effects were dropped while one of
\* them was being applied.
PositionsExact == p.enqueued - p.applied = Len(p.pending)

\* Only one flusher applies effects, and nothing is left for nobody: pending
\* effects somebody waits for have a flusher that is going to run.
SomebodyFlushes ==
    /\ Cardinality({f \in Flusher : fl[f].at \in {"applying", "closing"}}) <= 1
    /\ (\E i \in Drainer : drain[i].at = "waiting") =>
         \E f \in Flusher : fl[f].at \in {"ready", "applying", "closing"} \/ (fl[f].at = "done" /\ p.task = f /\ p.flush)

\* Each connection's sends reach its writer in the order the engine emitted
\* them, without a gap; while the writer accepts, none is missing.
SendOrder ==
    \A ep \in 1..MaxEpoch :
      LET all == Sends(OfEpoch(emitted, ep))
          out == OfEpoch(sent, ep) IN
      /\ IsPrefix(out, all)
      /\ ep = epoch /\ writer => all = out \o Sends(p.pending)

\* An effect that fails is reported to every drain() whose range holds it: none
\* of them returns as if all had been applied.
FailureReported ==
    \A i \in Drainer : drain[i].at = "ok" =>
        ~\E n \in failed : drain[i].from < n /\ n <= drain[i].target

\* A close effect, applied whenever its wait for output ends, never closes the
\* transport of a later connection.
ClosesOwnTransport == \A c \in closedBy : c[2] <= c[1]

\* The lane: its positions, somebody who works on it, and the only effect of an
\* old connection that could reach a new one.
LaneExact == TypeOK /\ PositionsExact /\ SomebodyFlushes /\ ClosesOwnTransport

\* Every drain() returns or raises, unless a flusher stays stranded for ever: a
\* dropped effect, a failed, cancelled or replaced flusher and a new epoch never
\* leave anybody waiting.
EveryDrainEnds ==
    \A i \in Drainer : drain[i].at = "waiting" ~> ~Waiting(drain[i])
DrainEnds == EveryDrainEnds \/ <>[](\E f \in Flusher : Stranded(f))
=============================================================================
