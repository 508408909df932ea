-------------------------- MODULE IteratorDelivery --------------------------
(***************************************************************************)
(* Delivery to the application through messages(): class                   *)
(* ApplicationDelivery of api/_delivery.py in iterator mode, fed by the    *)
(* reader's lot (DeliveryLane.drain) and read by the iterators the         *)
(* application holds.                                                      *)
(*                                                                         *)
(* One connection's reader hands its lot over message by message and waits *)
(* when the queue is full.  Losing the connection, replacing the stream    *)
(* and the admission deadline all strike while it waits.  A step runs from *)
(* one await to the next; asyncio.Event.set() resolves the waits of that   *)
(* moment, so a task it woke is "woken" until it runs.                     *)
(*                                                                         *)
(* Abstractions.  A message is its arrival number, a size, and whether     *)
(* anybody else still owns it: an `acked` one (QoS 0, automatic QoS 1) was *)
(* acknowledged before its handoff, any other is redelivered from the      *)
(* session (InboundSession).  Callback mode, which runs the callbacks      *)
(* inside the reader's step and keeps no queue, is left out.               *)
(***************************************************************************)
EXTENDS Integers, Sequences, FiniteSets, SeqFolds

CONSTANTS
    Iterator,        \* iterators the application may create
    Sizes,           \* logical sizes of messages
    MaxMessages,     \* max_iterator_messages
    MaxBytes,        \* max_iterator_bytes
    Modes,           \* whether bytes are accounted (max_iterator_bytes is finite)
    Deadline,        \* whether iterator_admission_timeout is set
    LotSize,         \* messages of one ingress lot
    MaxArrivals,     \* bound: messages received
    MaxStreams       \* bound: connections and streams replaced

ASSUME DeliveryAssumptions ==
    /\ Sizes \subseteq Nat \ {0} /\ {MaxMessages, MaxBytes, LotSize} \subseteq Nat \ {0}
    /\ Modes \subseteq BOOLEAN /\ Deadline \in BOOLEAN
    /\ {MaxArrivals, MaxStreams} \subseteq Nat

VARIABLES
    d,          \* the ApplicationDelivery object
    reader,     \* the delivering reader: where it is and what it holds
    it,         \* the application's iterators
    connected,  \* whether a connection's reader runs
    arrived,    \* history: messages decoded, and whether a deadline ended each
    committed,  \* history: messages committed to the application, in order
    given       \* history: messages yielded, in order

vars == <<d, reader, it, connected, arrived, committed, given>>

-----------------------------------------------------------------------------
Message == [id : 1..MaxArrivals, acked : BOOLEAN, size : Sizes, expired : BOOLEAN]
Acked(s) == Only(s, {m \in Message : m.acked})

NewDelivery(accounted) ==
    [queue |-> <<>>, bytes |-> 0, accounted |-> accounted, closed |-> FALSE,
     stream |-> 0,         \* _stream_generation
     waiting |-> -1,       \* _waiting_generation, -1 for None
     admission |-> 0]      \* _admission_generation

NoReader == [at |-> "idle", lot |-> <<>>, stale |-> FALSE, generation |-> 0]

\* message_ready.set() and space.set()
Ready(its) == [i \in Iterator |-> IF its[i].at = "waiting" THEN [its[i] EXCEPT !.at = "woken"]
                                  ELSE its[i]]
Space(r) == IF r.at = "waiting" THEN [r EXCEPT !.at = "woken"] ELSE r

Full(m) ==
    \/ Len(d.queue) >= MaxMessages
    \/ d.accounted /\ d.bytes + m.size > MaxBytes
TooLarge(m) == d.accounted /\ m.size > MaxBytes

\* _enqueue_accounted, _enqueue_unaccounted and put_over_bound
Put(x, s) ==
    [x EXCEPT !.queue = @ \o s, !.bytes = IF x.accounted THEN @ + TotalSize(s) ELSE @]

Commit(x, s) ==
    /\ d' = Put(x, s)
    /\ committed' = committed \o s
    /\ it' = IF s = <<>> THEN it ELSE Ready(it)

-----------------------------------------------------------------------------
(* The reader *)

Decode ==
    /\ connected /\ reader = NoReader
    /\ \E n \in 1..LotSize : \E lot \in [1..n -> [acked : BOOLEAN, size : Sizes]] :
         LET new == [i \in 1..n |-> [id |-> Len(arrived) + i, acked |-> lot[i].acked,
                                     size |-> lot[i].size, expired |-> FALSE]] IN
         /\ Len(arrived) + n <= MaxArrivals
         /\ arrived' = arrived \o new
         /\ reader' = [reader EXCEPT !.lot = new]
    /\ UNCHANGED <<d, it, connected, committed, given>>

Rest(r) ==
    [NoReader EXCEPT !.lot = Tail(r.lot), !.stale = r.stale /\ Tail(r.lot) # <<>>]

\* DeliveryLane.drain() on the head of its lot, with accept(): committed now, or
\* a wait begins under the current admission generation.
Deliver ==
    /\ reader.at = "idle" /\ reader.lot # <<>>
    /\ LET m == Head(reader.lot) IN
       \/ /\ reader.stale /\ ~m.acked              \* the session owns it
          /\ reader' = Rest(reader)
          /\ UNCHANGED <<d, it, committed>>
       \/ /\ ~(reader.stale /\ ~m.acked) /\ ~TooLarge(m) /\ ~Full(m)
          /\ Commit(d, <<m>>)
          /\ reader' = Rest(reader)
       \/ /\ ~(reader.stale /\ ~m.acked) /\ ~TooLarge(m) /\ Full(m)
          /\ reader' = [reader EXCEPT !.at = "waiting", !.generation = d.admission]
          /\ UNCHANGED <<d, it, committed>>
    /\ UNCHANGED <<connected, arrived, given>>

\* _accept_waiting_*, from one wake-up on; a retired admission that nobody else
\* owns is committed past the bounds (_admit_acknowledged).
Admitted(m) ==
    IF reader.generation # d.admission THEN m.acked ELSE ~Full(m)
ResumeReader ==
    /\ reader.at = "woken"
    /\ LET m == Head(reader.lot)
           retired == reader.generation # d.admission IN
       \/ /\ Admitted(m)
          /\ Commit(d, <<m>>)
          /\ reader' = Rest(reader)
       \/ /\ ~Admitted(m) /\ retired
          /\ reader' = Rest(reader)
          /\ UNCHANGED <<d, it, committed>>
       \/ /\ ~Admitted(m) /\ ~retired
          /\ reader' = [reader EXCEPT !.at = "waiting"]
          /\ UNCHANGED <<d, it, committed>>
    /\ UNCHANGED <<connected, arrived, given>>

\* The end of a reader: _retire_connection_epoch, then the acknowledged rest of
\* its lot handed over without waiting (deliver_acknowledged).
Ended(rest) ==
    /\ connected' = FALSE /\ reader' = NoReader
    /\ Commit([d EXCEPT !.admission = @ + 1], Acked(rest))
    /\ UNCHANGED given

\* As Retire, losing the message whose admission was cancelled.
RetireDropsHead ==
    /\ connected /\ UNCHANGED arrived
    /\ Ended(IF reader.at = "idle" THEN reader.lot ELSE Tail(reader.lot))

\* Connection loss or disconnect(), wherever the reader waits: a message whose
\* admission was cancelled goes back to the head of its lot.
Retire == connected /\ Ended(reader.lot) /\ UNCHANGED arrived

\* MessageDeliveryError, at the deadline or for a message that can never fit,
\* ends the connection; the message itself left the lot.
TimeOut ==
    /\ Deadline /\ reader.at \in {"waiting", "woken"}
    /\ Ended(Tail(reader.lot))
    /\ arrived' = [arrived EXCEPT ![Head(reader.lot).id].expired = TRUE]
Oversized ==
    /\ reader.at = "idle" /\ reader.lot # <<>> /\ TooLarge(Head(reader.lot))
    /\ ~(reader.stale /\ ~Head(reader.lot).acked)
    /\ Ended(Tail(reader.lot)) /\ UNCHANGED arrived

\* _invalidate_connection_epoch at the head of _force_close
Invalidate ==
    /\ connected /\ reader.lot # <<>> /\ ~reader.stale
    /\ d' = [d EXCEPT !.admission = @ + 1]
    /\ reader' = [Space(reader) EXCEPT !.stale = TRUE]
    /\ UNCHANGED <<it, connected, arrived, committed, given>>

-----------------------------------------------------------------------------
(* The stream *)

\* A terminal teardown, and disconnect()
Close ==
    /\ ~connected /\ ~d.closed
    /\ d' = [d EXCEPT !.closed = TRUE]
    /\ it' = Ready(it)
    /\ UNCHANGED <<reader, connected, arrived, committed, given>>

\* An automatic reconnect resumes the stream.
Reconnect ==
    /\ ~connected /\ d.admission < MaxStreams
    /\ d' = [d EXCEPT !.closed = FALSE]
    /\ connected' = TRUE
    /\ UNCHANGED <<reader, it, arrived, committed, given>>

\* An explicit connect() replaces it: close(), then reset_stream().
ResetStream ==
    /\ ~connected /\ d.stream < MaxStreams
    /\ d' = [d EXCEPT !.closed = FALSE, !.stream = @ + 1, !.admission = @ + 1]
    /\ it' = Ready(it)
    /\ UNCHANGED <<reader, connected, arrived, committed, given>>

-----------------------------------------------------------------------------
(* The application *)

\* messages()
Open(i) ==
    /\ it[i].at = "none"
    /\ it' = [it EXCEPT ![i] = [at |-> "open", stream |-> d.stream]]
    /\ UNCHANGED <<d, reader, connected, arrived, committed, given>>

\* One message leaves the queue, with its charge.
Take(x) == [x EXCEPT !.queue = Tail(@),
                     !.bytes = IF x.accounted THEN @ - Head(x.queue).size ELSE @]

\* __anext__, to the next yield, wait or end
Advance(i, x) ==
    \/ /\ it[i].stream # x.stream
       /\ it' = [it EXCEPT ![i].at = "ended"]
       /\ d' = x
       /\ UNCHANGED <<reader, given>>
    \/ /\ it[i].stream = x.stream /\ x.queue # <<>>
       /\ it' = [it EXCEPT ![i].at = "open"]
       /\ given' = Append(given, Head(x.queue))
       /\ d' = Take(x)
       /\ reader' = Space(reader)
    \/ /\ it[i].stream = x.stream /\ x.queue = <<>>
       /\ IF x.closed
          THEN it' = [it EXCEPT ![i].at = "ended"] /\ d' = x
          ELSE IF x.waiting = x.stream
          THEN it' = [it EXCEPT ![i].at = "refused"] /\ d' = x
          ELSE it' = [it EXCEPT ![i].at = "waiting"] /\ d' = [x EXCEPT !.waiting = x.stream]
       /\ UNCHANGED <<reader, given>>

\* As LeaveWait, whatever generation waits now.
LeaveWaitAny(i) == [d EXCEPT !.waiting = -1]

\* The finally of _wait_for_message
LeaveWait(i) == IF d.waiting = it[i].stream THEN [d EXCEPT !.waiting = -1] ELSE d

AskNext(i) == it[i].at = "open" /\ Advance(i, d) /\ UNCHANGED <<connected, arrived, committed>>
Resume(i) ==
    /\ it[i].at = "woken"
    /\ Advance(i, LeaveWait(i))
    /\ UNCHANGED <<connected, arrived, committed>>
CancelIterator(i) ==
    /\ it[i].at \in {"waiting", "woken"}
    /\ d' = LeaveWait(i)
    /\ it' = [it EXCEPT ![i].at = "ended"]
    /\ UNCHANGED <<reader, connected, arrived, committed, given>>

-----------------------------------------------------------------------------
Init ==
    /\ \E accounted \in Modes : d = NewDelivery(accounted)
    /\ reader = NoReader /\ connected = TRUE
    /\ it = [i \in Iterator |-> [at |-> "none", stream |-> 0]]
    /\ arrived = <<>> /\ committed = <<>> /\ given = <<>>

Next ==
    \/ Decode \/ Deliver \/ ResumeReader \/ Retire \/ TimeOut \/ Oversized \/ Invalidate
    \/ Close \/ Reconnect \/ ResetStream
    \/ \E i \in Iterator : Open(i) \/ AskNext(i) \/ Resume(i) \/ CancelIterator(i)

Spec == Init /\ [][Next]_vars

-----------------------------------------------------------------------------
(* Properties *)

TypeOK ==
    /\ d.bytes \in Nat /\ d.closed \in BOOLEAN /\ d.stream \in Nat
    /\ d.waiting \in {-1} \cup 0..d.stream
    /\ reader.at \in {"idle", "waiting", "woken"}
    /\ reader.at # "idle" => reader.lot # <<>> /\ connected
    /\ \A i \in Iterator :
          it[i].at \in {"none", "open", "waiting", "woken", "ended", "refused"}

\* What the application was promised is exactly what it was given followed by
\* what is still queued, once each and in order, through closed, replaced and
\* resumed streams and however many iterators share it.
StreamIntact == committed = given \o d.queue

\* The bytes charged are those of the unread messages, through handovers past
\* the bounds, replaced streams and the unaccounted mode (release()).
ChargeExact == d.bytes = IF d.accounted THEN TotalSize(d.queue) ELSE 0

\* A message nobody else owns is never dropped, and such messages reach the
\* application in the order they arrived.  Two exceptions: one that can never
\* fit, and one whose own admission reached its deadline.
Owed(s) == Only(s, {m \in Message : m.acked /\ ~TooLarge(m)})
AckedNeverLost ==
    Owed(committed) \o Owed(reader.lot) = Only(Owed(arrived), {m \in Message : ~m.expired})

\* Without the second exception: what was acknowledged survives a deadline too.
AckedSurvivesDeadline == Len(Owed(committed)) + Len(Owed(reader.lot)) = Len(Owed(arrived))

\* No event is lost: nobody waits for what is already there.  An iterator left
\* waiting has an empty open stream of its own generation, a reader left
\* waiting has a full queue and a current admission.
NobodyWaitsInVain ==
    /\ \A i \in Iterator : it[i].at = "waiting" =>
          d.queue = <<>> /\ ~d.closed /\ it[i].stream = d.stream
    /\ reader.at = "waiting" =>
          Full(Head(reader.lot)) /\ reader.generation = d.admission

\* At most one iterator of a generation waits, and _waiting_generation knows it,
\* so a second one is refused only while one is really there.
OneWaiter ==
    LET there == {i \in Iterator : it[i].at \in {"waiting", "woken"}
                                     /\ it[i].stream = d.stream} IN
    Cardinality(there) <= 1 /\ ((d.waiting = d.stream) <=> (there # {}))

\* The stream, what it is charged for and who waits for it, in every mode: no
\* message, no byte and no wake-up of the two events is lost or counted twice.
StreamExact == TypeOK /\ StreamIntact /\ ChargeExact /\ NobodyWaitsInVain /\ OneWaiter
=============================================================================
