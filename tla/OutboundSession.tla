--------------------------- MODULE OutboundSession ---------------------------
(***************************************************************************)
(* The outbound half of an MQTT session: class OutboundSession of          *)
(* protocol/outbound.py with the FlowControl window it owns, the durable   *)
(* rows of the InflightStore, the packet identifiers it shares with        *)
(* SUBSCRIBE/UNSUBSCRIBE, and the parts of ProtocolEngine and AsyncClient  *)
(* that drive it (connection state, CONNACK, receipts, fail-stop).         *)
(*                                                                         *)
(* Every handler runs under the engine lock without suspending and its     *)
(* effects are collected before anything else runs, so it is one step.     *)
(* The session object is the record `ob`; each method is an operator from  *)
(* one value of it to the next, and an action is a handler.  Its fields    *)
(* `sends` and `settled` are the effects of the last step: packets handed  *)
(* to the writer, in order, and terminal outcomes reported to receipts.    *)
(*                                                                         *)
(* Abstractions.  A publication is a member of Message with its QoS and    *)
(* logical size.  A negotiation (CONNACK) is a record that names the       *)
(* messages it refuses in each wire form.  The identifier pool is the set  *)
(* of identifiers in use, which PacketIdPool implements.  Store reads do   *)
(* not fail; the failures of writes that the code handles are modelled.    *)
(* The memory store hands out the message objects it holds, so that their  *)
(* dup flag and retained frame outlive a connection; a durable store keeps *)
(* neither and hands out copies.                                           *)
(***************************************************************************)
EXTENDS Integers, Sequences, FiniteSets, FiniteSetsExt, SequencesExt

CONSTANTS
    Mid,              \* packet identifiers
    Message,          \* publications an application may submit (QoS 1 and 2)
    QosOf, SizeOf,    \* their QoS and logical size
    AliasOnly,        \* those submitted with an empty topic and a Topic Alias
    Segmented,        \* those whose encoded frame is worth keeping
    Stores,           \* the stores a client may have: "memory", "durable"
    Negotiation,      \* the negotiations a CONNACK can establish
    LocalWindow,      \* max_outbound_inflight
    HydrateWindow,    \* max_inbound_inflight, the window before any CONNACK
    MaxMessages,      \* max_unacknowledged_messages
    MaxBytes,         \* max_unacknowledged_bytes
    AdmissionFaults   \* how a failed put whose cleanup fails can leave the store

RowState == {"QUEUED", "WAIT_PUBACK", "WAIT_PUBREC", "WAIT_PUBCOMP"}
Row == [mid : Mid, msg : Message, state : RowState]

\* "wait" and "queued": the row was written, in the state it was put with.
\* "unknown": the store could not say, and holds nothing.
AdmissionFault == {"wait", "queued", "unknown"}

ASSUME OutboundAssumptions ==
    /\ IsFiniteSet(Mid) /\ IsFiniteSet(Message) /\ AliasOnly \subseteq Message
    /\ Segmented \subseteq Message /\ Stores \subseteq {"memory", "durable"}
    /\ QosOf \in [Message -> {1, 2}]
    /\ SizeOf \in [Message -> Nat \ {0}]
    /\ LocalWindow \in Nat /\ HydrateWindow \in Nat
    /\ MaxMessages \in Nat /\ MaxBytes \in Nat
    /\ AdmissionFaults \subseteq AdmissionFault
    \* refused as submitted / as stored / as retransmitted.  The stored form
    \* adds the canonical topic to the submitted one and the Topic Alias to
    \* the retransmitted one, so it is never the smallest.
    /\ \A n \in Negotiation :
        /\ n.receiveMaximum \in Nat
        /\ n.fresh \subseteq n.stored /\ n.replay \subseteq n.stored
        /\ n.stored \subseteq Message
        /\ n.acksFit \in BOOLEAN /\ n.orphanFits \in BOOLEAN

VARIABLES
    ob,         \* the OutboundSession object and its store
    conn,       \* ProtocolEngine.state
    neg,        \* ProtocolEngine.negotiated
    subs,       \* _pending_sub_requests
    receipts,   \* AsyncClient._receipts: identifiers with an open receipt
    pending,    \* _connection_pending(), kept while a connection is up
    usable      \* no _local_terminal_failure

vars == <<ob, conn, neg, subs, receipts, pending, usable>>

-----------------------------------------------------------------------------
(* Rows, packets, effects *)

Mids(s) == {s[i].mid : i \in DOMAIN s}
Keep(s, M) == SelectSeq(s, LAMBDA r : r.mid \in M)
Drop(s, M) == SelectSeq(s, LAMBDA r : r.mid \notin M)
In(s, S) == SelectSeq(s, LAMBDA r : r.state \in S)
Sizes(s) == MapThenSumSet(LAMBDA i : SizeOf[s[i].msg], DOMAIN s)

\* store.transition_out: the rows of M move to the state `to` gives them.
Moved(s, M, to(_)) ==
    [i \in DOMAIN s |-> IF s[i].mid \in M
                        THEN [s[i] EXCEPT !.state = to(s[i])] ELSE s[i]]

InFlightState == RowState \ {"QUEUED"}
ResendState == {"WAIT_PUBACK", "WAIT_PUBREC"}
Waiting(row) == IF QosOf[row.msg] = 1 THEN "WAIT_PUBACK" ELSE "WAIT_PUBREC"
Queued(row) == "QUEUED"

Publish(row, dup) == [type |-> "PUBLISH", mid |-> row.mid, msg |-> row.msg, dup |-> dup]
Pubrel(mid) == [type |-> "PUBREL", mid |-> mid, known |-> TRUE]
OrphanPubrel(mid) == [type |-> "PUBREL", mid |-> mid, known |-> FALSE]

Completed(M) == {[mid |-> mid, ok |-> TRUE] : mid \in M}
Failed(M) == {[mid |-> mid, ok |-> FALSE] : mid \in M}

-----------------------------------------------------------------------------
(* OutboundMessage.dup and .encoded_publish of a stored message *)

Kept == [dup : BOOLEAN, frame : {"none", "first", "dup"}]
Unsent == [dup |-> FALSE, frame |-> "none"]

\* _retain_publish_item(): only a segmented frame is kept.
Retained(m, dup) ==
    IF m \in Segmented THEN (IF dup THEN "dup" ELSE "first") ELSE "none"

\* The DUP flag _launch() sends: the retained frame's, else the message's.
WireDup(k) == IF k.frame = "none" THEN k.dup ELSE k.frame = "dup"

\* A requeued publication that is launched as it was last sent.
AsLastSent(k) == k

\* drain() of a QUEUED entry: one that was requeued after its session was
\* discarded leaves as a first attempt.
FirstAttempt(k) == IF k.dup THEN Unsent ELSE k

Launched(k, m) == [k EXCEPT !.frame = Retained(m, WireDup(k))]

\* _retransmit() marks the message and the frame it keeps, if any.
Retransmitted(m) == [dup |-> TRUE, frame |-> Retained(m, TRUE)]

-----------------------------------------------------------------------------
(* The object: fields of OutboundSession, FlowControl and the store *)

Fresh(rows, kept, store) ==
    [rows |-> rows,             \* store, in insertion order
     kept |-> kept,             \* what its message objects keep of the last send
     store |-> store,           \* which store it is
     queued |-> <<>>,           \* _queued: snapshots of rows
     parked |-> {},             \* _parked
     sealed |-> {},             \* domain of _sealed
     sealedSent |-> {},         \* the sealed ones recorded as sent
     holders |-> {},            \* flow._holders
     limit |-> Max({1, HydrateWindow}),     \* flow._limit
     used |-> {},               \* packet_ids
     messages |-> 0,            \* _pending_messages
     bytes |-> 0,               \* _pending_bytes
     sends |-> <<>>,            \* SEND effects of the last step
     settled |-> {}]            \* PUBLISH_COMPLETE / _FAILED effects of it

Quiet(s) == [s EXCEPT !.sends = <<>>, !.settled = {}]

\* _release_reservation for every row of `gone`
Unreserve(s, gone) ==
    [s EXCEPT !.messages = @ - Len(gone), !.bytes = @ - Sizes(gone)]

Forgotten(kept, M) == [mid \in Mid |-> IF mid \in M THEN Unsent ELSE kept[mid]]

\* Sending the rows of `out`: the PUBLISH of each, and what its object keeps.
OnWire(s, row) ==
    Publish(row, row.state # "QUEUED" \/ WireDup(FirstAttempt(s.kept[row.mid])))

KeptBy(s, row) ==
    IF row.state = "QUEUED" THEN Launched(FirstAttempt(s.kept[row.mid]), row.msg)
    ELSE Retransmitted(row.msg)

Remember(s, out) ==
    IF s.store = "durable" THEN s.kept
    ELSE [mid \in Mid |-> IF mid \in Mids(out)
                          THEN KeptBy(s, CHOOSE r \in Range(out) : r.mid = mid)
                          ELSE s.kept[mid]]

\* discard_record / complete_record, packet_ids.release, _fail
Discard(s, gone) ==
    LET M == Mids(gone) IN
    [Unreserve(s, gone) EXCEPT !.rows = Drop(@, M),
                               !.kept = Forgotten(@, M),
                               !.used = @ \ M,
                               !.settled = @ \cup Failed(M)]

\* Hydration that does not rebuild the queue.
HydrateUnqueued(rows, kept, store) ==
    [Fresh(rows, kept, store) EXCEPT !.used = Mids(rows), !.messages = Len(rows),
                        !.bytes = Sizes(rows)]

\* hydrate(): what a new client recovers from the rows of the store it is given.
Hydrate(rows, kept, store) ==
    LET live == In(rows, InFlightState)
        window == Max({1, HydrateWindow})
    IN  [Fresh(rows, kept, store) EXCEPT
            !.used = Mids(rows),
            !.messages = Len(rows),
            !.bytes = Sizes(rows),
            !.queued = In(rows, {"QUEUED"}),
            !.holders = Mids(SubSeq(live, 1, Min({Len(live), window})))]

-----------------------------------------------------------------------------
(* Launching and retransmission *)

\* The wire form drain() or replay builds from a row passes the size check.
Sendable(row, n) ==
    IF row.state = "QUEUED" THEN row.msg \notin n.stored ELSE row.msg \notin n.replay

\* The scan stops one entry late: the window is overrun by one.
DrainedPrefixOverruns(s, n) ==
    Min({k \in 0..Len(s.queued) :
            \/ k = Len(s.queued)
            \/ Cardinality({i \in 1..k : Sendable(s.queued[i], n)})
                 > s.limit - Cardinality(s.holders)})

\* How many entries drain() removes: it stops when the window is full.
DrainedPrefix(s, n) ==
    Min({k \in 0..Len(s.queued) :
            \/ k = Len(s.queued)
            \/ Cardinality({i \in 1..k : Sendable(s.queued[i], n)})
                 >= s.limit - Cardinality(s.holders)})

\* drain(): entries leave the head of the queue while the window has room; a
\* QUEUED one is launched as a first attempt, a parked one is retransmitted,
\* and one that cannot be encoded for this connection is discarded.
Drain(s, n) ==
    LET k == DrainedPrefix(s, n)
        head == SubSeq(s.queued, 1, k)
        out == SelectSeq(head, LAMBDA r : Sendable(r, n))
        bad == SelectSeq(head, LAMBDA r : ~ Sendable(r, n))
    IN  [Discard(s, bad) EXCEPT
            !.rows = Moved(@, Mids(In(out, {"QUEUED"})), Waiting),
            !.kept = Forgotten(Remember(s, out), Mids(bad)),
            !.queued = SubSeq(@, k + 1, Len(@)),
            !.parked = @ \ Mids(head),
            !.holders = @ \cup Mids(out),
            !.sends = @ \o [i \in DOMAIN out |-> OnWire(s, out[i])]]

\* reset_flow_for_connection()
ResetFlow(s, n) ==
    [s EXCEPT !.holders = {},
              !.limit = Max({1, Min({n.receiveMaximum, LocalWindow})})]

\* The rows _replay_message() does not skip.
Replayed(s) == Drop(s.rows, s.sealed)

\* replay_session(), in store order.
Replay(s, n) ==
    LET z == ResetFlow(s, n)
        live == Replayed(s)
        bad == SelectSeq(live, LAMBDA r : r.state = "QUEUED" /\ ~ Sendable(r, n))
        resend == In(live, ResendState)
        admitted == Mids(SubSeq(resend, 1, Min({Len(resend), z.limit})))
        parked == Mids(resend) \ admitted
        pubrels == Mids(In(live, {"WAIT_PUBCOMP"}))
        wire == Keep(live, admitted \cup pubrels)
    IN  Drain([Discard(z, bad) EXCEPT
                !.kept = Forgotten(Remember(s, Keep(resend, admitted)), Mids(bad)),
                !.holders = admitted,
                !.parked = parked,
                !.queued = SelectSeq(live, LAMBDA r :
                    r.mid \in parked \/ (r.state = "QUEUED" /\ Sendable(r, n))),
                !.sends = @ \o [i \in DOMAIN wire |->
                    IF wire[i].mid \in pubrels THEN Pubrel(wire[i].mid)
                                               ELSE OnWire(s, wire[i])]], n)

-----------------------------------------------------------------------------
(* The broker lost the session *)

\* QoS 2 restarted as well, at the risk of a second delivery.
RequeuedStateAny == ResendState

\* The exchanges that are sent again as new publications.
RequeuedState == {"WAIT_PUBACK"}

\* Requeued work behind what was never sent.
RequeueAtTail(resent, queued) == queued \o Moved(resent, Mids(resent), Queued)

Requeue(resent, queued) == Moved(resent, Mids(resent), Queued) \o queued

\* When purge may reset the whole pool instead of releasing one by one.
PoolUnowned(queue, sealed, sealedSent) ==
    queue = <<>> /\ subs = {} /\ sealed \subseteq sealedSent

\* purge_after_clean_session(): QoS 1 goes back to the head of the queue,
\* QoS 2 fails, sealed rows that were sent are dropped.
Purge(s) ==
    LET sent == In(s.rows, InFlightState)
        dropped == Keep(sent, s.sealed)
        live == Drop(sent, s.sealed)
        resent == In(live, RequeuedState)
        lost == In(live, InFlightState \ RequeuedState)
        queue == Requeue(resent, In(s.queued, {"QUEUED"}))
        sealed == s.sealed \ Mids(dropped)
    IN  [Discard(s, lost) EXCEPT
            !.rows = Moved(Drop(@, Mids(dropped)), Mids(resent), Queued),
            !.kept = Forgotten(@, Mids(dropped)),
            !.queued = queue,
            !.parked = {},
            !.sealed = sealed,
            !.sealedSent = @ \cap sealed,
            !.used = IF PoolUnowned(queue, sealed, s.sealedSent)
                       THEN {} ELSE @ \ Mids(dropped)]

\* fail_queued_violating_negotiation()
FailViolating(s, n) ==
    LET bad == SelectSeq(s.queued, LAMBDA r : ~ Sendable(r, n))
    IN  [Discard(s, bad) EXCEPT !.queued = Drop(@, Mids(bad))]

\* Sealing that gives the identifier back.
SealFreesId(s, M) ==
    LET newly == Drop(Keep(s.rows, M), s.sealed)
        N == Mids(newly)
    IN  [Unreserve(s, newly) EXCEPT
            !.sealed = @ \cup N,
            !.sealedSent = @ \cup Mids(In(newly, InFlightState)),
            !.holders = @ \ N, !.queued = Drop(@, N), !.parked = @ \ N,
            !.used = @ \ N]

\* seal(mids): the rows stay, this client will not send them again.
Seal(s, M) ==
    LET newly == Drop(Keep(s.rows, M), s.sealed)
        N == Mids(newly)
    IN  [Unreserve(s, newly) EXCEPT
            !.sealed = @ \cup N,
            !.sealedSent = @ \cup Mids(In(newly, InFlightState)),
            !.holders = @ \ N,
            !.queued = Drop(@, N),
            !.parked = @ \ N]

\* A settled exchange that frees its slot without launching what waits for it.
FinishWithoutDrain(s, row, outcome, n) ==
    LET mid == row.mid
        z == IF mid \in s.sealed
             THEN [s EXCEPT !.sealed = @ \ {mid}, !.sealedSent = @ \ {mid}]
             ELSE [Unreserve(s, <<row>>) EXCEPT
                    !.parked = @ \ {mid},
                    !.queued = IF mid \in s.parked THEN Drop(@, {mid}) ELSE @,
                    !.holders = @ \ {mid}]
    IN  [z EXCEPT !.rows = Drop(@, {mid}), !.kept[mid] = Unsent, !.used = @ \ {mid},
                  !.settled = @ \cup outcome]

\* _finish(mid, expected_state, failure) once the row has left the store.
Finish(s, row, outcome, n) ==
    LET mid == row.mid
        z == IF mid \in s.sealed
             THEN [s EXCEPT !.sealed = @ \ {mid}, !.sealedSent = @ \ {mid}]
             ELSE [Unreserve(s, <<row>>) EXCEPT
                    !.parked = @ \ {mid},
                    !.queued = IF mid \in s.parked THEN Drop(@, {mid}) ELSE @,
                    !.holders = @ \ {mid}]
    IN  Drain([z EXCEPT !.rows = Drop(@, {mid}),
                        !.kept[mid] = Unsent,
                        !.used = @ \ {mid},
                        !.settled = @ \cup outcome], n)

\* A parked exchange answered by PUBREC that stays in the queue.
AdvanceWithoutUnpark(s, mid) ==
    [s EXCEPT !.rows = Moved(@, {mid}, LAMBDA r : "WAIT_PUBCOMP"),
              !.kept[mid].frame = "none",
              !.sends = <<Pubrel(mid)>>]

\* on_pubrec success: the row moves on without its data, and a parked entry
\* leaves the queue.
Advance(s, mid) ==
    [s EXCEPT !.rows = Moved(@, {mid}, LAMBDA r : "WAIT_PUBCOMP"),
              !.kept[mid].frame = "none",
              !.queued = IF mid \in s.parked THEN Drop(@, {mid}) ELSE @,
              !.parked = @ \ {mid},
              !.sends = <<Pubrel(mid)>>]

-----------------------------------------------------------------------------
(* Handlers *)

Init ==
    /\ \E store \in Stores : ob = Fresh(<<>>, [mid \in Mid |-> Unsent], store)
    /\ conn = "NEW"
    /\ neg \in Negotiation
    /\ subs = {} /\ receipts = {} /\ pending = FALSE /\ usable = TRUE

Now == Quiet(ob)

\* Terminal effects are applied to receipts when the step's effects are
\* collected; one whose receipt already failed finds none.
Settle(s, open) == receipts' = open \ {x.mid : x \in s.settled}

\* _commit_publish / queue_publish: admission of a QoS 1 or 2 publication.
Admissible(m) ==
    /\ usable /\ conn # "DISCONNECTING"
    /\ conn = "DISCONNECTED" => pending
    /\ IF conn = "CONNECTED" THEN m \notin neg.fresh ELSE m \notin AliasOnly
    /\ ob.messages < MaxMessages
    /\ ob.bytes + SizeOf[m] <= MaxBytes \/ ob.bytes = 0

HasRoom == conn = "CONNECTED" /\ Cardinality(ob.holders) < ob.limit

\* What _launch() keeps of the new message: an alias-only form is of no use on
\* the next connection.
FirstKept(m) ==
    IF HasRoom /\ ob.store = "memory" /\ m \notin AliasOnly THEN Launched(Unsent, m)
    ELSE Unsent

QueuePublish(m) ==
    /\ Admissible(m)
    /\ \E mid \in Mid \ ob.used :
        LET queued == [mid |-> mid, msg |-> m, state |-> "QUEUED"]
            row == IF HasRoom THEN [queued EXCEPT !.state = Waiting(queued)]
                              ELSE queued
        IN  /\ ob' = [Now EXCEPT
                        !.used = @ \cup {mid},
                        !.messages = @ + 1, !.bytes = @ + SizeOf[m],
                        !.rows = Append(@, row),
                        !.kept[mid] = FirstKept(m),
                        !.queued = IF HasRoom THEN @ ELSE Append(@, row),
                        !.holders = IF HasRoom THEN @ \cup {mid} ELSE @,
                        !.sends = IF HasRoom THEN <<Publish(queued, FALSE)>> ELSE <<>>]
            /\ receipts' = receipts \cup {mid}
    /\ UNCHANGED <<conn, neg, subs, pending, usable>>

\* put_out fails and so does the cleanup: _rollback seals what may remain.
\* When the cleanup succeeds the rollback restores everything.
QueuePublishFails(m) ==
    /\ Admissible(m)
    /\ \E mid \in Mid \ ob.used, fault \in AdmissionFaults :
        LET row == [mid |-> mid, msg |-> m, state |->
                        IF HasRoom THEN Waiting([msg |-> m]) ELSE "QUEUED"]
        IN  /\ fault = "wait" => HasRoom
            /\ fault = "queued" => ~ HasRoom
            /\ ob' = [Now EXCEPT
                        !.used = @ \cup {mid},
                        !.rows = IF fault = "unknown" THEN @ ELSE Append(@, row),
                        !.kept[mid] = IF fault = "unknown" THEN @ ELSE FirstKept(m),
                        !.sealed = @ \cup {mid},
                        !.sealedSent = @ \cup {mid}]
    /\ UNCHANGED <<conn, neg, subs, receipts, pending, usable>>

\* _send_subscription_request and _complete_subscription_request
Subscribe ==
    /\ conn = "CONNECTED" /\ usable
    /\ \E mid \in Mid \ ob.used :
        /\ ob' = [Now EXCEPT !.used = @ \cup {mid}]
        /\ subs' = subs \cup {mid}
    /\ UNCHANGED <<conn, neg, receipts, pending, usable>>

SubscribeAck(mid) ==
    /\ conn = "CONNECTED" /\ mid \in subs
    /\ ob' = [Now EXCEPT !.used = @ \ {mid}]
    /\ subs' = subs \ {mid}
    /\ UNCHANGED <<conn, neg, receipts, pending, usable>>

\* Broker answers.  One that matches no row in the expected state changes
\* nothing.
Exchange(mid, state) ==
    \E i \in DOMAIN ob.rows : ob.rows[i].mid = mid /\ ob.rows[i].state = state

RowOf(mid) == CHOOSE r \in Range(ob.rows) : r.mid = mid

Outcome(mid, ok) == {[mid |-> mid, ok |-> ok]}

Answered(mid, state, ok) ==
    IF Exchange(mid, state)
    THEN Finish(Now, RowOf(mid), Outcome(mid, ok), neg) ELSE Now

OnPuback(mid, ok) ==
    /\ conn = "CONNECTED"
    /\ ob' = Answered(mid, "WAIT_PUBACK", ok)
    /\ Settle(ob', receipts)
    /\ UNCHANGED <<conn, neg, subs, pending, usable>>

OnPubcomp(mid, ok) ==
    /\ conn = "CONNECTED"
    /\ ob' = Answered(mid, "WAIT_PUBCOMP", ok)
    /\ Settle(ob', receipts)
    /\ UNCHANGED <<conn, neg, subs, pending, usable>>

\* A PUBREC with an error ends the exchange; a successful one is always
\* answered by PUBREL unless it makes no sense for the row.  Maximum Packet
\* Size below 4 was refused at CONNACK, so only the 5-byte orphan PUBREL of
\* MQTT 5 may not fit; that ends the connection (OnPubrecUnanswerable).
OnPubrec(mid, ok) ==
    /\ conn = "CONNECTED"
    /\ ok /\ mid \notin Mids(ob.rows) => neg.orphanFits
    /\ ob' = CASE ~ ok -> Answered(mid, "WAIT_PUBREC", FALSE)
               [] ok /\ Exchange(mid, "WAIT_PUBREC") -> Advance(Now, mid)
               [] ok /\ Exchange(mid, "WAIT_PUBCOMP") ->
                    [Now EXCEPT !.sends = <<Pubrel(mid)>>]
               [] ok /\ mid \notin Mids(ob.rows) ->
                    [Now EXCEPT !.sends = <<OrphanPubrel(mid)>>]
               [] OTHER -> Now
    /\ Settle(ob', receipts)
    /\ UNCHANGED <<conn, neg, subs, pending, usable>>

-----------------------------------------------------------------------------
(* Connections *)

\* The pool is reset around the identifiers of sealed rows.
ClosedIgnoresSeals(s) ==
    [s EXCEPT !.used = CASE subs = {} -> @
                         [] subs # {} /\ s.messages = 0 -> {}
                         [] OTHER -> @ \ subs]

\* notify_transport_closed: the identifiers of pending SUBSCRIBEs go.  The
\* window is left as it is until the next CONNACK.
Closed(s) ==
    [s EXCEPT !.used = CASE subs = {} -> @
                         [] subs # {} /\ s.messages = 0 /\ s.sealed = {} -> {}
                         [] OTHER -> @ \ subs]

\* _fail_pending: every open receipt fails and its publication is sealed.
AbandonReceipts(s) == ob' = Seal(s, receipts) /\ receipts' = {}

\* connect() is called on a client nothing else is connecting.
ConnectCalled ==
    /\ conn \in {"NEW", "DISCONNECTED"} /\ usable /\ ~ pending
    /\ pending' = TRUE
    /\ ob' = Now
    /\ UNCHANGED <<conn, neg, subs, receipts, usable>>

\* begin_connect(), from connect() or from the reconnect loop.
BeginConnect ==
    /\ conn \in {"NEW", "DISCONNECTED"} /\ usable /\ pending
    /\ conn' = "CONNECTING"
    /\ ob' = Now
    /\ UNCHANGED <<neg, subs, receipts, pending, usable>>

BeginDisconnect ==
    /\ conn \in {"CONNECTING", "CONNECTED"}
    /\ conn' = "DISCONNECTING"
    /\ ob' = Now
    /\ UNCHANGED <<neg, subs, receipts, pending, usable>>

\* check_session_replayable(): every exchange to resend is still allowed.
Replayable(n) ==
    \A i \in DOMAIN ob.rows :
        ob.rows[i].state \in ResendState /\ ob.rows[i].mid \notin ob.sealed
            => Sendable(ob.rows[i], n)

\* _on_connack, accepted.  The window, the queue and every exchange are
\* reconciled with what the broker kept before anything else is sent.
OnConnack(sessionPresent, n) ==
    /\ conn = "CONNECTING"
    /\ n.acksFit
    /\ sessionPresent => Replayable(n)
    /\ conn' = "CONNECTED" /\ neg' = n
    /\ ob' = IF sessionPresent
             THEN Drain(Replay(Now, n), n)
             ELSE Drain(FailViolating(ResetFlow(Purge(Now), n), n), n)
    /\ Settle(ob', receipts)
    /\ UNCHANGED <<subs, pending, usable>>

\* MandatoryResponseTooLargeError or SessionReplayError: a terminal local
\* failure of this connection, before any session state changed.
OnConnackUnusable(sessionPresent, n) ==
    /\ conn = "CONNECTING"
    /\ ~ n.acksFit \/ (sessionPresent /\ ~ Replayable(n))
    /\ conn' = "DISCONNECTED" /\ neg' = n
    /\ AbandonReceipts(Closed(Now))
    /\ subs' = {} /\ pending' = FALSE
    /\ UNCHANGED usable

OnPubrecUnanswerable(mid) ==
    /\ conn = "CONNECTED"
    /\ mid \notin Mids(ob.rows) /\ ~ neg.orphanFits
    /\ conn' = "DISCONNECTED"
    /\ AbandonReceipts(Closed(Now))
    /\ subs' = {} /\ pending' = FALSE
    /\ UNCHANGED <<neg, usable>>

\* The connection ends (transport loss, DISCONNECT from either side, refused
\* CONNACK) and a reconnect is expected: receipts stay open.
TransportClosed ==
    /\ conn \in {"CONNECTING", "CONNECTED", "DISCONNECTING"}
    /\ conn' = "DISCONNECTED"
    /\ ob' = Closed(Now)
    /\ subs' = {}
    /\ UNCHANGED <<neg, receipts, pending, usable>>

\* The connection, or the wait for one, is over for good for this client's
\* open receipts (intentional disconnect, no reconnect, connect() given up).
GiveUp ==
    /\ conn' = IF conn = "NEW" THEN "NEW" ELSE "DISCONNECTED"
    /\ AbandonReceipts(Closed(Now))
    /\ subs' = {} /\ pending' = FALSE
    /\ UNCHANGED <<neg, usable>>

\* complete_out fails while a terminal answer is handled: the outcome is
\* reported, the row stays, and the client is retired for good.
AnswerStoreFails(mid, ok) ==
    /\ conn = "CONNECTED"
    /\ usable' = FALSE
    /\ conn' = "DISCONNECTED"
    /\ LET s == Seal(Closed(Now), receipts \ {mid})
       IN  ob' = [s EXCEPT !.settled = Outcome(mid, ok)]
    /\ receipts' = {}
    /\ subs' = {} /\ pending' = FALSE
    /\ UNCHANGED neg

\* transition_out fails while a successful PUBREC is handled: nothing changed
\* and nothing is reported, and the client is retired for good.
PubrecStoreFails ==
    /\ conn = "CONNECTED"
    /\ usable' = FALSE
    /\ conn' = "DISCONNECTED"
    /\ AbandonReceipts(Closed(Now))
    /\ subs' = {} /\ pending' = FALSE
    /\ UNCHANGED neg

\* The process ends and a new client opens the same durable store, or a new
\* client of the same process is given the memory store.
Restart ==
    /\ ob' = Hydrate(ob.rows, ob.kept, ob.store)
    /\ conn' = "NEW"
    /\ subs' = {} /\ receipts' = {} /\ pending' = FALSE /\ usable' = TRUE
    /\ UNCHANGED neg

Next ==
    \/ \E m \in Message : QueuePublish(m) \/ QueuePublishFails(m)
    \/ Subscribe
    \/ \E mid \in Mid : SubscribeAck(mid) \/ OnPubrecUnanswerable(mid)
    \/ \E mid \in Mid, ok \in BOOLEAN :
        \/ OnPuback(mid, ok)
        \/ OnPubrec(mid, ok)
        \/ OnPubcomp(mid, ok)
        \/ AnswerStoreFails(mid, ok)
    \/ ConnectCalled
    \/ BeginConnect
    \/ BeginDisconnect
    \/ \E sessionPresent \in BOOLEAN, n \in Negotiation :
        OnConnack(sessionPresent, n) \/ OnConnackUnusable(sessionPresent, n)
    \/ TransportClosed
    \/ GiveUp
    \/ PubrecStoreFails
    \/ Restart

Spec == Init /\ [][Next]_vars

-----------------------------------------------------------------------------
(* Properties *)

Live == Drop(ob.rows, ob.sealed)
InFlight(s, mid) ==
    \E i \in DOMAIN s.rows : s.rows[i].mid = mid /\ s.rows[i].state # "QUEUED"

TypeOK ==
    /\ ob.rows \in Seq(Row) /\ ob.queued \in Seq(Row)
    /\ ob.kept \in [Mid -> Kept]
    /\ ob.store = "durable" => \A mid \in Mid : ob.kept[mid] = Unsent
    /\ ob.parked \subseteq Mid /\ ob.holders \subseteq Mid
    /\ ob.sealed \subseteq Mid /\ ob.sealedSent \subseteq ob.sealed
    /\ ob.used \subseteq Mid /\ subs \subseteq Mid /\ receipts \subseteq Mid
    /\ ob.limit \in Nat \ {0}
    /\ ob.messages \in Nat /\ ob.bytes \in Nat
    /\ conn \in {"NEW", "CONNECTING", "CONNECTED", "DISCONNECTING",
                 "DISCONNECTED"}
    /\ neg \in Negotiation /\ pending \in BOOLEAN /\ usable \in BOOLEAN

(***************************************************************************)
(* The unacknowledged budget is exact: it counts the rows this client      *)
(* still answers for, in messages and in bytes.  Every path that removes,  *)
(* seals, requeues or rolls back a publication must release exactly what   *)
(* its admission took, or publish() blocks for ever (or never).            *)
(***************************************************************************)
BudgetExact == ob.messages = Len(Live) /\ ob.bytes = Sizes(Live)

(***************************************************************************)
(* An identifier is in use exactly while a stored publication or a pending *)
(* SUBSCRIBE/UNSUBSCRIBE owns it, and only one owns it.  Three places      *)
(* reset the whole pool instead of releasing identifiers one by one.       *)
(***************************************************************************)
IdsExact ==
    /\ ob.used = Mids(ob.rows) \cup subs
    /\ Mids(ob.rows) \cap subs = {}
    /\ Cardinality(Mids(ob.rows)) = Len(ob.rows)

(***************************************************************************)
(* The rows a client failed terminally keep their identifiers for as long  *)
(* as it remembers them ("its identifier stays reserved so no later        *)
(* publication overwrites it", _delete_failed_admission).                  *)
(***************************************************************************)
SealedIdsReserved == ob.sealed \subseteq ob.used

(***************************************************************************)
(* Send quota: at most Receive Maximum slots, each owned by an exchange in *)
(* flight that this client did not seal and that is not parked waiting for *)
(* one.  Each slot a settled or sealed exchange kept would be lost for the *)
(* rest of the connection.                                                 *)
(***************************************************************************)
WindowOwned ==
    /\ Cardinality(ob.holders) <= ob.limit
    /\ ob.holders \subseteq Mids(In(Live, InFlightState)) \ ob.parked

(***************************************************************************)
(* The queue mirrors the store: every entry is still the row it was taken  *)
(* from (drain() sends the entry, not the row), once, none of them sealed  *)
(* or owning a slot (try_acquire would raise); the in-flight ones are the  *)
(* parked ones, and every row still to be sent for the first time is       *)
(* there.                                                                  *)
(***************************************************************************)
QueueMirrorsStore ==
    /\ Range(ob.queued) \subseteq Range(ob.rows)
    /\ Cardinality(Mids(ob.queued)) = Len(ob.queued)
    /\ Mids(ob.queued) \cap (ob.sealed \cup ob.holders) = {}
    /\ ob.parked = Mids(In(ob.queued, InFlightState))
    /\ Mids(In(Live, {"QUEUED"})) \subseteq Mids(ob.queued)

(***************************************************************************)
(* While connected, every publication this client answers for is being     *)
(* driven: it awaits an answer to a packet it sent on this connection, or  *)
(* it is queued behind a full window.  Otherwise nothing would ever send   *)
(* it, and a later publication could overtake it.                          *)
(***************************************************************************)
NothingStranded ==
    conn = "CONNECTED" =>
        /\ Mids(Live) \subseteq ob.holders \cup Mids(ob.queued)
                                \cup Mids(In(Live, {"WAIT_PUBCOMP"}))
        /\ ob.queued # <<>> => Cardinality(ob.holders) = ob.limit

(***************************************************************************)
(* Every open receipt has a publication behind it that the client still    *)
(* answers for, so whatever becomes of that publication settles it.        *)
(***************************************************************************)
ReceiptsBacked == receipts \subseteq Mids(Live)

(***************************************************************************)
(* A PUBLISH is handed to the writer only with its row durable in the      *)
(* state that awaits its answer, and only while it owns a slot: not for a  *)
(* sealed row, and not for an exchange whose PUBREC was already accepted.  *)
(***************************************************************************)
PublishesOwned ==
    \A i \in DOMAIN ob.sends : ob.sends[i].type = "PUBLISH" =>
        LET p == ob.sends[i] IN
        /\ p.mid \in ob.holders
        /\ \E r \in Range(Live) : /\ r.mid = p.mid /\ r.msg = p.msg
                                 /\ r.state \in ResendState

(***************************************************************************)
(* The send window and the queue behind it agree with the rows, with each  *)
(* other and with what is handed to the writer.                            *)
(***************************************************************************)
WindowExact == WindowOwned /\ QueueMirrorsStore /\ NothingStranded /\ PublishesOwned

(***************************************************************************)
(* The session's ledgers (budget, identifiers, receipts), its window and   *)
(* its queue agree with its durable rows on every path that admits,        *)
(* settles, seals, requeues, purges or hydrates a publication.             *)
(***************************************************************************)
SessionExact == TypeOK /\ BudgetExact /\ IdsExact /\ ReceiptsBacked /\ WindowExact

(***************************************************************************)
(* DUP is set on a PUBLISH exactly when the broker resumed a session and   *)
(* the row of the publication says that it was sent in it.  The flag and   *)
(* the frame that a stored message keeps from an earlier connection must   *)
(* not survive a lost session, after which the publication is new to the   *)
(* broker, in that connection or a later one.                              *)
(***************************************************************************)
DupIffResent ==
    [][\A i \in DOMAIN ob'.sends : ob'.sends[i].type = "PUBLISH" =>
        LET p == ob'.sends[i] IN
        p.dup <=> /\ InFlight(ob, p.mid)
                  /\ ~ \E n \in Negotiation : OnConnack(FALSE, n)]_vars

(***************************************************************************)
(* The identifier of an exchange in flight is freed only by the broker's   *)
(* answer to it, or when the broker says it has no session: a new          *)
(* negotiation, a parked retransmission or the end of a connection never   *)
(* frees an identifier the broker may still hold.                          *)
(***************************************************************************)
InFlightIdFreedByBroker ==
    [][\A mid \in Mid : InFlight(ob, mid) /\ mid \notin ob'.used =>
        \/ \E state \in InFlightState, ok \in BOOLEAN :
            Exchange(mid, state) /\ ob' = Answered(mid, state, ok)
        \/ \E n \in Negotiation : OnConnack(FALSE, n)]_vars

(***************************************************************************)
(* has_client_session_state(): "Whether the client has an outbound         *)
(* exchange the Server can resume."                                        *)
(***************************************************************************)
has_client_session_state == ob.holders # {} \/ ob.sealedSent # {}

SessionStateReported ==
    conn \in {"NEW", "DISCONNECTED"} =>
        (has_client_session_state <=> \E mid \in Mid : InFlight(ob, mid))
=============================================================================
