---------------------------- MODULE InboundSession ----------------------------
(***************************************************************************)
(* The inbound half of an MQTT session: class InboundSession of            *)
(* protocol/inbound.py with the durable rows of the InflightStore, and the *)
(* parts of ProtocolEngine, AsyncClient, EffectPump and DeliveryLane that  *)
(* drive it: the reader's ingress lot, the delivery lane, the mark that    *)
(* follows each handoff to the application, and manual acknowledgement.    *)
(*                                                                         *)
(* The session object is the record `ib`; each method is an operator from  *)
(* one value of it to the next.  The reader decodes a lot of packets under *)
(* the engine lock: `lot` counts the packets of the open one, and nothing  *)
(* else runs before Collect hands its effects over.  Deliveries then pass  *)
(* one by one through `lane`, and the reader decodes no further lot until  *)
(* the lane is empty; acknowledgements and losses happen in between.       *)
(*                                                                         *)
(* Abstractions.  A PUBLISH carries a member of Message, with its QoS and  *)
(* logical size; topics and aliases are left out.  The store is durable    *)
(* and its calls do not fail.  A replay page is bounded by its message     *)
(* count alone.  Deliveries that wait for iterator capacity stay at the    *)
(* head of the lane, without a deadline (IteratorDelivery has one).        *)
(***************************************************************************)
EXTENDS Integers, Sequences, FiniteSets, FiniteSetsExt, SequencesExt, SeqFolds

CONSTANTS
    Mid,              \* packet identifiers
    Message,          \* application messages the peer may publish
    QosOf, SizeOf,    \* their QoS and logical size
    ReceiveMaximum,   \* max_inbound_inflight, announced in CONNECT
    MaxInboundBytes,  \* max_inbound_inflight_bytes
    ReplayBatch,      \* REPLAY_BATCH_MESSAGES
    LotPackets,       \* packets decoded in one lot (256)
    Modes             \* the values of manual_ack a process may be started with

NoToken == 0
RowState == {"WAIT_PUBREL", "WAIT_PUBACK", "WAIT_USER_ACK"}
Row == [mid : Mid, msg : Message, state : RowState,
        delivered : BOOLEAN, acked : BOOLEAN]

ASSUME InboundAssumptions ==
    /\ IsFiniteSet(Mid) /\ IsFiniteSet(Message)
    /\ QosOf \in [Message -> 0..2]
    /\ SizeOf \in [Message -> Nat \ {0}]
    /\ ReceiveMaximum \in Nat \ {0} /\ MaxInboundBytes \in Nat
    /\ ReplayBatch \in Nat \ {0} /\ LotPackets \in Nat \ {0}
    /\ Modes \subseteq BOOLEAN

VARIABLES
    ib,         \* the InboundSession object, its store, its uncollected effects
    conn,       \* ProtocolEngine.state
    reader,     \* "none", "reading", or "failed": raises once the lane is empty
    lot,        \* packets decoded in the open lot
    lane,       \* DeliveryLane: what the reader has still to hand over
    handles,    \* delivered messages an application may still acknowledge
    manual,     \* config.manual_ack, fixed for the life of the process
    sent        \* packets handed to the writer by the last step

vars == <<ib, conn, reader, lot, lane, handles, manual, sent>>

-----------------------------------------------------------------------------
(* The object *)

Mids(s) == {s[i].mid : i \in DOMAIN s}
MidSeq(rows) == [i \in DOMAIN rows |-> rows[i].mid]
Drop(rows, M) == Only(rows, {r \in Row : r.mid \notin M})
Sizes(rows) == TotalSize([i \in DOMAIN rows |-> [size |-> SizeOf[rows[i].msg]]])
RowOf(s, mid) == CHOOSE r \in Range(s.rows) : r.mid = mid

\* The identifiers of the rows in WAIT_PUBACK, in insertion order.
PubackOrder(rows) ==
    Only(MidSeq(rows), {r.mid : r \in {q \in Range(rows) : q.state = "WAIT_PUBACK"}})

NoReplay == [mids |-> <<>>, remaining |-> -1]

\* __init__ with _load_recovered_state(): what a process finds in the store.
Hydrate(rows, manualAck) ==
    [rows |-> rows,                 \* store, in insertion order
     stored |-> Len(rows),          \* _stored_inbound
     bytes |-> Sizes(rows),         \* _pending_bytes
     recovered |-> Mids(rows),      \* _recovered_mids
     current |-> {},                \* _current_persisted_mids
     autoAcks |-> {},               \* _pending_auto_qos1_mids
     pubcomps |-> {},               \* _pending_pubcomps
     pubcompSlots |-> 0,            \* _pending_pubcomp_slots
     handoff |-> FALSE,             \* _autoack_handoff_required
     waiting |-> [mid \in Mid |-> "none"],      \* _pending_completions
     acks |-> {},                   \* _pending_manual_qos1_acks
     order |-> IF manualAck THEN PubackOrder(rows) ELSE <<>>,   \* _manual_qos1_order
     tokens |-> [mid \in Mid |-> NoToken],      \* _exchange_tokens
     replay |-> NoReplay,           \* _replay: identifiers left, rows expected
     refused |-> "none",            \* the error that ends the connection
     sends |-> <<>>,                \* SEND effects in the engine batch
     emits |-> <<>>]                \* delivery effects in the engine batch

\* _lookup_stored_inbound: the store is not probed when the count is zero.
Stored(s, mid) == s.stored > 0 /\ mid \in Mids(s.rows)
StoredAs(s, mid, S) == Stored(s, mid) /\ RowOf(s, mid).state \in S

Update(s, mid, row) ==
    [s EXCEPT !.rows = [i \in DOMAIN @ |-> IF @[i].mid = mid THEN row ELSE @[i]]]

\* Any exception here ends the connection: "0x.." through
\* _protocol_disconnect, "0x82*" a ProtocolError the runtime announces itself,
\* "internal" an assertion or RuntimeError of the session.
Refuse(s, why) == [s EXCEPT !.refused = why]
Refused(s) == s.refused # "none"

Send(s, type, mid) == [s EXCEPT !.sends = Append(@, [type |-> type, mid |-> mid])]

Delivery(mid, msg, token, mark) ==
    [kind |-> "MESSAGE", mid |-> mid, msg |-> msg, token |-> token, mark |-> mark]
ContinueReplay == [kind |-> "CONTINUE_INBOUND_REPLAY", token |-> NoToken]
LotEnd == [kind |-> "LOT_END", token |-> NoToken]

\* object(): an identity no live reference equals.
TokensAlive(s) ==
    {s.tokens[mid] : mid \in Mid} \cup {h.token : h \in handles}
        \cup {lane[i].token : i \in DOMAIN lane}
        \cup {s.emits[i].token : i \in DOMAIN s.emits}
FreshToken(s) == Min((1..Cardinality(TokensAlive(s)) + 1) \ TokensAlive(s))

\* _exchange_token
WithToken(s, mid) ==
    IF s.tokens[mid] = NoToken THEN [s EXCEPT !.tokens[mid] = FreshToken(s)] ELSE s

\* _emit_message, and the tail of the handlers that store a new row
Emit(s, row) ==
    LET t == WithToken(s, row.mid) IN
    [t EXCEPT !.emits = Append(@, Delivery(row.mid, row.msg, t.tokens[row.mid], TRUE))]

EmitUnmarked(s, mid, m) ==
    [s EXCEPT !.emits = Append(@, Delivery(mid, m, NoToken, FALSE))]

-----------------------------------------------------------------------------
(* Receive Maximum and the byte budget *)

Inflight(s) == Cardinality(s.current) + Cardinality(s.autoAcks) + s.pubcompSlots

\* _acquire_slot; size 0 reserves no bytes.
Acquire(s, size) ==
    IF Inflight(s) >= ReceiveMaximum THEN Refuse(s, "0x93")
    ELSE IF size > 0 /\ s.bytes + size > MaxInboundBytes THEN Refuse(s, "0x97")
    ELSE [s EXCEPT
            !.bytes = @ + size,
            !.handoff = @ \/ (/\ Inflight(s) + 1 >= ReceiveMaximum
                              /\ s.autoAcks \cup s.pubcomps # {})]

\* A persisted exchange observed again, possibly first on this connection.
AcquireCurrent(s, mid) ==
    LET a == Acquire(s, 0) IN
    IF mid \in s.current THEN s
    ELSE IF Refused(a) THEN a ELSE [a EXCEPT !.current = @ \cup {mid}]

ReleaseBytes(s, size) ==
    IF size > s.bytes THEN Refuse(s, "internal") ELSE [s EXCEPT !.bytes = @ - size]

\* _complete_stored_inbound, _forget_inbound, and the release of the bytes
\* that every caller adds to them
Retired(s, mid, expected) ==
    IF ~ StoredAs(s, mid, {expected}) THEN Refuse(s, "internal")
    ELSE [ReleaseBytes(s, SizeOf[RowOf(s, mid).msg]) EXCEPT
            !.rows = Drop(@, {mid}), !.stored = @ - 1,
            !.tokens[mid] = NoToken, !.waiting[mid] = "none"]

\* Variant: the slot of a finished QoS 1 exchange is not given back.
CompleteQos1KeepsSlot(s, mid) == Send(Retired(s, mid, "WAIT_PUBACK"), "PUBACK", mid)

\* _complete_qos1 with _release_persisted_slot
CompleteQos1(s, mid) ==
    Send([Retired(s, mid, "WAIT_PUBACK") EXCEPT !.current = @ \ {mid}], "PUBACK", mid)

\* Variant: the exchange is held, and still counted as current.
HeldTwice(s, mid) ==
    [s EXCEPT !.pubcomps = @ \cup {mid},
              !.pubcompSlots = IF mid \in s.current THEN @ + 1 ELSE @]

\* _hold_until_pubcomp_handoff
HoldUntilHandoff(s, mid) ==
    LET counted == mid \in s.current
        held == [s EXCEPT !.pubcomps = @ \cup {mid},
                          !.current = @ \ {mid},
                          !.pubcompSlots = IF counted THEN @ + 1 ELSE @]
    IN  [held EXCEPT !.handoff = @ \/ (counted /\ Inflight(held) >= ReceiveMaximum)]

\* _complete_qos2
CompleteQos2(s, mid, expected) ==
    HoldUntilHandoff(Send(Retired(s, mid, expected), "PUBCOMP", mid), mid)

\* take_effects() with release_pending_acks()
Taken(s) ==
    LET owned == s.autoAcks \cup s.pubcomps # {} IN
    [s EXCEPT !.sends = <<>>, !.emits = <<>>,
              !.autoAcks = {}, !.pubcomps = {},
              !.pubcompSlots = IF s.pubcomps # {} THEN 0 ELSE @,
              !.handoff = IF owned THEN FALSE ELSE @]

-----------------------------------------------------------------------------
(* PUBLISH and PUBREL *)

\* put_in and what follows it for a new persisted exchange
Begun(s, mid, m, state) ==
    LET row == [mid |-> mid, msg |-> m, state |-> state,
                delivered |-> FALSE, acked |-> FALSE]
        a == Acquire(s, SizeOf[m])
        b == [a EXCEPT !.rows = Append(@, row), !.stored = @ + 1,
                       !.current = @ \cup {mid}, !.tokens[mid] = FreshToken(s)]
    IN  IF Refused(a) THEN a
        ELSE IF state = "WAIT_PUBREL" THEN Emit(Send(b, "PUBREC", mid), row)
        ELSE Emit([b EXCEPT !.order = Append(@, mid)], row)

\* A QoS 2 PUBLISH for an identifier that owns a row.
RepeatedQos2(s, mid) ==
    LET a == AcquireCurrent(s, mid) IN
    IF StoredAs(s, mid, {"WAIT_PUBACK", "WAIT_USER_ACK"}) \/ s.waiting[mid] # "none"
    THEN Refuse(s, "0x82")
    ELSE IF Refused(a) THEN a ELSE Send(a, "PUBREC", mid)

OnQos2(s, mid, m) ==
    IF Stored(s, mid) THEN RepeatedQos2(s, mid)
    ELSE IF mid \in s.pubcomps \cup s.autoAcks THEN Refuse(s, "0x82")
    ELSE Begun(s, mid, m, "WAIT_PUBREL")

\* A fresh QoS 1 PUBLISH, or one repeated before its PUBACK left the batch.
AutoAcked(s, mid, m) ==
    LET again == mid \in s.autoAcks
        a == IF again THEN s ELSE Acquire(s, 0)
        full == ~ again /\ Inflight(s) + 1 >= ReceiveMaximum
    IN  IF Refused(a) THEN a
        ELSE [EmitUnmarked(Send(a, "PUBACK", mid), mid, m) EXCEPT
                !.autoAcks = @ \cup {mid}, !.handoff = @ \/ full]

\* _complete_recovered_qos1_auto
RecoveredQos1(s, mid) ==
    LET row == RowOf(s, mid)
        current == AcquireCurrent(s, mid)
        a == Acquire(s, 0)
        full == Inflight(s) + 1 >= ReceiveMaximum
    IN  IF s.waiting[mid] # "none" THEN s
        ELSE IF ~ row.delivered
        THEN IF Refused(current) THEN current
             ELSE [current EXCEPT !.waiting[mid] = "WAIT_PUBACK"]
        ELSE IF Refused(a) THEN a
        ELSE [Send(Retired(a, mid, "WAIT_PUBACK"), "PUBACK", mid) EXCEPT
                !.autoAcks = @ \cup {mid}, !.handoff = @ \/ full]

OnQos1Auto(s, mid, m) ==
    IF StoredAs(s, mid, {"WAIT_PUBACK"}) THEN RecoveredQos1(s, mid)
    ELSE IF Stored(s, mid) \/ mid \in s.pubcomps THEN Refuse(s, "0x82")
    ELSE AutoAcked(s, mid, m)

\* The prefix of _manual_qos1_order that may be acknowledged.
ReadyPrefix(s) ==
    LET ready == {n \in 0..Len(s.order) :
                    \A i \in 1..n : s.order[i] \in s.acks \cap s.current}
    IN  SubSeq(s.order, 1, Max(ready))

\* _drain_manual_qos1_acks
DrainAcks(s) ==
    LET prefix == ReadyPrefix(s)
        done[n \in 0..Len(prefix)] ==
            IF n = 0 THEN s ELSE CompleteQos1(done[n - 1], prefix[n])
    IN  IF \E mid \in Range(prefix) : ~ StoredAs(s, mid, {"WAIT_PUBACK"})
        THEN Refuse(s, "internal")
        ELSE [done[Len(prefix)] EXCEPT !.order = SubSeq(@, Len(prefix) + 1, Len(@)),
                                       !.acks = @ \ Range(prefix)]

\* A QoS 1 PUBLISH for an identifier that owns a row, in manual mode.
RepeatedQos1(s, mid) ==
    LET a == AcquireCurrent(s, mid) IN
    IF Refused(a) THEN a
    ELSE IF mid \in s.acks THEN DrainAcks(a) ELSE Emit(a, RowOf(s, mid))

OnQos1Manual(s, mid, m) ==
    IF StoredAs(s, mid, {"WAIT_PUBACK"}) THEN RepeatedQos1(s, mid)
    ELSE IF Stored(s, mid) \/ mid \in s.pubcomps THEN Refuse(s, "0x82")
    ELSE Begun(s, mid, m, "WAIT_PUBACK")

\* Variant: PUBREL completes a message the application was not given (#519).
ReleasedUndelivered(s, mid) ==
    LET row == RowOf(s, mid) IN
    IF row.state = "WAIT_PUBACK" THEN Refuse(s, "0x82*")
    ELSE IF row.state = "WAIT_USER_ACK" /\ manual THEN s
    ELSE IF row.state = "WAIT_PUBREL" /\ manual /\ ~ row.acked
    THEN Update(s, mid, [row EXCEPT !.state = "WAIT_USER_ACK"])
    ELSE CompleteQos2(s, mid, row.state)

\* on_pubrel for an identifier that owns a row
Released(s, mid) ==
    LET row == RowOf(s, mid) IN
    IF row.state = "WAIT_PUBACK" THEN Refuse(s, "0x82*")
    ELSE IF row.state = "WAIT_USER_ACK" /\ manual THEN s
    ELSE IF row.state = "WAIT_PUBREL" /\ manual /\ ~ row.acked
    THEN Update(s, mid, [row EXCEPT !.state = "WAIT_USER_ACK"])
    ELSE IF ~ row.delivered /\ ~ row.acked
    THEN [s EXCEPT !.waiting[mid] = row.state]
    ELSE CompleteQos2(s, mid, row.state)

OnPubrelled(s, mid) ==
    IF Stored(s, mid) THEN Released(s, mid) ELSE Send(s, "PUBCOMP", mid)

-----------------------------------------------------------------------------
(* Delivery marks, acknowledgement, replay, lifecycle *)

\* Variant: the mark is stored, the completion that waited for it is not run.
MarkedOnly(s, mid, token) ==
    IF s.tokens[mid] = token /\ Stored(s, mid)
    THEN Update(s, mid, [RowOf(s, mid) EXCEPT !.delivered = TRUE]) ELSE s

\* mark_delivered
Marked(s, mid, token) ==
    IF s.tokens[mid] # token THEN s
    ELSE IF s.waiting[mid] = "WAIT_PUBACK" THEN CompleteQos1(s, mid)
    ELSE IF s.waiting[mid] # "none" THEN CompleteQos2(s, mid, s.waiting[mid])
    ELSE IF Stored(s, mid)
    THEN Update(s, mid, [RowOf(s, mid) EXCEPT !.delivered = TRUE]) ELSE s

\* ack(): WAIT_PUBREL remembers it, WAIT_PUBACK waits for its turn.
Acked(s, mid) ==
    LET row == RowOf(s, mid) IN
    IF row.state = "WAIT_PUBREL" THEN Update(s, mid, [row EXCEPT !.acked = TRUE])
    ELSE IF row.state = "WAIT_PUBACK"
    THEN DrainAcks([s EXCEPT !.acks = @ \cup {mid}])
    ELSE CompleteQos2(s, mid, row.state)

\* Variants: only what an earlier process left is replayed; everything that is
\* not acknowledged is replayed.
RedeliverRecovered(s, row) ==
    row.mid \in s.recovered /\ (~ row.delivered \/ (manual /\ ~ row.acked))

RedeliverUnacked(s, row) == ~ row.delivered \/ (manual /\ ~ row.acked)

\* _should_redeliver
ShouldRedeliver(s, row) ==
    \/ ~ row.delivered
    \/ /\ row.mid \in s.recovered /\ manual
       /\ row.state = "WAIT_PUBREL" => ~ row.acked

\* in_replay_pages: the rows that the saved identifiers i+1..i+ReplayBatch
\* still own when the page is read.
Page(s, i) ==
    LET mids == SubSeq(s.replay.mids, i + 1,
                       Min({i + ReplayBatch, Len(s.replay.mids)}))
        live == Only(mids, Mids(s.rows))
    IN  [j \in DOMAIN live |-> RowOf(s, live[j])]

\* Where the next page that still has a row starts; pages without one are
\* skipped.
NextPages(s) ==
    {i \in 0..Len(s.replay.mids) : i % ReplayBatch = 0 /\ Page(s, i) # <<>>}

ReplayEnded(s) == [s EXCEPT !.replay = NoReplay, !.recovered = {}]

EmitAll(s, rows) ==
    LET told[n \in 0..Len(rows)] == IF n = 0 THEN s ELSE Emit(told[n - 1], rows[n])
    IN  told[Len(rows)]

\* drain_replay
DrainReplay(s) ==
    IF s.replay = NoReplay THEN s
    ELSE IF NextPages(s) = {} THEN ReplayEnded(s)
    ELSE LET i == Min(NextPages(s))
             page == Page(s, i)
             left == s.replay.remaining - Len(page)
             told == EmitAll(s, Only(page, {row \in Range(page) : ShouldRedeliver(s, row)}))
         IN  IF left = 0 THEN ReplayEnded(told)
             ELSE [told EXCEPT
                    !.replay = [mids |-> SubSeq(@.mids, i + ReplayBatch + 1, Len(@.mids)),
                                remaining |-> left],
                    !.emits = Append(@, ContinueReplay)]

\* replay_session
ReplaySession(s) ==
    IF s.rows = <<>> THEN [s EXCEPT !.current = {}, !.recovered = {}]
    ELSE DrainReplay([s EXCEPT
            !.current = {},
            !.replay = [mids |-> MidSeq(s.rows),
                        remaining |-> Len(s.rows)]])

\* discard_session
DiscardSession(s) ==
    [Hydrate(<<>>, manual) EXCEPT !.sends = s.sends, !.emits = s.emits]

\* start_connection; _pending_completions is left alone
StartConnection(s) ==
    [s EXCEPT !.current = {}, !.autoAcks = {}, !.pubcomps = {}, !.pubcompSlots = 0,
              !.handoff = FALSE, !.acks = {}, !.replay = NoReplay]

\* transport_closed with release_pending_acks; the effects it left are
\* collected under an epoch that no longer writes.
Closed(s) ==
    [s EXCEPT !.current = {}, !.waiting = [mid \in Mid |-> "none"], !.acks = {},
              !.autoAcks = {}, !.pubcomps = {}, !.pubcompSlots = 0,
              !.handoff = FALSE, !.replay = NoReplay, !.refused = "none",
              !.sends = <<>>, !.emits = <<>>]

-----------------------------------------------------------------------------
(* The reader's lot *)

Init ==
    /\ manual \in Modes
    /\ ib = Hydrate(<<>>, manual)
    /\ conn = "DISCONNECTED" /\ reader = "none" /\ lot = 0
    /\ lane = <<>> /\ handles = {} /\ sent = <<>>

\* The lot goes on: no limit of it is reached, and what the last one
\* delivered has been handed over.
Reading ==
    /\ reader = "reading" /\ lane = <<>>
    /\ lot < LotPackets /\ ~ ib.handoff

\* One packet handled.  A refused one ends the lot; the reader raises its
\* error once the packets before it have been collected and delivered.
Handled(s) ==
    /\ Reading
    /\ ib' = s
    /\ lot' = lot + 1
    /\ reader' = IF Refused(s) THEN "failed" ELSE reader
    /\ sent' = <<>>
    /\ UNCHANGED <<lane, handles, manual>>

StillConnected(s) == IF s.refused \in {"none", "0x82*"} THEN conn ELSE "DISCONNECTED"

OnPublishQos0(m) ==
    /\ conn = "CONNECTED" /\ QosOf[m] = 0
    /\ Handled([ib EXCEPT !.emits = Append(@, Delivery(0, m, NoToken, FALSE))])
    /\ UNCHANGED conn

OnPublishQos1(mid, m) ==
    LET s == IF manual THEN OnQos1Manual(ib, mid, m) ELSE OnQos1Auto(ib, mid, m) IN
    /\ conn = "CONNECTED" /\ QosOf[m] = 1
    /\ Handled(s)
    /\ conn' = StillConnected(s)

OnPublishQos2(mid, m) ==
    LET s == OnQos2(ib, mid, m) IN
    /\ conn = "CONNECTED" /\ QosOf[m] = 2
    /\ Handled(s)
    /\ conn' = StillConnected(s)

OnPubrel(mid) ==
    LET s == OnPubrelled(ib, mid) IN
    /\ conn = "CONNECTED"
    /\ Handled(s)
    /\ conn' = StillConnected(s)

OnConnack(sessionPresent) ==
    /\ conn = "CONNECTING"
    /\ Handled(IF sessionPresent THEN ReplaySession(ib) ELSE DiscardSession(ib))
    /\ conn' = "CONNECTED"

\* The end of the lot: acknowledgements go to the writer, deliveries to the
\* lane.
Collect ==
    /\ lot > 0
    /\ ib' = Taken(ib)
    /\ sent' = ib.sends
    /\ lane' = IF ib.emits = <<>> THEN <<>> ELSE Append(ib.emits, LotEnd)
    /\ lot' = 0
    /\ UNCHANGED <<conn, reader, handles, manual>>

-----------------------------------------------------------------------------
(* The delivery lane and the application *)

Draining == lane # <<>> /\ reader # "none" /\ lot = 0

Stale(h) == ib.tokens[h.mid] # h.token

\* The application keeps what it may still acknowledge, and perhaps one
\* handle that is no longer good for anything.
Keeps(new) ==
    \E kept \in SUBSET {h \in handles : Stale(h)} :
        /\ Cardinality(kept) <= 1
        /\ handles' = {h \in handles : ~ Stale(h)} \cup kept \cup new

\* _apply_delivery_effect for a message that needs a mark: the handoff and
\* the mark are one step.
DeliverMarked ==
    /\ Draining
    /\ Head(lane).kind = "MESSAGE" /\ Head(lane).mark
    /\ LET d == Head(lane) IN
        /\ ib' = Marked(ib, d.mid, d.token)
        /\ IF manual THEN Keeps({[mid |-> d.mid, token |-> d.token, msg |-> d.msg]})
           ELSE UNCHANGED handles
    /\ lane' = Tail(lane)
    /\ sent' = <<>>
    /\ UNCHANGED <<conn, reader, lot, manual>>

DeliverUnmarked ==
    /\ Draining
    /\ Head(lane).kind = "MESSAGE" /\ ~ Head(lane).mark
    /\ lane' = Tail(lane)
    /\ sent' = <<>>
    /\ UNCHANGED <<ib, conn, reader, lot, handles, manual>>

\* _continue_inbound_replay
Continue ==
    LET s == DrainReplay(ib) IN
    /\ Draining
    /\ Head(lane) = ContinueReplay
    /\ ib' = Taken(s)
    /\ sent' = s.sends
    /\ lane' = Tail(lane) \o (IF s.emits = <<>> THEN <<>> ELSE Append(s.emits, LotEnd))
    /\ UNCHANGED <<conn, reader, lot, handles, manual>>

\* _flush_released_completions
FlushCompletions ==
    /\ Draining
    /\ Head(lane) = LotEnd
    /\ ib' = Taken(ib)
    /\ sent' = ib.sends
    /\ lane' = Tail(lane)
    /\ UNCHANGED <<conn, reader, lot, handles, manual>>

\* Variant: any handle settles whatever exchange uses its identifier now.
CanAckAny(h) == TRUE

\* AsyncClient.ack for a delivered message.  A handle of an exchange that is
\* no longer active is refused, and nothing changes.
CanAck(h) == ib.tokens[h.mid] = h.token

Ack(h) ==
    LET s == Acked(ib, h.mid) IN
    /\ conn = "CONNECTED" /\ manual /\ lot = 0
    /\ h \in handles /\ CanAck(h) /\ Stored(ib, h.mid)
    /\ ib' = Taken(s)
    /\ sent' = s.sends
    /\ UNCHANGED <<conn, reader, lot, lane, handles, manual>>

-----------------------------------------------------------------------------
(* Connections and processes *)

BeginConnect ==
    /\ conn = "DISCONNECTED" /\ reader = "none"
    /\ conn' = "CONNECTING" /\ reader' = "reading"
    /\ ib' = StartConnection(ib)
    /\ sent' = <<>>
    /\ UNCHANGED <<lot, lane, handles, manual>>

\* Already acknowledged, or never to be: these reach the application although
\* their connection is gone (survives_connection, take_carryover).
Survivors == SelectSeq(lane, LAMBDA d : d.kind = "MESSAGE" /\ ~ d.mark)

\* _retire_reader_connection, whatever ended the reader.
Retire ==
    /\ reader # "none" /\ lot = 0
    /\ ib' = Closed(ib)
    /\ conn' = "DISCONNECTED" /\ reader' = "none"
    /\ lane' = <<>>
    /\ sent' = <<>>
    /\ UNCHANGED <<lot, handles, manual>>

\* The process ends between two lots (a lot is one store transaction), and a
\* new one opens the same store.
Restart ==
    /\ lot = 0
    /\ manual' \in Modes
    /\ ib' = Hydrate(ib.rows, manual')
    /\ conn' = "DISCONNECTED" /\ reader' = "none"
    /\ lane' = <<>> /\ handles' = {} /\ sent' = <<>>
    /\ UNCHANGED lot

Next ==
    \/ \E m \in Message : OnPublishQos0(m)
    \/ \E mid \in Mid, m \in Message : OnPublishQos1(mid, m) \/ OnPublishQos2(mid, m)
    \/ \E mid \in Mid : OnPubrel(mid)
    \/ \E sessionPresent \in BOOLEAN : OnConnack(sessionPresent)
    \/ Collect
    \/ DeliverMarked
    \/ DeliverUnmarked
    \/ Continue
    \/ FlushCompletions
    \/ \E h \in handles : Ack(h)
    \/ BeginConnect
    \/ Retire
    \/ Restart

Spec == Init /\ [][Next]_vars

-----------------------------------------------------------------------------
(* Properties *)

TypeOK ==
    /\ ib.rows \in Seq(Row) /\ ib.stored \in Nat /\ ib.bytes \in Nat
    /\ ib.recovered \subseteq Mid /\ ib.current \subseteq Mid
    /\ ib.autoAcks \subseteq Mid /\ ib.pubcomps \subseteq Mid
    /\ ib.waiting \in [Mid -> RowState \cup {"none"}] /\ ib.acks \subseteq Mid
    /\ ib.order \in Seq(Mid) /\ ib.tokens \in [Mid -> Nat]
    /\ ib.handoff \in BOOLEAN /\ ib.pubcompSlots \in Nat
    /\ ib.refused \in {"none", "0x82", "0x82*", "0x93", "0x97", "internal"}
    /\ conn \in {"DISCONNECTED", "CONNECTING", "CONNECTED"}
    /\ reader \in {"none", "reading", "failed"}
    /\ lot \in 0..LotPackets /\ manual \in BOOLEAN

(***************************************************************************)
(* No input of a peer, and no order of acknowledgements, losses and        *)
(* restarts, makes the session contradict itself: the count that lets it   *)
(* skip the store, the byte reservation and the order of manual            *)
(* acknowledgements agree with the rows, so the assertions and "changed    *)
(* while ..." errors of inbound.py are never raised.                       *)
(***************************************************************************)
LedgerExact ==
    /\ ib.refused # "internal"
    /\ ib.stored = Len(ib.rows) /\ ib.bytes = Sizes(ib.rows)
    /\ Cardinality(Mids(ib.rows)) = Len(ib.rows)

(***************************************************************************)
(* In manual mode the acknowledgement order is the order in which the      *)
(* stored QoS 1 messages arrived, across losses, replays and restarts, and *)
(* nothing that may be acknowledged is left waiting at its head.           *)
(***************************************************************************)
AckOrderExact ==
    manual =>
        /\ ib.order = PubackOrder(ib.rows)
        /\ ib.acks \subseteq Range(ib.order)
        /\ ReadyPrefix(ib) = <<>>

(***************************************************************************)
(* Receive Maximum slots: each belongs to a stored exchange seen on this   *)
(* connection or to an acknowledgement still in the engine batch, never to *)
(* both; none outlives the batch or the connection; never more than the    *)
(* client announced.                                                       *)
(***************************************************************************)
SlotsOwned ==
    /\ Inflight(ib) <= ReceiveMaximum
    /\ ib.current \subseteq Mids(ib.rows)
    /\ (ib.autoAcks \cup ib.pubcomps) \cap Mids(ib.rows) = {}
    /\ ib.autoAcks \cap ib.pubcomps = {}
    /\ ib.pubcompSlots <= Cardinality(ib.pubcomps)
    /\ ib.handoff => ib.autoAcks \cup ib.pubcomps # {}
    /\ conn = "CONNECTED" /\ lot = 0 /\ lane = <<>> => ib.autoAcks \cup ib.pubcomps = {}
    /\ reader = "none" => Inflight(ib) = 0

\* A delivery of the exchange that owns `mid` is still to come: in the engine
\* batch, in the lane, or in the rest of the replay.
EnRoute(mid) ==
    \/ \E d \in Range(lane) \cup Range(ib.emits) :
        d.kind = "MESSAGE" /\ d.mark /\ d.mid = mid /\ d.token = ib.tokens[mid]
    \/ mid \in Range(ib.replay.mids)

(***************************************************************************)
(* While connected, every stored message the application does not own is   *)
(* on its way to it: the completions that wait for a delivery mark are     *)
(* waiting for something that will happen, and the next replay page is     *)
(* always announced in the lane.                                           *)
(***************************************************************************)
UndeliveredEnRoute ==
    conn = "CONNECTED" =>
        /\ \A r \in Range(ib.rows) : ~ r.delivered => EnRoute(r.mid)
        /\ \A mid \in Mid : ib.waiting[mid] # "none" =>
            mid \in Mids(ib.rows) /\ ~ RowOf(ib, mid).delivered
        /\ ib.replay # NoReplay =>
            ContinueReplay \in Range(lane) \cup Range(ib.emits)

(***************************************************************************)
(* "Duplicate PUBLISH and PUBREL packets repeat the required protocol      *)
(* response but never redeliver application data": at most one delivery of *)
(* a QoS 2 exchange is ever on its way, and none once the application owns *)
(* it, unless a process with manual acknowledgement recovered it.          *)
(***************************************************************************)
OneQos2Delivery ==
    LET all == ib.emits \o lane
        of(mid) == {i \in DOMAIN all : /\ all[i].kind = "MESSAGE" /\ all[i].mark
                                      /\ all[i].mid = mid
                                      /\ all[i].token = ib.tokens[mid]}
    IN  \A r \in Range(ib.rows) : QosOf[r.msg] = 2 =>
            /\ Cardinality(of(r.mid)) <= 1
            /\ r.delivered /\ ~ manual => of(r.mid) = {}

(***************************************************************************)
(* The counts, bytes, acknowledgement order and receive slots of the       *)
(* session agree with its durable rows.                                    *)
(***************************************************************************)
SessionExact == TypeOK /\ LedgerExact /\ AckOrderExact /\ SlotsOwned

(***************************************************************************)
(* Deliveries on their way: what the application lacks, and nothing twice. *)
(***************************************************************************)
DeliveryExact == UndeliveredEnRoute /\ OneQos2Delivery

(***************************************************************************)
(* "A QoS 2 or manually acknowledged delivery that was not handed over     *)
(* stays with session state, which redelivers it on a resumed session"     *)
(* (docs/reference/async-client.md): while connected, the application of a *)
(* process with manual acknowledgement has, or is about to be given, a     *)
(* handle for every QoS 2 message it has not acknowledged.                 *)
(***************************************************************************)
UnackedQos2Reachable ==
    conn = "CONNECTED" /\ manual =>
        \A r \in Range(ib.rows) : QosOf[r.msg] = 2 /\ ~ r.acked =>
            \/ EnRoute(r.mid)
            \/ \E h \in handles : h.mid = r.mid /\ h.token = ib.tokens[r.mid]
=============================================================================
