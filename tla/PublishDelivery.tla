--------------------------- MODULE PublishDelivery ---------------------------
(***************************************************************************)
(* OutboundSession composed with a conforming broker over a connection     *)
(* that can be lost at any moment.  The broker and the network are not     *)
(* part of the repository: they are modelled from the MQTT exchanges the   *)
(* client relies on.  Packets written on a connection arrive in order; the *)
(* broker may still read what was written before a loss, but the client    *)
(* sees none of its later answers.                                         *)
(*                                                                         *)
(* Each message is submitted at most once, so that the broker's count of   *)
(* deliveries says how often that one publication was delivered.           *)
(***************************************************************************)
EXTENDS OutboundSession

CONSTANT MaxFaults      \* bound on losses, give-ups, store failures, restarts

VARIABLES
    toBroker, toClient, \* the connection
    session,            \* the broker keeps a session for this client
    held,               \* QoS 2 identifiers the broker has received, unreleased
    unanswered,         \* QoS 2 PUBLISHes of this connection, PUBCOMP not sent
    seen,               \* messages the broker has received a PUBLISH of
    delivered,          \* deliveries of each message, saturating at 2
    submitted,          \* messages admitted, in order
    outcome,            \* what the application was told of each message
    faults

broker == <<session, held, unanswered, seen, delivered>>
net == <<toBroker, toClient, broker>>
all == <<vars, net, submitted, outcome, faults>>

MessageOf(mid) == RowOf(mid).msg

\* What the receipts settled by this step tell the application.
Told ==
    LET completed == {x.mid : x \in {y \in ob'.settled : y.ok}}
        closed == receipts \ receipts'
    IN  outcome' = [m \in Message |->
            IF \E mid \in closed \cap completed : MessageOf(mid) = m
            THEN "complete"
            ELSE IF \E mid \in closed : MessageOf(mid) = m
            THEN "failed" ELSE outcome[m]]

DeliveryInit ==
    /\ Init
    /\ toBroker = <<>> /\ toClient = <<>>
    /\ session = FALSE /\ held = {} /\ unanswered = {} /\ seen = {}
    /\ delivered = [m \in Message |-> 0]
    /\ submitted = <<>>
    /\ outcome = [m \in Message |-> "open"]
    /\ faults = 0

Submit(m) ==
    /\ m \notin Range(submitted)
    /\ QueuePublish(m)
    /\ submitted' = Append(submitted, m)
    /\ toBroker' = toBroker \o ob'.sends
    /\ UNCHANGED <<toClient, broker, outcome, faults>>

\* The reader handles the next packet of the connection.
Receive ==
    /\ toClient # <<>>
    /\ LET p == Head(toClient) IN
        \/ p.type = "PUBACK" /\ OnPuback(p.mid, p.ok)
        \/ p.type = "PUBREC" /\ OnPubrec(p.mid, p.ok)
        \/ p.type = "PUBCOMP" /\ OnPubcomp(p.mid, p.ok)
    /\ toClient' = Tail(toClient)
    /\ toBroker' = toBroker \o ob'.sends
    /\ Told
    /\ UNCHANGED <<broker, submitted, faults>>

\* The broker accepts the connection: the earlier one is gone, and Session
\* Present says whether the session is.
Accept ==
    /\ \E present \in BOOLEAN, n \in Negotiation :
        /\ present => session
        /\ OnConnack(present, n)
        /\ held' = IF present THEN held ELSE {}
    /\ session' = TRUE
    /\ toBroker' = ob'.sends /\ toClient' = <<>>
    /\ unanswered' = {}
    /\ Told
    /\ UNCHANGED <<seen, delivered, submitted, faults>>

\* The application calls connect(); the client opens a connection.
Call == ConnectCalled /\ UNCHANGED <<net, submitted, outcome, faults>>
Connect == BeginConnect /\ UNCHANGED <<net, submitted, outcome, faults>>

-----------------------------------------------------------------------------
(* The broker *)

Answer(p) == toClient' = IF conn = "CONNECTED" THEN Append(toClient, p) ELSE toClient

Count(m) == delivered' = [delivered EXCEPT ![m] = IF @ = 2 THEN 2 ELSE @ + 1]

BrokerPublishQos1(p, ok) ==
    /\ QosOf[p.msg] = 1
    /\ IF ok THEN Count(p.msg) ELSE UNCHANGED delivered
    /\ Answer([type |-> "PUBACK", mid |-> p.mid, ok |-> ok])
    /\ seen' = seen \cup {p.msg}
    /\ UNCHANGED <<held, unanswered>>

\* An identifier it holds is a duplicate of the PUBLISH it already has.
BrokerPublishQos2(p, ok) ==
    /\ QosOf[p.msg] = 2
    /\ p.mid \in held => ok
    /\ IF ok /\ p.mid \notin held THEN Count(p.msg) ELSE UNCHANGED delivered
    /\ held' = IF ok THEN held \cup {p.mid} ELSE held
    /\ Answer([type |-> "PUBREC", mid |-> p.mid, ok |-> ok])
    /\ unanswered' = IF ok THEN unanswered \cup {p.mid} ELSE unanswered
    /\ seen' = seen \cup {p.msg}

\* 0x92 is allowed for an identifier it does not hold.
BrokerPubrel(p, ok) ==
    /\ p.mid \in held => ok
    /\ held' = held \ {p.mid}
    /\ Answer([type |-> "PUBCOMP", mid |-> p.mid, ok |-> ok])
    /\ unanswered' = unanswered \ {p.mid}
    /\ UNCHANGED <<seen, delivered>>

BrokerReceive ==
    /\ toBroker # <<>>
    /\ toBroker' = Tail(toBroker)
    /\ \E ok \in BOOLEAN : LET p == Head(toBroker) IN
        \/ p.type = "PUBLISH" /\ BrokerPublishQos1(p, ok)
        \/ p.type = "PUBLISH" /\ BrokerPublishQos2(p, ok)
        \/ p.type = "PUBREL" /\ BrokerPubrel(p, ok)
    /\ UNCHANGED <<vars, session, submitted, outcome, faults>>

-----------------------------------------------------------------------------
(* Faults *)

Fault ==
    /\ faults < MaxFaults /\ faults' = faults + 1
    /\ toClient' = <<>>
    /\ UNCHANGED <<toBroker, broker, submitted>>

Lose == TransportClosed /\ Fault /\ UNCHANGED outcome
Stop == GiveUp /\ Fault /\ Told
Crash == Restart /\ Fault
         /\ outcome' = [m \in Message |-> IF outcome[m] = "open" THEN "lost"
                                          ELSE outcome[m]]

StoreFault ==
    /\ toClient # <<>>
    /\ LET p == Head(toClient) IN
        \/ p.type \in {"PUBACK", "PUBCOMP"} /\ AnswerStoreFails(p.mid, p.ok)
        \/ p.type = "PUBREC" /\ ~ p.ok /\ AnswerStoreFails(p.mid, p.ok)
        \/ p.type = "PUBREC" /\ p.ok /\ PubrecStoreFails
    /\ Fault
    /\ Told

DeliveryNext ==
    \/ \E m \in Message : Submit(m)
    \/ Receive
    \/ Call
    \/ Connect
    \/ Accept
    \/ BrokerReceive
    \/ Lose
    \/ Stop
    \/ Crash
    \/ StoreFault

CanReceive == conn = "CONNECTED" /\ toClient # <<>>
CanCall == conn \in {"NEW", "DISCONNECTED"} /\ usable /\ ~ pending
CanConnect == conn \in {"NEW", "DISCONNECTED"} /\ usable /\ pending
CanAccept == conn = "CONNECTING" /\ \E n \in Negotiation : n.acksFit

\* The reader task, the broker and the connect or reconnect loop keep running,
\* and the application calls connect() again on a client that gave up: weak
\* fairness of each action, with the condition that enables it written out.
Fairness ==
    /\ []<>(~ CanReceive) \/ []<><<Receive>>_all
    /\ []<>(toBroker = <<>>) \/ []<><<BrokerReceive>>_all
    /\ []<>(~ CanCall) \/ []<><<Call>>_all
    /\ []<>(~ CanConnect) \/ []<><<Connect>>_all
    /\ []<>(~ CanAccept) \/ []<><<Accept>>_all

DeliverySpec == DeliveryInit /\ [][DeliveryNext]_all /\ Fairness

-----------------------------------------------------------------------------
(* Properties *)

(***************************************************************************)
(* QoS 2 is never delivered twice: not through retransmission, parking,    *)
(* loss of either side's session, a store that fails on the final answer,  *)
(* a restart on the durable rows or the reuse of a packet identifier.      *)
(***************************************************************************)
Qos2AtMostOnce == \A m \in Message : QosOf[m] = 2 => delivered[m] <= 1

(***************************************************************************)
(* A receipt completes only for a publication the broker delivered: an     *)
(* answer never settles another publication that now uses its identifier,  *)
(* and the broker never mistakes a publication for one it holds.           *)
(***************************************************************************)
CompleteMeansDelivered ==
    \A m \in Message : outcome[m] = "complete" => delivered[m] > 0

(***************************************************************************)
(* The client never has more PUBLISHes on a connection than the broker's   *)
(* Receive Maximum, counted the way the broker counts: a QoS 2 exchange    *)
(* counts from its PUBLISH to the broker's PUBCOMP, and a resumed PUBREL   *)
(* does not count.                                                         *)
(***************************************************************************)
ReceiveMaximumRespected ==
    conn = "CONNECTED" =>
        LET publishes == SelectSeq(toBroker, LAMBDA p : p.type = "PUBLISH")
        IN  Cardinality(unanswered \cup Mids(publishes)) <= neg.receiveMaximum

(***************************************************************************)
(* Publications reach the broker in the order they were admitted: a later  *)
(* one is not seen before an earlier one that the client still holds and   *)
(* has not failed.                                                         *)
(***************************************************************************)
AdmissionOrder ==
    \A i, j \in DOMAIN submitted : i < j /\ submitted[j] \in seen =>
        \/ submitted[i] \in seen
        \/ outcome[submitted[i]] = "failed"
        \/ \A r \in Range(ob.rows) : r.msg # submitted[i]

(***************************************************************************)
(* Every receipt settles once connections stop failing, provided the       *)
(* broker answers and the reader and reconnect tasks run.                  *)
(***************************************************************************)
ReceiptsSettle == \A mid \in Mid : mid \in receipts ~> mid \notin receipts

(***************************************************************************)
(* At least once, across losses and restarts: an admitted QoS 1            *)
(* publication reaches the broker unless its failure was reported or the   *)
(* client was retired by a store failure.                                  *)
(***************************************************************************)
Qos1AtLeastOnce ==
    \A m \in Message : QosOf[m] = 1 =>
        (m \in Range(submitted) ~> m \in seen \/ outcome[m] = "failed" \/ ~ usable)
=============================================================================
