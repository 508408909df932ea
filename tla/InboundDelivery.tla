---------------------------- MODULE InboundDelivery ----------------------------
(***************************************************************************)
(* InboundSession composed with a conforming broker that publishes to it   *)
(* over a connection that can be lost at any moment, and with the          *)
(* application.  The broker and the network are not part of the            *)
(* repository: they are modelled from the MQTT exchanges the client relies *)
(* on.  The broker sends each message of Outbox once, in order, under a    *)
(* free identifier and within the Receive Maximum the client announced; on *)
(* a resumed session it first resends every unanswered PUBLISH and PUBREL. *)
(* It ignores an acknowledgement of nothing it awaits, and does not keep   *)
(* a new session whose CONNACK the client never read (the next CONNACK     *)
(* would say Session Present for a session the client knows nothing of).   *)
(***************************************************************************)
EXTENDS InboundSession

CONSTANTS
    Outbox,     \* the messages the broker publishes, in order
    MaxFaults   \* bound on lost connections, lost sessions and restarts

VARIABLES
    toBroker, toClient,     \* the connection
    outbox,                 \* messages still to be published
    inflight,               \* the broker's unfinished exchanges, in order
    charged,                \* identifiers counted against Receive Maximum
    session,                \* the broker keeps a session for this client
    completed,              \* messages whose exchange the broker finished
    reordered,              \* a PUBACK of this connection overtook another
    given,                  \* handoffs of each message to this process's
                            \* application, saturating at 2
    owned,                  \* messages some process's application was given
    acknowledged,           \* messages some process's application acknowledged
    reopened,               \* messages found in the store by this process
    forfeited,              \* acknowledged messages a process ended with
    faults

broker == <<outbox, inflight, charged, session, completed, reordered>>
app == <<given, owned, acknowledged, reopened, forfeited>>
all == <<vars, toBroker, toClient, broker, app, faults>>

DeliveryInit ==
    /\ Init
    /\ toBroker = <<>> /\ toClient = <<>>
    /\ outbox = Outbox /\ inflight = <<>> /\ charged = {} /\ session = FALSE
    /\ completed = {} /\ reordered = FALSE
    /\ given = [m \in Message |-> 0] /\ owned = {} /\ acknowledged = {}
    /\ reopened = {} /\ forfeited = {} /\ faults = 0

\* What the client hands to its writer travels in order while connected.
Written == toBroker' = toBroker \o sent'

-----------------------------------------------------------------------------
(* The client *)

Receive ==
    /\ toClient # <<>>
    /\ LET p == Head(toClient) IN
        \/ p.type = "CONNACK" /\ OnConnack(p.present)
        \/ p.type = "PUBLISH" /\ OnPublishQos0(p.msg)
        \/ p.type = "PUBLISH" /\ OnPublishQos1(p.mid, p.msg)
        \/ p.type = "PUBLISH" /\ OnPublishQos2(p.mid, p.msg)
        \/ p.type = "PUBREL" /\ OnPubrel(p.mid)
    /\ toClient' = Tail(toClient)
    /\ session' = TRUE
    /\ UNCHANGED <<toBroker, outbox, inflight, charged, completed, reordered, app, faults>>

EndLot == Collect /\ Written /\ UNCHANGED <<toClient, broker, app, faults>>

Given(g, d) == [g EXCEPT ![d.msg] = IF @ = 2 THEN 2 ELSE @ + 1]

Handoff ==
    /\ DeliverMarked \/ DeliverUnmarked
    /\ given' = Given(given, Head(lane))
    /\ owned' = owned \cup {Head(lane).msg}
    /\ UNCHANGED <<toBroker, toClient, broker, acknowledged, reopened, forfeited, faults>>

AfterHandoff ==
    /\ Continue \/ FlushCompletions
    /\ Written
    /\ UNCHANGED <<toClient, broker, app, faults>>

Acknowledge(h) ==
    /\ Ack(h)
    /\ Written
    /\ acknowledged' = acknowledged \cup {h.msg}
    /\ UNCHANGED <<toClient, broker, given, owned, reopened, forfeited, faults>>

Connect ==
    /\ BeginConnect
    /\ UNCHANGED <<toBroker, toClient, broker, app, faults>>

-----------------------------------------------------------------------------
(* The broker *)

PublishPacket(e) == [type |-> "PUBLISH", mid |-> e.mid, msg |-> e.msg]
PubrelPacket(e) == [type |-> "PUBREL", mid |-> e.mid]
Resent(e) == IF e.released THEN PubrelPacket(e) ELSE PublishPacket(e)
Unreleased(s) == SelectSeq(s, LAMBDA e : ~ e.released)

\* The broker takes the CONNECT: the earlier connection is gone.
Accept ==
    /\ conn = "CONNECTING" /\ toClient = <<>> /\ lot = 0
    /\ \E present \in BOOLEAN :
        /\ present => session
        /\ session /\ ~ present => faults < MaxFaults
        /\ faults' = IF session /\ ~ present THEN faults + 1 ELSE faults
        /\ inflight' = IF present THEN inflight ELSE <<>>
        /\ toClient' = <<[type |-> "CONNACK", present |-> present]>>
                        \o [i \in DOMAIN inflight' |-> Resent(inflight'[i])]
        /\ session' = present
    /\ charged' = Mids(Unreleased(inflight'))
    /\ reordered' = FALSE
    /\ toBroker' = <<>>
    /\ UNCHANGED <<vars, outbox, completed, app>>

Delivering == conn = "CONNECTED" \/ (conn = "CONNECTING" /\ toClient # <<>>)

BrokerPublish ==
    /\ Delivering /\ outbox # <<>>
    /\ LET m == Head(outbox) IN
        IF QosOf[m] = 0
        THEN /\ toClient' = Append(toClient, [type |-> "PUBLISH", mid |-> 0, msg |-> m])
             /\ UNCHANGED <<inflight, charged>>
        ELSE /\ Cardinality(charged) < ReceiveMaximum
             /\ \E mid \in Mid \ Mids(inflight) :
                LET e == [mid |-> mid, msg |-> m, released |-> FALSE] IN
                /\ inflight' = Append(inflight, e)
                /\ charged' = charged \cup {mid}
                /\ toClient' = Append(toClient, PublishPacket(e))
    /\ outbox' = Tail(outbox)
    /\ UNCHANGED <<vars, toBroker, session, completed, reordered, app, faults>>

\* The exchange that an acknowledgement answers, if the broker awaits it.
Awaits(e, p) ==
    /\ e.mid = p.mid
    /\ \/ p.type = "PUBACK" /\ QosOf[e.msg] = 1
       \/ p.type = "PUBREC" /\ QosOf[e.msg] = 2 /\ ~ e.released
       \/ p.type = "PUBCOMP" /\ e.released

BrokerFinishes(p) ==
    \E i \in DOMAIN inflight :
        /\ p.type \in {"PUBACK", "PUBCOMP"} /\ Awaits(inflight[i], p)
        /\ inflight' = RemoveAt(inflight, i)
        /\ charged' = charged \ {p.mid}
        /\ completed' = completed \cup {inflight[i].msg}
        /\ reordered' = (reordered \/ (/\ p.type = "PUBACK"
                                       /\ \E j \in 1..(i - 1) : QosOf[inflight[j].msg] = 1))
        /\ UNCHANGED toClient

BrokerReleases(p) ==
    \E i \in DOMAIN inflight :
        /\ p.type = "PUBREC" /\ Awaits(inflight[i], p)
        /\ inflight' = [inflight EXCEPT ![i].released = TRUE]
        /\ toClient' = IF Delivering THEN Append(toClient, PubrelPacket(inflight[i]))
                       ELSE toClient
        /\ UNCHANGED <<charged, completed, reordered>>

BrokerIgnores(p) ==
    /\ \A e \in Range(inflight) : ~ Awaits(e, p)
    /\ UNCHANGED <<toClient, inflight, charged, completed, reordered>>

BrokerReceive ==
    /\ toBroker # <<>>
    /\ toBroker' = Tail(toBroker)
    /\ LET p == Head(toBroker) IN
        BrokerFinishes(p) \/ BrokerReleases(p) \/ BrokerIgnores(p)
    /\ UNCHANGED <<vars, outbox, session, app, faults>>

-----------------------------------------------------------------------------
(* Faults *)

Fault ==
    /\ faults < MaxFaults /\ faults' = faults + 1
    /\ toClient' = <<>>
    /\ UNCHANGED <<toBroker, broker, acknowledged>>

\* What survives the connection is handed over with it.
Lose ==
    /\ Retire /\ Fault
    /\ given' = FoldLeft(Given, given, Survivors)
    /\ owned' = owned \cup {d.msg : d \in Range(Survivors)}
    /\ UNCHANGED <<reopened, forfeited>>

Crash ==
    /\ Restart /\ Fault
    /\ given' = [m \in Message |-> 0]
    /\ reopened' = {r.msg : r \in Range(ib.rows)}
    /\ forfeited' = forfeited \cup {d.msg : d \in Range(Survivors)}
    /\ UNCHANGED owned

DeliveryNext ==
    \/ Receive
    \/ EndLot
    \/ Handoff
    \/ AfterHandoff
    \/ \E h \in handles : Acknowledge(h)
    \/ Connect
    \/ Accept
    \/ BrokerPublish
    \/ BrokerReceive
    \/ Lose
    \/ Crash

CanReceive == toClient # <<>> /\ Reading /\ conn # "DISCONNECTED"
CanConnect == conn = "DISCONNECTED" /\ reader = "none"
CanAccept == conn = "CONNECTING" /\ toClient = <<>> /\ lot = 0
CanPublish ==
    /\ Delivering /\ outbox # <<>>
    /\ QosOf[Head(outbox)] = 0 \/ (/\ Cardinality(charged) < ReceiveMaximum
                                   /\ Mid # Mids(inflight))
CanAcknowledge(m) ==
    /\ conn = "CONNECTED" /\ manual /\ lot = 0
    /\ \E h \in handles : /\ h.msg = m /\ CanAck(h) /\ Stored(ib, h.mid)
                         /\ Acked(ib, h.mid) # ib

\* The reader, the broker and the reconnect loop keep running, and the
\* application takes what it is given and acknowledges it: weak fairness of
\* each action, with the condition that enables it written out.
Fairness ==
    /\ []<>(~ CanReceive) \/ []<><<Receive>>_all
    /\ []<>(lot = 0) \/ []<><<EndLot>>_all
    /\ []<>(~ Draining) \/ []<><<Handoff \/ AfterHandoff>>_all
    /\ []<>(~ CanConnect) \/ []<><<Connect>>_all
    /\ []<>(~ CanAccept) \/ []<><<Accept>>_all
    /\ []<>(~ CanPublish) \/ []<><<BrokerPublish>>_all
    /\ []<>(toBroker = <<>>) \/ []<><<BrokerReceive>>_all
    /\ \A m \in Message :
        []<>(~ CanAcknowledge(m))
            \/ []<><<\E h \in handles : h.msg = m /\ Acknowledge(h)>>_all

DeliverySpec == DeliveryInit /\ [][DeliveryNext]_all /\ Fairness

-----------------------------------------------------------------------------
(* Properties *)

(***************************************************************************)
(* A broker that keeps to the protocol is never refused: not for exceeding *)
(* Receive Maximum (0x93) while acknowledgements it is owed are still in   *)
(* the engine batch, and not for reusing an identifier (0x82) of an        *)
(* exchange it has seen completed, whatever the lots, the pace of the      *)
(* application, the losses and the restarts.                               *)
(***************************************************************************)
ConformingBrokerAccepted == ib.refused \in {"none", "0x97"}

(***************************************************************************)
(* QoS 2: a process hands a message to its application at most once,       *)
(* except one recovered from an earlier process that manual                *)
(* acknowledgement redelivers.                                             *)
(***************************************************************************)
Qos2GivenOnce ==
    \A m \in Message : QosOf[m] = 2 => given[m] <= 1 \/ (manual /\ m \in reopened)

(***************************************************************************)
(* The broker finishes an exchange only when the application owns its      *)
(* message.  An automatic PUBACK may precede the handoff by one lot, which *)
(* survives the loss of the connection: only the end of the process        *)
(* forfeits it.                                                            *)
(***************************************************************************)
CompletedIsOwned ==
    \A m \in completed :
        \/ m \in owned
        \/ /\ QosOf[m] = 1
           /\ m \in forfeited \cup {d.msg : d \in Range(Survivors)}

(***************************************************************************)
(* A stored exchange is retired on a live session only after the           *)
(* application owns that very message, and in manual mode only after it    *)
(* acknowledged that very message: a handle of an exchange that ended      *)
(* never settles the one that now uses its identifier.                     *)
(***************************************************************************)
RetiredByOwner ==
    [][\A r \in Range(ib.rows) : conn = "CONNECTED" /\ r.mid \notin Mids(ib'.rows) =>
        IF manual THEN r.msg \in acknowledged' ELSE r.msg \in owned']_all

(***************************************************************************)
(* "A manual QoS 1 PUBACK leaves in PUBLISH arrival order and only for a   *)
(* PUBLISH observed on the current connection" (implementation-guide.md):  *)
(* in manual mode the PUBACKs of a connection reach the broker in the      *)
(* order in which it sent the PUBLISHes.                                   *)
(***************************************************************************)
ManualPubackOrder == manual /\ conn = "CONNECTED" => ~ reordered

(***************************************************************************)
(* "PUBACK order follows PUBLISH arrival order" (docs/conformance.md,      *)
(* MQTT-4.6.0-2), in a process with automatic acknowledgement.             *)
(***************************************************************************)
AutoPubackOrder == ~ manual /\ conn = "CONNECTED" => ~ reordered

(***************************************************************************)
(* Every exchange ends on both sides once connections stop failing, if the *)
(* application takes and acknowledges what it is given.  A process with    *)
(* manual acknowledgement that started on a store with exchanges is left   *)
(* out: see UnackedQos2Reachable.                                          *)
(***************************************************************************)
ExchangesEnd ==
    \/ <>[](outbox = <<>> /\ inflight = <<>> /\ ib.rows = <<>>)
    \/ <>[](manual /\ reopened # {})
=============================================================================
