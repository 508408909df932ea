-------------------------- MODULE MCInboundDelivery --------------------------
(* Small instances of InboundDelivery for TLC. *)
EXTENDS InboundDelivery, TLC

CONSTANTS id1, id2               \* packet identifiers
CONSTANTS m1, m2, m3, m4     \* messages

MCMid == {id1, id2}

\* QoS 1, QoS 2, QoS 0, QoS 2
MCMessage == {m1, m2, m3, m4}
MCQos == (m1 :> 1) @@ (m2 :> 2) @@ (m3 :> 0) @@ (m4 :> 2)
MCSize == [m \in MCMessage |-> 1]
MCOutbox == <<m1, m2, m3, m4>>

\* Two QoS 1 messages
QosOnes == (m1 :> 1) @@ (m2 :> 1)
Two == {m1, m2}
SizeTwo == [m \in Two |-> 1]
OutboxTwo == <<m1, m2>>

Either == BOOLEAN
ManualOnly == {TRUE}
=============================================================================
