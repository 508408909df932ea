-------------------------- MODULE MCPublishDelivery --------------------------
(* Small instances of PublishDelivery for TLC. *)
EXTENDS PublishDelivery, TLC

CONSTANTS m1, m2         \* packet identifiers
CONSTANTS p1, p2, p3     \* messages

MCMid == {m1, m2}

\* QoS 2, QoS 1, QoS 2
Three == {p1, p2, p3}
QosThree == (p1 :> 2) @@ (p2 :> 1) @@ (p3 :> 2)
SizeThree == [m \in Three |-> 1]

None == {}

Accepts(window) ==
    [receiveMaximum |-> window, fresh |-> {}, stored |-> {}, replay |-> {},
     acksFit |-> TRUE, orphanFits |-> TRUE]

Windows == {Accepts(1), Accepts(2)}
=============================================================================
