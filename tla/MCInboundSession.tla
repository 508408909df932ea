-------------------------- MODULE MCInboundSession --------------------------
(* Small instances of InboundSession for TLC: a peer that may send anything. *)
EXTENDS InboundSession, TLC

CONSTANTS id1, id2           \* packet identifiers
CONSTANTS q0, q1, q2     \* messages, named for their QoS

MCMid == {id1, id2}
MCMessage == {q0, q1, q2}
MCQos == (q0 :> 0) @@ (q1 :> 1) @@ (q2 :> 2)
MCSize == (q0 :> 1) @@ (q1 :> 1) @@ (q2 :> 2)
IdSymmetry == Permutations(Mid)
Either == BOOLEAN
ManualOnly == {TRUE}
=============================================================================
