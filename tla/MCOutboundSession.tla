-------------------------- MODULE MCOutboundSession --------------------------
(* Small instances of OutboundSession for TLC. *)
EXTENDS OutboundSession, TLC

CONSTANTS m1, m2, m3     \* packet identifiers
CONSTANTS q1, q2, al     \* a QoS 1 and a QoS 2 message, a QoS 1 alias-only one

MCMid2 == {m1, m2}
MCMid3 == {m1, m2, m3}
IdSymmetry == Permutations(Mid)

MCMessage == {q1, q2, al}
MCQosOf == (q1 :> 1) @@ (q2 :> 2) @@ (al :> 1)
MCSizeOf == (q1 :> 1) @@ (q2 :> 2) @@ (al :> 1)
MCAliasOnly == {al}
MCSegmented == {q1}

Accepts(window) ==
    [receiveMaximum |-> window, fresh |-> {}, stored |-> {}, replay |-> {},
     acksFit |-> TRUE, orphanFits |-> TRUE]

\* A narrow and a wide window.
Windows == {Accepts(1), Accepts(2)}

\* A Maximum Packet Size the alias-only message meets only in its short form;
\* a Maximum QoS of 1 with no room for the orphan PUBREL; one too small for
\* any acknowledgement.
Restrictive ==
    {[Accepts(1) EXCEPT !.stored = {al}],
     [Accepts(2) EXCEPT !.fresh = {q2}, !.stored = {q2}, !.replay = {q2},
                        !.orphanFits = FALSE],
     [Accepts(1) EXCEPT !.acksFit = FALSE]}

MCNegotiation == Windows \cup Restrictive
=============================================================================
