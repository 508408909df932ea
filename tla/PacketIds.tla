------------------------------ MODULE PacketIds ------------------------------
(***************************************************************************)
(* What the outbound packet identifier allocator promises its callers      *)
(* (protocol/packet_ids.py): a set of identifiers in use, an allocation    *)
(* that returns some identifier that is not in use and fails only when     *)
(* every one is, and idempotent reserve, release and clear.                *)
(*                                                                         *)
(* `answer` is the visible outcome of the last call, so that an            *)
(* implementation is held to what it returns and not only to what it       *)
(* remembers.                                                              *)
(***************************************************************************)
EXTENDS Integers

CONSTANT MaxId          \* _MAX_ID: 65535 in the code

VARIABLES used, answer

vars == <<used, answer>>

Ids == 1..MaxId

\* What a call returned or raised, and for a call that returns nothing what it
\* was asked.
Granted(mid) == [kind |-> "granted", mid |-> mid]
Exhausted == [kind |-> "FlowControlError", mid |-> 0]
Invalid == [kind |-> "ValueError", mid |-> 0]
Marked(mid) == [kind |-> "reserved", mid |-> mid]
Freed(mid) == [kind |-> "released", mid |-> mid]
Done == [kind |-> "cleared", mid |-> 0]

Init == used = {} /\ answer = Done

Allocate ==
    \/ \E mid \in Ids \ used : used' = used \cup {mid} /\ answer' = Granted(mid)
    \/ used = Ids /\ UNCHANGED used /\ answer' = Exhausted

Reserve(mid) ==
    \/ mid \in Ids /\ used' = used \cup {mid} /\ answer' = Marked(mid)
    \/ mid \notin Ids /\ UNCHANGED used /\ answer' = Invalid

Release(mid) == used' = used \ {mid} /\ answer' = Freed(mid)

Clear == used' = {} /\ answer' = Done

Next ==
    \/ Allocate
    \/ \E mid \in 0..MaxId + 1 : Reserve(mid) \/ Release(mid)
    \/ Clear

Spec == Init /\ [][Next]_vars
=============================================================================
