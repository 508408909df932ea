---------------------------- MODULE PacketIdPool ----------------------------
(***************************************************************************)
(* The outbound packet identifier allocator, class PacketIdPool of         *)
(* protocol/packet_ids.py.  It does not keep the set of live identifiers.  *)
(* Identifiers below the frontier `next` are in use unless recorded free   *)
(* (one in the scalar `freeOne`, the others in the set `freeMany`);        *)
(* identifiers at or above it are free unless they are in `reserved`.      *)
(*                                                                         *)
(* The code keeps None instead of an empty set in _free_many and           *)
(* _reserved, and restores None whenever it empties one, so both are       *)
(* modelled by the empty set.  0 in _free_one means "no free slot".        *)
(* Every call is one step: the pool is only touched under the engine lock. *)
(***************************************************************************)
EXTENDS Integers, FiniteSets

CONSTANT MaxId

ASSUME MaxIdAssumption == MaxId \in Nat \ {0}

VARIABLES
    freeCount,      \* _free_count
    freeOne,        \* _free_one
    freeMany,       \* _free_many
    reserved,       \* _reserved
    next,           \* _next
    answer          \* the last call's answer: what it returned or raised

pool == <<freeCount, freeOne, freeMany, reserved, next>>
vars == <<freeCount, freeOne, freeMany, reserved, next, answer>>

Ids == 1..MaxId

Granted(mid) == [kind |-> "granted", mid |-> mid]
Exhausted == [kind |-> "FlowControlError", mid |-> 0]
Invalid == [kind |-> "ValueError", mid |-> 0]
Marked(mid) == [kind |-> "reserved", mid |-> mid]
Freed(mid) == [kind |-> "released", mid |-> mid]
Done == [kind |-> "cleared", mid |-> 0]

Answers ==
    {Granted(mid) : mid \in Ids} \cup {Marked(mid) : mid \in Ids}
        \cup {Freed(mid) : mid \in 0..MaxId + 1} \cup {Exhausted, Invalid, Done}

-----------------------------------------------------------------------------
\* in_use(mid)
in_use(mid) ==
    /\ mid \in Ids
    /\ IF mid < next
       THEN freeOne # mid /\ mid \notin freeMany
       ELSE mid \in reserved

\* __len__
len == next - 1 - freeCount + Cardinality(reserved)

InUse == {mid \in Ids : in_use(mid)}

Init ==
    /\ freeCount = 0 /\ freeOne = 0
    /\ freeMany = {} /\ reserved = {}
    /\ next = 1
    /\ answer = Done

\* clear()
Cleared ==
    /\ freeCount' = 0 /\ freeOne' = 0
    /\ freeMany' = {} /\ reserved' = {}
    /\ next' = 1

-----------------------------------------------------------------------------
\* The identifier the loop `while mid in reserved: mid += 1` stops at.
SkipReserved(from) ==
    CHOOSE f \in from..MaxId + 1 :
        f \notin reserved /\ \A i \in from..f - 1 : i \in reserved

\* allocate(): the scalar slot first, then any member of the set (set.pop()
\* is arbitrary), then the frontier.
AllocateFreeOne ==
    /\ freeOne # 0
    /\ freeOne' = 0
    /\ freeCount' = freeCount - 1
    /\ answer' = Granted(freeOne)
    /\ UNCHANGED <<freeMany, reserved, next>>

AllocateFreeMany ==
    /\ freeOne = 0
    /\ \E mid \in freeMany :
        /\ freeMany' = freeMany \ {mid}
        /\ answer' = Granted(mid)
    /\ freeCount' = freeCount - 1
    /\ UNCHANGED <<freeOne, reserved, next>>

AllocateFrontier ==
    /\ freeOne = 0 /\ freeMany = {}
    /\ LET mid == SkipReserved(next) IN
        /\ mid <= MaxId
        /\ reserved' = reserved \ (next..mid - 1)
        /\ next' = mid + 1
        /\ answer' = Granted(mid)
    /\ UNCHANGED <<freeCount, freeOne, freeMany>>

\* The reservations have been absorbed by the time the error is raised.
AllocateExhausted ==
    /\ freeOne = 0 /\ freeMany = {}
    /\ LET mid == SkipReserved(next) IN
        /\ mid > MaxId
        /\ reserved' = reserved \ (next..mid - 1)
        /\ next' = mid
    /\ answer' = Exhausted
    /\ UNCHANGED <<freeCount, freeOne, freeMany>>

Allocate ==
    \/ AllocateFreeOne
    \/ AllocateFreeMany
    \/ AllocateFrontier
    \/ AllocateExhausted

-----------------------------------------------------------------------------
\* reserve(mid)
ReserveInvalid(mid) ==
    /\ mid \notin Ids
    /\ answer' = Invalid
    /\ UNCHANGED pool

\* Below the frontier: a recorded hole is taken back, a live identifier is
\* left alone.
ReserveBelow(mid) ==
    /\ mid \in Ids /\ mid < next
    /\ freeOne' = IF freeOne = mid THEN 0 ELSE freeOne
    /\ freeMany' = freeMany \ {mid}
    /\ freeCount' = IF freeOne = mid \/ mid \in freeMany
                    THEN freeCount - 1 ELSE freeCount
    /\ answer' = Marked(mid)
    /\ UNCHANGED <<reserved, next>>

\* The stale reservation of the identifier the frontier absorbs is kept.
ReserveAtWithoutDiscard(mid) ==
    /\ mid \in Ids /\ mid = next
    /\ LET frontier == SkipReserved(mid + 1) IN
        /\ reserved' = reserved \ (mid + 1..frontier - 1)
        /\ next' = frontier
    /\ answer' = Marked(mid)
    /\ UNCHANGED <<freeCount, freeOne, freeMany>>

\* At the frontier: it advances past `mid` and past every reservation that
\* follows, dropping the absorbed ones (a stale one for `mid` included).
ReserveAt(mid) ==
    /\ mid \in Ids /\ mid = next
    /\ LET frontier == SkipReserved(mid + 1) IN
        /\ reserved' = reserved \ (mid..frontier - 1)
        /\ next' = frontier
    /\ answer' = Marked(mid)
    /\ UNCHANGED <<freeCount, freeOne, freeMany>>

ReserveAbove(mid) ==
    /\ mid \in Ids /\ mid > next
    /\ reserved' = reserved \cup {mid}
    /\ answer' = Marked(mid)
    /\ UNCHANGED <<freeCount, freeOne, freeMany, next>>

Reserve(mid) ==
    \/ ReserveInvalid(mid)
    \/ ReserveBelow(mid)
    \/ ReserveAt(mid)
    \/ ReserveAbove(mid)

-----------------------------------------------------------------------------
\* release(mid): out of range, already free or never issued is ignored.
ReleaseIgnored(mid) ==
    /\ ~ in_use(mid)
    /\ answer' = Freed(mid)
    /\ UNCHANGED pool

\* The reset does not look at the out-of-order reservations.
ReleaseBelowResetsBlindly(mid) ==
    /\ in_use(mid) /\ mid < next
    /\ IF freeCount + 1 = next - 1
       THEN Cleared
       ELSE /\ freeOne' = IF freeOne = 0 THEN mid ELSE freeOne
            /\ freeMany' = IF freeOne = 0 THEN freeMany
                           ELSE freeMany \cup {mid}
            /\ freeCount' = freeCount + 1
            /\ UNCHANGED <<reserved, next>>
    /\ answer' = Freed(mid)

\* Below the frontier a hole is recorded; the last one resets the pool.
ReleaseBelow(mid) ==
    /\ in_use(mid) /\ mid < next
    /\ IF freeCount + 1 = next - 1 /\ reserved = {}
       THEN Cleared
       ELSE /\ freeOne' = IF freeOne = 0 THEN mid ELSE freeOne
            /\ freeMany' = IF freeOne = 0 THEN freeMany
                           ELSE freeMany \cup {mid}
            /\ freeCount' = freeCount + 1
            /\ UNCHANGED <<reserved, next>>
    /\ answer' = Freed(mid)

ReleaseAbove(mid) ==
    /\ in_use(mid) /\ mid >= next
    /\ IF reserved = {mid} /\ freeCount = next - 1
       THEN Cleared
       ELSE /\ reserved' = reserved \ {mid}
            /\ UNCHANGED <<freeCount, freeOne, freeMany, next>>
    /\ answer' = Freed(mid)

Release(mid) ==
    \/ ReleaseIgnored(mid)
    \/ ReleaseBelow(mid)
    \/ ReleaseAbove(mid)

Clear == Cleared /\ answer' = Done

Next ==
    \/ Allocate
    \/ \E mid \in 0..MaxId + 1 : Reserve(mid) \/ Release(mid)
    \/ Clear

Spec == Init /\ [][Next]_vars

-----------------------------------------------------------------------------
(***************************************************************************)
(* The shape the representation keeps.  Holes lie below the frontier, are  *)
(* recorded once and are counted; reservations lie at or above it.  The    *)
(* frontier itself may be reserved: allocate() stops right after the       *)
(* identifier it returns.                                                  *)
(***************************************************************************)
PoolInvariant ==
    /\ next \in 1..MaxId + 1
    /\ freeOne \in 0..next - 1
    /\ freeMany \subseteq (1..next - 1) \ {freeOne}
    /\ reserved \subseteq next..MaxId
    /\ freeCount = Cardinality(freeMany) + (IF freeOne = 0 THEN 0 ELSE 1)
    /\ answer \in Answers

(***************************************************************************)
(* __len__ counts exactly the identifiers in_use() reports, through every  *)
(* order of out-of-order reservation, hole and absorption.  `available`    *)
(* and the engine's admission read it; a double count is permanent.        *)
(***************************************************************************)
LenExact == len = Cardinality(InUse)

(***************************************************************************)
(* A pool with nothing in use is back at its initial value, by whatever    *)
(* sequence of releases it was emptied: no container outlives the          *)
(* identifiers it describes and the sequential fast path is restored.      *)
(***************************************************************************)
IdlePoolIsReset ==
    InUse = {} => freeCount = 0 /\ freeOne = 0 /\ freeMany = {}
                  /\ reserved = {} /\ next = 1

(***************************************************************************)
(* Frontier, holes and reservations describe one set of identifiers, are   *)
(* counted once, and leave nothing behind when the set is empty.           *)
(***************************************************************************)
PoolExact == PoolInvariant /\ LenExact /\ IdlePoolIsReset

(***************************************************************************)
(* The compact representation behaves like a set of identifiers: what      *)
(* allocate() grants was not in use, it fails only when all are, and       *)
(* reserve, release and clear change nothing else.                         *)
(***************************************************************************)
Abstract == INSTANCE PacketIds WITH used <- InUse
ImplementsPacketIds == Abstract!Spec
=============================================================================
