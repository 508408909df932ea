------------------------- MODULE PacketIdPoolProofs -------------------------
(***************************************************************************)
(* PacketIdPool for every size of the identifier space: the representation *)
(* invariant, the exactness of __len__, the reset of an idle pool and the  *)
(* implementation of PacketIds.                                            *)
(***************************************************************************)
EXTENDS PacketIdPool, FiniteSetTheorems, WellFoundedInduction, TLAPS

Holes == freeMany \cup (IF freeOne = 0 THEN {} ELSE {freeOne})

-----------------------------------------------------------------------------
\* The frontier loop of allocate() and reserve() stops, at the first
\* identifier at or above `from` that is not reserved.
LEMMA SkipReservedStops ==
    ASSUME NEW from \in 1..MaxId + 1, reserved \subseteq 1..MaxId
    PROVE  LET f == SkipReserved(from)
           IN  /\ f \in from..MaxId + 1
               /\ f \notin reserved
               /\ \A i \in from..f - 1 : i \in reserved
<1> DEFINE R == OpToRel(<, Nat)
           T == {i \in from..MaxId + 1 : i \notin reserved}
<1>1. T \subseteq Nat /\ MaxId + 1 \in T
  BY MaxIdAssumption
<1>2. PICK f \in T : \A y \in T : ~ (<<y, f>> \in R)
  <2>1. T # {}
    BY <1>1
  <2> QED
    BY <1>1, <2>1, NatLessThanWellFounded, WFMin
<1> HIDE DEF R
<1>3. \A y \in T : ~ (y < f)
  BY <1>1, <1>2 DEF OpToRel, R
<1>4. ASSUME NEW i \in from..f - 1
      PROVE  i \in reserved
  <2>1. f \in from..MaxId + 1 /\ from \in Int /\ MaxId \in Int
    BY MaxIdAssumption
  <2>2. i \in from..MaxId + 1 /\ i < f
    BY <2>1
  <2> QED
    BY <2>2, <1>3
<1> QED
  BY <1>2, <1>4 DEF SkipReserved

\* The identifiers in use are those below the frontier that are no hole,
\* and the reserved ones.
LEMMA InUseShape ==
    ASSUME PoolInvariant
    PROVE  InUse = ((1..next - 1) \ Holes) \cup reserved
<1>1. /\ MaxId \in Nat /\ next \in 1..MaxId + 1 /\ freeOne \in Nat
      /\ reserved \subseteq next..MaxId
  BY MaxIdAssumption DEF PoolInvariant
<1>2. ASSUME NEW m \in Int
      PROVE  m \in InUse <=> m \in ((1..next - 1) \ Holes) \cup reserved
  <2>1. m \in Holes <=> m \in freeMany \/ (freeOne # 0 /\ m = freeOne)
    BY DEF Holes
  <2>2. CASE m \in 1..next - 1
    BY <1>1, <2>1, <2>2 DEF InUse, in_use, Ids
  <2>3. CASE m \notin 1..next - 1
    BY <1>1, <2>1, <2>3 DEF InUse, in_use, Ids
  <2> QED
    BY <2>2, <2>3
<1>3. InUse \subseteq Int
  BY <1>1 DEF InUse, Ids
<1>4. reserved \subseteq Int /\ 1..next - 1 \subseteq Int
  BY <1>1
<1> QED
  BY <1>2, <1>3, <1>4

\* The holes are counted by freeCount, and all lie below the frontier.
LEMMA HolesCounted ==
    ASSUME PoolInvariant
    PROVE  /\ IsFiniteSet(Holes)
           /\ Holes \subseteq 1..next - 1
           /\ freeCount = Cardinality(Holes)
           /\ freeCount \in Nat
           /\ IsFiniteSet(reserved)
           /\ Cardinality(reserved) \in Nat
<1>1. IsFiniteSet(1..next - 1) /\ IsFiniteSet(next..MaxId)
  BY MaxIdAssumption, FS_Interval DEF PoolInvariant
<1>2. IsFiniteSet(freeMany) /\ IsFiniteSet(reserved)
  BY <1>1, FS_Subset DEF PoolInvariant
<1>3. Cardinality(freeMany) \in Nat /\ Cardinality(reserved) \in Nat
  BY <1>2, FS_CardinalityType
<1>4. Holes \subseteq 1..next - 1
  BY MaxIdAssumption DEF PoolInvariant, Holes
<1>5. IsFiniteSet(Holes) /\ freeCount = Cardinality(Holes)
  <2>1. CASE freeOne = 0
    BY <2>1, <1>2, <1>3 DEF PoolInvariant, Holes
  <2>2. CASE freeOne # 0
    BY <2>2, <1>2, <1>3, FS_AddElement DEF PoolInvariant, Holes
  <2> QED
    BY <2>1, <2>2
<1>6. Cardinality(Holes) \in Nat
  BY <1>5, FS_CardinalityType
<1> QED
  BY <1>2, <1>3, <1>4, <1>5, <1>6

(***************************************************************************)
(* __len__ is exact in every state that has the representation's shape.    *)
(***************************************************************************)
LEMMA ShapeGivesLen ==
    ASSUME PoolInvariant
    PROVE  LenExact
<1> DEFINE Below == (1..next - 1) \ Holes
<1>1. /\ IsFiniteSet(1..next - 1)
      /\ Cardinality(1..next - 1) = next - 1
  BY MaxIdAssumption, FS_Interval DEF PoolInvariant
<1>2. IsFiniteSet(Below) /\ Cardinality(Below) = next - 1 - freeCount
  <2>1. (1..next - 1) \cap Holes = Holes /\ freeCount = Cardinality(Holes)
    BY HolesCounted
  <2>2. /\ IsFiniteSet(Below)
        /\ Cardinality(Below) = Cardinality(1..next - 1)
                                  - Cardinality((1..next - 1) \cap Holes)
    BY <1>1, FS_Difference
  <2> QED
    BY <1>1, <2>1, <2>2
<1>3. Below \cap reserved = {}
  BY MaxIdAssumption DEF PoolInvariant
<1>4. Cardinality(Below \cup reserved)
        = Cardinality(Below) + Cardinality(reserved) - 0
  BY <1>2, <1>3, HolesCounted, FS_Union, FS_EmptySet
<1>5. next - 1 - freeCount \in Int /\ Cardinality(reserved) \in Nat
  BY HolesCounted, MaxIdAssumption DEF PoolInvariant
<1>6. InUse = Below \cup reserved
  BY InUseShape
<1> HIDE DEF Below
<1>7. next \in Int /\ freeCount \in Int
  BY HolesCounted, MaxIdAssumption DEF PoolInvariant
<1> QED
  BY <1>2, <1>4, <1>5, <1>6, <1>7 DEF LenExact, len

\* Nothing is below a frontier whose every identifier is a hole.
LEMMA AllHoles ==
    ASSUME PoolInvariant
    PROVE  freeCount = next - 1 <=> Holes = 1..next - 1
<1>1. /\ IsFiniteSet(1..next - 1)
      /\ Cardinality(1..next - 1) = next - 1
  BY MaxIdAssumption, FS_Interval DEF PoolInvariant
<1> QED
  BY <1>1, HolesCounted, FS_Subset

-----------------------------------------------------------------------------
(***************************************************************************)
(* Every call answers with one of the answers a caller can get.            *)
(***************************************************************************)
LEMMA AnswerListed ==
    ASSUME PoolInvariant, [Next]_vars
    PROVE  answer' \in Answers
<1> USE MaxIdAssumption
<1>0. /\ \A mid \in Ids : Granted(mid) \in Answers /\ Marked(mid) \in Answers
      /\ \A mid \in 0..MaxId + 1 : Freed(mid) \in Answers
      /\ Exhausted \in Answers /\ Invalid \in Answers /\ Done \in Answers
  BY DEF Answers
<1>1. CASE AllocateFreeOne
  <2>1. freeOne \in Ids
    BY <1>1 DEF AllocateFreeOne, PoolInvariant, Ids
  <2> QED
    BY <1>0, <1>1, <2>1 DEF AllocateFreeOne
<1>2. CASE AllocateFreeMany
  <2>1. freeMany \subseteq Ids
    BY DEF PoolInvariant, Ids
  <2> QED
    BY <1>0, <1>2, <2>1 DEF AllocateFreeMany
<1>3. CASE AllocateFrontier
  <2> DEFINE mid == SkipReserved(next)
  <2> HIDE DEF mid
  <2>1. mid \in Ids /\ answer' = Granted(mid)
    <3>1. next \in 1..MaxId + 1 /\ reserved \subseteq 1..MaxId
      BY DEF PoolInvariant
    <3>2. mid \in next..MaxId + 1
      BY <3>1, SkipReservedStops DEF mid
    <3>3. mid <= MaxId /\ answer' = Granted(mid)
      BY <1>3 DEF AllocateFrontier, mid
    <3> QED
      BY <3>1, <3>2, <3>3 DEF Ids
  <2> QED
    BY <1>0, <2>1
<1>4. CASE AllocateExhausted
  BY <1>0, <1>4 DEF AllocateExhausted
<1>5. ASSUME NEW mid \in 0..MaxId + 1, Reserve(mid)
      PROVE  answer' \in Answers
  BY <1>0, <1>5 DEF Reserve, ReserveInvalid, ReserveBelow, ReserveAt, ReserveAbove
<1>6. ASSUME NEW mid \in 0..MaxId + 1, Release(mid)
      PROVE  answer' \in Answers
  BY <1>0, <1>6 DEF Release, ReleaseIgnored, ReleaseBelow, ReleaseAbove
<1>7. CASE Clear
  BY <1>0, <1>7 DEF Clear
<1>8. CASE UNCHANGED vars
  BY <1>8 DEF vars, PoolInvariant
<1> QED
  BY <1>1, <1>2, <1>3, <1>4, <1>5, <1>6, <1>7, <1>8 DEF Next, Allocate

(***************************************************************************)
(* Every call preserves the shape of the representation.                   *)
(***************************************************************************)
LEMMA PoolInvariantInductive ==
    ASSUME PoolInvariant, [Next]_vars
    PROVE  PoolInvariant'
<1> USE MaxIdAssumption
<1>0. /\ MaxId \in Nat /\ next \in 1..MaxId + 1 /\ freeOne \in 0..next - 1
      /\ IsFiniteSet(freeMany) /\ Cardinality(freeMany) \in Nat
      /\ freeMany \subseteq 1..next - 1
      /\ reserved \subseteq 1..MaxId /\ answer' \in Answers
  <2>1. IsFiniteSet(1..next - 1)
    BY FS_Interval DEF PoolInvariant
  <2>2. IsFiniteSet(freeMany)
    BY <2>1, FS_Subset DEF PoolInvariant
  <2> QED
    BY <2>2, AnswerListed, FS_CardinalityType DEF PoolInvariant
<1>1. CASE AllocateFreeOne
  BY <1>0, <1>1 DEF AllocateFreeOne, PoolInvariant
<1>2. CASE AllocateFreeMany
  <2>1. PICK mid \in freeMany : freeMany' = freeMany \ {mid}
                                 /\ answer' = Granted(mid)
    BY <1>2 DEF AllocateFreeMany
  <2>2. Cardinality(freeMany') = Cardinality(freeMany) - 1
    BY <1>0, <2>1, FS_RemoveElement
  <2> QED
    BY <1>0, <1>2, <2>1, <2>2 DEF AllocateFreeMany, PoolInvariant
<1>3. CASE AllocateFrontier
  <2> DEFINE mid == SkipReserved(next)
  <2> HIDE DEF mid
  <2>1. mid \in next..MaxId + 1
    BY <1>0, SkipReservedStops DEF mid
  <2>2. /\ mid <= MaxId /\ next' = mid + 1 /\ answer' = Granted(mid)
        /\ reserved' = reserved \ (next..mid - 1)
        /\ UNCHANGED <<freeCount, freeOne, freeMany>>
    BY <1>3 DEF AllocateFrontier, mid
  <2>3. mid \notin reserved
    BY <1>0, SkipReservedStops DEF mid
  <2>4. reserved' \subseteq next'..MaxId
    <3> SUFFICES ASSUME NEW r \in reserved, r \notin next..mid - 1
                 PROVE  r \in mid + 1..MaxId
      BY <2>2
    <3>1. r \in next..MaxId /\ r # mid
      BY <2>3 DEF PoolInvariant
    <3> QED
      BY <1>0, <2>1, <2>2, <3>1
  <2> QED
    BY <1>0, <2>1, <2>2, <2>4 DEF PoolInvariant
<1>4. CASE AllocateExhausted
  <2> DEFINE mid == SkipReserved(next)
  <2> HIDE DEF mid
  <2>1. mid \in next..MaxId + 1
    BY <1>0, SkipReservedStops DEF mid
  <2>2. /\ mid > MaxId /\ next' = mid /\ answer' = Exhausted
        /\ reserved' = reserved \ (next..mid - 1)
        /\ UNCHANGED <<freeCount, freeOne, freeMany>>
    BY <1>4 DEF AllocateExhausted, mid
  <2>3. reserved' = {}
    BY <1>0, <2>1, <2>2 DEF PoolInvariant
  <2> QED
    BY <1>0, <2>1, <2>2, <2>3 DEF PoolInvariant
<1>5. ASSUME NEW mid \in 0..MaxId + 1, ReserveInvalid(mid)
      PROVE  PoolInvariant'
  BY <1>0, <1>5 DEF ReserveInvalid, pool, PoolInvariant
<1>6. ASSUME NEW mid \in 0..MaxId + 1, ReserveBelow(mid)
      PROVE  PoolInvariant'
  <2>1. Cardinality(freeMany') = IF mid \in freeMany
                                 THEN Cardinality(freeMany) - 1
                                 ELSE Cardinality(freeMany)
    BY <1>0, <1>6, FS_RemoveElement DEF ReserveBelow
  <2> QED
    BY <1>0, <1>6, <2>1 DEF ReserveBelow, PoolInvariant, Ids
<1>7. ASSUME NEW mid \in 0..MaxId + 1, ReserveAt(mid)
      PROVE  PoolInvariant'
  <2> DEFINE frontier == SkipReserved(mid + 1)
  <2> HIDE DEF frontier
  <2>1. mid = next /\ mid \in 1..MaxId /\ mid + 1 \in 1..MaxId + 1
    BY <1>0, <1>7 DEF ReserveAt, Ids
  <2>2. frontier \in mid + 1..MaxId + 1 /\ frontier \notin reserved
    BY <1>0, <2>1, SkipReservedStops DEF frontier
  <2>3. /\ next' = frontier /\ answer' = Marked(mid)
        /\ reserved' = reserved \ (mid..frontier - 1)
        /\ UNCHANGED <<freeCount, freeOne, freeMany>>
    BY <1>7 DEF ReserveAt, frontier
  <2>4. reserved' \subseteq next'..MaxId
    BY <1>0, <2>1, <2>2, <2>3 DEF PoolInvariant
  <2> QED
    BY <1>0, <2>1, <2>2, <2>3, <2>4 DEF PoolInvariant
<1>8. ASSUME NEW mid \in 0..MaxId + 1, ReserveAbove(mid)
      PROVE  PoolInvariant'
  BY <1>0, <1>8 DEF ReserveAbove, PoolInvariant, Ids
<1>9. ASSUME NEW mid \in 0..MaxId + 1, ReleaseIgnored(mid)
      PROVE  PoolInvariant'
  BY <1>0, <1>9 DEF ReleaseIgnored, pool, PoolInvariant
<1>10. ASSUME Cleared
       PROVE  PoolInvariant'
  BY <1>0, <1>10, FS_EmptySet DEF Cleared, PoolInvariant
<1>11. ASSUME NEW mid \in 0..MaxId + 1, ReleaseBelow(mid)
       PROVE  PoolInvariant'
  <2>1. /\ mid \in 1..next - 1 /\ mid # freeOne /\ mid \notin freeMany
        /\ answer' = Freed(mid)
    BY <1>0, <1>11 DEF ReleaseBelow, in_use, Ids
  <2>2. CASE freeCount + 1 = next - 1 /\ reserved = {}
    BY <1>10, <1>11, <2>1, <2>2 DEF ReleaseBelow
  <2>3. CASE ~ (freeCount + 1 = next - 1 /\ reserved = {})
    <3>1. Cardinality(freeMany \cup {mid}) = Cardinality(freeMany) + 1
      BY <1>0, <2>1, FS_AddElement
    <3>2. /\ freeOne' = IF freeOne = 0 THEN mid ELSE freeOne
          /\ freeMany' = IF freeOne = 0 THEN freeMany
                         ELSE freeMany \cup {mid}
          /\ freeCount' = freeCount + 1
          /\ UNCHANGED <<reserved, next>>
      BY <1>11, <2>3 DEF ReleaseBelow
    <3>3. CASE freeOne = 0
      BY <1>0, <2>1, <3>2, <3>3 DEF PoolInvariant
    <3>4. CASE freeOne # 0
      <4>1. freeMany' \subseteq (1..next' - 1) \ {freeOne'}
        BY <1>0, <2>1, <3>2, <3>4 DEF PoolInvariant
      <4> QED
        BY <1>0, <2>1, <3>1, <3>2, <3>4, <4>1 DEF PoolInvariant
    <3> QED
      BY <3>3, <3>4
  <2> QED
    BY <2>2, <2>3
<1>12. ASSUME NEW mid \in 0..MaxId + 1, ReleaseAbove(mid)
       PROVE  PoolInvariant'
  <2>1. CASE reserved = {mid} /\ freeCount = next - 1
    BY <1>10, <1>12, <2>1 DEF ReleaseAbove
  <2>2. CASE ~ (reserved = {mid} /\ freeCount = next - 1)
    BY <1>0, <1>12, <2>2 DEF ReleaseAbove, PoolInvariant
  <2> QED
    BY <2>1, <2>2
<1>13. CASE UNCHANGED vars
  BY <1>13 DEF vars, PoolInvariant
<1> QED
  BY <1>1, <1>2, <1>3, <1>4, <1>5, <1>6, <1>7, <1>8, <1>9, <1>10, <1>11,
     <1>12, <1>13 DEF Next, Allocate, Reserve, Release, Clear

(***************************************************************************)
(* The representation keeps its shape through every sequence of calls, for *)
(* every size of the identifier space.                                     *)
(***************************************************************************)
THEOREM PoolShape == Spec => []PoolInvariant
<1>1. Init => PoolInvariant
  BY MaxIdAssumption, FS_EmptySet DEF Init, PoolInvariant, Answers
<1>2. PoolInvariant /\ [Next]_vars => PoolInvariant'
  BY PoolInvariantInductive
<1> QED
  BY <1>1, <1>2, PTL DEF Spec

(***************************************************************************)
(* __len__ always counts exactly the identifiers in_use() reports.         *)
(***************************************************************************)
THEOREM LenIsExact == Spec => []LenExact
<1>1. PoolInvariant => LenExact
  BY ShapeGivesLen
<1> QED
  BY <1>1, PoolShape, PTL

-----------------------------------------------------------------------------
\* What each call does to the set of identifiers in use.
LEMMA AllocateEffect ==
    ASSUME PoolInvariant, Allocate
    PROVE  \/ \E mid \in Ids \ InUse : InUse' = InUse \cup {mid}
                                       /\ answer' = Granted(mid)
           \/ InUse = Ids /\ InUse' = InUse /\ answer' = Exhausted
<1> USE MaxIdAssumption DEF Ids
<1>0. /\ MaxId \in Nat /\ next \in 1..MaxId + 1 /\ freeOne \in 0..next - 1
      /\ freeMany \subseteq (1..next - 1) \ {freeOne}
      /\ reserved \subseteq next..MaxId /\ reserved \subseteq 1..MaxId
  BY DEF PoolInvariant
<1>1. CASE AllocateFreeOne
  <2>1. freeOne \in Ids \ InUse
    BY <1>0, <1>1 DEF AllocateFreeOne, InUse, in_use
  <2>2. InUse' = InUse \cup {freeOne}
    BY <1>0, <1>1 DEF AllocateFreeOne, InUse, in_use
  <2> QED
    BY <1>1, <2>1, <2>2 DEF AllocateFreeOne
<1>2. CASE AllocateFreeMany
  <2>1. PICK mid \in freeMany : freeMany' = freeMany \ {mid}
                                 /\ answer' = Granted(mid)
    BY <1>2 DEF AllocateFreeMany
  <2>2. mid \in Ids \ InUse
    BY <1>0, <1>2 DEF AllocateFreeMany, InUse, in_use
  <2>3. InUse' = InUse \cup {mid}
    BY <1>0, <1>2, <2>1 DEF AllocateFreeMany, InUse, in_use
  <2> QED
    BY <2>1, <2>2, <2>3
<1>3. CASE AllocateFrontier
  <2> DEFINE mid == SkipReserved(next)
  <2> HIDE DEF mid
  <2>1. /\ mid \in next..MaxId + 1
        /\ mid \notin reserved
        /\ \A i \in next..mid - 1 : i \in reserved
    BY <1>0, SkipReservedStops DEF mid
  <2>2. /\ freeOne = 0 /\ freeMany = {}
        /\ mid <= MaxId /\ next' = mid + 1 /\ answer' = Granted(mid)
        /\ reserved' = reserved \ (next..mid - 1)
        /\ UNCHANGED <<freeCount, freeOne, freeMany>>
    BY <1>3 DEF AllocateFrontier, mid
  <2>3. mid \in Ids \ InUse
    BY <1>0, <2>1, <2>2 DEF InUse, in_use
  <2>4. ASSUME NEW m \in Ids
        PROVE  in_use(m)' <=> in_use(m) \/ m = mid
    BY <1>0, <2>1, <2>2 DEF in_use
  <2>5. InUse' = InUse \cup {mid}
    BY <2>3, <2>4 DEF InUse
  <2> QED
    BY <2>2, <2>3, <2>5
<1>4. CASE AllocateExhausted
  <2> DEFINE mid == SkipReserved(next)
  <2> HIDE DEF mid
  <2>1. /\ mid \in next..MaxId + 1
        /\ \A i \in next..mid - 1 : i \in reserved
    BY <1>0, SkipReservedStops DEF mid
  <2>2. /\ freeOne = 0 /\ freeMany = {}
        /\ mid = MaxId + 1 /\ next' = mid /\ answer' = Exhausted
        /\ UNCHANGED <<freeCount, freeOne, freeMany>>
    BY <1>0, <1>4, <2>1 DEF AllocateExhausted, mid
  <2>3. \A m \in Ids : in_use(m) /\ in_use(m)'
    BY <1>0, <2>1, <2>2 DEF in_use
  <2> QED
    BY <2>2, <2>3 DEF InUse
<1> QED
  BY <1>1, <1>2, <1>3, <1>4 DEF Allocate

LEMMA ReserveEffect ==
    ASSUME PoolInvariant, NEW mid \in 0..MaxId + 1, Reserve(mid)
    PROVE  \/ mid \in Ids /\ InUse' = InUse \cup {mid} /\ answer' = Marked(mid)
           \/ mid \notin Ids /\ InUse' = InUse /\ answer' = Invalid
<1> USE MaxIdAssumption DEF Ids
<1>0. /\ MaxId \in Nat /\ next \in 1..MaxId + 1 /\ freeOne \in 0..next - 1
      /\ freeMany \subseteq (1..next - 1) \ {freeOne}
      /\ reserved \subseteq next..MaxId /\ reserved \subseteq 1..MaxId
  BY DEF PoolInvariant
<1>1. CASE ReserveInvalid(mid)
  BY <1>1 DEF ReserveInvalid, pool, InUse, in_use
<1>2. CASE ReserveBelow(mid)
  <2>1. \A m \in Ids : in_use(m)' <=> in_use(m) \/ m = mid
    BY <1>0, <1>2 DEF ReserveBelow, in_use
  <2> QED
    BY <1>2, <2>1 DEF ReserveBelow, InUse
<1>3. CASE ReserveAt(mid)
  <2> DEFINE frontier == SkipReserved(mid + 1)
  <2> HIDE DEF frontier
  <2>1. mid = next /\ mid \in 1..MaxId /\ mid + 1 \in 1..MaxId + 1
    BY <1>0, <1>3 DEF ReserveAt
  <2>2. /\ frontier \in mid + 1..MaxId + 1 /\ frontier \notin reserved
        /\ \A i \in mid + 1..frontier - 1 : i \in reserved
    BY <1>0, <2>1, SkipReservedStops DEF frontier
  <2>3. /\ next' = frontier /\ answer' = Marked(mid)
        /\ reserved' = reserved \ (mid..frontier - 1)
        /\ UNCHANGED <<freeCount, freeOne, freeMany>>
    BY <1>3 DEF ReserveAt, frontier
  <2>4. ASSUME NEW m \in Ids
        PROVE  in_use(m)' <=> in_use(m) \/ m = mid
    BY <1>0, <2>1, <2>2, <2>3 DEF in_use
  <2> QED
    BY <2>1, <2>3, <2>4 DEF InUse
<1>4. CASE ReserveAbove(mid)
  <2>1. \A m \in Ids : in_use(m)' <=> in_use(m) \/ m = mid
    BY <1>0, <1>4 DEF ReserveAbove, in_use
  <2> QED
    BY <1>4, <2>1 DEF ReserveAbove, InUse
<1> QED
  BY <1>1, <1>2, <1>3, <1>4 DEF Reserve

LEMMA ClearEffect ==
    ASSUME PoolInvariant, Cleared
    PROVE  InUse' = {}
  BY MaxIdAssumption DEF Cleared, InUse, in_use, Ids

LEMMA ReleaseEffect ==
    ASSUME PoolInvariant, NEW mid \in 0..MaxId + 1, Release(mid)
    PROVE  InUse' = InUse \ {mid} /\ answer' = Freed(mid)
<1> USE MaxIdAssumption DEF Ids
<1>0. /\ MaxId \in Nat /\ next \in 1..MaxId + 1 /\ freeOne \in 0..next - 1
      /\ freeMany \subseteq (1..next - 1) \ {freeOne}
      /\ reserved \subseteq next..MaxId /\ reserved \subseteq 1..MaxId
  BY DEF PoolInvariant
<1>1. CASE ReleaseIgnored(mid)
  BY <1>1 DEF ReleaseIgnored, pool, InUse, in_use
<1>2. CASE ReleaseBelow(mid)
  <2>1. /\ in_use(mid) /\ mid \in 1..next - 1
        /\ mid # freeOne /\ mid \notin freeMany /\ answer' = Freed(mid)
    BY <1>0, <1>2 DEF ReleaseBelow, in_use
  <2>2. CASE freeCount + 1 = next - 1 /\ reserved = {}
    <3>1. Cleared
      BY <1>2, <2>2 DEF ReleaseBelow
    <3>2. InUse = {mid}
      <4>1. len = 1 /\ len = Cardinality(InUse)
        BY <1>0, <2>2, FS_EmptySet, HolesCounted, ShapeGivesLen DEF len, LenExact
      <4>2. mid \in InUse /\ IsFiniteSet(InUse)
        <5>1. mid \in InUse /\ InUse \in SUBSET (1..MaxId)
          BY <1>0, <2>1 DEF InUse
        <5>2. IsFiniteSet(1..MaxId)
          BY <1>0, FS_Interval
        <5> QED
          BY <5>1, <5>2, FS_Subset
      <4> QED
        BY <4>1, <4>2, FS_Singleton
    <3> QED
      BY <2>1, <3>1, <3>2, ClearEffect
  <2>3. CASE ~ (freeCount + 1 = next - 1 /\ reserved = {})
    <3>1. /\ freeOne' = IF freeOne = 0 THEN mid ELSE freeOne
          /\ freeMany' = IF freeOne = 0 THEN freeMany
                         ELSE freeMany \cup {mid}
          /\ UNCHANGED <<reserved, next>>
      BY <1>2, <2>3 DEF ReleaseBelow
    <3>2. ASSUME NEW m \in Ids
          PROVE  in_use(m)' <=> in_use(m) /\ m # mid
      <4>1. CASE freeOne = 0
        BY <1>0, <2>1, <3>1, <4>1 DEF in_use
      <4>2. CASE freeOne # 0
        BY <1>0, <2>1, <3>1, <4>2 DEF in_use
      <4> QED
        BY <4>1, <4>2
    <3> QED
      BY <2>1, <3>2 DEF InUse
  <2> QED
    BY <2>2, <2>3
<1>3. CASE ReleaseAbove(mid)
  <2>1. /\ in_use(mid) /\ mid >= next /\ mid \in reserved /\ answer' = Freed(mid)
    BY <1>0, <1>3 DEF ReleaseAbove, in_use
  <2>2. CASE reserved = {mid} /\ freeCount = next - 1
    <3>1. Cleared
      BY <1>3, <2>2 DEF ReleaseAbove
    <3>2. InUse = {mid}
      BY <2>2, AllHoles, InUseShape
    <3> QED
      BY <2>1, <3>1, <3>2, ClearEffect
  <2>3. CASE ~ (reserved = {mid} /\ freeCount = next - 1)
    <3>1. /\ reserved' = reserved \ {mid}
          /\ UNCHANGED <<freeCount, freeOne, freeMany, next>>
      BY <1>3, <2>3 DEF ReleaseAbove
    <3>2. \A m \in Ids : in_use(m)' <=> in_use(m) /\ m # mid
      BY <1>0, <2>1, <3>1 DEF in_use
    <3> QED
      BY <2>1, <3>2 DEF InUse
  <2> QED
    BY <2>2, <2>3
<1> QED
  BY <1>1, <1>2, <1>3 DEF Release

(***************************************************************************)
(* The allocator implements a plain set of identifiers: it never grants    *)
(* one that is in use, it fails only when every one is, and no call        *)
(* disturbs an identifier it was not given.                                *)
(***************************************************************************)
THEOREM PoolRefinesPacketIds == Spec => ImplementsPacketIds
<1>1. Init => Abstract!Init
  BY MaxIdAssumption DEF Init, Abstract!Init, InUse, in_use, Ids, Done,
                         Abstract!Done
<1>2. PoolInvariant /\ [Next]_vars => [Abstract!Next]_Abstract!vars
  <2> SUFFICES ASSUME PoolInvariant, [Next]_vars
               PROVE  [Abstract!Next]_Abstract!vars
    OBVIOUS
  <2> USE DEF Abstract!Next, Abstract!Ids, Ids, Granted, Abstract!Granted,
              Exhausted, Abstract!Exhausted, Invalid, Abstract!Invalid,
              Done, Abstract!Done, Marked, Abstract!Marked, Freed, Abstract!Freed
  <2>1. CASE Allocate
    BY <2>1, AllocateEffect DEF Abstract!Allocate
  <2>2. ASSUME NEW mid \in 0..MaxId + 1, Reserve(mid)
        PROVE  Abstract!Next
    BY <2>2, ReserveEffect DEF Abstract!Reserve
  <2>3. ASSUME NEW mid \in 0..MaxId + 1, Release(mid)
        PROVE  Abstract!Next
    BY <2>3, ReleaseEffect DEF Abstract!Release
  <2>4. CASE Clear
    BY <2>4, ClearEffect DEF Clear, Abstract!Clear
  <2>5. CASE UNCHANGED vars
    BY <2>5 DEF vars, Abstract!vars, InUse, in_use
  <2> QED
    BY <2>1, <2>2, <2>3, <2>4, <2>5 DEF Next
<1> QED
  BY <1>1, <1>2, PoolShape, PTL DEF Spec, ImplementsPacketIds, Abstract!Spec

-----------------------------------------------------------------------------
\* The emptied representation exists only at its initial value.  This is the
\* inductive form of IdlePoolIsReset: it needs no count of InUse'.
EmptyOnlyAtStart == freeCount = next - 1 /\ reserved = {} => next = 1

LEMMA HolesBelowFrontier ==
    ASSUME PoolInvariant
    PROVE  freeCount \in 0..next - 1 /\ next \in Nat
<1>1. IsFiniteSet(1..next - 1) /\ Cardinality(1..next - 1) = next - 1
  BY MaxIdAssumption, FS_Interval DEF PoolInvariant
<1> QED
  BY <1>1, HolesCounted, FS_Subset, MaxIdAssumption DEF PoolInvariant

LEMMA EmptyOnlyAtStartInductive ==
    ASSUME PoolInvariant, EmptyOnlyAtStart, [Next]_vars
    PROVE  EmptyOnlyAtStart'
<1> USE MaxIdAssumption DEF EmptyOnlyAtStart
<1>0. /\ MaxId \in Nat /\ next \in 1..MaxId + 1
      /\ reserved \subseteq 1..MaxId /\ freeCount \in 0..next - 1
  BY HolesBelowFrontier DEF PoolInvariant
<1>1. CASE AllocateFreeOne \/ AllocateFreeMany
  BY <1>0, <1>1 DEF AllocateFreeOne, AllocateFreeMany
<1>2. CASE AllocateFrontier \/ AllocateExhausted
  <2> DEFINE mid == SkipReserved(next)
  <2> HIDE DEF mid
  <2>1. mid \in next..MaxId + 1
    BY <1>0, SkipReservedStops DEF mid
  <2>2. freeCount' = 0
    <3>1. freeOne = 0 /\ freeMany = {} /\ freeCount' = freeCount
      BY <1>2 DEF AllocateFrontier, AllocateExhausted
    <3>2. Cardinality(freeMany) = 0
      BY <3>1, FS_EmptySet
    <3>3. freeCount = Cardinality(freeMany)
      BY <3>1, <3>2 DEF PoolInvariant
    <3> QED
      BY <3>1, <3>2, <3>3
  <2>3. next' >= 2 /\ next' \in Int
    BY <1>0, <1>2, <2>1 DEF AllocateFrontier, AllocateExhausted, mid
  <2>4. freeCount' # next' - 1
    BY <2>2, <2>3
  <2> QED
    BY <2>4
<1>3. ASSUME NEW mid \in 0..MaxId + 1, Reserve(mid)
      PROVE  EmptyOnlyAtStart'
  <2>1. CASE ReserveInvalid(mid)
    BY <2>1 DEF ReserveInvalid, pool
  <2>2. CASE ReserveBelow(mid)
    BY <1>0, <2>2 DEF ReserveBelow
  <2>3. CASE ReserveAt(mid)
    <3> DEFINE frontier == SkipReserved(mid + 1)
    <3> HIDE DEF frontier
    <3>1. mid = next /\ mid + 1 \in 1..MaxId + 1
      BY <1>0, <2>3 DEF ReserveAt, Ids
    <3>2. frontier \in mid + 1..MaxId + 1
      BY <1>0, <3>1, SkipReservedStops DEF frontier
    <3>3. next' = frontier /\ freeCount' = freeCount
      BY <2>3 DEF ReserveAt, frontier
    <3> QED
      BY <1>0, <3>1, <3>2, <3>3
  <2>4. CASE ReserveAbove(mid)
    BY <2>4 DEF ReserveAbove
  <2> QED
    BY <1>3, <2>1, <2>2, <2>3, <2>4 DEF Reserve
<1>4. ASSUME NEW mid \in 0..MaxId + 1, Release(mid)
      PROVE  EmptyOnlyAtStart'
  <2>1. CASE ReleaseIgnored(mid)
    BY <2>1 DEF ReleaseIgnored, pool
  <2>2. CASE ReleaseBelow(mid)
    BY <1>0, <2>2 DEF ReleaseBelow, Cleared
  <2>3. CASE ReleaseAbove(mid)
    <3>1. mid \in reserved
      BY <1>0, <2>3 DEF ReleaseAbove, in_use
    <3> QED
      BY <1>0, <2>3, <3>1 DEF ReleaseAbove, Cleared
  <2> QED
    BY <1>4, <2>1, <2>2, <2>3 DEF Release
<1>5. CASE Clear
  BY <1>5 DEF Clear, Cleared
<1>6. CASE UNCHANGED vars
  BY <1>6 DEF vars
<1> QED
  BY <1>1, <1>2, <1>3, <1>4, <1>5, <1>6 DEF Next, Allocate

(***************************************************************************)
(* An emptied pool is the initial pool, whatever emptied it.               *)
(***************************************************************************)
THEOREM IdleReset == Spec => []IdlePoolIsReset
<1>1. Init => EmptyOnlyAtStart
  BY DEF Init, EmptyOnlyAtStart
<1>2. PoolInvariant /\ EmptyOnlyAtStart /\ [Next]_vars => EmptyOnlyAtStart'
  BY EmptyOnlyAtStartInductive
<1>3. PoolInvariant /\ EmptyOnlyAtStart => IdlePoolIsReset
  <2> SUFFICES ASSUME PoolInvariant, EmptyOnlyAtStart, InUse = {}
               PROVE  /\ freeCount = 0 /\ freeOne = 0 /\ freeMany = {}
                      /\ reserved = {} /\ next = 1
    BY DEF IdlePoolIsReset
  <2>1. reserved = {} /\ 1..next - 1 \subseteq Holes
    BY InUseShape
  <2>2. Holes = 1..next - 1
    BY <2>1, HolesCounted
  <2>3. next = 1
    BY <2>1, <2>2, AllHoles DEF EmptyOnlyAtStart
  <2>4. freeOne = 0 /\ freeMany = {}
    BY <2>3, MaxIdAssumption DEF PoolInvariant
  <2> QED
    BY <2>1, <2>3, <2>4, FS_EmptySet DEF PoolInvariant
<1> QED
  BY <1>1, <1>2, <1>3, PoolShape, PTL DEF Spec

(***************************************************************************)
(* What the pool's representation promises, for every size of the          *)
(* identifier space: its shape, its count and its reset.                   *)
(***************************************************************************)
THEOREM PoolIsExact == Spec => []PoolExact
<1>1. PoolInvariant /\ LenExact /\ IdlePoolIsReset => PoolExact
  BY DEF PoolExact
<1> QED
  BY <1>1, PoolShape, LenIsExact, IdleReset, PTL
=============================================================================
