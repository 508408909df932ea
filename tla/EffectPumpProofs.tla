-------------------------- MODULE EffectPumpProofs --------------------------
(***************************************************************************)
(* The safety of EffectPump for any number of tasks, effects, batches and  *)
(* epochs: LaneExact, FailureReported and SendOrder.                       *)
(*                                                                         *)
(* LaneInv is the inductive invariant.  Who may apply an effect is the     *)
(* heart of it: a flusher that is ready or applying is the one the pump    *)
(* names, one that closes a failed connection is alone and nothing is      *)
(* pending meanwhile, and once the reader has drained a flusher can only   *)
(* be applying what the reader itself left over.                           *)
(***************************************************************************)
EXTENDS EffectPump, SeqFoldsProofs, FiniteSetTheorems

Pump ==
  [pending: Seq(Effect), pendingEpoch: 1..MaxEpoch, enqueued: Nat, applied: Nat,
   task: Flusher \cup {None}, flush: BOOLEAN, failing: BOOLEAN]
Applied == EffectOf(Kind \cup {"closed"}, 1..MaxEpoch)
Task == [at: {"free", "ready", "applying", "closing", "done"}, cur: Applied \cup {None},
         cancel: BOOLEAN]
Drains == [at: {"idle", "retiring", "waiting", "woken", "ok", "raised"}, from: Nat,
           target: Nat, error: BOOLEAN]

TypeInv ==
  /\ p \in Pump
  /\ fl \in [Flusher -> Task]
  /\ drain \in [Drainer -> Drains]
  /\ epoch \in 1..MaxEpoch /\ transport \in 0..epoch
  /\ writer \in BOOLEAN /\ reader \in BOOLEAN
  /\ closer \in [at: {"no", "joining", "joined", "closed"}, task: Flusher \cup {None}]
  /\ emitted \in Seq(Effect) /\ Len(emitted) <= MaxEffects
  /\ sent \in Seq(Effect)
  /\ failed \subseteq 1..p.applied
  /\ closedBy \subseteq (1..MaxEpoch) \X (0..MaxEpoch)

\* What is pending in pump x: its positions, and its epoch.
Sound(x) ==
  /\ x \in Pump
  /\ x.enqueued = x.applied + Len(x.pending)
  /\ x.pending \in Seq(EffectOf(Kind, {x.pendingEpoch}))

PendingInv == Sound(p) /\ p.pendingEpoch <= epoch

Working(f) == fl[f].at \in {"ready", "applying"}
Applying(f) == fl[f].at = "applying" /\ ~fl[f].cancel

\* The reader's drain is over, or about to raise.
Drained == ~reader \/ drain[Reader].error \/ drain[Reader].at \in {"ok", "raised"}

\* Who may hold the lock: the flusher the pump names, or one that is closing a
\* failed connection.
Closing(f) == fl[f].at = "closing"

TaskOf(f) ==
  /\ Working(f) => ~p.failing /\ (p.task = f \/ closer.at = "closed")
  /\ Working(f) /\ closer.at = "closed" =>
       fl[f].at = "applying" /\ fl[f].cur.epoch = epoch
  /\ Closing(f) => p.failing
  /\ Working(f) /\ fl[f].cancel => closer = Closer("joining", f)
  /\ fl[f].at = "applying" =>
       /\ fl[f].cur \in EffectOf({"send", "close", "closed"}, 1..epoch)
       /\ transport <= fl[f].cur.epoch
  /\ Applying(f) => p.pending # <<>> \/ closer.at = "closed"
  /\ Applying(f) /\ writer /\ fl[f].cur.kind = "send" => p.pending[1] = fl[f].cur

TaskInv ==
  /\ \A f \in Flusher : TaskOf(f)
  /\ \A f, g \in Flusher : Working(f) /\ Working(g) => f = g
  /\ \A f, g \in Flusher : Closing(f) /\ Closing(g) => f = g
  /\ p.failing => (\E f \in Flusher : Closing(f)) /\ p.pending = <<>> /\ ~writer

\* The drains: their range, and the failures in it.
DrainOf(i) ==
  /\ drain[i].at \notin {"idle", "retiring"} => drain[i].target <= p.enqueued
  /\ drain[i].at = "waiting" => p.applied < drain[i].target
  /\ drain[i].at = "ok" => drain[i].target <= p.applied
  /\ drain[i].at \in {"waiting", "woken"} =>
       \A n \in failed : drain[i].from < n /\ n <= drain[i].target => drain[i].error
  /\ drain[i].at = "ok" => \A n \in failed : ~(drain[i].from < n /\ n <= drain[i].target)
  /\ drain[i].at = "retiring" => i = Reader

\* The flusher that will wake them; a cancelled one is replaced when it ends.
Flushes(f) ==
  \/ Closing(f)
  \/ Working(f) /\ ~fl[f].cancel
  \/ (Working(f) \/ fl[f].at = "done") /\ p.task = f /\ p.flush

DrainInv ==
  /\ \A i \in Drainer : DrainOf(i)
  /\ (\E i \in Drainer : drain[i].at = "waiting") => \E f \in Flusher : Flushes(f)

\* The reader, its drain() and the closing of its connection
ReaderInv ==
  /\ ~reader => drain[Reader].at = "idle" /\ transport = None /\ ~writer
  /\ drain[Reader].at # "idle" => ~writer
  /\ drain[Reader].at \in {"waiting", "woken", "ok"} => drain[Reader].target = p.enqueued
  /\ drain[Reader].at \in {"idle", "retiring"} => ~drain[Reader].error
  /\ Drained => \A f \in Flusher : Applying(f) => fl[f].cur.epoch = epoch
  /\ closer.at # "no" => ~writer
  /\ closer.at = "closed" => ~reader /\ p.task = None /\ p.pending = <<>>
  /\ Online /\ p.pending # <<>> => p.pendingEpoch = epoch

\* The sends of each epoch: those the writer took are the first the engine
\* emitted, and while it accepts the others are pending.
InOrder(s, e) ==
  \A ep \in 1..MaxEpoch : IsPrefix(OfEpoch(s, ep), Sends(OfEpoch(e, ep)))
Follows(s, e, ep, pend) ==
  Sends(OfEpoch(e, ep)) = OfEpoch(s, ep) \o Sends(pend)

OrderInv ==
  /\ emitted \in Seq(EffectOf(Kind, 1..epoch))
  /\ InOrder(sent, emitted)
  /\ writer => Follows(sent, emitted, epoch, p.pending)

LaneInv ==
  TypeInv /\ PendingInv /\ TaskInv /\ DrainInv /\ ReaderInv /\ OrderInv /\ ClosesOwnTransport
-----------------------------------------------------------------------------
(***************************************************************************)
(* The order of sends                                                      *)
(***************************************************************************)

\* Filters of effect sequences
LEMMA FiltersTyped ==
    ASSUME NEW s \in Seq(Effect), NEW ep \in 1..MaxEpoch
    PROVE  /\ Sends(s) \in Seq(Effect) /\ Others(s) \in Seq(Effect)
           /\ OfEpoch(s, ep) \in Seq(Effect)
<1>1. \A S : Only(s, S) \in Seq(Effect \cap S)
  BY OnlyTyped
<1>2. ASSUME NEW S
      PROVE  Only(s, S) \in Seq(Effect)
  <2>1. Effect \cap S \subseteq Effect
    OBVIOUS
  <2> HIDE DEF Effect
  <2> QED BY <1>1, <2>1, SeqMonotonic
<1> QED BY <1>2 DEF Sends, Others, OfEpoch

\* They distribute over concatenation.
LEMMA SendsConcat ==
    ASSUME NEW s \in Seq(Effect), NEW u \in Seq(Effect)
    PROVE  Sends(s \o u) = Sends(s) \o Sends(u)
BY OnlyConcat DEF Sends

\* The effects of one connection in a concatenation are those of its parts.
LEMMA EpochConcat ==
    ASSUME NEW s \in Seq(Effect), NEW u \in Seq(Effect), NEW ep \in 1..MaxEpoch
    PROVE  OfEpoch(s \o u, ep) = OfEpoch(s, ep) \o OfEpoch(u, ep)
BY OnlyConcat DEF OfEpoch

\* Effects of one epoch are all, or none, of an epoch.
LEMMA OneEpoch ==
    ASSUME NEW ep \in 1..MaxEpoch, NEW ep2 \in 1..MaxEpoch,
           NEW s \in Seq(EffectOf(Kind, {ep}))
    PROVE  /\ s \in Seq(Effect)
           /\ OfEpoch(s, ep) = s
           /\ ep2 # ep => OfEpoch(s, ep2) = <<>>
<1>1. EffectOf(Kind, {ep}) \subseteq Effect
  BY DEF EffectOf, Effect
<1>2. s \in Seq(Effect)
  BY <1>1, SeqMonotonic
<1>3. OfEpoch(s, ep) = s
  BY OnlyAll DEF OfEpoch
<1>4. ASSUME ep2 # ep
      PROVE  OfEpoch(s, ep2) = <<>>
  <2>1. EffectOf(Kind, {ep}) \cap EffectOf(Kind, {ep2}) = {}
    BY <1>4 DEF EffectOf
  <2> QED BY <2>1, OnlyNone DEF OfEpoch
<1> QED BY <1>2, <1>3, <1>4

\* Sends are all sends; the rest of a lane holds none.
LEMMA SendsOfLane ==
    ASSUME NEW s \in Seq(Effect)
    PROVE  Lane(s) \in Seq(Effect) /\ Sends(Lane(s)) = Sends(s) /\ Len(Lane(s)) = Len(s)
<1> DEFINE SS == EffectOf({"send"}, 1..MaxEpoch)
           OO == EffectOf(Kind \ {"send"}, 1..MaxEpoch)
<1>1. SS \subseteq Effect /\ OO \subseteq Effect /\ Effect \subseteq SS \cup OO /\ SS \cap OO = {}
  BY DEF EffectOf, Effect, Kind
<1>2. Sends(s) = Only(s, SS) /\ Others(s) = Only(s, OO)
  BY DEF Sends, Others
<1> HIDE DEF SS, OO
<1>3. Sends(s) \in Seq(SS) /\ Others(s) \in Seq(OO)
  <2>1. Only(s, SS) \in Seq(Effect \cap SS) /\ Only(s, OO) \in Seq(Effect \cap OO)
    BY OnlyTyped
  <2> QED BY <1>2, <2>1, SeqMonotonic
<1>4. Sends(s) \in Seq(Effect) /\ Others(s) \in Seq(Effect)
  BY <1>1, <1>3, SeqMonotonic
<1>5. Sends(Sends(s)) = Sends(s)
  BY <1>3, OnlyAll DEF Sends, SS
<1>6. Sends(Others(s)) = <<>>
  <2>1. OO \cap SS = {}
    BY <1>1
  <2> QED BY <1>3, <2>1, OnlyNone DEF Sends, SS
<1>7. Only(Sends(s) \o Others(s), SS) = Only(Sends(s), SS) \o Only(Others(s), SS)
  BY <1>4, OnlyConcat
<1>8. Sends(Lane(s)) = Sends(s) \o <<>>
  BY <1>5, <1>6, <1>7 DEF Lane, Sends, SS
<1>9. Sends(s) \o <<>> = Sends(s)
  BY <1>4, ConcatEmptySeq
<1>10. Len(Sends(s)) + Len(Others(s)) = Len(s)
  BY <1>1, <1>2, OnlySplit
<1>11. Lane(s) \in Seq(Effect) /\ Len(Lane(s)) = Len(s)
  BY <1>4, <1>10, ConcatProperties DEF Lane
<1> QED BY <1>8, <1>9, <1>11

\* The lane of effects of one epoch
LEMMA LaneOfEpoch ==
    ASSUME NEW ep \in 1..MaxEpoch, NEW s \in Seq(EffectOf(Kind, {ep}))
    PROVE  Lane(s) \in Seq(EffectOf(Kind, {ep}))
<1>1. \A S : Only(s, S) \in Seq(EffectOf(Kind, {ep}) \cap S)
  BY OnlyTyped
<1>2. ASSUME NEW S
      PROVE  Only(s, S) \in Seq(EffectOf(Kind, {ep}))
  <2>1. EffectOf(Kind, {ep}) \cap S \subseteq EffectOf(Kind, {ep})
    OBVIOUS
  <2> QED BY <1>1, <2>1, SeqMonotonic
<1> QED BY <1>2, ConcatProperties DEF Lane, Sends, Others

\* What is taken first is a prefix.
LEMMA ConcatIsPrefix ==
    ASSUME NEW T, NEW a \in Seq(T), NEW b \in Seq(T)
    PROVE  IsPrefix(a, a \o b)
<1>1. /\ a \o b \in Seq(T) /\ Len(a \o b) = Len(a) + Len(b) /\ Len(a) \in Nat /\ Len(b) \in Nat
      /\ \A i \in 1..Len(a) : (a \o b)[i] = a[i]
  BY ConcatProperties, LenProperties
<1>2. SubSeq(a, 1, Len(a)) = SubSeq(a \o b, 1, Len(a))
  <2>1. \A i \in 1..Len(a) : a[i] \in T /\ (a \o b)[i] \in T
    BY <1>1, ElementOfSeq
  <2> DEFINE s == SubSeq(a, 1, Len(a))
             u == SubSeq(a \o b, 1, Len(a))
  <2>2. /\ s \in Seq(T) /\ Len(s) = Len(a)
        /\ \A i \in 1..Len(a) : s[i] = a[i]
    BY <1>1, <2>1, SubSeqProperties
  <2>3. /\ u \in Seq(T) /\ Len(u) = Len(a)
        /\ \A i \in 1..Len(a) : u[i] = (a \o b)[i]
    BY <1>1, <2>1, SubSeqProperties
  <2> HIDE DEF s, u
  <2>4. s = u
    BY <1>1, <2>2, <2>3, SeqEqual
  <2> QED BY <2>4 DEF s, u
<1> QED BY <1>1, <1>2 DEF IsPrefix

\* A prefix stays one when the sequence grows.
LEMMA PrefixGrows ==
    ASSUME NEW T, NEW a \in Seq(T), NEW b \in Seq(T), NEW c \in Seq(T), IsPrefix(a, b)
    PROVE  IsPrefix(a, b \o c)
<1>1. /\ b \o c \in Seq(T) /\ Len(b \o c) = Len(b) + Len(c)
      /\ Len(a) \in Nat /\ Len(b) \in Nat /\ Len(c) \in Nat
      /\ \A i \in 1..Len(b) : (b \o c)[i] = b[i]
  BY ConcatProperties, LenProperties
<1>2. Len(a) <= Len(b) /\ SubSeq(a, 1, Len(a)) = SubSeq(b, 1, Len(a))
  BY DEF IsPrefix
<1>3. SubSeq(b, 1, Len(a)) = SubSeq(b \o c, 1, Len(a))
  <2>1. \A i \in 1..Len(a) : b[i] \in T /\ (b \o c)[i] \in T
    BY <1>1, <1>2, ElementOfSeq
  <2> DEFINE s == SubSeq(b, 1, Len(a))
             u == SubSeq(b \o c, 1, Len(a))
  <2>2. /\ s \in Seq(T) /\ Len(s) = Len(a)
        /\ \A i \in 1..Len(a) : s[i] = b[i]
    BY <1>1, <2>1, SubSeqProperties
  <2>3. /\ u \in Seq(T) /\ Len(u) = Len(a)
        /\ \A i \in 1..Len(a) : u[i] = (b \o c)[i]
    <3> DEFINE d == b \o c
    <3>1. \A i \in 1..Len(a) : d[i] \in T
      BY <2>1
    <3> HIDE DEF d
    <3>2. /\ SubSeq(d, 1, Len(a)) \in Seq(T)
          /\ Len(SubSeq(d, 1, Len(a))) = IF 1 <= Len(a) THEN Len(a) - 1 + 1 ELSE 0
          /\ \A i \in 1..Len(a) - 1 + 1 : SubSeq(d, 1, Len(a))[i] = d[1 + i - 1]
      BY <1>1, <3>1, SubSeqProperties
    <3>3. Len(SubSeq(d, 1, Len(a))) = Len(a)
      BY <1>1, <3>2
    <3>4. ASSUME NEW i \in 1..Len(a)
          PROVE  SubSeq(d, 1, Len(a))[i] = d[i]
      <4>1. i \in 1..Len(a) - 1 + 1 /\ 1 + i - 1 = i
        BY <1>1
      <4> QED BY <3>2, <4>1
    <3> QED BY <3>2, <3>3, <3>4 DEF d
  <2> HIDE DEF s, u
  <2>4. s = u
    BY <1>1, <1>2, <2>2, <2>3, SeqEqual
  <2> QED BY <2>4 DEF s, u
<1> QED BY <1>1, <1>2, <1>3 DEF IsPrefix

\* What follows is in order.
LEMMA FollowsInOrder ==
    ASSUME NEW s \in Seq(Effect), NEW e \in Seq(Effect), NEW pend \in Seq(Effect),
           NEW ep \in 1..MaxEpoch, Follows(s, e, ep, pend)
    PROVE  IsPrefix(OfEpoch(s, ep), Sends(OfEpoch(e, ep)))
BY FiltersTyped, ConcatIsPrefix DEF Follows

\* Taking sends from the front of what is pending
LEMMA TakenInOrder ==
    ASSUME NEW s \in Seq(Effect), NEW e \in Seq(Effect), NEW ep \in 1..MaxEpoch,
           NEW pend \in Seq(EffectOf(Kind, {ep})), NEW k \in 0..Len(pend),
           \A i \in 1..k : pend[i].kind = "send",
           InOrder(s, e), Follows(s, e, ep, pend)
    PROVE  /\ s \o SubSeq(pend, 1, k) \in Seq(Effect)
           /\ InOrder(s \o SubSeq(pend, 1, k), e)
           /\ Follows(s \o SubSeq(pend, 1, k), e, ep, SubSeq(pend, k + 1, Len(pend)))
<1> DEFINE a == SubSeq(pend, 1, k)
           b == SubSeq(pend, k + 1, Len(pend))
           E == EffectOf(Kind, {ep})
<1>1. \A i \in 1..Len(pend) : pend[i] \in E
  BY ElementOfSeq
<1>2. Len(pend) \in Nat
  BY LenProperties
<1>3. /\ a \in Seq(E) /\ b \in Seq(E) /\ Len(a) = k
      /\ \A i \in 1..k : a[i] = pend[i]
  <2>1. \A i \in 1..k : pend[i] \in E
    BY <1>1, <1>2
  <2>2. \A i \in k + 1..Len(pend) : pend[i] \in E
    BY <1>1, <1>2
  <2>3. /\ a \in Seq(E) /\ Len(a) = IF 1 <= k THEN k - 1 + 1 ELSE 0
        /\ \A i \in 1..k - 1 + 1 : a[i] = pend[1 + i - 1]
    BY <2>1, SubSeqProperties
  <2>4. b \in Seq(E)
    BY <1>2, <2>2, SubSeqProperties
  <2> HIDE DEF a, b, E
  <2> QED BY <2>3, <2>4
<1>4. a \o b = pend
  <2>1. 1 \in 1..Len(pend) + 1 /\ k \in (1 - 1)..Len(pend) /\ Len(pend) \in k..Len(pend)
    BY <1>2
  <2>2. a \o b = SubSeq(pend, 1, Len(pend))
    BY <2>1, ConcatAdjacentSubSeq
  <2> QED BY <2>2, SubSeqFull
<1>5. a \in Seq(Effect) /\ b \in Seq(Effect) /\ OfEpoch(a, ep) = a
  BY <1>3, OneEpoch
<1>6. Sends(a) = a
  <2>1. a \in Seq(EffectOf({"send"}, 1..MaxEpoch))
    <3>1. \A i \in 1..Len(a) : a[i] \in EffectOf({"send"}, 1..MaxEpoch)
      BY <1>1, <1>2, <1>3 DEF EffectOf
    <3> HIDE DEF a
    <3> QED BY <1>3, <3>1
  <2> QED BY <2>1, OnlyAll DEF Sends
<1> HIDE DEF a, b
<1>7. s \o a \in Seq(Effect)
  BY <1>5, ConcatProperties
<1>8. Follows(s \o a, e, ep, b)
  <2>1. Sends(pend) = a \o Sends(b)
    BY <1>4, <1>5, <1>6, SendsConcat
  <2>2. OfEpoch(s \o a, ep) = OfEpoch(s, ep) \o a
    <3>1. OfEpoch(s \o a, ep) = OfEpoch(s, ep) \o OfEpoch(a, ep)
      BY <1>5, EpochConcat
    <3> QED BY <1>5, <3>1
  <2>3. OfEpoch(s, ep) \in Seq(Effect) /\ Sends(b) \in Seq(Effect)
    BY <1>5, FiltersTyped
  <2>4. (OfEpoch(s, ep) \o a) \o Sends(b) = OfEpoch(s, ep) \o (a \o Sends(b))
    BY <1>5, <2>3, ConcatAssociative, SMTT(30)
  <2> QED BY <2>1, <2>2, <2>4 DEF Follows
<1>9. InOrder(s \o a, e)
  <2>1. SUFFICES ASSUME NEW ep2 \in 1..MaxEpoch
                 PROVE  IsPrefix(OfEpoch(s \o a, ep2), Sends(OfEpoch(e, ep2)))
    BY DEF InOrder
  <2>2. CASE ep2 = ep
    BY <1>5, <1>7, <1>8, <2>2, FollowsInOrder
  <2>3. CASE ep2 # ep
    <3>1. OfEpoch(a, ep2) = <<>>
      BY <1>3, <2>3, OneEpoch
    <3>2. OfEpoch(s \o a, ep2) = OfEpoch(s, ep2) \o <<>>
      <4>1. OfEpoch(s \o a, ep2) = OfEpoch(s, ep2) \o OfEpoch(a, ep2)
        BY <1>5, EpochConcat
      <4> QED BY <3>1, <4>1
    <3>3. OfEpoch(s, ep2) \o <<>> = OfEpoch(s, ep2)
      BY FiltersTyped, ConcatEmptySeq
    <3> QED BY <3>2, <3>3 DEF InOrder
  <2> QED BY <2>2, <2>3
<1> QED BY <1>7, <1>8, <1>9 DEF a, b

\* Emitting effects of one epoch
LEMMA EmittedInOrder ==
    ASSUME NEW s \in Seq(Effect), NEW e \in Seq(Effect), NEW ep \in 1..MaxEpoch,
           NEW batch \in Seq(EffectOf(Kind, {ep})), InOrder(s, e)
    PROVE  /\ e \o batch \in Seq(Effect)
           /\ InOrder(s, e \o batch)
           /\ \A pend \in Seq(Effect) :
                Follows(s, e, ep, pend) => Follows(s, e \o batch, ep, pend \o Lane(batch))
<1>1. batch \in Seq(Effect)
  BY OneEpoch
<1>2. e \o batch \in Seq(Effect)
  BY <1>1, ConcatProperties
<1>3. \A ep2 \in 1..MaxEpoch : /\ OfEpoch(e, ep2) \in Seq(Effect)
                               /\ OfEpoch(batch, ep2) \in Seq(Effect)
                               /\ OfEpoch(s, ep2) \in Seq(Effect)
  BY <1>1, FiltersTyped
<1>4. ASSUME NEW ep2 \in 1..MaxEpoch
      PROVE  Sends(OfEpoch(e \o batch, ep2)) = Sends(OfEpoch(e, ep2)) \o Sends(OfEpoch(batch, ep2))
  <2>1. OfEpoch(e \o batch, ep2) = OfEpoch(e, ep2) \o OfEpoch(batch, ep2)
    BY <1>1, EpochConcat
  <2> QED BY <1>3, <2>1, SendsConcat
<1>5. InOrder(s, e \o batch)
  <2>1. SUFFICES ASSUME NEW ep2 \in 1..MaxEpoch
                 PROVE  IsPrefix(OfEpoch(s, ep2), Sends(OfEpoch(e \o batch, ep2)))
    BY DEF InOrder
  <2>2. IsPrefix(OfEpoch(s, ep2), Sends(OfEpoch(e, ep2)))
    BY DEF InOrder
  <2>3. Sends(OfEpoch(e, ep2)) \in Seq(Effect) /\ Sends(OfEpoch(batch, ep2)) \in Seq(Effect)
    BY <1>3, FiltersTyped
  <2> QED BY <1>3, <1>4, <2>2, <2>3, PrefixGrows
<1>6. ASSUME NEW pend \in Seq(Effect), Follows(s, e, ep, pend)
      PROVE  Follows(s, e \o batch, ep, pend \o Lane(batch))
  <2>1. Sends(OfEpoch(e \o batch, ep)) = Sends(OfEpoch(e, ep)) \o Sends(batch)
    BY <1>4, OneEpoch
  <2>2. Lane(batch) \in Seq(Effect) /\ Sends(Lane(batch)) = Sends(batch)
    BY <1>1, SendsOfLane
  <2>3. Sends(pend \o Lane(batch)) = Sends(pend) \o Sends(batch)
    BY <2>2, SendsConcat
  <2>4. Sends(pend) \in Seq(Effect) /\ Sends(batch) \in Seq(Effect)
    BY <1>1, FiltersTyped
  <2>5. (OfEpoch(s, ep) \o Sends(pend)) \o Sends(batch)
          = OfEpoch(s, ep) \o (Sends(pend) \o Sends(batch))
    <3>1. OfEpoch(s, ep) \in Seq(Effect)
      BY <1>3
    <3> DEFINE x == OfEpoch(s, ep)
               y == Sends(pend)
               z == Sends(batch)
    <3>2. x \in Seq(Effect) /\ y \in Seq(Effect) /\ z \in Seq(Effect)
      BY <2>4, <3>1
    <3> HIDE DEF x, y, z
    <3>3. (x \o y) \o z = x \o (y \o z)
      BY <3>2, ConcatAssociative, SMTT(30)
    <3> QED BY <3>3 DEF x, y, z
  <2> QED BY <1>6, <2>1, <2>3, <2>5 DEF Follows
<1> QED BY <1>2, <1>5, <1>6
-----------------------------------------------------------------------------
(***************************************************************************)
(* The pump object                                                         *)
(***************************************************************************)

\* FiniteSetsExt's minimum of a set of naturals
LEMMA MinIsLeast ==
    ASSUME NEW A \in SUBSET Nat, A # {}
    PROVE  Min(A) \in A /\ \A k \in A : Min(A) <= k
<1>1. \E n \in A : \A k \in A : n <= k
  BY LeastExists
<1> QED BY <1>1 DEF Min

\* The sends in front
LEMMA LeadingShape ==
    ASSUME NEW s \in Seq(Effect)
    PROVE  /\ Leading(s) \in 0..Len(s)
           /\ \A i \in 1..Leading(s) : s[i].kind = "send"
           /\ Leading(s) < Len(s) => s[Leading(s) + 1].kind # "send"
<1> DEFINE A == {i - 1 : i \in {j \in DOMAIN s : s[j].kind # "send"}} \cup {Len(s)}
<1>1. DOMAIN s = 1..Len(s) /\ Len(s) \in Nat
  BY LenProperties
<1>2. A \in SUBSET Nat /\ A # {} /\ Len(s) \in A /\ Leading(s) = Min(A)
  BY <1>1 DEF Leading
<1>3. \A k \in A : k # Len(s) => s[k + 1].kind # "send"
  BY <1>1
<1>4. \A i \in 1..Len(s) : s[i].kind # "send" => i - 1 \in A
  BY <1>1
<1> HIDE DEF A
<1>5. Leading(s) \in A /\ \A k \in A : Leading(s) <= k
  BY <1>2, MinIsLeast
<1>6. Leading(s) \in 0..Len(s)
  <2>1. Leading(s) \in Nat /\ Leading(s) <= Len(s)
    BY <1>2, <1>5
  <2> QED BY <1>1, <2>1
<1>7. \A i \in 1..Leading(s) : s[i].kind = "send"
  BY <1>1, <1>4, <1>5, <1>6
<1> QED BY <1>1, <1>3, <1>5, <1>6, <1>7

\* The fields a pass leaves alone
Same(x, y) ==
  /\ x.enqueued = y.enqueued /\ x.pendingEpoch = y.pendingEpoch /\ x.task = y.task
  /\ x.flush = y.flush /\ x.failing = y.failing

\* Dropping what is pending completes it: the positions meet.
LEMMA DiscardedShape ==
    ASSUME NEW x, Sound(x)
    PROVE  /\ Sound(Discarded(x)) /\ Same(Discarded(x), x)
           /\ Discarded(x).pending = <<>> /\ Discarded(x).applied = x.enqueued
           /\ x.applied <= x.enqueued
<1>1. x \in Pump /\ Len(x.pending) \in Nat /\ x.pending \in Seq(Effect)
  BY LenProperties DEF Sound, Pump
<1>2. Discarded(x) = [pending |-> <<>>, pendingEpoch |-> x.pendingEpoch, enqueued |-> x.enqueued,
                      applied |-> x.applied + Len(x.pending), task |-> x.task, flush |-> x.flush,
                      failing |-> x.failing]
  <2> DEFINE a == x.applied + Len(x.pending)
             e == <<>>
  <2>1. Discarded(x) = [x EXCEPT !.pending = e, !.applied = a]
    BY <1>1 DEF Discarded, Pump
  <2> HIDE DEF a, e
  <2>2. Discarded(x) = [pending |-> e, pendingEpoch |-> x.pendingEpoch, enqueued |-> x.enqueued,
                        applied |-> a, task |-> x.task, flush |-> x.flush,
                        failing |-> x.failing]
    BY <1>1, <2>1 DEF Pump
  <2> QED BY <2>2 DEF a, e
<1>3. <<>> \in Seq(Effect) /\ <<>> \in Seq(EffectOf(Kind, {x.pendingEpoch})) /\ Len(<<>>) = 0
  BY EmptySeq
<1>4. x.enqueued = x.applied + Len(x.pending) /\ x.applied \in Nat /\ x.enqueued \in Nat
  BY <1>1 DEF Sound, Pump
<1>5. Discarded(x) \in Pump
  BY <1>1, <1>2, <1>3, <1>4 DEF Pump
<1> QED BY <1>2, <1>3, <1>4, <1>5, <1>1 DEF Sound, Same

\* Completing n effects moves the applied position by n and keeps the rest of the
\* lane in order.
LEMMA CompletedShape ==
    ASSUME NEW x, Sound(x), NEW n \in 0..Len(x.pending)
    PROVE  /\ Sound(Completed(x, n)) /\ Same(Completed(x, n), x)
           /\ Completed(x, n).applied = x.applied + n
           /\ Completed(x, n).pending = SubSeq(x.pending, n + 1, Len(x.pending))
           /\ Len(Completed(x, n).pending) = Len(x.pending) - n
           /\ \A i \in 1..(Len(x.pending) - n) : Completed(x, n).pending[i] = x.pending[n + i]
<1> DEFINE E == EffectOf(Kind, {x.pendingEpoch})
           rest == SubSeq(x.pending, n + 1, Len(x.pending))
           l == Len(x.pending)
<1>1. x \in Pump /\ l \in Nat /\ x.pending \in Seq(E) /\ x.pendingEpoch \in 1..MaxEpoch
  BY LenProperties DEF Sound, Pump
<1>2. /\ rest \in Seq(E) /\ Len(rest) = l - n
      /\ \A i \in 1..(l - n) : rest[i] = x.pending[n + i]
  <2>1. \A i \in n + 1..l : x.pending[i] \in E
    BY <1>1, ElementOfSeq
  <2>2. n + 1 \in Int /\ l \in Int
    BY <1>1
  <2>3. /\ rest \in Seq(E) /\ Len(rest) = IF n + 1 <= l THEN l - (n + 1) + 1 ELSE 0
        /\ \A i \in 1..(l - (n + 1) + 1) : rest[i] = x.pending[(n + 1) + i - 1]
    <3> DEFINE q == x.pending
    <3>1. \A i \in n + 1..l : q[i] \in E
      BY <2>1
    <3> HIDE DEF q, E, l
    <3>2. /\ SubSeq(q, n + 1, l) \in Seq(E)
          /\ Len(SubSeq(q, n + 1, l)) = IF n + 1 <= l THEN l - (n + 1) + 1 ELSE 0
          /\ \A i \in 1..(l - (n + 1) + 1) : SubSeq(q, n + 1, l)[i] = q[(n + 1) + i - 1]
      BY <2>2, <3>1, SubSeqProperties
    <3> QED BY <3>2 DEF q, l
  <2> HIDE DEF rest, E, l
  <2> QED BY <1>1, <2>3 DEF l
<1>3. rest \in Seq(Effect)
  <2>1. E \subseteq Effect
    BY <1>1 DEF EffectOf, Effect
  <2> QED BY <1>2, <2>1, SeqMonotonic
<1>4. Completed(x, n) = [pending |-> rest, pendingEpoch |-> x.pendingEpoch, enqueued |-> x.enqueued,
                      applied |-> x.applied + n, task |-> x.task, flush |-> x.flush,
                      failing |-> x.failing]
  <2> DEFINE a == x.applied + n
  <2>1. Completed(x, n) = [x EXCEPT !.pending = rest, !.applied = a]
    BY <1>1 DEF Completed, Pump
  <2> HIDE DEF a, rest
  <2>2. Completed(x, n) = [pending |-> rest, pendingEpoch |-> x.pendingEpoch,
                        enqueued |-> x.enqueued, applied |-> a, task |-> x.task,
                        flush |-> x.flush, failing |-> x.failing]
    BY <1>1, <2>1 DEF Pump
  <2> QED BY <2>2 DEF a
<1> HIDE DEF rest
<1>5. x.enqueued = x.applied + l /\ x.applied \in Nat /\ x.enqueued \in Nat
  BY <1>1 DEF Sound, Pump
<1>6. Completed(x, n) \in Pump
  BY <1>1, <1>3, <1>4, <1>5 DEF Pump
<1>7. Sound(Completed(x, n))
  BY <1>1, <1>2, <1>4, <1>5, <1>6 DEF Sound
<1>8. Same(Completed(x, n), x) /\ Completed(x, n).applied = x.applied + n
      /\ Completed(x, n).pending = rest
  BY <1>4 DEF Same
<1> HIDE DEF l
<1> QED BY <1>2, <1>7, <1>8 DEF rest, l

\* What an inline pass can do to pump x
Passed(x, o) ==
  /\ Sound(o.x) /\ Same(o.x, x) /\ o.x.applied >= x.applied
  /\ o.raised \in BOOLEAN
  /\ Locked => o = Unmoved(x)

PassOrder(x, o) ==
  /\ sent \o o.took \in Seq(Effect)
  /\ InOrder(sent \o o.took, emitted)
  /\ writer => Follows(sent \o o.took, emitted, epoch, o.x.pending)

\* A pass applies no more than the leading sends.
LEMMA CountsShape ==
    ASSUME NEW s \in Seq(Effect), NEW n \in InlineCounts(s)
    PROVE  n \in 0..Leading(s) /\ n \in 0..Len(s)
BY LeadingShape DEF InlineCounts

\* The counting pass, when x may go on
LEMMA MovedShape ==
    ASSUME writer \in BOOLEAN, NEW x, Sound(x), x.pending # <<>>, ~Locked,
           NEW n \in InlineCounts(x.pending), NEW o \in Moved(x, n)
    PROVE  /\ n \in 0..Leading(x.pending) /\ n \in 0..Len(x.pending)
           /\ o.x = Completed(x, n) /\ o.took = Taken(x.pending, n)
           /\ Passed(x, o)
<1> DEFINE y == Completed(x, n)
<1>1. x.pending \in Seq(Effect) /\ Len(x.pending) \in Nat /\ Len(x.pending) > 0
  BY LenProperties, EmptySeq DEF Sound, Pump
<1>2. n \in 0..Leading(x.pending) /\ n \in 0..Len(x.pending)
  BY <1>1, CountsShape
<1>3. PICK r \in RaiseChoices(y.pending) :
        o = [x |-> y, took |-> Taken(x.pending, n), raised |-> r]
  BY DEF Moved
<1>4. /\ Sound(y) /\ Same(y, x) /\ y.applied = x.applied + n
      /\ Len(y.pending) = Len(x.pending) - n
      /\ \A i \in 1..(Len(x.pending) - n) : y.pending[i] = x.pending[n + i]
      /\ y.pending = SubSeq(x.pending, n + 1, Len(x.pending))
  BY <1>2, CompletedShape
<1> HIDE DEF y
<1>5. y.pending \in Seq(Effect) /\ x.applied \in Nat
  BY <1>4 DEF Sound, Pump
<1>6. r \in BOOLEAN
  <2>1. CASE y.pending = <<>>
    BY <2>1 DEF RaiseChoices
  <2>2. CASE y.pending # <<>>
    <3>1. Head(y.pending) \in Effect
      BY <1>5, <2>2
    <3>2. Head(y.pending).kind \in Kind
      BY <3>1 DEF Effect, EffectOf
    <3> QED BY <2>2, <3>2 DEF RaiseChoices, Kind
  <2> QED BY <2>1, <2>2
<1>9. y.applied >= x.applied
  BY <1>2, <1>4, <1>5
<1>10. o.x = y /\ o.took = Taken(x.pending, n) /\ o.raised = r
  BY <1>3
<1> QED BY <1>2, <1>4, <1>6, <1>9, <1>10 DEF Passed, y

\* Whatever drain_inline() does to a sound pump, a sound pump results.
LEMMA InlineShape ==
    ASSUME writer \in BOOLEAN, NEW x, Sound(x), NEW o \in InlineOutcomes(x)
    PROVE  Passed(x, o)
<1>1. CASE Locked \/ x.pending = <<>>
  <2>1. o = Unmoved(x)
    BY <1>1 DEF InlineOutcomes
  <2>2. o.x = x /\ o.raised = FALSE
    BY <2>1 DEF Unmoved
  <2>3. x.applied >= x.applied
    BY DEF Sound, Pump
  <2> QED BY <2>1, <2>2, <2>3 DEF Passed, Same
<1>2. CASE ~Locked /\ x.pending # <<>> /\ x.pendingEpoch # epoch
  <2>1. o = Unmoved(Discarded(x))
    BY <1>2 DEF InlineOutcomes
  <2>2. o.x = Discarded(x) /\ o.raised = FALSE
    BY <2>1 DEF Unmoved
  <2>3. /\ Sound(Discarded(x)) /\ Same(Discarded(x), x)
        /\ Discarded(x).pending = <<>> /\ Discarded(x).applied >= x.applied
    <3>1. x.applied \in Nat /\ x.enqueued \in Nat
      BY DEF Sound, Pump
    <3> QED BY <3>1, DiscardedShape
  <2> QED BY <1>2, <2>2, <2>3 DEF Passed
<1>3. CASE ~Locked /\ x.pending # <<>> /\ x.pendingEpoch = epoch
  <2>1. o \in UNION {Moved(x, n) : n \in InlineCounts(x.pending)}
    BY <1>3 DEF InlineOutcomes
  <2>2. PICK n \in InlineCounts(x.pending) : o \in Moved(x, n)
    BY <2>1
  <2> QED BY <1>3, <2>2, MovedShape
<1> QED BY <1>1, <1>2, <1>3

\* Nothing taken leaves the order as it is.
LEMMA NothingTaken ==
    ASSUME sent \in Seq(Effect)
    PROVE  sent \o <<>> = sent
BY ConcatEmptySeq

\* drain_inline() hands the writer the sends at the head of the lane, in order.
LEMMA InlineOrder ==
    ASSUME LaneInv, NEW o \in InlineOutcomes(p)
    PROVE  PassOrder(p, o)
<1>1. /\ writer \in BOOLEAN /\ sent \in Seq(Effect) /\ emitted \in Seq(Effect) /\ Sound(p)
      /\ epoch \in 1..MaxEpoch /\ InOrder(sent, emitted) /\ sent \o <<>> = sent
      /\ writer => Follows(sent, emitted, epoch, p.pending)
  BY NothingTaken DEF LaneInv, TypeInv, PendingInv, OrderInv
<1>2. CASE Locked \/ p.pending = <<>>
  <2>1. o = Unmoved(p)
    BY <1>2 DEF InlineOutcomes
  <2>2. o.x = p /\ o.took = <<>>
    BY <2>1 DEF Unmoved
  <2> QED BY <1>1, <2>2 DEF PassOrder
<1>3. CASE ~Locked /\ p.pending # <<>> /\ p.pendingEpoch # epoch
  <2>1. o = Unmoved(Discarded(p))
    BY <1>3 DEF InlineOutcomes
  <2>2. o.took = <<>>
    BY <2>1 DEF Unmoved
  <2>3. ~writer
    BY <1>1, <1>3 DEF LaneInv, ReaderInv, Online
  <2> QED BY <1>1, <2>2, <2>3 DEF PassOrder
<1>4. CASE ~Locked /\ p.pending # <<>> /\ p.pendingEpoch = epoch
  <2>1. o \in UNION {Moved(p, n) : n \in InlineCounts(p.pending)}
    BY <1>4 DEF InlineOutcomes
  <2>2. PICK n \in InlineCounts(p.pending) : o \in Moved(p, n)
    BY <2>1
  <2>3. /\ n \in 0..Leading(p.pending) /\ n \in 0..Len(p.pending)
        /\ o.x = Completed(p, n) /\ o.took = Taken(p.pending, n)
    BY <1>1, <1>4, <2>2, MovedShape
  <2>4. CASE ~writer
    <3>1. o.took = <<>>
      BY <2>3, <2>4 DEF Taken
    <3> QED BY <1>1, <2>4, <3>1 DEF PassOrder
  <2>5. CASE writer
    <3>1. o.took = SubSeq(p.pending, 1, n)
      BY <2>3, <2>5 DEF Taken
    <3>2. o.x.pending = SubSeq(p.pending, n + 1, Len(p.pending))
      BY <1>1, <2>3, CompletedShape
    <3>3. p.pending \in Seq(EffectOf(Kind, {epoch})) /\ p.pending \in Seq(Effect)
      BY <1>1, <1>4 DEF Sound, Pump
    <3>4. \A i \in 1..n : p.pending[i].kind = "send"
      <4>1. Leading(p.pending) \in Nat /\ \A i \in 1..Leading(p.pending) : p.pending[i].kind = "send"
        BY <3>3, LeadingShape
      <4> QED BY <2>3, <4>1
    <3> QED BY <1>1, <2>3, <2>5, <3>1, <3>2, <3>3, <3>4, TakenInOrder DEF PassOrder
  <2> QED BY <1>1, <2>4, <2>5
<1> QED BY <1>2, <1>3, <1>4
-----------------------------------------------------------------------------
(***************************************************************************)
(* Drains                                                                  *)
(***************************************************************************)

\* A drain that goes on, or is woken
WokeTo(d, e) ==
  /\ e.from = d.from /\ e.target = d.target /\ e.error = d.error
  /\ e.at = d.at \/ (d.at = "waiting" /\ e.at = "woken")

Wakes(ds, es) ==
  /\ es \in [Drainer -> Drains]
  /\ \A i \in Drainer : WokeTo(ds[i], es[i])

\* progress.set() wakes everybody and changes nothing else.
LEMMA ProgressShape ==
    ASSUME NEW ds \in [Drainer -> Drains]
    PROVE  /\ Wakes(ds, Progress(ds))
           /\ \A i \in Drainer : Progress(ds)[i].at # "waiting"
<1>1. ASSUME NEW i \in Drainer
      PROVE  /\ Progress(ds)[i] \in Drains /\ WokeTo(ds[i], Progress(ds)[i])
             /\ Progress(ds)[i].at # "waiting"
  <2>1. ds[i] \in Drains
    OBVIOUS
  <2>2. CASE ds[i].at = "waiting"
    <3>1. Progress(ds)[i] = [ds[i] EXCEPT !.at = "woken"]
      BY <2>2 DEF Progress
    <3> QED BY <2>1, <2>2, <3>1 DEF Drains, WokeTo
  <2>3. CASE ds[i].at # "waiting"
    <3>1. Progress(ds)[i] = ds[i]
      BY <2>3 DEF Progress
    <3> QED BY <2>1, <2>3, <3>1 DEF WokeTo
  <2> QED BY <2>2, <2>3
<1>2. Progress(ds) \in [Drainer -> Drains]
  BY <1>1 DEF Progress
<1> QED BY <1>1, <1>2 DEF Wakes

\* Waking nobody is a wake-up.
LEMMA WakesReflexive ==
    ASSUME NEW ds \in [Drainer -> Drains]
    PROVE  Wakes(ds, ds)
BY DEF Wakes, WokeTo

\* Waking twice is waking.
LEMMA WakesTransitive ==
    ASSUME NEW ds, NEW es, NEW gs, Wakes(ds, es), Wakes(es, gs)
    PROVE  Wakes(ds, gs)
BY DEF Wakes, WokeTo

\* Woken wakes everybody when something was applied.
LEMMA WokenShape ==
    ASSUME drain \in [Drainer -> Drains], NEW x
    PROVE  /\ Wakes(drain, Woken(x))
           /\ x.applied # p.applied => \A i \in Drainer : Woken(x)[i].at # "waiting"
BY ProgressShape, WakesReflexive DEF Woken

\* A drain's range and failures, when the positions grow and it is woken
LEMMA KeptDrain ==
    ASSUME NEW i \in Drainer, DrainOf(i), WokeTo(drain[i], drain'[i]), failed' = failed,
           drain[i] \in Drains,
           p.applied \in Nat, p'.applied \in Nat, p.applied <= p'.applied,
           p.enqueued \in Nat, p'.enqueued \in Nat, p.enqueued <= p'.enqueued,
           p'.applied = p.applied \/ drain'[i].at # "waiting"
    PROVE  DrainOf(i)'
<1>1. /\ drain'[i].from = drain[i].from /\ drain'[i].target = drain[i].target
      /\ drain'[i].error = drain[i].error
      /\ drain'[i].at = drain[i].at \/ (drain[i].at = "waiting" /\ drain'[i].at = "woken")
      /\ drain[i].target \in Nat
  BY DEF WokeTo, Drains
<1>2. drain'[i].at \notin {"idle", "retiring"} => drain'[i].target <= p'.enqueued
  BY <1>1 DEF DrainOf
<1>3. drain'[i].at = "waiting" => p'.applied < drain'[i].target
  BY <1>1 DEF DrainOf
<1>4. drain'[i].at = "ok" => drain'[i].target <= p'.applied
  BY <1>1 DEF DrainOf
<1>5. drain'[i].at \in {"waiting", "woken"} =>
        \A n \in failed' : drain'[i].from < n /\ n <= drain'[i].target => drain'[i].error
  BY <1>1 DEF DrainOf
<1>6. drain'[i].at = "ok" => \A n \in failed' : ~(drain'[i].from < n /\ n <= drain'[i].target)
  BY <1>1 DEF DrainOf
<1>7. drain'[i].at = "retiring" => i = Reader
  BY <1>1 DEF DrainOf
<1> QED BY <1>2, <1>3, <1>4, <1>5, <1>6, <1>7 DEF DrainOf

\* Nobody waits when nothing is pending.
LEMMA NobodyWaits ==
    ASSUME \A i \in Drainer : DrainOf(i)', drain' \in [Drainer -> Drains],
           Sound(p'), p'.pending = <<>>
    PROVE  \A i \in Drainer : drain'[i].at # "waiting"
<1>1. p'.enqueued = p'.applied /\ p'.applied \in Nat
  BY EmptySeq DEF Sound, Pump
<1>2. SUFFICES ASSUME NEW i \in Drainer, drain'[i].at = "waiting"
               PROVE  FALSE
  OBVIOUS
<1>3. drain'[i] \in Drains /\ DrainOf(i)'
  OBVIOUS
<1>4. p'.applied < drain'[i].target /\ drain'[i].target <= p'.enqueued /\ drain'[i].target \in Nat
  BY <1>2, <1>3 DEF DrainOf, Drains
<1> QED BY <1>1, <1>4

\* All drains, in a step that wakes them if something was applied
LEMMA KeptDrains ==
    ASSUME LaneInv, Sound(p'), Wakes(drain, drain'), failed' = failed,
           p.applied <= p'.applied, p.enqueued <= p'.enqueued,
           p'.applied # p.applied => \A i \in Drainer : drain'[i].at # "waiting",
           \/ p'.pending = <<>>
           \/ (\E f \in Flusher : Flushes(f)) => (\E f \in Flusher : Flushes(f)')
    PROVE  DrainInv'
<1>1. /\ p.applied \in Nat /\ p'.applied \in Nat /\ p.enqueued \in Nat /\ p'.enqueued \in Nat
      /\ drain \in [Drainer -> Drains] /\ drain' \in [Drainer -> Drains]
  BY DEF LaneInv, TypeInv, Sound, Pump, Wakes
<1>2. \A i \in Drainer : DrainOf(i)'
  <2>1. ASSUME NEW i \in Drainer
        PROVE  DrainOf(i)'
    <3>1. /\ DrainOf(i) /\ WokeTo(drain[i], drain'[i]) /\ drain[i] \in Drains
          /\ p'.applied = p.applied \/ drain'[i].at # "waiting"
      BY <1>1 DEF LaneInv, DrainInv, Wakes
    <3> QED BY <1>1, <3>1, KeptDrain
  <2> QED BY <2>1
<1>3. ASSUME \E i \in Drainer : drain'[i].at = "waiting"
      PROVE  \E f \in Flusher : Flushes(f)'
  <2>1. p'.pending # <<>>
    <3>1. SUFFICES ASSUME p'.pending = <<>>
                   PROVE  FALSE
      OBVIOUS
    <3>2. \A i \in Drainer : drain'[i].at # "waiting"
      BY <1>1, <1>2, <3>1, NobodyWaits
    <3> QED BY <1>3, <3>2
  <2>2. \E i \in Drainer : drain[i].at = "waiting"
    BY <1>3 DEF Wakes, WokeTo
  <2>3. \E f \in Flusher : Flushes(f)
    BY <2>2 DEF LaneInv, DrainInv
  <2> QED BY <2>1, <2>3
<1> QED BY <1>2, <1>3 DEF DrainInv
-----------------------------------------------------------------------------
(***************************************************************************)
(* What most steps share                                                   *)
(***************************************************************************)

\* The reader and its connection, in a step that leaves them alone
LEMMA ReaderKept ==
    ASSUME ReaderInv, reader' = reader, transport' = transport, closer' = closer, epoch' = epoch,
           writer' => writer,
           WokeTo(drain[Reader], drain'[Reader]),
           p'.enqueued = p.enqueued \/ Online,
           Drained => \A f \in Flusher : Applying(f)' => fl'[f].cur.epoch = epoch,
           closer.at = "closed" => p'.task = None /\ p'.pending = <<>>,
           Online /\ p'.pending # <<>> => p'.pendingEpoch = epoch
    PROVE  ReaderInv' /\ (Drained' <=> Drained) /\ (Online' <=> Online)
<1>1. /\ drain'[Reader].target = drain[Reader].target /\ drain'[Reader].error = drain[Reader].error
      /\ \/ drain'[Reader].at = drain[Reader].at
         \/ drain[Reader].at = "waiting" /\ drain'[Reader].at = "woken"
  BY DEF WokeTo
<1>2. Drained' <=> Drained
  BY <1>1 DEF Drained
<1>3. Online' <=> Online
  BY <1>1 DEF Online
<1>4. /\ ~reader' => drain'[Reader].at = "idle" /\ transport' = None /\ ~writer'
      /\ drain'[Reader].at # "idle" => ~writer'
      /\ drain'[Reader].at \in {"idle", "retiring"} => ~drain'[Reader].error
      /\ closer'.at # "no" => ~writer'
  BY <1>1 DEF ReaderInv
<1>5. drain'[Reader].at \in {"waiting", "woken", "ok"} => drain'[Reader].target = p'.enqueued
  BY <1>1 DEF ReaderInv, Online
<1>6. Drained' => \A f \in Flusher : Applying(f)' => fl'[f].cur.epoch = epoch'
  BY <1>2
<1>8. closer'.at = "closed" => ~reader' /\ p'.task = None /\ p'.pending = <<>>
  BY DEF ReaderInv
<1>9. Online' /\ p'.pending # <<>> => p'.pendingEpoch = epoch'
  BY <1>3
<1> QED BY <1>2, <1>3, <1>4, <1>5, <1>6, <1>8, <1>9 DEF ReaderInv

\* Minima of free flushers
LEMMA UnusedShape ==
    ASSUME Unused # {}
    PROVE  Min(Unused) \in Flusher /\ fl[Min(Unused)].at = "free" /\ Min(Unused) # None
<1>1. Unused \in SUBSET Nat /\ Unused \subseteq Flusher
  BY EffectAssumptions DEF Unused
<1>2. Min(Unused) \in Unused
  BY <1>1, MinIsLeast
<1> QED BY <1>2, EffectAssumptions DEF Unused, None

\* Nobody closes a failed connection while something is pending.
LEMMA PendingNobodyCloses ==
    ASSUME LaneInv, p.pending # <<>>
    PROVE  ~p.failing /\ \A f \in Flusher : ~Closing(f)
BY DEF LaneInv, TaskInv, TaskOf

\* schedule(), after a pass that left something
LEMMA ScheduleStep ==
    ASSUME LaneInv, NEW x, Sound(x), Same(x, p), x.pending # <<>>, p.pending # <<>>,
           Locked => x = p, Schedule(x),
           closer' = closer, epoch' = epoch, transport' = transport, writer' => writer
    PROVE  /\ Sound(p') /\ p'.pending = x.pending /\ p'.applied = x.applied
           /\ p'.enqueued = p.enqueued /\ p'.pendingEpoch = p.pendingEpoch
           /\ fl' \in [Flusher -> Task]
           /\ TaskInv'
           /\ \A f \in Flusher : Applying(f)' => Applying(f) /\ fl'[f].cur.epoch = fl[f].cur.epoch
           /\ \E f \in Flusher : Flushes(f)'
<1>1. /\ x \in Pump /\ x.pending \in Seq(Effect) /\ fl \in [Flusher -> Task]
      /\ p.task \in Flusher \cup {None} /\ x.task = p.task /\ x.failing = p.failing
  BY DEF LaneInv, TypeInv, Sound, Pump, Same
<1>2. ~p.failing /\ \A f \in Flusher : ~Closing(f)
  BY PendingNobodyCloses
<1>10. closer.at # "closed" /\ closer'.at # "closed"
  BY DEF LaneInv, ReaderInv
<1>3. \A f \in Flusher : Working(f) => p.task = f
  BY <1>10 DEF LaneInv, TaskInv, TaskOf
<1>4. NextTask(x) \in Flusher
  <2>1. CASE Live(x)
    BY <1>1, <2>1 DEF NextTask, Live
  <2>2. CASE ~Live(x)
    <3>1. Unused # {}
      BY <2>2 DEF Schedule
    <3> QED BY <2>2, <3>1, UnusedShape DEF NextTask
  <2> QED BY <2>1, <2>2
<1>5. PICK t \in Flusher : t = NextTask(x) /\ p' = [x EXCEPT !.flush = TRUE, !.task = t]
  BY <1>4 DEF Schedule, Scheduled
<1>6. /\ p' \in Pump /\ p'.task = t /\ p'.pending = x.pending /\ p'.applied = x.applied
      /\ p'.enqueued = x.enqueued /\ p'.pendingEpoch = x.pendingEpoch /\ p'.failing = x.failing
      /\ p'.flush = TRUE
  BY <1>1, <1>5 DEF Pump
<1>7. Sound(p') /\ p'.enqueued = p.enqueued /\ p'.pendingEpoch = p.pendingEpoch /\ ~p'.failing
  BY <1>1, <1>2, <1>6 DEF Sound, Same
<1>8. CASE Live(x)
  <2>1. fl' = fl /\ t = p.task /\ p.task # None
    BY <1>1, <1>5, <1>8 DEF Schedule, Started, NextTask, Live
  <2>2. Working(t)
    <3>1. fl[t].at \notin {"free", "done"} /\ fl[t] \in Task /\ ~Closing(t)
      BY <1>1, <1>2, <1>5, <1>8, <2>1 DEF Live
    <3> QED BY <3>1 DEF Task, Working, Closing
  <2>3. ASSUME NEW f \in Flusher
        PROVE  TaskOf(f)'
    <3>1. TaskOf(f)
      BY DEF LaneInv, TaskInv
    <3>2. Applying(f) => x = p
      BY DEF Applying, Locked
    <3>3. Working(f)' => p'.task = f /\ ~p'.failing
      BY <1>3, <1>5, <1>6, <1>7, <2>1 DEF Working
    <3>4. Closing(f)' => p'.failing
      BY <1>2, <2>1 DEF Closing
    <3>5. Working(f)' /\ fl'[f].cancel => closer' = Closer("joining", f)
      BY <2>1, <3>1 DEF TaskOf, Working
    <3>6. fl'[f].at = "applying" =>
            /\ fl'[f].cur \in EffectOf({"send", "close", "closed"}, 1..epoch')
            /\ transport' <= fl'[f].cur.epoch
      BY <2>1, <3>1 DEF TaskOf
    <3>7. Applying(f)' => p'.pending # <<>>
      BY <1>6
    <3>8. Applying(f)' /\ writer' /\ fl'[f].cur.kind = "send" => p'.pending[1] = fl'[f].cur
      BY <1>6, <2>1, <3>1, <3>2 DEF TaskOf, Applying
    <3> QED BY <1>10, <3>3, <3>4, <3>5, <3>6, <3>7, <3>8 DEF TaskOf
  <2>4. \A f \in Flusher : ~Closing(f)'
    BY <1>2, <2>1 DEF Closing
  <2>7. \A f, g \in Flusher : Working(f)' /\ Working(g)' => f = g
    BY <1>3, <2>1 DEF Working
  <2>5. TaskInv'
    BY <1>7, <2>3, <2>4, <2>7 DEF TaskInv
  <2>6. Flushes(t)'
    BY <1>6, <2>1, <2>2 DEF Flushes, Working, Closing
  <2> QED BY <1>1, <1>5, <1>6, <1>7, <2>1, <2>5, <2>6 DEF Applying
<1>9. CASE ~Live(x)
  <2> DEFINE new == [Free EXCEPT !.at = "ready"]
  <2>1. fl' = [fl EXCEPT ![t] = new]
    BY <1>5, <1>9 DEF Schedule, Started
  <2>10. Free \in Task /\ ~Free.cancel
    BY DEF Free, Task
  <2>2. new \in Task /\ new.at = "ready" /\ ~new.cancel
    BY <2>10 DEF Task
  <2> HIDE DEF new
  <2>3. \A f \in Flusher : ~Working(f)
    <3>1. SUFFICES ASSUME NEW f \in Flusher, Working(f)
                   PROVE  FALSE
      OBVIOUS
    <3>2. x.task = f /\ f # None
      BY <1>1, <1>3, <3>1, EffectAssumptions
    <3> QED BY <1>9, <3>1, <3>2 DEF Live, Working
  <2>4. fl' \in [Flusher -> Task] /\ fl'[t] = new /\ \A f \in Flusher : f # t => fl'[f] = fl[f]
    BY <1>1, <2>1, <2>2
  <2>5. ASSUME NEW f \in Flusher
        PROVE  TaskOf(f)' /\ ~Closing(f)' /\ ~Applying(f)' /\ (Working(f)' => f = t)
    <3>1. CASE f = t
      BY <1>6, <1>7, <1>10, <2>2, <2>4, <3>1 DEF TaskOf, Working, Closing, Applying
    <3>2. CASE f # t
      <4>1. ~Working(f) /\ ~Closing(f)
        BY <1>2, <2>3
      <4> QED BY <2>4, <3>2, <4>1 DEF TaskOf, Working, Closing, Applying
    <3> QED BY <3>1, <3>2
  <2>6. TaskInv'
    BY <1>7, <2>5 DEF TaskInv
  <2>7. Flushes(t)'
    BY <2>2, <2>4 DEF Flushes, Working
  <2> QED BY <1>5, <1>6, <1>7, <2>4, <2>5, <2>6, <2>7
<1> QED BY <1>8, <1>9

\* A flusher that neither works nor closes has nothing to keep.
LEMMA TaskIdle ==
    ASSUME NEW f \in Flusher, ~Working(f)', ~Closing(f)'
    PROVE  TaskOf(f)' /\ ~Applying(f)'
<1>1. fl'[f].at # "applying" /\ ~Applying(f)'
  BY DEF Working, Applying
<1> QED BY <1>1 DEF TaskOf

\* A flusher left alone
LEMMA TaskKept ==
    ASSUME NEW f \in Flusher, TaskOf(f), fl'[f] = fl[f],
           Working(f) => p'.task = p.task /\ ~p'.failing,
           Closing(f) => p'.failing,
           Working(f) /\ fl[f].cancel => closer' = closer,
           \/ closer.at # "closed" /\ closer'.at # "closed"
           \/ closer' = closer /\ epoch' = epoch,
           epoch \in Nat, epoch' \in Nat, epoch <= epoch', transport' = transport,
           writer' => writer,
           Applying(f) => \/ closer'.at = "closed" /\ ~writer'
                          \/ p'.pending # <<>> /\ (writer' => p'.pending[1] = p.pending[1])
    PROVE  TaskOf(f)'
<1>1. Working(f)' => ~p'.failing /\ (p'.task = f \/ closer'.at = "closed")
  BY DEF TaskOf, Working
<1>7. Working(f)' /\ closer'.at = "closed" =>
        fl'[f].at = "applying" /\ fl'[f].cur.epoch = epoch'
  BY DEF TaskOf, Working
<1>2. Closing(f)' => p'.failing
  BY DEF Closing
<1>3. Working(f)' /\ fl'[f].cancel => closer' = Closer("joining", f)
  BY DEF TaskOf, Working
<1>4. ASSUME fl'[f].at = "applying"
      PROVE  /\ fl'[f].cur \in EffectOf({"send", "close", "closed"}, 1..epoch')
             /\ transport' <= fl'[f].cur.epoch
  <2>1. /\ fl[f].cur \in EffectOf({"send", "close", "closed"}, 1..epoch)
        /\ transport <= fl[f].cur.epoch
    BY <1>4 DEF TaskOf
  <2>2. 1..epoch \subseteq 1..epoch'
    OBVIOUS
  <2> QED BY <2>1, <2>2 DEF EffectOf
<1>5. Applying(f)' => p'.pending # <<>> \/ closer'.at = "closed"
  BY DEF Applying
<1>6. Applying(f)' /\ writer' /\ fl'[f].cur.kind = "send" => p'.pending[1] = fl'[f].cur
  BY DEF TaskOf, Applying
<1> QED BY <1>1, <1>2, <1>3, <1>4, <1>5, <1>6, <1>7 DEF TaskOf

\* The types, in a step of one connection that emits nothing
LEMMA TypeKept ==
    ASSUME TypeInv, p' \in Pump, p.applied <= p'.applied, fl' \in [Flusher -> Task],
           drain' \in [Drainer -> Drains], writer' \in BOOLEAN, sent' \in Seq(Effect),
           epoch' = epoch, transport' = transport, reader' = reader, closer' = closer,
           emitted' = emitted, failed' = failed, closedBy' = closedBy
    PROVE  TypeInv'
<1>1. failed' \subseteq 1..p'.applied
  <2>1. p.applied \in Nat /\ p'.applied \in Nat /\ failed \subseteq 1..p.applied
    BY DEF TypeInv, Pump
  <2> QED BY <2>1
<1> QED BY <1>1 DEF TypeInv

\* An inline pass, and what it schedules
LEMMA PassStep ==
    ASSUME LaneInv, NEW o \in InlineOutcomes(p), drain' \in [Drainer -> Drains],
           (Schedule(o.x) /\ o.x.pending # <<>>) \/ (p' = o.x /\ fl' = fl),
           sent' = sent \o o.took, WriterAfter(o),
           UNCHANGED <<client, emitted, failed, closedBy>>
    PROVE  /\ TypeInv' /\ PendingInv' /\ TaskInv' /\ OrderInv' /\ ClosesOwnTransport'
           /\ Sound(p') /\ p'.pending = o.x.pending /\ p'.applied = o.x.applied
           /\ p'.enqueued = p.enqueued /\ p'.pendingEpoch = p.pendingEpoch
           /\ p.applied <= p'.applied
           /\ \A f \in Flusher : Applying(f)' => Applying(f) /\ fl'[f].cur.epoch = fl[f].cur.epoch
           /\ (\E f \in Flusher : Flushes(f)) => (\E f \in Flusher : Flushes(f)')
           /\ Schedule(o.x) /\ o.x.pending # <<>> => \E f \in Flusher : Flushes(f)'
           /\ writer' => writer
           /\ closer.at = "closed" => p'.task = None /\ p'.pending = <<>>
           /\ p.pending = <<>> => p'.pending = <<>>
<1>1. /\ epoch' = epoch /\ transport' = transport /\ reader' = reader /\ closer' = closer
      /\ emitted' = emitted /\ failed' = failed /\ closedBy' = closedBy
  BY DEF client
<1>2. TypeInv /\ Sound(p) /\ p.pendingEpoch <= epoch /\ writer \in BOOLEAN /\ TaskInv
  BY DEF LaneInv, TypeInv, PendingInv
<1>3. Passed(p, o) /\ PassOrder(p, o)
  BY <1>2, InlineShape, InlineOrder
<1>4. Sound(o.x) /\ Same(o.x, p) /\ o.x.applied >= p.applied /\ (Locked => o.x = p)
  <2>1. Unmoved(p).x = p
    BY DEF Unmoved
  <2> QED BY <1>3, <2>1 DEF Passed
<1>5. /\ p.applied \in Nat /\ p.enqueued = p.applied + Len(p.pending)
      /\ o.x.applied \in Nat /\ p.enqueued = o.x.applied + Len(o.x.pending)
      /\ p.pending \in Seq(Effect) /\ o.x.pending \in Seq(Effect)
  BY <1>2, <1>4 DEF Sound, Pump, Same
<1>6. p.pending = <<>> => o.x.pending = <<>>
  <2>1. Len(o.x.pending) <= Len(p.pending) /\ Len(o.x.pending) \in Nat /\ Len(p.pending) \in Nat
    BY <1>4, <1>5, LenProperties
  <2> QED BY <1>5, <2>1, EmptySeq
<1>7. writer' \in BOOLEAN /\ (writer' => writer)
  BY DEF WriterAfter
<1>9. ASSUME Schedule(o.x), o.x.pending # <<>>
      PROVE  /\ Sound(p') /\ p'.pending = o.x.pending /\ p'.applied = o.x.applied
             /\ p'.enqueued = p.enqueued /\ p'.pendingEpoch = p.pendingEpoch
             /\ fl' \in [Flusher -> Task]
             /\ TaskInv'
             /\ \A f \in Flusher : Applying(f)' => Applying(f) /\ fl'[f].cur.epoch = fl[f].cur.epoch
             /\ \E f \in Flusher : Flushes(f)'
             /\ closer.at # "closed"
  <2>1. p.pending # <<>>
    BY <1>6, <1>9
  <2>2. closer.at # "closed"
    BY <2>1 DEF LaneInv, ReaderInv
  <2> QED BY <1>1, <1>4, <1>7, <1>9, <2>1, <2>2, ScheduleStep
<1>10. ASSUME p' = o.x, fl' = fl
       PROVE  /\ Sound(p') /\ p'.pending = o.x.pending /\ p'.applied = o.x.applied
              /\ p'.enqueued = p.enqueued /\ p'.pendingEpoch = p.pendingEpoch
              /\ fl' \in [Flusher -> Task]
              /\ TaskInv'
              /\ \A f \in Flusher : Applying(f)' => Applying(f) /\ fl'[f].cur.epoch = fl[f].cur.epoch
              /\ (\E f \in Flusher : Flushes(f)) => (\E f \in Flusher : Flushes(f)')
              /\ closer.at = "closed" => p'.task = None /\ p'.pending = <<>>
  <2>1. p'.task = p.task /\ p'.failing = p.failing /\ p'.flush = p.flush
        /\ p'.enqueued = p.enqueued /\ p'.pendingEpoch = p.pendingEpoch
    BY <1>4, <1>10 DEF Same
  <2>2. ASSUME NEW f \in Flusher
        PROVE  TaskOf(f)'
    <3>1. TaskOf(f)
      BY <1>2 DEF TaskInv
    <3>2. Applying(f) => p' = p
      BY <1>4, <1>10 DEF Applying, Locked
    <3>3. Applying(f) => \/ closer'.at = "closed" /\ ~writer'
                         \/ p'.pending # <<>> /\ (writer' => p'.pending[1] = p.pending[1])
      BY <1>1, <1>7, <3>1, <3>2 DEF TaskOf, LaneInv, ReaderInv
    <3>4. (Working(f) => ~p'.failing) /\ (Closing(f) => p'.failing)
      BY <2>1, <3>1 DEF TaskOf
    <3>5. epoch \in Nat
      BY <1>2 DEF TypeInv
    <3> QED BY <1>1, <1>7, <1>10, <2>1, <3>1, <3>3, <3>4, <3>5, TaskKept
  <2>3. TaskInv'
    <3>1. \A f, g \in Flusher : Closing(f)' /\ Closing(g)' => f = g
      BY <1>2, <1>10 DEF TaskInv, Closing
    <3>2. p'.failing => (\E f \in Flusher : Closing(f)') /\ p'.pending = <<>> /\ ~writer'
      BY <1>2, <1>6, <1>7, <1>10, <2>1 DEF TaskInv, Closing
    <3>3. \A f, g \in Flusher : Working(f)' /\ Working(g)' => f = g
      BY <1>2, <1>10 DEF TaskInv, Working
    <3> QED BY <2>2, <3>1, <3>2, <3>3 DEF TaskInv
  <2>4. \A f \in Flusher : Flushes(f) => Flushes(f)'
    BY <1>10, <2>1 DEF Flushes, Closing, Working
  <2>5. closer.at = "closed" => p'.task = None /\ p'.pending = <<>>
    BY <1>6, <1>10, <2>1 DEF LaneInv, ReaderInv
  <2>6. \A f \in Flusher : Applying(f)' => Applying(f) /\ fl'[f].cur.epoch = fl[f].cur.epoch
    BY <1>10 DEF Applying
  <2>7. fl' \in [Flusher -> Task]
    BY <1>2, <1>10 DEF TypeInv
  <2> QED BY <1>4, <1>10, <2>1, <2>3, <2>4, <2>5, <2>6, <2>7
<1>11. /\ Sound(p') /\ p'.pending = o.x.pending /\ p'.applied = o.x.applied
       /\ p'.enqueued = p.enqueued /\ p'.pendingEpoch = p.pendingEpoch
       /\ fl' \in [Flusher -> Task]
       /\ TaskInv'
       /\ \A f \in Flusher : Applying(f)' => Applying(f) /\ fl'[f].cur.epoch = fl[f].cur.epoch
       /\ (\E f \in Flusher : Flushes(f)) => (\E f \in Flusher : Flushes(f)')
       /\ closer.at = "closed" => p'.task = None /\ p'.pending = <<>>
  BY <1>9, <1>10
<1>12. TypeInv'
  <2>1. p' \in Pump /\ p.applied <= p'.applied /\ sent' \in Seq(Effect)
    BY <1>3, <1>4, <1>5, <1>11 DEF Sound, PassOrder
  <2> QED BY <1>1, <1>2, <1>7, <1>11, <2>1, TypeKept
<1>13. PendingInv'
  BY <1>1, <1>2, <1>11 DEF PendingInv
<1>14. OrderInv'
  <2>1. emitted \in Seq(EffectOf(Kind, 1..epoch))
    BY DEF LaneInv, OrderInv
  <2> QED BY <1>1, <1>3, <1>7, <1>11, <2>1 DEF PassOrder, OrderInv
<1>15. ClosesOwnTransport'
  BY <1>1 DEF LaneInv, ClosesOwnTransport
<1>16. p.applied <= p'.applied
  BY <1>4, <1>5, <1>11
<1> QED BY <1>6, <1>7, <1>9, <1>11, <1>12, <1>13, <1>14, <1>15, <1>16
-----------------------------------------------------------------------------
(***************************************************************************)
(* The steps of callers                                                    *)
(***************************************************************************)

\* The reader, after a pass of another task
LEMMA PassReader ==
    ASSUME LaneInv, UNCHANGED client, writer' => writer,
           WokeTo(drain[Reader], drain'[Reader]),
           p'.enqueued = p.enqueued, p'.pendingEpoch = p.pendingEpoch,
           \A f \in Flusher : Applying(f)' => Applying(f) /\ fl'[f].cur.epoch = fl[f].cur.epoch,
           closer.at = "closed" => p'.task = None /\ p'.pending = <<>>,
           p.pending = <<>> => p'.pending = <<>>
    PROVE  ReaderInv'
<1>1. epoch' = epoch /\ transport' = transport /\ reader' = reader /\ closer' = closer
  BY DEF client
<1>2. ReaderInv
  BY DEF LaneInv
<1>3. Drained => \A f \in Flusher : Applying(f)' => fl'[f].cur.epoch = epoch
  BY <1>2 DEF ReaderInv
<1>4. Online /\ p'.pending # <<>> => p'.pendingEpoch = epoch
  BY <1>2 DEF ReaderInv
<1> QED BY <1>1, <1>2, <1>3, <1>4, ReaderKept

\* drain_inline() after a loop command
LEMMA DrainInlineStep ==
    ASSUME LaneInv, DrainInline
    PROVE  LaneInv'
<1>1. PICK o \in InlineOutcomes(p) :
        /\ sent' = sent \o o.took /\ WriterAfter(o) /\ drain' = Woken(o.x)
        /\ IF o.x.pending # <<>> /\ ~o.raised /\ ~Locked
           THEN Schedule(o.x) ELSE p' = o.x /\ UNCHANGED fl
  BY DEF DrainInline
<1>2. UNCHANGED <<client, emitted, failed, closedBy>>
  BY DEF DrainInline
<1>3. drain \in [Drainer -> Drains] /\ Reader \in Drainer
  BY EffectAssumptions DEF LaneInv, TypeInv
<1>4. /\ Wakes(drain, drain')
      /\ o.x.applied # p.applied => \A i \in Drainer : drain'[i].at # "waiting"
  BY <1>1, <1>3, WokenShape
<1>5. drain' \in [Drainer -> Drains] /\ WokeTo(drain[Reader], drain'[Reader])
  BY <1>3, <1>4 DEF Wakes
<1>6. (Schedule(o.x) /\ o.x.pending # <<>>) \/ (p' = o.x /\ fl' = fl)
  BY <1>1
<1>7. /\ TypeInv' /\ PendingInv' /\ TaskInv' /\ OrderInv' /\ ClosesOwnTransport'
      /\ Sound(p') /\ p'.applied = o.x.applied
      /\ p'.enqueued = p.enqueued /\ p'.pendingEpoch = p.pendingEpoch /\ p.applied <= p'.applied
      /\ \A f \in Flusher : Applying(f)' => Applying(f) /\ fl'[f].cur.epoch = fl[f].cur.epoch
      /\ (\E f \in Flusher : Flushes(f)) => (\E f \in Flusher : Flushes(f)')
      /\ writer' => writer
      /\ closer.at = "closed" => p'.task = None /\ p'.pending = <<>>
      /\ p.pending = <<>> => p'.pending = <<>>
  BY <1>1, <1>2, <1>5, <1>6, PassStep
<1>8. ReaderInv'
  BY <1>2, <1>5, <1>7, PassReader
<1>9. DrainInv'
  <2>1. failed' = failed /\ p.enqueued <= p'.enqueued
    BY <1>2, <1>7 DEF LaneInv, TypeInv, Pump
  <2> QED BY <1>4, <1>7, <2>1, KeptDrains
<1> QED BY <1>7, <1>8, <1>9 DEF LaneInv

\* drain(), of a task or of the ending reader
LEMMA DrainStep ==
    ASSUME LaneInv, NEW i \in Drainer, ~Waiting(drain[i]), Drain(i, p, drain),
           i = Reader => drain[i].at = "retiring",
           UNCHANGED <<client, emitted, failed, closedBy>>
    PROVE  LaneInv'
<1> DEFINE at(o) == IF o.raised THEN "raised"
                    ELSE IF o.x.applied >= o.x.enqueued THEN "ok" ELSE "waiting"
           awoken(o) == IF o.x.applied # p.applied THEN Progress(drain) ELSE drain
<1>1. PICK o \in InlineOutcomes(p) :
        /\ sent' = sent \o o.took /\ WriterAfter(o)
        /\ drain' = [awoken(o) EXCEPT ![i] = [at |-> at(o), from |-> o.x.applied,
                                              target |-> o.x.enqueued, error |-> FALSE]]
        /\ IF at(o) = "waiting" THEN Schedule(o.x) ELSE p' = o.x /\ UNCHANGED fl
  BY DEF Drain
<1>2. drain \in [Drainer -> Drains] /\ Reader \in Drainer /\ Sound(p) /\ writer \in BOOLEAN
  BY EffectAssumptions DEF LaneInv, TypeInv, PendingInv
<1>3. /\ Passed(p, o) /\ Sound(o.x) /\ o.x.enqueued = p.enqueued /\ o.raised \in BOOLEAN
      /\ o.x.applied \in Nat /\ o.x.enqueued \in Nat /\ o.x.pending \in Seq(Effect)
      /\ o.x.enqueued = o.x.applied + Len(o.x.pending)
  <2>1. Passed(p, o)
    BY <1>2, InlineShape
  <2>2. Sound(o.x) /\ o.x.enqueued = p.enqueued /\ o.raised \in BOOLEAN
    BY <2>1 DEF Passed, Same
  <2>3. /\ o.x.applied \in Nat /\ o.x.enqueued \in Nat /\ o.x.pending \in Seq(Effect)
        /\ o.x.enqueued = o.x.applied + Len(o.x.pending)
    BY <2>2 DEF Sound, Pump
  <2> QED BY <2>1, <2>2, <2>3
<1>4. /\ Wakes(drain, awoken(o))
      /\ o.x.applied # p.applied => \A j \in Drainer : awoken(o)[j].at # "waiting"
  BY <1>2, ProgressShape, WakesReflexive
<1> DEFINE new == [at |-> at(o), from |-> o.x.applied, target |-> o.x.enqueued, error |-> FALSE]
           ds == awoken(o)
<1>5. /\ new \in Drains /\ new.at = at(o) /\ new.from = o.x.applied /\ new.target = o.x.enqueued
      /\ new.error = FALSE
  BY <1>3 DEF Drains
<1>6. /\ at(o) = "waiting" => o.x.applied < o.x.enqueued /\ ~o.raised
      /\ at(o) = "ok" => o.x.applied >= o.x.enqueued /\ ~o.raised
      /\ at(o) = "raised" => o.raised
      /\ at(o) \in {"ok", "waiting", "raised"}
  BY <1>3
<1>7. drain' = [ds EXCEPT ![i] = new] /\ ds \in [Drainer -> Drains]
  BY <1>1, <1>4 DEF Wakes
<1> HIDE DEF new, ds
<1>8. /\ drain' \in [Drainer -> Drains] /\ drain'[i] = new
      /\ \A j \in Drainer : j # i => drain'[j] = ds[j]
  BY <1>5, <1>7
<1>9. at(o) = "waiting" => o.x.pending # <<>>
  BY <1>3, <1>6, EmptySeq
<1>10. (Schedule(o.x) /\ o.x.pending # <<>>) \/ (p' = o.x /\ fl' = fl)
  BY <1>1, <1>9
<1>11. /\ TypeInv' /\ PendingInv' /\ TaskInv' /\ OrderInv' /\ ClosesOwnTransport'
       /\ Sound(p') /\ p'.applied = o.x.applied /\ p'.pending = o.x.pending
       /\ p'.enqueued = p.enqueued /\ p'.pendingEpoch = p.pendingEpoch /\ p.applied <= p'.applied
       /\ \A f \in Flusher : Applying(f)' => Applying(f) /\ fl'[f].cur.epoch = fl[f].cur.epoch
       /\ (\E f \in Flusher : Flushes(f)) => (\E f \in Flusher : Flushes(f)')
       /\ Schedule(o.x) /\ o.x.pending # <<>> => \E f \in Flusher : Flushes(f)'
       /\ writer' => writer
       /\ closer.at = "closed" => p'.task = None /\ p'.pending = <<>>
       /\ p.pending = <<>> => p'.pending = <<>>
   BY <1>1, <1>8, <1>10, PassStep
<1> HIDE DEF at, awoken
<1>12. /\ p.applied \in Nat /\ p'.applied \in Nat /\ p.enqueued \in Nat /\ p'.enqueued \in Nat
       /\ p.enqueued <= p'.enqueued /\ failed' = failed
  BY <1>2, <1>11 DEF Sound, Pump
<1>13. ASSUME NEW j \in Drainer, j # i
       PROVE  DrainOf(j)' /\ (drain'[j].at = "waiting" => drain[j].at = "waiting")
  <2>1. /\ WokeTo(drain[j], drain'[j]) /\ DrainOf(j) /\ drain[j] \in Drains
        /\ p'.applied # p.applied => drain'[j].at # "waiting"
    BY <1>2, <1>4, <1>8, <1>11, <1>13 DEF Wakes, ds, LaneInv, DrainInv
  <2>2. DrainOf(j)'
    BY <1>11, <1>12, <2>1, KeptDrain
  <2>3. drain'[j].at = "waiting" => drain[j].at = "waiting"
    BY <2>1 DEF WokeTo
  <2> QED BY <2>2, <2>3
<1>14. DrainOf(i)'
  <2>1. drain'[i].target = p'.enqueued /\ drain'[i].from = p'.applied /\ drain'[i].at = at(o)
    BY <1>3, <1>5, <1>8, <1>11
  <2>2. \A n \in failed' : n <= p'.applied /\ n \in Nat
    <3>1. failed' \subseteq 1..p'.applied
      BY <1>11 DEF TypeInv
    <3> QED BY <1>12, <3>1
  <2>3. /\ drain'[i].at = "waiting" => p'.applied < drain'[i].target
        /\ drain'[i].at = "ok" => drain'[i].target <= p'.applied
        /\ drain'[i].at # "retiring"
        /\ drain'[i].target <= p'.enqueued
    BY <1>3, <1>6, <1>11, <1>12, <2>1
  <2>4. \A n \in failed' : ~(drain'[i].from < n /\ n <= drain'[i].target)
    BY <1>12, <2>1, <2>2
  <2> QED BY <2>3, <2>4 DEF DrainOf
<1>15. DrainInv'
  <2>1. ASSUME \E j \in Drainer : drain'[j].at = "waiting"
        PROVE  \E f \in Flusher : Flushes(f)'
    <3>1. CASE drain'[i].at = "waiting"
      BY <1>1, <1>5, <1>8, <1>9, <1>11, <3>1
    <3>2. CASE drain'[i].at # "waiting"
      <4>1. \E j \in Drainer : drain[j].at = "waiting"
        BY <1>13, <2>1, <3>2
      <4> QED BY <1>11, <4>1 DEF LaneInv, DrainInv
    <3> QED BY <3>1, <3>2
  <2> QED BY <1>13, <1>14, <2>1 DEF DrainInv
<1>16. ReaderInv'
  <2>1. CASE i # Reader
    <3>1. WokeTo(drain[Reader], drain'[Reader])
      BY <1>2, <1>4, <1>8, <2>1 DEF Wakes, ds
    <3> QED BY <1>11, <3>1, PassReader
  <2>2. CASE i = Reader
    <3>1. /\ drain[Reader].at = "retiring" /\ reader /\ ~writer /\ ~writer' /\ ReaderInv
          /\ reader' = reader /\ closer' = closer
      BY <1>11, <2>2 DEF LaneInv, ReaderInv, client
    <3>2. /\ drain'[Reader].at = at(o) /\ drain'[Reader].target = p'.enqueued
          /\ drain'[Reader].error = FALSE
      BY <1>3, <1>5, <1>8, <1>11, <2>2
    <3>3. /\ ~reader' => drain'[Reader].at = "idle" /\ transport' = None /\ ~writer'
          /\ drain'[Reader].at # "idle" => ~writer'
          /\ drain'[Reader].at \in {"waiting", "woken", "ok"} => drain'[Reader].target = p'.enqueued
          /\ drain'[Reader].at \in {"idle", "retiring"} => ~drain'[Reader].error
          /\ closer'.at # "no" => ~writer'
          /\ closer'.at = "closed" => ~reader' /\ p'.task = None /\ p'.pending = <<>>
          /\ ~Online'
      BY <1>6, <3>1, <3>2 DEF ReaderInv, Online
    <3>4. Drained' => at(o) \in {"ok", "raised"}
      BY <1>6, <3>1, <3>2 DEF Drained
    <3>5. at(o) = "ok" => \A f \in Flusher : ~Applying(f)'
      <4>1. SUFFICES ASSUME at(o) = "ok"
                     PROVE  \A f \in Flusher : ~Applying(f)'
        OBVIOUS
      <4>2. p'.pending = <<>> /\ closer'.at # "closed"
        BY <1>3, <1>6, <1>11, <3>1, <4>1, EmptySeq, LenProperties DEF ReaderInv
      <4>3. \A f \in Flusher : Applying(f)' => p'.pending # <<>> \/ closer'.at = "closed"
        BY <1>11 DEF TaskInv, TaskOf
      <4> QED BY <4>2, <4>3
    <3>6. at(o) = "raised" => \A f \in Flusher : ~Applying(f)'
      <4>1. SUFFICES ASSUME at(o) = "raised"
                     PROVE  \A f \in Flusher : ~Applying(f)'
        OBVIOUS
      <4>2. o.raised /\ Unmoved(p).raised = FALSE
        BY <1>6, <4>1 DEF Unmoved
      <4>3. ~Locked
        BY <1>3, <4>2 DEF Passed
      <4>4. \A f \in Flusher : ~Applying(f)
        BY <4>3 DEF Locked, Applying
      <4> QED BY <1>11, <4>4
    <3>7. Drained' => \A f \in Flusher : ~Applying(f)'
      BY <3>4, <3>5, <3>6
    <3> QED BY <3>3, <3>7 DEF ReaderInv
  <2> QED BY <2>1, <2>2
<1> QED BY <1>11, <1>15, <1>16 DEF LaneInv

\* A task enters drain().
LEMMA BeginDrainStep ==
    ASSUME LaneInv, NEW i \in Drainer, BeginDrain(i)
    PROVE  LaneInv'
BY DrainStep DEF BeginDrain

\* The ending reader enters drain().
LEMMA RetireDrainsStep ==
    ASSUME LaneInv, RetireDrains
    PROVE  LaneInv'
<1>1. Reader \in Drainer /\ ~Waiting(drain[Reader])
  BY EffectAssumptions DEF RetireDrains, Waiting
<1> QED BY <1>1, DrainStep DEF RetireDrains

\* A drain() is woken: it returns, raises, or schedules a flusher and waits on.
LEMMA ResumeDrainStep ==
    ASSUME LaneInv, NEW i \in Drainer, ResumeDrain(i)
    PROVE  LaneInv'
<1>1. /\ epoch' = epoch /\ transport' = transport /\ reader' = reader /\ closer' = closer
      /\ writer' = writer
      /\ emitted' = emitted /\ sent' = sent /\ failed' = failed /\ closedBy' = closedBy
      /\ drain[i].at = "woken" /\ Reader \in Drainer
  BY EffectAssumptions DEF ResumeDrain, client, link, hist
<1>2. /\ drain \in [Drainer -> Drains] /\ fl \in [Flusher -> Task] /\ writer \in BOOLEAN
      /\ sent \in Seq(Effect) /\ TypeInv /\ Sound(p) /\ TaskInv /\ DrainOf(i)
      /\ p.applied \in Nat /\ p.enqueued \in Nat /\ p.pending \in Seq(Effect)
      /\ p.enqueued = p.applied + Len(p.pending) /\ p.pendingEpoch <= epoch
  BY DEF LaneInv, TypeInv, PendingInv, DrainInv, Sound, Pump
<1>3. PICK at \in {"raised", "ok", "waiting"} : at = Answer(drain[i])
  BY DEF Answer
<1>4. drain' = [drain EXCEPT ![i].at = at]
  BY <1>3 DEF ResumeDrain
<1>5. /\ drain' \in [Drainer -> Drains] /\ \A j \in Drainer : j # i => drain'[j] = drain[j]
      /\ drain'[i].at = at /\ drain'[i].from = drain[i].from /\ drain'[i].target = drain[i].target
      /\ drain'[i].error = drain[i].error
  BY <1>2, <1>4 DEF Drains
<1>6. drain[i].error \in BOOLEAN /\ drain[i].target \in Nat /\ drain[i].target <= p.enqueued
  BY <1>1, <1>2 DEF DrainOf, Drains
<1>7. /\ at = "raised" => drain[i].error
      /\ at = "ok" => ~drain[i].error /\ p.applied >= drain[i].target
      /\ at = "waiting" => ~drain[i].error /\ p.applied < drain[i].target
  BY <1>2, <1>3, <1>6 DEF Answer
<1>8. at = "waiting" => p.pending # <<>>
  BY <1>2, <1>6, <1>7, EmptySeq
<1>9. /\ Sound(p') /\ p'.pending = p.pending /\ p'.applied = p.applied
      /\ p'.enqueued = p.enqueued /\ p'.pendingEpoch = p.pendingEpoch
      /\ fl' \in [Flusher -> Task]
      /\ TaskInv'
      /\ \A f \in Flusher : Applying(f)' => Applying(f) /\ fl'[f].cur.epoch = fl[f].cur.epoch
      /\ closer.at = "closed" => p'.task = None /\ p'.pending = <<>>
      /\ at = "waiting" => \E f \in Flusher : Flushes(f)'
      /\ (\E f \in Flusher : Flushes(f)) => (\E f \in Flusher : Flushes(f)')
  <2>1. CASE at = "waiting"
    <3>1. Schedule(p)
      BY <1>3, <2>1 DEF ResumeDrain
    <3>2. Same(p, p)
      BY DEF Same
    <3>3. closer.at # "closed"
      BY <1>8, <2>1 DEF LaneInv, ReaderInv
    <3> QED BY <1>1, <1>2, <1>8, <2>1, <3>1, <3>2, <3>3, ScheduleStep
  <2>2. CASE at # "waiting"
    <3>1. p' = p /\ fl' = fl
      BY <1>3, <2>2 DEF ResumeDrain
    <3>2. TaskInv'
      BY <1>1, <1>2, <3>1 DEF TaskInv, TaskOf, Working, Closing, Applying
    <3>3. \A f \in Flusher : (Applying(f)' => Applying(f)) /\ (Flushes(f) => Flushes(f)')
      BY <3>1 DEF Applying, Flushes, Working, Closing
    <3>4. closer.at = "closed" => p.task = None /\ p.pending = <<>>
      BY DEF LaneInv, ReaderInv
    <3> QED BY <1>2, <2>2, <3>1, <3>2, <3>3, <3>4
  <2> QED BY <2>1, <2>2
<1>10. DrainOf(i)'
  <2>1. \A n \in failed : drain[i].from < n /\ n <= drain[i].target => drain[i].error
    BY <1>1, <1>2 DEF DrainOf
  <2>2. /\ drain'[i].target <= p'.enqueued
        /\ drain'[i].at = "waiting" => p'.applied < drain'[i].target
        /\ drain'[i].at = "ok" => drain'[i].target <= p'.applied
        /\ drain'[i].at # "retiring"
    BY <1>2, <1>5, <1>6, <1>7, <1>9
  <2>3. \A n \in failed' : drain'[i].from < n /\ n <= drain'[i].target => drain'[i].error
    BY <1>1, <1>5, <2>1
  <2>4. drain'[i].at = "ok" => \A n \in failed' : ~(drain'[i].from < n /\ n <= drain'[i].target)
    BY <1>5, <1>7, <2>3
  <2> QED BY <2>2, <2>3, <2>4 DEF DrainOf
<1>11. DrainInv'
  <2>1. ASSUME NEW j \in Drainer, j # i
        PROVE  DrainOf(j)'
    BY <1>1, <1>5, <1>9, <2>1 DEF LaneInv, DrainInv, DrainOf
  <2>2. ASSUME \E j \in Drainer : drain'[j].at = "waiting"
        PROVE  \E f \in Flusher : Flushes(f)'
    <3>1. CASE at = "waiting"
      BY <1>9, <3>1
    <3>2. CASE at # "waiting"
      <4>1. \E j \in Drainer : drain[j].at = "waiting"
        BY <1>5, <2>2, <3>2
      <4> QED BY <1>9, <4>1 DEF LaneInv, DrainInv
    <3> QED BY <3>1, <3>2
  <2> QED BY <1>10, <2>1, <2>2 DEF DrainInv
<1>12. ReaderInv'
  <2>1. CASE i # Reader
    <3>1. WokeTo(drain[Reader], drain'[Reader])
      BY <1>1, <1>5, <2>1 DEF WokeTo
    <3> QED BY <1>1, <1>9, <3>1, PassReader DEF client
  <2>2. CASE i = Reader
    <3>1. /\ reader /\ ~writer /\ ReaderInv /\ drain[Reader].target = p.enqueued
      BY <1>1, <2>2 DEF LaneInv, ReaderInv
    <3>2. /\ ~reader' => drain'[Reader].at = "idle" /\ transport' = None /\ ~writer'
          /\ drain'[Reader].at # "idle" => ~writer'
          /\ drain'[Reader].at \in {"waiting", "woken", "ok"} => drain'[Reader].target = p'.enqueued
          /\ drain'[Reader].at \in {"idle", "retiring"} => ~drain'[Reader].error
          /\ closer'.at # "no" => ~writer'
          /\ closer'.at = "closed" => ~reader' /\ p'.task = None /\ p'.pending = <<>>
          /\ ~Online'
      BY <1>1, <1>5, <1>9, <2>2, <3>1 DEF ReaderInv, Online
    <3>3. CASE at = "waiting"
      <4>1. ~Drained'
        BY <1>1, <1>5, <1>7, <2>2, <3>1, <3>3 DEF Drained
      <4> QED BY <3>2, <4>1 DEF ReaderInv
    <3>4. CASE at = "raised"
      <4>1. Drained
        BY <1>7, <2>2, <3>4 DEF Drained
      <4>2. \A f \in Flusher : Applying(f)' => fl'[f].cur.epoch = epoch'
        BY <1>1, <1>9, <3>1, <4>1 DEF ReaderInv
      <4> QED BY <3>2, <4>2 DEF ReaderInv
    <3>5. CASE at = "ok"
      <4>1. p.pending = <<>>
        BY <1>2, <1>7, <2>2, <3>1, <3>5, EmptySeq, LenProperties
      <4>2. \A f \in Flusher : ~Applying(f)
        BY <1>2, <3>1, <4>1 DEF TaskInv, TaskOf, ReaderInv
      <4> QED BY <1>9, <3>2, <4>1, <4>2 DEF ReaderInv
    <3> QED BY <3>3, <3>4, <3>5
  <2> QED BY <2>1, <2>2
<1>13. TypeInv'
  <2>1. p' \in Pump /\ p.applied <= p'.applied
    BY <1>2, <1>9 DEF Sound
  <2> QED BY <1>1, <1>2, <1>5, <1>9, <2>1, TypeKept
<1>14. PendingInv' /\ OrderInv' /\ ClosesOwnTransport'
  BY <1>1, <1>2, <1>9 DEF LaneInv, PendingInv, OrderInv, ClosesOwnTransport
<1> QED BY <1>9, <1>11, <1>12, <1>13, <1>14 DEF LaneInv

\* A drain() is cancelled.
LEMMA CancelDrainStep ==
    ASSUME LaneInv, NEW i \in Drainer, CancelDrain(i)
    PROVE  LaneInv'
<1>1. /\ epoch' = epoch /\ transport' = transport /\ reader' = reader /\ closer' = closer
      /\ writer' = writer /\ p' = p /\ fl' = fl
      /\ emitted' = emitted /\ sent' = sent /\ failed' = failed /\ closedBy' = closedBy
      /\ i # Reader /\ drain' = [drain EXCEPT ![i] = NotDraining]
  BY DEF CancelDrain, client, link, hist
<1>2. NotDraining \in Drains /\ NotDraining.at = "idle"
  BY DEF NotDraining, Drains
<1>3. drain \in [Drainer -> Drains] /\ Reader \in Drainer
  BY EffectAssumptions DEF LaneInv, TypeInv
<1>4. /\ drain' \in [Drainer -> Drains] /\ \A j \in Drainer : j # i => drain'[j] = drain[j]
      /\ drain'[i].at = "idle" /\ drain'[Reader] = drain[Reader]
  BY <1>1, <1>2, <1>3
<1>5. TypeInv'
  BY <1>1, <1>4 DEF LaneInv, TypeInv
<1>6. PendingInv' /\ TaskInv' /\ OrderInv' /\ ClosesOwnTransport'
  BY <1>1 DEF LaneInv, PendingInv, TaskInv, TaskOf, Working, Closing, Applying, OrderInv,
              ClosesOwnTransport
<1>7. ReaderInv'
  BY <1>1, <1>4 DEF LaneInv, ReaderInv, Applying, Drained, Online
<1>8. DrainInv'
  <2>1. ASSUME NEW j \in Drainer
        PROVE  DrainOf(j)'
    <3>1. CASE j = i
      BY <1>4, <3>1 DEF DrainOf
    <3>2. CASE j # i
      BY <1>1, <1>4, <3>2 DEF LaneInv, DrainInv, DrainOf
    <3> QED BY <3>1, <3>2
  <2>2. (\E j \in Drainer : drain'[j].at = "waiting") => \E j \in Drainer : drain[j].at = "waiting"
    BY <1>4
  <2>3. \A f \in Flusher : Flushes(f) => Flushes(f)'
    BY <1>1 DEF Flushes, Working, Closing
  <2> QED BY <2>1, <2>2, <2>3 DEF LaneInv, DrainInv
<1> QED BY <1>5, <1>6, <1>7, <1>8 DEF LaneInv
-----------------------------------------------------------------------------
(***************************************************************************)
(* The steps of flushers                                                   *)
(***************************************************************************)

\* What a flusher that holds the lock leaves alone in the pump
Alike(x, y) ==
  /\ x.enqueued = y.enqueued /\ x.pendingEpoch = y.pendingEpoch /\ x.task = y.task
  /\ x.failing = y.failing

\* A flusher that works is the only one.
LEMMA WorksAlone ==
    ASSUME LaneInv, NEW f \in Flusher, Working(f)
    PROVE  /\ ~p.failing /\ (closer.at # "closed" => p.task = f)
           /\ p.pending # <<>> => closer.at # "closed"
           /\ \A g \in Flusher : ~Closing(g) /\ (g # f => ~Working(g))
<1>1. ~p.failing /\ (closer.at # "closed" => p.task = f)
  BY DEF LaneInv, TaskInv, TaskOf
<1>2. \A g \in Flusher : ~Closing(g) /\ (g # f => ~Working(g))
  BY <1>1 DEF LaneInv, TaskInv, TaskOf
<1>3. p.pending # <<>> => closer.at # "closed"
  BY DEF LaneInv, ReaderInv
<1> QED BY <1>1, <1>2, <1>3

\* The flushers after a step of f
LEMMA AtShape ==
    ASSUME fl \in [Flusher -> Task], NEW f \in Flusher,
           NEW at \in {"free", "ready", "applying", "closing", "done"}, NEW e \in Applied \cup {None},
           At(f, at, e)
    PROVE  /\ fl' \in [Flusher -> Task] /\ \A g \in Flusher : g # f => fl'[g] = fl[g]
           /\ fl'[f].at = at /\ fl'[f].cur = e /\ fl'[f].cancel = fl[f].cancel
<1>1. fl' = [fl EXCEPT ![f] = [fl[f] EXCEPT !.at = at, !.cur = e]]
  BY DEF At
<1> DEFINE t == [fl[f] EXCEPT !.at = at, !.cur = e]
<1>2. t \in Task /\ t.at = at /\ t.cur = e /\ t.cancel = fl[f].cancel
  BY DEF Task
<1> HIDE DEF t
<1>3. fl' = [fl EXCEPT ![f] = t]
  BY <1>1 DEF t
<1> QED BY <1>2, <1>3

\* A failure is in the range of the drains that must hear of it.
LEMMA FailStep ==
    ASSUME LaneInv, NEW f \in Flusher, Working(f), p.pending # <<>>,
           NEW x, Sound(x), Alike(x, p), p.applied < x.applied,
           NEW ds, Wakes(drain, ds), NEW kind, Fail(f, x, ds, kind),
           sent' \in Seq(Effect), InOrder(sent', emitted),
           UNCHANGED <<client, emitted, closedBy>>
    PROVE  LaneInv'
<1>1. /\ epoch' = epoch /\ transport' = transport /\ reader' = reader /\ closer' = closer
      /\ emitted' = emitted /\ closedBy' = closedBy /\ writer' = FALSE
      /\ failed' = failed \cup {x.applied} /\ Reader \in Drainer
  BY EffectAssumptions DEF client, Fail
<1>2. /\ p.task = f /\ ~p.failing /\ closer.at # "closed"
      /\ \A g \in Flusher : ~Closing(g) /\ (g # f => ~Working(g))
  BY WorksAlone
<1>3. /\ TypeInv /\ fl \in [Flusher -> Task] /\ drain \in [Drainer -> Drains]
      /\ ds \in [Drainer -> Drains] /\ failed \subseteq 1..p.applied /\ p.applied \in Nat
      /\ p.pendingEpoch <= epoch
  BY DEF LaneInv, TypeInv, Pump, Wakes, PendingInv
<1>4. /\ fl' \in [Flusher -> Task] /\ \A g \in Flusher : g # f => fl'[g] = fl[g]
      /\ fl'[f].at = "closing"
  <2>1. At(f, "closing", None)
    BY DEF Fail
  <2> QED BY <1>3, <2>1, AtShape
<1>5. /\ Sound(p') /\ p'.pending = <<>> /\ p'.applied = p.enqueued /\ p'.enqueued = p.enqueued
      /\ p'.pendingEpoch = p.pendingEpoch /\ p'.task = p.task /\ p'.failing = TRUE
  <2> DEFINE y == Discarded(x)
  <2>1. /\ Sound(y) /\ Same(y, x) /\ y.pending = <<>> /\ y.applied = x.enqueued
    BY DiscardedShape
  <2>2. p' = [y EXCEPT !.failing = TRUE]
    BY DEF Fail
  <2> HIDE DEF y
  <2>3. y \in Pump
    BY <2>1 DEF Sound
  <2>4. /\ p' \in Pump /\ p'.pending = y.pending /\ p'.applied = y.applied
        /\ p'.enqueued = y.enqueued /\ p'.pendingEpoch = y.pendingEpoch /\ p'.task = y.task
        /\ p'.failing = TRUE
    BY <2>2, <2>3 DEF Pump
  <2>5. Sound(p')
    BY <2>1, <2>4 DEF Sound
  <2> QED BY <2>1, <2>4, <2>5 DEF Same, Alike
<1>6. /\ p.enqueued \in Nat /\ x.applied \in Nat /\ x.applied <= p.enqueued /\ p'.applied \in Nat
      /\ p.applied <= p'.applied
  BY <1>3, <1>5, DiscardedShape DEF Sound, Pump, Alike
<1> DEFINE es == [i \in Drainer |-> [ds[i] EXCEPT !.error = @ \/ i \in Owners(ds, x.applied)]]
<1>7. drain' = Progress(es)
  BY DEF Fail
<1>8. ASSUME NEW i \in Drainer
      PROVE  /\ es[i] \in Drains /\ es[i].at = ds[i].at /\ es[i].from = ds[i].from
             /\ es[i].target = ds[i].target
             /\ es[i].error <=> (ds[i].error \/ i \in Owners(ds, x.applied))
  <2>1. ds[i] \in Drains
    BY <1>3
  <2> DEFINE b == ds[i].error \/ i \in Owners(ds, x.applied)
  <2>2. es[i] = [ds[i] EXCEPT !.error = b]
    BY <2>1 DEF Drains
  <2>3. b \in BOOLEAN
    OBVIOUS
  <2> HIDE DEF b, es
  <2>4. /\ es[i] \in Drains /\ es[i].at = ds[i].at /\ es[i].from = ds[i].from
        /\ es[i].target = ds[i].target /\ es[i].error = b
    BY <2>1, <2>2, <2>3 DEF Drains
  <2> QED BY <2>4 DEF b
<1>9. es \in [Drainer -> Drains]
  BY <1>8
<1> HIDE DEF es
<1>10. Wakes(es, drain') /\ \A i \in Drainer : drain'[i].at # "waiting"
  BY <1>7, <1>9, ProgressShape
<1>11. ASSUME NEW i \in Drainer
       PROVE  /\ drain'[i] \in Drains /\ drain'[i].from = drain[i].from
              /\ drain'[i].target = drain[i].target /\ drain[i].target \in Nat
              /\ drain'[i].at = drain[i].at \/ (drain[i].at = "waiting" /\ drain'[i].at = "woken")
              /\ drain'[i].at # "waiting"
              /\ drain'[i].error <=> (drain[i].error \/ (drain'[i].at = "woken" /\ drain[i].target >= x.applied))
  <2>1. WokeTo(drain[i], ds[i]) /\ WokeTo(es[i], drain'[i]) /\ drain'[i] \in Drains
    BY <1>10 DEF Wakes
  <2>2. drain[i].target \in Nat
    BY <1>3 DEF Drains
  <2>3. i \in Owners(ds, x.applied) <=> Waiting(ds[i]) /\ ds[i].target >= x.applied
    BY DEF Owners
  <2>4. Waiting(ds[i]) <=> drain'[i].at = "woken"
    BY <1>8, <1>10, <2>1 DEF WokeTo, Waiting
  <2> QED BY <1>8, <1>10, <2>1, <2>2, <2>3, <2>4 DEF WokeTo
<1>12. ASSUME NEW i \in Drainer
       PROVE  DrainOf(i)'
  <2>1. DrainOf(i)
    BY DEF LaneInv, DrainInv
  <2>2. /\ drain'[i].at \notin {"idle", "retiring"} => drain'[i].target <= p'.enqueued
        /\ drain'[i].at = "ok" => drain'[i].target <= p.applied
        /\ drain'[i].at = "retiring" => i = Reader
    BY <1>5, <1>11, <2>1 DEF DrainOf
  <2>3. drain'[i].at = "ok" => drain'[i].target <= p'.applied
    BY <1>3, <1>6, <1>11, <2>2
  <2>4. ASSUME drain'[i].at = "woken", NEW n \in failed', drain'[i].from < n, n <= drain'[i].target
        PROVE  drain'[i].error
    <3>1. CASE n \in failed
      <4>1. drain[i].error
        BY <1>11, <2>1, <2>4, <3>1 DEF DrainOf
      <4> QED BY <1>11, <4>1
    <3>2. CASE n = x.applied
      BY <1>6, <1>11, <2>4, <3>2
    <3> QED BY <1>1, <2>4, <3>1, <3>2
  <2>5. ASSUME drain'[i].at = "ok", NEW n \in failed', drain'[i].from < n, n <= drain'[i].target
        PROVE  FALSE
    <3>1. CASE n \in failed
      BY <1>11, <2>1, <2>5, <3>1 DEF DrainOf
    <3>2. CASE n = x.applied
      BY <1>3, <1>6, <1>11, <2>2, <2>5, <3>2
    <3> QED BY <1>1, <2>5, <3>1, <3>2
  <2> QED BY <1>11, <2>2, <2>3, <2>4, <2>5 DEF DrainOf
<1>13. DrainInv'
  BY <1>11, <1>12 DEF DrainInv
<1>14. drain' \in [Drainer -> Drains]
  BY <1>10 DEF Wakes
<1>15. TypeInv'
  <2>1. failed' \subseteq 1..p'.applied
    <3>1. x.applied \in 1..p'.applied
      BY <1>3, <1>5, <1>6
    <3>2. 1..p.applied \subseteq 1..p'.applied
      BY <1>3, <1>6
    <3> QED BY <1>1, <1>3, <3>1, <3>2
  <2>2. p' \in Pump
    BY <1>5 DEF Sound
  <2> QED BY <1>1, <1>3, <1>4, <1>14, <2>1, <2>2 DEF TypeInv
<1>16. ASSUME NEW g \in Flusher
       PROVE  TaskOf(g)' /\ ~Applying(g)' /\ ~Working(g)' /\ (Closing(g)' <=> g = f)
  <2>1. CASE g = f
    BY <1>4, <1>5, <2>1 DEF TaskOf, Working, Closing, Applying
  <2>2. CASE g # f
    <3>1. ~Working(g)' /\ ~Closing(g)'
      BY <1>2, <1>4, <2>2 DEF Working, Closing
    <3> QED BY <2>2, <3>1, TaskIdle
  <2> QED BY <2>1, <2>2
<1>17. TaskInv'
  BY <1>1, <1>5, <1>16 DEF TaskInv
<1>18. ReaderInv'
  <2>1. ReaderInv /\ drain[Reader].at # "idle" => reader
    BY DEF LaneInv, ReaderInv
  <2>2. /\ ~reader' => drain'[Reader].at = "idle" /\ transport' = None /\ ~writer'
        /\ drain'[Reader].at # "idle" => ~writer'
        /\ drain'[Reader].at \in {"waiting", "woken", "ok"} => drain'[Reader].target = p'.enqueued
        /\ drain'[Reader].at \in {"idle", "retiring"} => ~drain'[Reader].error
        /\ closer'.at # "no" => ~writer'
        /\ closer'.at # "closed"
    BY <1>1, <1>2, <1>5, <1>11 DEF LaneInv, ReaderInv
  <2> QED BY <1>5, <1>16, <2>2 DEF ReaderInv
<1>19. PendingInv' /\ OrderInv' /\ ClosesOwnTransport'
  BY <1>1, <1>3, <1>5 DEF LaneInv, PendingInv, OrderInv, ClosesOwnTransport
<1> QED BY <1>13, <1>15, <1>17, <1>18, <1>19 DEF LaneInv

\* The reader and the types, in a flusher's step that ends or goes on
LEMMA HeldStep ==
    ASSUME LaneInv, NEW f \in Flusher, Working(f), ~fl[f].cancel,
           UNCHANGED <<client, emitted, closedBy, writer, failed>>,
           Sound(p'), Alike(p', p), p.applied <= p'.applied, Wakes(drain, drain'),
           p'.applied # p.applied => \A i \in Drainer : drain'[i].at # "waiting",
           sent' \in Seq(Effect), InOrder(sent', emitted),
           writer => Follows(sent', emitted, epoch, p'.pending),
           \/ p'.pending = <<>> /\ At(f, "done", None)
           \/ /\ p'.pending # <<>> /\ p.pending # <<>> /\ p'.pendingEpoch = epoch
              /\ p'.pending[1].kind # "error" /\ At(f, "applying", p'.pending[1])
    PROVE  LaneInv'
<1>1. /\ epoch' = epoch /\ transport' = transport /\ reader' = reader /\ closer' = closer
      /\ emitted' = emitted /\ closedBy' = closedBy /\ writer' = writer /\ failed' = failed
      /\ Reader \in Drainer
  BY EffectAssumptions DEF client
<1>2. /\ ~p.failing /\ (p'.pending # <<>> => closer.at # "closed" /\ p.task = f)
      /\ \A g \in Flusher : ~Closing(g) /\ (g # f => ~Working(g))
  BY WorksAlone
<1>3. /\ TypeInv /\ fl \in [Flusher -> Task] /\ writer \in BOOLEAN /\ p.pendingEpoch <= epoch
      /\ p.enqueued \in Nat /\ transport \in 0..epoch /\ epoch \in 1..MaxEpoch /\ ReaderInv
      /\ emitted \in Seq(EffectOf(Kind, 1..epoch)) /\ MaxEpoch \in Nat
  BY EffectAssumptions DEF LaneInv, TypeInv, Pump, PendingInv, OrderInv
<1>4. /\ p'.enqueued = p.enqueued /\ p'.pendingEpoch = p.pendingEpoch /\ p'.task = p.task
      /\ p'.failing = p.failing /\ p' \in Pump
  BY DEF Alike, Sound
<1>5. p'.pending # <<>> =>
        /\ p'.pending[1] \in EffectOf({"send", "close", "closed"}, 1..epoch)
        /\ transport <= p'.pending[1].epoch /\ p'.pending[1].epoch = epoch
        /\ p'.pending[1] \in Applied
  <2>1. SUFFICES ASSUME p'.pending # <<>>
                 PROVE  /\ p'.pending[1] \in EffectOf({"send", "close", "closed"}, 1..epoch)
                        /\ transport <= p'.pending[1].epoch /\ p'.pending[1].epoch = epoch
                        /\ p'.pending[1] \in Applied
    OBVIOUS
  <2>2. p'.pending \in Seq(EffectOf(Kind, {epoch})) /\ p'.pending[1].kind # "error"
    BY <2>1 DEF Sound
  <2>3. p'.pending[1] \in EffectOf(Kind, {epoch})
    BY <2>1, <2>2
  <2> DEFINE h == p'.pending[1]
  <2>4. /\ h \in [id : 1..MaxEffects, kind : Kind, epoch : {epoch}] /\ h.kind # "error"
    BY <2>2, <2>3 DEF EffectOf
  <2> HIDE DEF h
  <2>5. h \in EffectOf({"send", "close", "closed"}, 1..epoch) /\ h.epoch = epoch /\ h \in Applied
    BY <1>3, <2>4 DEF EffectOf, Kind, Applied
  <2>6. /\ h \in EffectOf({"send", "close", "closed"}, 1..epoch) /\ transport <= h.epoch
        /\ h.epoch = epoch /\ h \in Applied
    BY <1>3, <2>5
  <2> QED BY <2>6 DEF h
<1>6. /\ fl' \in [Flusher -> Task] /\ \A g \in Flusher : g # f => fl'[g] = fl[g]
      /\ p'.pending = <<>> => fl'[f].at = "done"
      /\ p'.pending # <<>> => fl'[f].at = "applying" /\ fl'[f].cur = p'.pending[1]
      /\ fl'[f].cancel = fl[f].cancel
  <2>1. CASE p'.pending = <<>>
    <3>1. At(f, "done", None)
      BY <2>1
    <3> QED BY <1>3, <2>1, <3>1, AtShape
  <2>2. CASE p'.pending # <<>>
    <3>1. At(f, "applying", p'.pending[1])
      BY <2>2
    <3>2. p'.pending[1] \in Applied \cup {None}
      BY <1>5, <2>2
    <3> QED BY <1>3, <2>2, <3>1, <3>2, AtShape
  <2> QED BY <2>1, <2>2
<1>7. ASSUME NEW g \in Flusher
      PROVE  /\ TaskOf(g)' /\ ~Closing(g)' /\ (Working(g)' => g = f)
             /\ Applying(g)' => fl'[g].cur.epoch = epoch
  <2>1. CASE g # f
    <3>1. ~Working(g)' /\ ~Closing(g)'
      BY <1>2, <1>6, <2>1 DEF Working, Closing
    <3> QED BY <2>1, <3>1, TaskIdle
  <2>2. CASE g = f /\ p'.pending = <<>>
    <3>1. ~Working(f)' /\ ~Closing(f)'
      BY <1>6, <2>2 DEF Working, Closing
    <3> QED BY <2>2, <3>1, TaskIdle
  <2>3. CASE g = f /\ p'.pending # <<>>
    <3>1. ~Closing(f)' /\ ~fl'[f].cancel /\ p'.task = f /\ ~p'.failing /\ closer'.at # "closed"
      BY <1>1, <1>2, <1>4, <1>6, <2>3 DEF Closing
    <3>2. /\ fl'[f].cur \in EffectOf({"send", "close", "closed"}, 1..epoch')
          /\ transport' <= fl'[f].cur.epoch
      BY <1>1, <1>5, <1>6, <2>3
    <3>3. p'.pending[1] = fl'[f].cur
      BY <1>6, <2>3
    <3>4. fl'[f].cur.epoch = epoch
      BY <1>5, <2>3, <3>3
    <3> QED BY <2>3, <3>1, <3>2, <3>3, <3>4 DEF TaskOf
  <2> QED BY <2>1, <2>2, <2>3
<1>8. TaskInv'
  BY <1>2, <1>4, <1>7 DEF TaskInv
<1>9. DrainInv'
  <2>1. p'.pending = <<>> \/ Flushes(f)'
    BY <1>6 DEF Flushes, Working
  <2>2. p.enqueued <= p'.enqueued
    BY <1>3, <1>4
  <2> QED BY <1>1, <2>1, <2>2, KeptDrains
<1>10. ReaderInv'
  <2>1. WokeTo(drain[Reader], drain'[Reader])
    BY <1>1 DEF Wakes
  <2>2. \A g \in Flusher : Applying(g)' => fl'[g].cur.epoch = epoch
    BY <1>7
  <2>3. Online /\ p'.pending # <<>> => p'.pendingEpoch = epoch
    OBVIOUS
  <2>4. closer.at = "closed" => p'.task = None /\ p'.pending = <<>>
    BY <1>2, <1>3, <1>4 DEF ReaderInv
  <2> QED BY <1>1, <1>3, <1>4, <2>1, <2>2, <2>3, <2>4, ReaderKept
<1>11. TypeInv'
  <2>1. drain' \in [Drainer -> Drains]
    BY DEF Wakes
  <2> QED BY <1>1, <1>3, <1>4, <1>6, <2>1, TypeKept
<1>12. PendingInv' /\ OrderInv' /\ ClosesOwnTransport'
  BY <1>1, <1>3, <1>4 DEF LaneInv, PendingInv, OrderInv, ClosesOwnTransport
<1> QED BY <1>8, <1>9, <1>10, <1>11, <1>12 DEF LaneInv

\* A writer that accepts belongs to the connection that is online.
LEMMA WriterOnline ==
    ASSUME LaneInv, writer
    PROVE  Online /\ ~Drained /\ (p.pending # <<>> => p.pendingEpoch = epoch)
BY DEF LaneInv, ReaderInv, Online, Drained

\* What is left of a lane that was not empty
LEMMA LeftOver ==
    ASSUME Sound(p), NEW x, Sound(x), x.enqueued = p.enqueued, p.applied <= x.applied,
           p.pending = <<>>
    PROVE  x.pending = <<>>
<1>1. /\ Len(x.pending) \in Nat /\ x.enqueued = x.applied + Len(x.pending) /\ x.applied \in Nat
      /\ p.enqueued = p.applied /\ p.applied \in Nat /\ x.pending \in Seq(Effect)
  BY EmptySeq, LenProperties DEF Sound, Pump
<1>2. PICK l \in Nat : l = Len(x.pending)
  BY <1>1
<1>3. x.applied + l = p.applied /\ p.applied <= x.applied
  BY <1>1, <1>2
<1>4. l = 0
  BY <1>1, <1>3
<1> QED BY <1>1, <1>2, <1>4, EmptySeq

\* A flusher that holds the lock, from pump x on
LEMMA HoldStep ==
    ASSUME LaneInv, NEW f \in Flusher, Working(f), ~fl[f].cancel,
           NEW x, Sound(x), Same(x, p), p.applied <= x.applied,
           NEW ds, Wakes(drain, ds),
           x.applied # p.applied => \A i \in Drainer : ds[i].at # "waiting",
           NEW s \in Seq(Effect), InOrder(s, emitted),
           writer => Follows(s, emitted, epoch, x.pending),
           Hold(f, x, ds, s),
           UNCHANGED <<client, emitted, closedBy>>
    PROVE  LaneInv'
<1>1. PICK y : y = [x EXCEPT !.flush = FALSE]
  OBVIOUS
<1>2. /\ Sound(y) /\ Alike(y, p) /\ y.pending = x.pending /\ y.applied = x.applied
      /\ y.enqueued = p.enqueued /\ y.pendingEpoch = p.pendingEpoch
  <2>1. x \in Pump
    BY DEF Sound
  <2>2. /\ y \in Pump /\ y.pending = x.pending /\ y.applied = x.applied /\ y.enqueued = x.enqueued
        /\ y.pendingEpoch = x.pendingEpoch /\ y.task = x.task /\ y.failing = x.failing
    BY <1>1, <2>1 DEF Pump
  <2>3. Sound(y)
    BY <2>2 DEF Sound
  <2> QED BY <2>2, <2>3 DEF Same, Alike
<1>3. /\ writer \in BOOLEAN /\ Sound(p) /\ p.applied \in Nat /\ y.applied \in Nat /\ p.enqueued \in Nat
      /\ y.enqueued = y.applied + Len(y.pending) /\ Len(y.pending) \in Nat
      /\ y.pending \in Seq(Effect) /\ ds \in [Drainer -> Drains] /\ drain \in [Drainer -> Drains]
      /\ emitted \in Seq(Effect) /\ epoch \in 1..MaxEpoch
  BY <1>2, LenProperties DEF LaneInv, TypeInv, PendingInv, Sound, Pump, Wakes
<1>4. y.pending # <<>> => p.pending # <<>>
  BY <1>2, <1>3, LeftOver
<1> DEFINE stale == y.pending # <<>> /\ y.pendingEpoch # epoch
<1>5. Wakes(ds, Progress(ds)) /\ \A i \in Drainer : Progress(ds)[i].at # "waiting"
  BY <1>3, ProgressShape
<1>6. Wakes(drain, Progress(ds))
  BY <1>5, WakesTransitive
<1>7. CASE y.pending = <<>> \/ stale
  <2>1. /\ p' = Discarded(y) /\ drain' = IF stale THEN Progress(ds) ELSE ds
        /\ sent' = s /\ At(f, "done", None) /\ UNCHANGED <<writer, failed>>
    BY <1>1, <1>7 DEF Hold, link
  <2>2. /\ Sound(p') /\ Alike(p', p) /\ p'.pending = <<>> /\ p'.applied = y.enqueued
        /\ p.applied <= p'.applied
    <3>1. Sound(Discarded(y)) /\ Same(Discarded(y), y) /\ Discarded(y).pending = <<>>
          /\ Discarded(y).applied = y.enqueued /\ y.applied <= y.enqueued
      BY <1>2, DiscardedShape
    <3> QED BY <1>2, <1>3, <2>1, <3>1 DEF Same, Alike
  <2>3. /\ Wakes(drain, drain')
        /\ p'.applied # p.applied => \A i \in Drainer : drain'[i].at # "waiting"
    <3>1. CASE stale
      BY <1>5, <1>6, <2>1, <3>1
    <3>2. CASE ~stale
      <4>1. y.pending = <<>> /\ y.enqueued = y.applied
        BY <1>3, <1>7, <3>2, EmptySeq
      <4> QED BY <1>2, <2>1, <2>2, <3>2, <4>1
    <3> QED BY <3>1, <3>2
  <2>4. writer => Follows(sent', emitted, epoch, p'.pending)
    <3>1. SUFFICES ASSUME writer
                   PROVE  Follows(sent', emitted, epoch, p'.pending)
      OBVIOUS
    <3>2. y.pending = <<>>
      BY <1>2, <1>4, <1>7, <3>1, WriterOnline
    <3> QED BY <1>2, <2>1, <2>2, <3>1, <3>2
  <2> QED BY <2>1, <2>2, <2>3, <2>4, HeldStep
<1>8. CASE y.pending # <<>> /\ ~stale
  <2>1. PICK n \in InlineCounts(y.pending) :
         LET z == Completed(y, n)
             awoken == IF n > 0 THEN Progress(ds) ELSE ds IN
         /\ sent' = s \o Taken(y.pending, n)
         /\ \/ /\ z.pending = <<>>
               /\ p' = z /\ drain' = awoken /\ At(f, "done", None) /\ UNCHANGED <<link, failed>>
            \/ /\ z.pending # <<>> /\ Head(z.pending).kind # "error"
               /\ p' = z /\ drain' = awoken /\ At(f, "applying", Head(z.pending))
               /\ UNCHANGED <<link, failed>>
            \/ /\ z.pending # <<>> /\ TRUE \in RaiseChoices(z.pending)
               /\ Fail(f, Completed(z, 1), Progress(awoken), Head(z.pending).kind)
    BY <1>1, <1>8 DEF Hold
  <2>2. PICK z : z = Completed(y, n)
    OBVIOUS
  <2>3. PICK awoken : awoken = IF n > 0 THEN Progress(ds) ELSE ds
    OBVIOUS
  <2>4. n \in 0..Leading(y.pending) /\ n \in 0..Len(y.pending)
    BY <1>3, CountsShape
  <2>5. /\ Sound(z) /\ Same(z, y) /\ z.applied = y.applied + n
        /\ z.pending = SubSeq(y.pending, n + 1, Len(y.pending))
        /\ Len(z.pending) = Len(y.pending) - n
        /\ \A i \in 1..(Len(y.pending) - n) : z.pending[i] = y.pending[n + i]
    <3> DEFINE l == Len(y.pending)
    <3>0. Sound(y) /\ n \in 0..Len(y.pending)
      BY <1>2, <2>4
    <3>1. /\ Sound(Completed(y, n)) /\ Same(Completed(y, n), y) /\ Completed(y, n).applied = y.applied + n
          /\ Completed(y, n).pending = SubSeq(y.pending, n + 1, l)
          /\ Len(Completed(y, n).pending) = l - n
          /\ \A i \in 1..(l - n) : Completed(y, n).pending[i] = y.pending[n + i]
      BY <3>0, CompletedShape
    <3> HIDE DEF l
    <3>2. /\ Sound(z) /\ Same(z, y) /\ z.applied = y.applied + n
          /\ z.pending = SubSeq(y.pending, n + 1, l)
          /\ Len(z.pending) = l - n
          /\ \A i \in 1..(l - n) : z.pending[i] = y.pending[n + i]
      BY <2>2, <3>1
    <3> QED BY <3>2 DEF l
  <2>6. /\ Wakes(drain, awoken) /\ awoken \in [Drainer -> Drains]
        /\ n > 0 => \A i \in Drainer : awoken[i].at # "waiting"
        /\ n = 0 => awoken = ds
    BY <1>3, <1>5, <1>6, <2>3, <2>4 DEF Wakes
  <2>7. p.applied <= z.applied /\ Alike(z, p) /\ z.pending \in Seq(Effect) /\ z.applied \in Nat
    <3>1. z.pending \in Seq(Effect) /\ z.applied \in Nat
      BY <2>5 DEF Sound, Pump
    <3>2. Alike(z, p)
      BY <1>2, <2>5 DEF Same, Alike
    <3>3. n \in Nat
      BY <2>4
    <3>4. p.applied <= z.applied
      BY <1>2, <1>3, <2>5, <3>3
    <3> QED BY <3>1, <3>2, <3>4
  <2>8. z.applied # p.applied => \A i \in Drainer : awoken[i].at # "waiting"
    BY <1>2, <1>3, <2>4, <2>5, <2>6
  <2>9. /\ sent' \in Seq(Effect) /\ InOrder(sent', emitted)
        /\ writer => Follows(sent', emitted, epoch, z.pending)
    <3>1. CASE ~writer
      <4>1. sent' = s \o <<>>
        BY <2>1, <3>1 DEF Taken
      <4>2. sent' = s
        BY <4>1, ConcatEmptySeq
      <4> QED BY <3>1, <4>2
    <3>2. CASE writer
      <4>1. sent' = s \o SubSeq(y.pending, 1, n)
        BY <2>1, <3>2 DEF Taken
      <4>2. y.pending \in Seq(EffectOf(Kind, {epoch}))
        BY <1>2, <1>8 DEF Sound
      <4>3. \A i \in 1..n : y.pending[i].kind = "send"
        <5>1. Leading(y.pending) \in Nat /\ \A i \in 1..Leading(y.pending) : y.pending[i].kind = "send"
          BY <1>3, LeadingShape
        <5> QED BY <2>4, <5>1
      <4>4. Follows(s, emitted, epoch, y.pending)
        BY <1>2, <3>2
      <4> DEFINE q == y.pending
      <4>5. q \in Seq(EffectOf(Kind, {epoch})) /\ n \in 0..Len(q) /\ Follows(s, emitted, epoch, q)
            /\ \A i \in 1..n : q[i].kind = "send"
        BY <2>4, <4>2, <4>3, <4>4
      <4> HIDE DEF q
      <4>6. /\ s \o SubSeq(q, 1, n) \in Seq(Effect)
            /\ InOrder(s \o SubSeq(q, 1, n), emitted)
            /\ Follows(s \o SubSeq(q, 1, n), emitted, epoch, SubSeq(q, n + 1, Len(q)))
        BY <1>3, <4>5, TakenInOrder
      <4> QED BY <2>5, <4>1, <4>6 DEF q
    <3> QED BY <1>3, <3>1, <3>2
  <2>10. CASE z.pending = <<>> /\ p' = z
    <3>1. drain' = awoken /\ At(f, "done", None) /\ UNCHANGED <<writer, failed>>
      BY <2>1, <2>2, <2>3, <2>10 DEF link
    <3> QED BY <2>5, <2>6, <2>7, <2>8, <2>9, <2>10, <3>1, HeldStep
  <2>11. CASE /\ z.pending # <<>> /\ Head(z.pending).kind # "error"
              /\ p' = z /\ drain' = awoken /\ At(f, "applying", Head(z.pending))
              /\ UNCHANGED <<link, failed>>
    <3>1. Head(z.pending) = z.pending[1]
      BY <2>7, <2>11
    <3>3. p.pending # <<>> /\ p'.pendingEpoch = epoch
      BY <1>2, <1>4, <1>8, <2>5, <2>11 DEF Same
    <3>2. UNCHANGED <<writer, failed>>
      BY <2>11 DEF link
    <3> QED BY <2>5, <2>6, <2>7, <2>8, <2>9, <2>11, <3>1, <3>2, <3>3, HeldStep
  <2>12. CASE z.pending # <<>> /\ Fail(f, Completed(z, 1), Progress(awoken), Head(z.pending).kind)
    <3>1. 1 \in 0..Len(z.pending)
      BY <2>7, <2>12, EmptySeq, LenProperties
    <3>2. Sound(Completed(z, 1)) /\ Same(Completed(z, 1), z) /\ Completed(z, 1).applied = z.applied + 1
      BY <2>5, <3>1, CompletedShape
    <3>3. Alike(Completed(z, 1), p) /\ p.applied < Completed(z, 1).applied
      BY <1>3, <2>7, <3>2 DEF Alike, Same
    <3>4. Wakes(drain, Progress(awoken))
      <4>1. Wakes(awoken, Progress(awoken))
        BY <2>6, ProgressShape
      <4> QED BY <2>6, <4>1, WakesTransitive
    <3>5. p.pending # <<>>
      BY <1>4, <1>8
    <3> QED BY <2>9, <2>12, <3>2, <3>3, <3>4, <3>5, FailStep
  <2> QED BY <2>1, <2>2, <2>3, <2>10, <2>11, <2>12
<1> QED BY <1>7, <1>8

\* The flusher task starts and gets the lock.
LEMMA FlusherStartsStep ==
    ASSUME LaneInv, NEW f \in Flusher, FlusherStarts(f)
    PROVE  LaneInv'
<1>1. Working(f) /\ ~fl[f].cancel /\ Hold(f, p, drain, sent) /\ UNCHANGED <<client, emitted, closedBy>>
  BY DEF FlusherStarts, Working
<1>2. /\ Sound(p) /\ Same(p, p) /\ p.applied <= p.applied /\ sent \in Seq(Effect)
      /\ drain \in [Drainer -> Drains]
      /\ InOrder(sent, emitted) /\ (writer => Follows(sent, emitted, epoch, p.pending))
  BY DEF LaneInv, TypeInv, PendingInv, OrderInv, Sound, Pump, Same
<1>3. Wakes(drain, drain)
  BY <1>2, WakesReflexive
<1> QED BY <1>1, <1>2, <1>3, HoldStep

\* The effect that was awaited is popped, or it is gone already.
LEMMA PoppedShape ==
    ASSUME Sound(p), NEW e
    PROVE  /\ Sound(Popped(p, e)) /\ Same(Popped(p, e), p) /\ p.applied <= Popped(p, e).applied
           /\ p.pending # <<>> /\ p.pending[1] = e =>
                /\ Popped(p, e).applied = p.applied + 1
                /\ Popped(p, e).pending = SubSeq(p.pending, 2, Len(p.pending))
           /\ ~(p.pending # <<>> /\ p.pending[1] = e) => Popped(p, e) = p
<1>1. p.pending \in Seq(Effect) /\ p.applied \in Nat /\ Len(p.pending) \in Nat
  BY LenProperties DEF Sound, Pump
<1>2. p.pending # <<>> => Head(p.pending) = p.pending[1] /\ 1 \in 0..Len(p.pending)
  BY <1>1, EmptySeq
<1>3. CASE p.pending # <<>> /\ p.pending[1] = e
  <2>1. Popped(p, e) = Completed(p, 1)
    BY <1>2, <1>3 DEF Popped
  <2>2. /\ Sound(Completed(p, 1)) /\ Same(Completed(p, 1), p) /\ Completed(p, 1).applied = p.applied + 1
        /\ Completed(p, 1).pending = SubSeq(p.pending, 1 + 1, Len(p.pending))
    BY <1>2, <1>3, CompletedShape
  <2>3. 1 + 1 = 2 /\ p.applied <= p.applied + 1
    BY <1>1
  <2> QED BY <1>3, <2>1, <2>2, <2>3
<1>4. CASE ~(p.pending # <<>> /\ p.pending[1] = e)
  <2>1. Popped(p, e) = p
    BY <1>2, <1>4 DEF Popped
  <2> QED BY <1>1, <1>4, <2>1 DEF Same
<1> QED BY <1>3, <1>4

\* Dropping an effect that is no send keeps the sends.
LEMMA OtherDropped ==
    ASSUME NEW pend \in Seq(Effect), pend # <<>>, pend[1].kind # "send"
    PROVE  Sends(SubSeq(pend, 2, Len(pend))) = Sends(pend)
<1> DEFINE a == SubSeq(pend, 1, 1)
           b == SubSeq(pend, 2, Len(pend))
           OO == EffectOf(Kind \ {"send"}, 1..MaxEpoch)
           SS == EffectOf({"send"}, 1..MaxEpoch)
<1>1. Len(pend) \in Nat /\ Len(pend) > 0 /\ \A i \in 1..Len(pend) : pend[i] \in Effect
  BY LenProperties, EmptySeq, ElementOfSeq
<1>2. pend[1] \in OO
  <2>1. pend[1] \in Effect
    BY <1>1
  <2> QED BY <2>1 DEF Effect, EffectOf
<1>3. a \in Seq(OO)
  <2>1. \A i \in 1..1 : pend[i] \in OO
    BY <1>2
  <2> HIDE DEF OO
  <2> QED BY <2>1, SubSeqProperties
<1>4. b \in Seq(Effect)
  <2>1. \A i \in 2..Len(pend) : pend[i] \in Effect
    BY <1>1
  <2> HIDE DEF OO
  <2> QED BY <1>1, <2>1, SubSeqProperties
<1>5. a \o b = pend
  <2>1. 1 \in 1..Len(pend) + 1 /\ 1 \in (1 - 1)..Len(pend) /\ Len(pend) \in 1..Len(pend)
    BY <1>1
  <2>2. SubSeq(pend, 1, 1) \o SubSeq(pend, 1 + 1, Len(pend)) = SubSeq(pend, 1, Len(pend))
    BY <2>1, ConcatAdjacentSubSeq
  <2>3. 1 + 1 = 2
    OBVIOUS
  <2> QED BY <2>2, <2>3, SubSeqFull
<1>6. OO \subseteq Effect /\ OO \cap SS = {}
  BY DEF EffectOf, Effect
<1>7. Sends(a) = <<>>
  <2> HIDE DEF a, b, OO, SS
  <2>1. Only(a, SS) = <<>>
    BY <1>3, <1>6, OnlyNone
  <2> QED BY <2>1 DEF Sends, SS
<1>8. a \in Seq(Effect)
  <2> HIDE DEF a, b, OO, SS
  <2> QED BY <1>3, <1>6, SeqMonotonic
<1> HIDE DEF a, b, OO, SS
<1>9. Sends(pend) = <<>> \o Sends(b)
  BY <1>4, <1>5, <1>7, <1>8, SendsConcat
<1>10. Sends(b) \in Seq(Effect)
  <2>1. Only(b, SS) \in Seq(Effect \cap SS)
    BY <1>4, OnlyTyped
  <2>2. Effect \cap SS \subseteq Effect
    OBVIOUS
  <2>3. Only(b, SS) \in Seq(Effect)
    BY <2>1, <2>2, SeqMonotonic
  <2> QED BY <2>3 DEF Sends, SS
<1>11. <<>> \o Sends(b) = Sends(b)
  BY <1>10, ConcatEmptySeq
<1> QED BY <1>9, <1>11 DEF b

\* What holds of a flusher that resumes from an effect
LEMMA Resumes ==
    ASSUME LaneInv, NEW f \in Flusher, fl[f].at = "applying", ~fl[f].cancel
    PROVE  /\ Working(f) /\ Applying(f) /\ Sound(p)
           /\ fl[f].cur \in EffectOf({"send", "close", "closed"}, 1..epoch)
           /\ transport <= fl[f].cur.epoch
           /\ p.pending # <<>> \/ closer.at = "closed"
           /\ writer => p.pending # <<>>
           /\ writer /\ fl[f].cur.kind = "send" => p.pending[1] = fl[f].cur
           /\ sent \in Seq(Effect) /\ emitted \in Seq(Effect) /\ drain \in [Drainer -> Drains]
           /\ InOrder(sent, emitted) /\ (writer => Follows(sent, emitted, epoch, p.pending))
<1>1. Working(f) /\ Applying(f)
  BY DEF Working, Applying
<1>2. writer => closer.at = "no"
  BY DEF LaneInv, ReaderInv
<1>3. TaskOf(f)
  BY DEF LaneInv, TaskInv
<1>4. /\ p.pending # <<>> \/ closer.at = "closed"
      /\ fl[f].cur \in EffectOf({"send", "close", "closed"}, 1..epoch)
      /\ transport <= fl[f].cur.epoch
      /\ writer /\ fl[f].cur.kind = "send" => p.pending[1] = fl[f].cur
  BY <1>1, <1>3 DEF TaskOf
<1> QED BY <1>1, <1>2, <1>4 DEF LaneInv, TypeInv, PendingInv, OrderInv

\* A send the flusher waited for is applied, and it goes on.
LEMMA SendAppliedStep ==
    ASSUME LaneInv, NEW f \in Flusher, SendApplied(f)
    PROVE  LaneInv'
<1>1. PICK e : e = fl[f].cur
  OBVIOUS
<1>2. /\ fl[f].at = "applying" /\ e.kind = "send" /\ ~fl[f].cancel
      /\ Hold(f, Popped(p, e), Woken(Popped(p, e)),
              IF writer /\ e.epoch = epoch THEN Append(sent, e) ELSE sent)
      /\ UNCHANGED <<client, emitted, closedBy>>
  BY <1>1 DEF SendApplied
<1>3. /\ Working(f) /\ Sound(p)
      /\ writer => p.pending # <<>> /\ p.pending[1] = e
      /\ sent \in Seq(Effect) /\ emitted \in Seq(Effect) /\ drain \in [Drainer -> Drains]
      /\ InOrder(sent, emitted) /\ (writer => Follows(sent, emitted, epoch, p.pending))
  BY <1>1, <1>2, Resumes
<1>4. PICK x : x = Popped(p, e)
  OBVIOUS
<1>5. /\ Sound(x) /\ Same(x, p) /\ p.applied <= x.applied
      /\ p.pending # <<>> /\ p.pending[1] = e => x.pending = SubSeq(p.pending, 2, Len(p.pending))
  BY <1>3, <1>4, PoppedShape
<1>6. /\ Wakes(drain, Woken(x))
      /\ x.applied # p.applied => \A i \in Drainer : Woken(x)[i].at # "waiting"
  BY <1>3, WokenShape
<1>7. PICK s : s = IF writer /\ e.epoch = epoch THEN Append(sent, e) ELSE sent
  OBVIOUS
<1>8. s \in Seq(Effect) /\ InOrder(s, emitted) /\ (writer => Follows(s, emitted, epoch, x.pending))
  <2>1. CASE ~writer
    BY <1>3, <1>7, <2>1
  <2>2. CASE writer
    <3> DEFINE q == p.pending
    <3>1. p.pendingEpoch = epoch /\ epoch \in 1..MaxEpoch
      BY <1>3, <2>2, WriterOnline DEF LaneInv, TypeInv
    <3>2. q \in Seq(EffectOf(Kind, {epoch})) /\ q # <<>> /\ q[1] = e
      BY <1>3, <2>2, <3>1 DEF Sound
    <3>3. e \in EffectOf(Kind, {epoch}) /\ Len(q) \in Nat /\ Len(q) > 0
      BY <3>2, EmptySeq, LenProperties, ElementOfSeq
    <3>4. s = Append(sent, e) /\ e \in Effect
      BY <1>7, <2>2, <3>1, <3>3 DEF EffectOf, Effect
    <3>5. s = sent \o <<e>>
      BY <1>3, <3>4, AppendIsConcat
    <3>6. Follows(sent, emitted, epoch, q)
      BY <1>3, <2>2
    <3>7. x.pending = SubSeq(q, 2, Len(q))
      BY <1>3, <1>5, <2>2
    <3> HIDE DEF q
    <3>8. SubSeq(q, 1, 1) = <<e>>
      <4>1. \A i \in 1..1 : q[i] \in Effect
        BY <3>2, <3>4
      <4>2. /\ SubSeq(q, 1, 1) \in Seq(Effect) /\ Len(SubSeq(q, 1, 1)) = 1
            /\ \A i \in 1..1 - 1 + 1 : SubSeq(q, 1, 1)[i] = q[1 + i - 1]
        BY <4>1, SubSeqProperties
      <4>3. SubSeq(q, 1, 1)[1] = e
        BY <3>2, <4>2
      <4> DEFINE w == SubSeq(q, 1, 1)
                 v == <<e>>
      <4>4. w \in Seq(Effect) /\ Len(w) = 1 /\ w[1] = e
        BY <4>2, <4>3
      <4>5. v \in Seq(Effect) /\ Len(v) = 1 /\ v[1] = e
        BY <3>4
      <4> HIDE DEF w, v
      <4>6. \A i \in 1..Len(w) : w[i] = v[i]
        BY <4>4, <4>5
      <4>7. w = v
        BY <4>4, <4>5, <4>6, SeqEqual
      <4> QED BY <4>7 DEF w, v
    <3>9. 1 \in 0..Len(q) /\ \A i \in 1..1 : q[i].kind = "send"
      BY <1>2, <3>2, <3>3
    <3>10. /\ sent \o SubSeq(q, 1, 1) \in Seq(Effect)
           /\ InOrder(sent \o SubSeq(q, 1, 1), emitted)
           /\ Follows(sent \o SubSeq(q, 1, 1), emitted, epoch, SubSeq(q, 1 + 1, Len(q)))
      BY <1>3, <3>1, <3>2, <3>6, <3>9, TakenInOrder
    <3>11. 1 + 1 = 2
      OBVIOUS
    <3> QED BY <3>5, <3>7, <3>8, <3>10, <3>11
  <2>3. writer \in BOOLEAN
    BY DEF LaneInv, TypeInv
  <2> QED BY <2>1, <2>2, <2>3
<1>9. Hold(f, x, Woken(x), s)
  BY <1>2, <1>4, <1>7
<1> QED BY <1>2, <1>3, <1>5, <1>6, <1>8, <1>9, HoldStep

\* A close the flusher waited for is applied, and it goes on.
LEMMA CloseAppliedStep ==
    ASSUME LaneInv, NEW f \in Flusher, CloseApplied(f)
    PROVE  LaneInv'
<1>1. PICK e : e = [fl[f].cur EXCEPT !.kind = "close"]
  OBVIOUS
<1>2. /\ fl[f].at = "applying" /\ ~fl[f].cancel
      /\ Hold(f, Popped(p, e), Woken(Popped(p, e)), sent)
      /\ UNCHANGED <<client, emitted, closedBy>>
  BY <1>1 DEF CloseApplied
<1>3. /\ Working(f) /\ Sound(p) /\ (writer => p.pending # <<>>)
      /\ fl[f].cur \in EffectOf({"send", "close", "closed"}, 1..epoch)
      /\ sent \in Seq(Effect) /\ emitted \in Seq(Effect) /\ drain \in [Drainer -> Drains]
      /\ InOrder(sent, emitted) /\ (writer => Follows(sent, emitted, epoch, p.pending))
  BY <1>1, <1>2, Resumes
<1>4. PICK x : x = Popped(p, e)
  OBVIOUS
<1>5. /\ Sound(x) /\ Same(x, p) /\ p.applied <= x.applied
      /\ p.pending # <<>> /\ p.pending[1] = e => x.pending = SubSeq(p.pending, 2, Len(p.pending))
      /\ ~(p.pending # <<>> /\ p.pending[1] = e) => x = p
  BY <1>3, <1>4, PoppedShape
<1>6. /\ Wakes(drain, Woken(x))
      /\ x.applied # p.applied => \A i \in Drainer : Woken(x)[i].at # "waiting"
  BY <1>3, WokenShape
<1>7. e.kind = "close"
  BY <1>1, <1>3 DEF EffectOf
<1>8. Sends(x.pending) = Sends(p.pending)
  <2>1. CASE p.pending # <<>> /\ p.pending[1] = e
    <3>1. p.pending \in Seq(Effect)
      BY <1>3 DEF Sound, Pump
    <3> QED BY <1>3, <1>5, <1>7, <2>1, <3>1, OtherDropped
  <2>2. CASE ~(p.pending # <<>> /\ p.pending[1] = e)
    BY <1>5, <2>2
  <2> QED BY <2>1, <2>2
<1>9. writer => Follows(sent, emitted, epoch, x.pending)
  BY <1>3, <1>8 DEF Follows
<1>10. Hold(f, x, Woken(x), sent)
  BY <1>2, <1>4
<1> QED BY <1>2, <1>3, <1>5, <1>6, <1>9, <1>10, HoldStep

\* The flusher closes the transport for a close effect.
LEMMA CloseTransportStep ==
    ASSUME LaneInv, NEW f \in Flusher, CloseTransport(f)
    PROVE  LaneInv'
<1>1. /\ epoch' = epoch /\ transport' = transport /\ reader' = reader /\ closer' = closer
      /\ p' = p /\ drain' = drain /\ emitted' = emitted /\ sent' = sent /\ failed' = failed
      /\ closedBy' = closedBy \cup {<<fl[f].cur.epoch, transport>>}
      /\ writer' = (IF transport = None THEN writer ELSE FALSE)
      /\ fl' = [fl EXCEPT ![f].cur.kind = "closed"]
      /\ fl[f].at = "applying" /\ ~fl[f].cancel
  BY DEF CloseTransport, client
<1>2. /\ Working(f) /\ Applying(f)
      /\ fl[f].cur \in EffectOf({"send", "close", "closed"}, 1..epoch)
      /\ transport <= fl[f].cur.epoch
  BY <1>1, Resumes
<1>3. /\ TypeInv /\ fl \in [Flusher -> Task] /\ writer \in BOOLEAN /\ epoch \in 1..MaxEpoch
      /\ transport \in 0..epoch /\ MaxEpoch \in Nat /\ Reader \in Drainer
      /\ drain \in [Drainer -> Drains] /\ p.applied \in Nat /\ p.enqueued \in Nat /\ Sound(p)
  BY EffectAssumptions DEF LaneInv, TypeInv, PendingInv, Sound, Pump
<1>4. writer' \in BOOLEAN /\ (writer' => writer)
  BY <1>1, <1>3
<1>5. PICK c : c = [fl[f].cur EXCEPT !.kind = "closed"]
  OBVIOUS
<1>6. /\ c \in EffectOf({"closed"}, 1..epoch) /\ c.kind = "closed" /\ c.epoch = fl[f].cur.epoch
      /\ c.epoch \in 1..epoch
  BY <1>2, <1>5 DEF EffectOf
<1>7. c \in Applied /\ c \in EffectOf({"send", "close", "closed"}, 1..epoch) /\ c.epoch \in 1..MaxEpoch
  BY <1>3, <1>6 DEF EffectOf, Applied
<1>8. /\ fl' \in [Flusher -> Task] /\ \A g \in Flusher : g # f => fl'[g] = fl[g]
      /\ fl'[f].at = "applying" /\ fl'[f].cur = c /\ fl'[f].cancel = fl[f].cancel
  <2>1. fl' = [fl EXCEPT ![f] = [fl[f] EXCEPT !.cur = c]]
    BY <1>1, <1>3, <1>5
  <2> DEFINE t == [fl[f] EXCEPT !.cur = c]
  <2>2. t \in Task /\ t.at = "applying" /\ t.cur = c /\ t.cancel = fl[f].cancel
    BY <1>1, <1>3, <1>7 DEF Task
  <2> HIDE DEF t
  <2>3. fl' = [fl EXCEPT ![f] = t]
    BY <2>1 DEF t
  <2> QED BY <1>3, <2>2, <2>3
<1>9. \A g \in Flusher : fl'[g].at = fl[g].at /\ fl'[g].cancel = fl[g].cancel
  BY <1>1, <1>8
<1>10. \A g \in Flusher : /\ Working(g)' <=> Working(g)
                          /\ Closing(g)' <=> Closing(g)
                          /\ Applying(g)' <=> Applying(g)
                          /\ Flushes(g)' <=> Flushes(g)
  BY <1>1, <1>9 DEF Working, Closing, Applying, Flushes
<1>11. ASSUME NEW g \in Flusher
       PROVE  TaskOf(g)'
  <2>1. CASE g # f
    <3>1. ~Working(g) /\ ~Closing(g)
      BY <1>2, <2>1, WorksAlone
    <3> QED BY <1>10, <3>1, TaskIdle
  <2>2. CASE g = f
    <3>1. TaskOf(f) /\ ~Closing(f)
      BY <1>2, WorksAlone DEF LaneInv, TaskInv
    <3> QED BY <1>1, <1>2, <1>6, <1>7, <1>8, <1>10, <2>2, <3>1 DEF TaskOf
  <2> QED BY <2>1, <2>2
<1>12. TaskInv'
  <2>1. \A g, h \in Flusher : /\ Closing(g)' /\ Closing(h)' => g = h
                              /\ Working(g)' /\ Working(h)' => g = h
    BY <1>10 DEF LaneInv, TaskInv
  <2>2. ~p'.failing
    BY <1>1, <1>2, WorksAlone
  <2> QED BY <1>11, <2>1, <2>2 DEF TaskInv
<1>13. DrainInv'
  <2>1. Wakes(drain, drain')
    BY <1>1, <1>3, WakesReflexive
  <2>2. p.applied <= p'.applied /\ p.enqueued <= p'.enqueued /\ p'.applied = p.applied /\ Sound(p')
    BY <1>1, <1>3
  <2>3. (\E g \in Flusher : Flushes(g)) => (\E g \in Flusher : Flushes(g)')
    BY <1>10
  <2> QED BY <1>1, <2>1, <2>2, <2>3, KeptDrains
<1>14. ReaderInv'
  <2>1. WokeTo(drain[Reader], drain'[Reader])
    BY <1>1 DEF WokeTo
  <2>2. closer.at = "closed" => p.task = None /\ p.pending = <<>>
    BY DEF LaneInv, ReaderInv
  <2>3. \A g \in Flusher : Applying(g)' => Applying(g) /\ fl'[g].cur.epoch = fl[g].cur.epoch
    BY <1>6, <1>8, <1>10
  <2> QED BY <1>1, <1>4, <2>1, <2>2, <2>3, PassReader DEF client
<1>15. TypeInv'
  <2>1. <<fl[f].cur.epoch, transport>> \in (1..MaxEpoch) \X (0..MaxEpoch)
    BY <1>3, <1>6, <1>7
  <2>2. closedBy' \subseteq (1..MaxEpoch) \X (0..MaxEpoch)
    BY <1>1, <2>1 DEF LaneInv, TypeInv
  <2> QED BY <1>1, <1>3, <1>4, <1>8, <2>2 DEF TypeInv
<1>16. PendingInv' /\ OrderInv'
  BY <1>1, <1>4 DEF LaneInv, PendingInv, OrderInv
<1>17. ClosesOwnTransport'
  <2>1. SUFFICES ASSUME NEW k \in closedBy'
                 PROVE  k[2] <= k[1]
    BY DEF ClosesOwnTransport
  <2>2. CASE k \in closedBy
    BY <2>2 DEF LaneInv, ClosesOwnTransport
  <2>3. CASE k = <<fl[f].cur.epoch, transport>>
    BY <1>2, <2>3
  <2> QED BY <1>1, <2>2, <2>3
<1> QED BY <1>12, <1>13, <1>14, <1>15, <1>16, <1>17 DEF LaneInv

\* The transport of a failed connection is closed, and its flusher ends.
LEMMA FlusherClosedStep ==
    ASSUME LaneInv, NEW f \in Flusher, FlusherClosed(f)
    PROVE  LaneInv'
<1>1. /\ epoch' = epoch /\ transport' = transport /\ reader' = reader /\ closer' = closer
      /\ writer' = writer /\ emitted' = emitted /\ sent' = sent /\ failed' = failed
      /\ closedBy' = closedBy /\ Closing(f) /\ At(f, "done", None)
      /\ p' = EndFailing(p) /\ drain' = Woken(p')
  BY DEF FlusherClosed, client, link, hist, Closing
<1>2. /\ TypeInv /\ fl \in [Flusher -> Task] /\ drain \in [Drainer -> Drains] /\ Sound(p)
      /\ p.applied \in Nat /\ p.enqueued \in Nat /\ p.pendingEpoch <= epoch /\ writer \in BOOLEAN
      /\ sent \in Seq(Effect) /\ Reader \in Drainer
  BY EffectAssumptions DEF LaneInv, TypeInv, PendingInv, Sound, Pump
<1>3. p.failing /\ \A g \in Flusher : ~Working(g) /\ (Closing(g) => g = f)
  BY <1>1 DEF LaneInv, TaskInv, TaskOf
<1>4. /\ fl' \in [Flusher -> Task] /\ \A g \in Flusher : g # f => fl'[g] = fl[g]
      /\ fl'[f].at = "done"
  BY <1>1, <1>2, AtShape
<1>5. /\ Sound(p') /\ p'.pending = <<>> /\ p'.applied = p.enqueued /\ p'.enqueued = p.enqueued
      /\ p'.pendingEpoch = p.pendingEpoch /\ p'.task = p.task /\ p'.failing = FALSE
      /\ p.applied <= p'.applied
  <2> DEFINE y == Discarded(p)
  <2>1. /\ Sound(y) /\ Same(y, p) /\ y.pending = <<>> /\ y.applied = p.enqueued /\ p.applied <= p.enqueued
    BY <1>2, DiscardedShape
  <2>2. p' = [y EXCEPT !.failing = FALSE]
    BY <1>1 DEF EndFailing
  <2> HIDE DEF y
  <2>3. y \in Pump
    BY <2>1 DEF Sound
  <2>4. /\ p' \in Pump /\ p'.pending = y.pending /\ p'.applied = y.applied
        /\ p'.enqueued = y.enqueued /\ p'.pendingEpoch = y.pendingEpoch /\ p'.task = y.task
        /\ p'.failing = FALSE
    BY <2>2, <2>3 DEF Pump
  <2>5. Sound(p')
    BY <2>1, <2>4 DEF Sound
  <2> QED BY <2>1, <2>4, <2>5 DEF Same
<1>6. /\ Wakes(drain, drain')
      /\ p'.applied # p.applied => \A i \in Drainer : drain'[i].at # "waiting"
  BY <1>1, <1>2, WokenShape
<1>7. ASSUME NEW g \in Flusher
      PROVE  TaskOf(g)' /\ ~Closing(g)' /\ ~Applying(g)' /\ ~Working(g)'
  <2>1. ~Working(g)' /\ ~Closing(g)'
    BY <1>3, <1>4 DEF Working, Closing
  <2> QED BY <2>1, TaskIdle
<1>8. TaskInv'
  BY <1>5, <1>7 DEF TaskInv
<1>9. DrainInv'
  <2>1. p.enqueued <= p'.enqueued
    BY <1>2, <1>5
  <2> QED BY <1>1, <1>5, <1>6, <2>1, KeptDrains
<1>10. ReaderInv'
  <2>1. WokeTo(drain[Reader], drain'[Reader])
    BY <1>2, <1>6 DEF Wakes
  <2>2. ReaderInv /\ (closer.at = "closed" => p.task = None)
    BY DEF LaneInv, ReaderInv
  <2> QED BY <1>1, <1>5, <1>7, <2>1, <2>2, ReaderKept
<1>11. TypeInv'
  <2>1. p' \in Pump /\ drain' \in [Drainer -> Drains]
    BY <1>5, <1>6 DEF Sound, Wakes
  <2> QED BY <1>1, <1>2, <1>4, <1>5, <2>1, TypeKept
<1>12. ~writer
  BY <1>3 DEF LaneInv, TaskInv
<1>13. PendingInv' /\ OrderInv' /\ ClosesOwnTransport'
  BY <1>1, <1>2, <1>5, <1>12 DEF LaneInv, PendingInv, OrderInv, ClosesOwnTransport
<1> QED BY <1>8, <1>9, <1>10, <1>11, <1>13 DEF LaneInv

\* A cancelled flusher ends.
LEMMA FlusherCancelledStep ==
    ASSUME LaneInv, NEW f \in Flusher, FlusherCancelled(f)
    PROVE  LaneInv'
<1>1. /\ epoch' = epoch /\ transport' = transport /\ reader' = reader /\ closer' = closer
      /\ writer' = writer /\ emitted' = emitted /\ sent' = sent /\ failed' = failed
      /\ closedBy' = closedBy /\ p' = p /\ drain' = drain
      /\ Working(f) /\ fl[f].cancel /\ At(f, "done", None)
  BY DEF FlusherCancelled, client, link, hist, Working
<1>2. /\ TypeInv /\ fl \in [Flusher -> Task] /\ drain \in [Drainer -> Drains] /\ Sound(p)
      /\ p.applied \in Nat /\ p.enqueued \in Nat /\ writer \in BOOLEAN
      /\ sent \in Seq(Effect) /\ Reader \in Drainer /\ p \in Pump
  BY EffectAssumptions DEF LaneInv, TypeInv, PendingInv, Sound, Pump
<1>3. /\ p.task = f /\ ~p.failing
      /\ \A g \in Flusher : ~Closing(g) /\ (g # f => ~Working(g))
  <2>1. closer = Closer("joining", f)
    BY <1>1 DEF LaneInv, TaskInv, TaskOf
  <2>2. closer.at # "closed"
    BY <2>1 DEF Closer
  <2> QED BY <1>1, <2>2, WorksAlone
<1>4. /\ fl' \in [Flusher -> Task] /\ \A g \in Flusher : g # f => fl'[g] = fl[g]
      /\ fl'[f].at = "done"
  BY <1>1, <1>2, AtShape
<1>5. ASSUME NEW g \in Flusher
      PROVE  TaskOf(g)' /\ ~Closing(g)' /\ ~Applying(g)' /\ ~Working(g)'
  <2>1. ~Working(g)' /\ ~Closing(g)'
    BY <1>3, <1>4 DEF Working, Closing
  <2> QED BY <2>1, TaskIdle
<1>6. TaskInv'
  BY <1>1, <1>3, <1>5 DEF TaskInv
<1>7. DrainInv'
  <2>1. ASSUME NEW g \in Flusher, Flushes(g)
        PROVE  Flushes(g)'
    <3>1. g = f => p.flush
      BY <1>1, <1>3, <2>1 DEF Flushes
    <3>2. CASE g = f
      BY <1>1, <1>3, <1>4, <3>1, <3>2 DEF Flushes
    <3>3. CASE g # f
      BY <1>1, <1>3, <1>4, <2>1, <3>3 DEF Flushes, Working, Closing
    <3> QED BY <3>2, <3>3
  <2>2. Wakes(drain, drain')
    BY <1>1, <1>2, WakesReflexive
  <2>3. p.applied <= p'.applied /\ p.enqueued <= p'.enqueued /\ p'.applied = p.applied /\ Sound(p')
    BY <1>1, <1>2
  <2> QED BY <1>1, <2>1, <2>2, <2>3, KeptDrains
<1>8. ReaderInv'
  <2>1. WokeTo(drain[Reader], drain'[Reader])
    BY <1>1 DEF WokeTo
  <2>2. closer.at = "closed" => p.task = None /\ p.pending = <<>>
    BY DEF LaneInv, ReaderInv
  <2> QED BY <1>1, <1>5, <2>1, <2>2, PassReader DEF client
<1>9. TypeInv'
  BY <1>1, <1>2, <1>4, TypeKept
<1>10. PendingInv' /\ OrderInv' /\ ClosesOwnTransport'
  BY <1>1 DEF LaneInv, PendingInv, OrderInv, ClosesOwnTransport
<1> QED BY <1>6, <1>7, <1>8, <1>9, <1>10 DEF LaneInv

\* The done callback
LEMMA DoneStep ==
    ASSUME LaneInv, NEW f \in Flusher, Done(f)
    PROVE  LaneInv'
<1>1. /\ epoch' = epoch /\ transport' = transport /\ reader' = reader
      /\ writer' = writer /\ emitted' = emitted /\ sent' = sent /\ failed' = failed
      /\ closedBy' = closedBy /\ drain' = drain /\ fl[f].at = "done"
      /\ closer' = IF closer.at = "joining" /\ closer.task = f THEN Closer("joined", None) ELSE closer
  BY DEF Done, link, hist
<1>2. /\ TypeInv /\ fl \in [Flusher -> Task] /\ drain \in [Drainer -> Drains] /\ Sound(p)
      /\ p.applied \in Nat /\ p.enqueued \in Nat /\ p.pendingEpoch <= epoch /\ epoch \in Nat
      /\ p \in Pump /\ Reader \in Drainer /\ f # None /\ p.failing \in BOOLEAN
      /\ closer \in [at: {"no", "joining", "joined", "closed"}, task: Flusher \cup {None}]
  BY EffectAssumptions DEF LaneInv, TypeInv, PendingInv, Sound, Pump
<1>3. PICK x : x = IF p.task = f THEN [p EXCEPT !.task = None] ELSE p
  OBVIOUS
<1>4. /\ x \in Pump /\ x.pending = p.pending /\ x.applied = p.applied /\ x.enqueued = p.enqueued
      /\ x.pendingEpoch = p.pendingEpoch /\ x.failing = p.failing /\ x.flush = p.flush
      /\ x.task = IF p.task = f THEN None ELSE p.task
  BY <1>2, <1>3 DEF Pump
<1>5. Free \in Task /\ Free.at = "free"
  BY DEF Free, Task
<1>6. \A g \in Flusher : g = f => ~Working(g) /\ ~Closing(g)
  BY <1>1 DEF Working, Closing
<1>7. /\ closer' \in [at: {"no", "joining", "joined", "closed"}, task: Flusher \cup {None}]
      /\ closer'.at # "no" => closer.at # "no"
      /\ closer'.at = "closed" => closer.at = "closed"
  <2>1. CASE closer.at = "joining" /\ closer.task = f
    BY <1>1, <2>1 DEF Closer
  <2>2. CASE ~(closer.at = "joining" /\ closer.task = f)
    BY <1>1, <1>2, <2>2
  <2> QED BY <2>1, <2>2
<1>8. ASSUME NEW g \in Flusher, Working(g), fl[g].cancel
      PROVE  closer' = closer
  <2>1. closer = Closer("joining", g) /\ g # f
    BY <1>6, <1>8 DEF LaneInv, TaskInv, TaskOf
  <2>2. closer.task = g
    BY <2>1 DEF Closer
  <2> QED BY <1>1, <2>1, <2>2
<1>9. /\ p' \in Pump /\ p'.pending = p.pending /\ p'.applied = p.applied /\ p'.enqueued = p.enqueued
      /\ p'.pendingEpoch = p.pendingEpoch /\ p'.failing = p.failing
      /\ fl' \in [Flusher -> Task] /\ TaskInv'
      /\ \A g \in Flusher : Applying(g)' => Applying(g) /\ fl'[g].cur.epoch = fl[g].cur.epoch
      /\ p.pending # <<>> /\ (\E g \in Flusher : Flushes(g)) => \E g \in Flusher : Flushes(g)'
      /\ closer.at = "closed" => p'.task = None
  <2>1. CASE Reschedules(f)
    <3>1. p.task = f /\ p.flush /\ p.pending # <<>>
      BY <2>1 DEF Reschedules
    <3>2. PICK g : g = Min(Unused)
      OBVIOUS
    <3> DEFINE new == [Free EXCEPT !.at = "ready"]
    <3>3. /\ Unused # {} /\ p' = [x EXCEPT !.task = g]
          /\ fl' = [fl EXCEPT ![f] = Free, ![g] = new]
      BY <1>3, <2>1, <3>2 DEF Done
    <3>4. g \in Flusher /\ fl[g].at = "free" /\ g # f
      BY <1>1, <3>2, <3>3, UnusedShape
    <3>5. new \in Task /\ new.at = "ready" /\ ~new.cancel
      <4>1. ~Free.cancel
        BY DEF Free
      <4> QED BY <1>5, <4>1 DEF Task
    <3> HIDE DEF new
    <3>6. /\ fl' \in [Flusher -> Task] /\ fl'[g] = new /\ fl'[f] = Free
          /\ \A h \in Flusher : h # f /\ h # g => fl'[h] = fl[h]
      BY <1>2, <1>5, <3>3, <3>4, <3>5
    <3>7. /\ p' \in Pump /\ p'.pending = p.pending /\ p'.applied = p.applied
          /\ p'.enqueued = p.enqueued /\ p'.pendingEpoch = p.pendingEpoch
          /\ p'.failing = p.failing /\ p'.task = g
      BY <1>4, <3>3, <3>4 DEF Pump
    <3>8. ~p.failing /\ \A h \in Flusher : ~Closing(h) /\ ~Working(h)
      <4>1. ~p.failing /\ \A h \in Flusher : ~Closing(h)
        BY <3>1, PendingNobodyCloses
      <4>2. \A h \in Flusher : Working(h) => p.task = h
        BY <3>1 DEF LaneInv, TaskInv, TaskOf, ReaderInv
      <4> QED BY <1>6, <3>1, <4>1, <4>2
    <3>9. ASSUME NEW h \in Flusher
          PROVE  TaskOf(h)' /\ ~Closing(h)' /\ ~Applying(h)' /\ (Working(h)' => h = g)
      <4>1. CASE h = g
        BY <1>7, <3>1, <3>5, <3>6, <3>7, <3>8, <4>1 DEF TaskOf, Working, Closing, Applying, LaneInv, ReaderInv
      <4>2. CASE h # g
        <5>1. ~Working(h)' /\ ~Closing(h)'
          BY <1>5, <3>6, <3>8, <4>2 DEF Working, Closing
        <5> QED BY <4>2, <5>1, TaskIdle
      <4> QED BY <4>1, <4>2
    <3>10. TaskInv'
      BY <3>7, <3>8, <3>9 DEF TaskInv
    <3>11. Flushes(g)'
      BY <3>5, <3>6 DEF Flushes, Working
    <3>12. closer.at # "closed"
      BY <3>1 DEF LaneInv, ReaderInv
    <3> QED BY <3>4, <3>6, <3>7, <3>9, <3>10, <3>11, <3>12
  <2>2. CASE ~Reschedules(f)
    <3>1. p' = x /\ fl' = [fl EXCEPT ![f] = Free]
      BY <1>3, <2>2 DEF Done
    <3>2. /\ fl' \in [Flusher -> Task] /\ fl'[f] = Free
          /\ \A h \in Flusher : h # f => fl'[h] = fl[h]
      BY <1>2, <1>5, <3>1
    <3>3. ASSUME NEW h \in Flusher
          PROVE  /\ TaskOf(h)' /\ (Closing(h)' <=> Closing(h)) /\ (Working(h)' => Working(h))
                 /\ Applying(h)' => Applying(h) /\ fl'[h].cur.epoch = fl[h].cur.epoch
      <4>1. CASE h = f
        <5>1. ~Working(h)' /\ ~Closing(h)' /\ ~Closing(h)
          BY <1>5, <1>6, <3>2, <4>1 DEF Working, Closing
        <5> QED BY <5>1, TaskIdle
      <4>2. CASE h # f
        <5>1. TaskOf(h) /\ fl'[h] = fl[h]
          BY <3>2, <4>2 DEF LaneInv, TaskInv
        <5>2. Working(h) => p'.task = p.task /\ ~p'.failing
          <6>1. ASSUME Working(h)
                PROVE  p.task # f
            BY <1>2, <4>2, <5>1, <6>1 DEF TaskOf, LaneInv, ReaderInv
          <6> QED BY <1>4, <3>1, <5>1, <6>1 DEF TaskOf
        <5>3. Closing(h) => p'.failing
          BY <1>4, <3>1, <5>1 DEF TaskOf
        <5>4. Applying(h) => \/ closer'.at = "closed" /\ ~writer'
                             \/ p'.pending # <<>> /\ (writer' => p'.pending[1] = p.pending[1])
          BY <1>1, <1>4, <1>7, <3>1, <5>1 DEF TaskOf, LaneInv, ReaderInv
        <5>7. \/ closer.at # "closed" /\ closer'.at # "closed"
              \/ closer' = closer /\ epoch' = epoch
          BY <1>1, <1>7
        <5>5. epoch <= epoch' /\ epoch' \in Nat
          BY <1>1, <1>2
        <5>6. TaskOf(h)'
          BY <1>1, <1>2, <1>8, <5>1, <5>2, <5>3, <5>4, <5>5, <5>7, TaskKept
        <5> QED BY <5>1, <5>6 DEF Closing, Applying, Working
      <4> QED BY <4>1, <4>2
    <3>4. TaskInv'
      <4>1. p'.failing => (\E h \in Flusher : Closing(h)') /\ p'.pending = <<>> /\ ~writer'
        BY <1>1, <1>4, <3>1, <3>3 DEF LaneInv, TaskInv
      <4>2. \A g, h \in Flusher : /\ Closing(g)' /\ Closing(h)' => g = h
                                  /\ Working(g)' /\ Working(h)' => g = h
        BY <3>3 DEF LaneInv, TaskInv
      <4> QED BY <3>3, <4>1, <4>2 DEF TaskInv
    <3>5. ASSUME p.pending # <<>>, NEW g \in Flusher, Flushes(g)
          PROVE  Flushes(g)'
      <4>1. g # f
        BY <1>1, <2>2, <3>5 DEF Flushes, Reschedules, Working, Closing
      <4>2. fl'[g] = fl[g] /\ (p.task = g => p'.task = g) /\ p'.flush = p.flush
        BY <1>4, <3>1, <3>2, <4>1
      <4> QED BY <3>5, <4>2 DEF Flushes, Working, Closing
    <3>6. closer.at = "closed" => p'.task = None
      BY <1>4, <3>1 DEF LaneInv, ReaderInv
    <3> QED BY <1>4, <3>1, <3>2, <3>3, <3>4, <3>5, <3>6
  <2> QED BY <2>1, <2>2
<1>10. Sound(p')
  BY <1>2, <1>9 DEF Sound
<1>11. DrainInv'
  <2>1. Wakes(drain, drain')
    BY <1>1, <1>2, WakesReflexive
  <2>2. p.applied <= p'.applied /\ p.enqueued <= p'.enqueued /\ p'.applied = p.applied
    BY <1>2, <1>9
  <2> QED BY <1>1, <1>9, <1>10, <2>1, <2>2, KeptDrains
<1>12. ReaderInv'
  <2>1. ReaderInv
    BY DEF LaneInv
  <2>2. (Drained' <=> Drained) /\ (Online' <=> Online)
    BY <1>1 DEF Drained, Online
  <2>3. /\ ~reader' => drain'[Reader].at = "idle" /\ transport' = None /\ ~writer'
        /\ drain'[Reader].at # "idle" => ~writer'
        /\ drain'[Reader].at \in {"waiting", "woken", "ok"} => drain'[Reader].target = p'.enqueued
        /\ drain'[Reader].at \in {"idle", "retiring"} => ~drain'[Reader].error
    BY <1>1, <1>9, <2>1 DEF ReaderInv
  <2>4. /\ closer'.at # "no" => ~writer'
        /\ closer'.at = "closed" => ~reader' /\ p'.task = None /\ p'.pending = <<>>
    BY <1>1, <1>7, <1>9, <2>1 DEF ReaderInv
  <2>5. Drained' => \A g \in Flusher : Applying(g)' => fl'[g].cur.epoch = epoch'
    BY <1>1, <1>9, <2>1, <2>2 DEF ReaderInv
  <2>6. /\ Online' /\ p'.pending # <<>> => p'.pendingEpoch = epoch'
    BY <1>1, <1>9, <2>1, <2>2 DEF ReaderInv
  <2> QED BY <2>3, <2>4, <2>5, <2>6 DEF ReaderInv
<1>13. TypeInv'
  BY <1>1, <1>2, <1>7, <1>9 DEF TypeInv
<1>14. PendingInv' /\ OrderInv' /\ ClosesOwnTransport'
  BY <1>1, <1>2, <1>9, <1>10 DEF LaneInv, PendingInv, OrderInv, ClosesOwnTransport
<1> QED BY <1>9, <1>11, <1>12, <1>13, <1>14 DEF LaneInv
-----------------------------------------------------------------------------
(***************************************************************************)
(* The steps of the connection                                             *)
(***************************************************************************)

\* The writer task exits: the sends of this connection stop here.
LEMMA WriterExitsStep ==
    ASSUME LaneInv, WriterExits
    PROVE  LaneInv'
<1>1. /\ p' = p /\ fl' = fl /\ drain' = drain /\ epoch' = epoch /\ writer' = FALSE
      /\ transport' = transport /\ reader' = reader /\ closer' = closer /\ emitted' = emitted
      /\ sent' = sent /\ failed' = failed /\ closedBy' = closedBy
  BY DEF WriterExits, client, hist
<1>2. TypeInv' /\ PendingInv' /\ OrderInv' /\ ClosesOwnTransport'
  BY <1>1 DEF LaneInv, TypeInv, PendingInv, OrderInv, ClosesOwnTransport
<1>3. TaskInv'
  BY <1>1 DEF LaneInv, TaskInv, TaskOf, Working, Closing, Applying
<1>4. DrainInv'
  BY <1>1 DEF LaneInv, DrainInv, DrainOf, Flushes, Working, Closing
<1>5. ReaderInv'
  BY <1>1 DEF LaneInv, ReaderInv, Applying, Drained, Online
<1> QED BY <1>2, <1>3, <1>4, <1>5 DEF LaneInv

\* The reader ends.
LEMMA ReaderEndsStep ==
    ASSUME LaneInv, ReaderEnds
    PROVE  LaneInv'
<1>1. /\ reader /\ drain[Reader].at \in {"ok", "raised"} /\ reader' = FALSE /\ transport' = None
      /\ drain' = [drain EXCEPT ![Reader] = NotDraining]
      /\ p' = p /\ fl' = fl /\ epoch' = epoch /\ closer' = closer /\ writer' = FALSE
      /\ emitted' = emitted /\ sent' = sent /\ failed' = failed /\ closedBy' = closedBy
  BY DEF ReaderEnds, hist
<1>2. NotDraining \in Drains /\ NotDraining.at = "idle" /\ NotDraining.error = FALSE
  BY DEF NotDraining, Drains
<1>3. drain \in [Drainer -> Drains] /\ Reader \in Drainer /\ epoch \in 1..MaxEpoch /\ MaxEpoch \in Nat
  BY EffectAssumptions DEF LaneInv, TypeInv
<1>4. /\ drain' \in [Drainer -> Drains] /\ \A j \in Drainer : j # Reader => drain'[j] = drain[j]
      /\ drain'[Reader].at = "idle" /\ drain'[Reader].error = FALSE
  BY <1>1, <1>2, <1>3
<1>5. Drained /\ ReaderInv /\ closer.at # "closed" /\ closer'.at # "closed"
  BY <1>1 DEF LaneInv, ReaderInv, Drained
<1>6. TypeInv'
  <2>1. None \in 0..epoch
    BY <1>3 DEF None
  <2> QED BY <1>1, <1>4, <2>1 DEF LaneInv, TypeInv
<1>7. ASSUME NEW f \in Flusher
      PROVE  TaskOf(f)'
  <2>1. TaskOf(f)
    BY DEF LaneInv, TaskInv
  <2>2. ASSUME fl'[f].at = "applying"
        PROVE  /\ fl'[f].cur \in EffectOf({"send", "close", "closed"}, 1..epoch')
               /\ transport' <= fl'[f].cur.epoch
    <3>1. fl[f].cur \in EffectOf({"send", "close", "closed"}, 1..epoch)
      BY <1>1, <2>1, <2>2 DEF TaskOf
    <3>2. fl[f].cur.epoch \in 1..epoch
      BY <3>1 DEF EffectOf
    <3> QED BY <1>1, <1>3, <3>1, <3>2 DEF None
  <2>3. /\ Working(f)' => p'.task = f /\ ~p'.failing
        /\ Closing(f)' => p'.failing
        /\ Working(f)' /\ fl'[f].cancel => closer' = Closer("joining", f)
        /\ Applying(f)' => p'.pending # <<>>
    BY <1>1, <1>5, <2>1 DEF TaskOf, Working, Closing, Applying
  <2>4. ~writer'
    BY <1>1
  <2> QED BY <1>5, <2>2, <2>3, <2>4 DEF TaskOf
<1>8. TaskInv'
  <2>1. /\ \A f, g \in Flusher : /\ Closing(f)' /\ Closing(g)' => f = g
                                 /\ Working(f)' /\ Working(g)' => f = g
        /\ p'.failing => (\E f \in Flusher : Closing(f)') /\ p'.pending = <<>> /\ ~writer'
    BY <1>1 DEF LaneInv, TaskInv, Closing, Working
  <2> QED BY <1>7, <2>1 DEF TaskInv
<1>9. DrainInv'
  <2>1. ASSUME NEW j \in Drainer
        PROVE  DrainOf(j)'
    <3>1. CASE j = Reader
      BY <1>4, <3>1 DEF DrainOf
    <3>2. CASE j # Reader
      BY <1>1, <1>4, <3>2 DEF LaneInv, DrainInv, DrainOf
    <3> QED BY <3>1, <3>2
  <2>2. (\E j \in Drainer : drain'[j].at = "waiting") => \E j \in Drainer : drain[j].at = "waiting"
    BY <1>4
  <2>3. \A f \in Flusher : Flushes(f) => Flushes(f)'
    BY <1>1 DEF Flushes, Working, Closing
  <2> QED BY <2>1, <2>2, <2>3 DEF LaneInv, DrainInv
<1>10. ReaderInv'
  <2>1. \A f \in Flusher : Applying(f)' => fl'[f].cur.epoch = epoch'
    BY <1>1, <1>5 DEF ReaderInv, Applying
  <2> QED BY <1>1, <1>4, <1>5, <2>1 DEF ReaderInv, Online
<1>11. PendingInv' /\ OrderInv' /\ ClosesOwnTransport'
  BY <1>1 DEF LaneInv, PendingInv, OrderInv, ClosesOwnTransport
<1> QED BY <1>6, <1>8, <1>9, <1>10, <1>11 DEF LaneInv

\* Effects emitted so far belong to the epochs so far.
LEMMA EpochGrows ==
    ASSUME LaneInv, epoch < MaxEpoch, epoch' = epoch + 1
    PROVE  /\ epoch \in Nat /\ epoch' \in Nat /\ epoch <= epoch' /\ epoch' \in 1..MaxEpoch
           /\ emitted \in Seq(EffectOf(Kind, 1..epoch'))
           /\ p.pendingEpoch <= epoch' /\ transport \in 0..epoch'
           /\ OfEpoch(emitted, epoch + 1) = <<>> /\ OfEpoch(sent, epoch + 1) = <<>>
<1>1. epoch \in 1..MaxEpoch /\ MaxEpoch \in Nat /\ p.pendingEpoch \in 1..MaxEpoch
      /\ p.pendingEpoch <= epoch /\ transport \in 0..epoch
  BY EffectAssumptions DEF LaneInv, TypeInv, Pump, PendingInv
<1>2. epoch \in Nat /\ epoch' \in Nat /\ epoch <= epoch' /\ epoch' \in 1..MaxEpoch
  BY <1>1
<1>3. emitted \in Seq(EffectOf(Kind, 1..epoch)) /\ InOrder(sent, emitted) /\ sent \in Seq(Effect)
  BY DEF LaneInv, OrderInv, TypeInv
<1>4. EffectOf(Kind, 1..epoch) \subseteq EffectOf(Kind, 1..epoch')
  BY <1>2 DEF EffectOf
<1>5. emitted \in Seq(EffectOf(Kind, 1..epoch'))
  BY <1>3, <1>4, SeqMonotonic
<1>6. p.pendingEpoch <= epoch' /\ transport \in 0..epoch'
  BY <1>1, <1>2
<1>7. OfEpoch(emitted, epoch + 1) = <<>>
  <2>1. EffectOf(Kind, 1..epoch) \cap EffectOf(Kind, {epoch + 1}) = {}
    BY <1>1 DEF EffectOf
  <2> QED BY <1>3, <2>1, OnlyNone DEF OfEpoch
<1>8. OfEpoch(sent, epoch + 1) = <<>>
  <2>1. epoch + 1 \in 1..MaxEpoch
    BY <1>1
  <2>2. IsPrefix(OfEpoch(sent, epoch + 1), Sends(OfEpoch(emitted, epoch + 1)))
    BY <1>3, <2>1 DEF InOrder
  <2>3. Sends(OfEpoch(emitted, epoch + 1)) = <<>>
    BY <1>7, OnlyEmpty DEF Sends
  <2>4. OfEpoch(sent, epoch + 1) \in Seq(Effect)
    BY <1>3, <2>1, FiltersTyped
  <2>5. Len(OfEpoch(sent, epoch + 1)) <= Len(<<>>)
    BY <2>2, <2>3 DEF IsPrefix
  <2> HIDE DEF OfEpoch
  <2>6. Len(OfEpoch(sent, epoch + 1)) = 0
    BY <2>4, <2>5, EmptySeq, LenProperties
  <2> QED BY <2>4, <2>6, EmptySeq
<1> QED BY <1>2, <1>5, <1>6, <1>7, <1>8

\* _force_close_transport up to its join: this is where a flusher is cancelled
\* while others may still wait for it.
LEMMA ForceCloseStep ==
    ASSUME LaneInv, ForceClose
    PROVE  LaneInv'
<1>1. /\ closer.at = "no" /\ epoch < MaxEpoch /\ epoch' = epoch + 1 /\ writer' = FALSE
      /\ p' = Discarded(p) /\ drain' = ReaderCancelled(Woken(p'))
      /\ IF p.task # None
         THEN closer' = Closer("joining", p.task) /\ fl' = [fl EXCEPT ![p.task].cancel = TRUE]
         ELSE closer' = Closer("joined", None) /\ UNCHANGED fl
      /\ transport' = transport /\ reader' = reader
      /\ emitted' = emitted /\ sent' = sent /\ failed' = failed /\ closedBy' = closedBy
  BY DEF ForceClose, NextEpoch, hist
<1>2. /\ epoch \in Nat /\ epoch' \in Nat /\ epoch <= epoch' /\ epoch' \in 1..MaxEpoch
      /\ emitted \in Seq(EffectOf(Kind, 1..epoch'))
      /\ p.pendingEpoch <= epoch' /\ transport \in 0..epoch'
  BY <1>1, EpochGrows
<1>3. /\ TypeInv /\ fl \in [Flusher -> Task] /\ drain \in [Drainer -> Drains] /\ Sound(p)
      /\ p.applied \in Nat /\ p.enqueued \in Nat /\ p.task \in Flusher \cup {None}
      /\ Reader \in Drainer
  BY EffectAssumptions DEF LaneInv, TypeInv, PendingInv, Sound, Pump
<1>4. /\ Sound(p') /\ Same(p', p) /\ p'.pending = <<>> /\ p'.applied = p.enqueued
      /\ p.applied <= p'.applied
  BY <1>1, <1>3, DiscardedShape
<1>5. PICK ds : ds = Woken(p')
  OBVIOUS
<1>6. /\ Wakes(drain, ds) /\ ds \in [Drainer -> Drains]
      /\ p'.applied # p.applied => \A i \in Drainer : ds[i].at # "waiting"
  BY <1>3, <1>5, WokenShape DEF Wakes
<1>7. /\ drain' \in [Drainer -> Drains] /\ \A i \in Drainer : i # Reader => drain'[i] = ds[i]
      /\ \/ drain'[Reader] = ds[Reader] /\ ~Waiting(ds[Reader])
         \/ /\ Waiting(ds[Reader]) /\ drain'[Reader].at = "raised"
            /\ drain'[Reader].error = ds[Reader].error /\ drain'[Reader].target = ds[Reader].target
  <2>1. CASE Waiting(ds[Reader])
    <3>1. drain' = [ds EXCEPT ![Reader].at = "raised"]
      BY <1>1, <1>5, <2>1 DEF ReaderCancelled
    <3> QED BY <1>3, <1>6, <2>1, <3>1 DEF Drains
  <2>2. CASE ~Waiting(ds[Reader])
    <3>1. drain' = ds
      BY <1>1, <1>5, <2>2 DEF ReaderCancelled
    <3> QED BY <1>3, <1>6, <2>2, <3>1
  <2> QED BY <2>1, <2>2
<1>8. /\ fl' \in [Flusher -> Task] /\ \A f \in Flusher : f # p.task => fl'[f] = fl[f]
      /\ \A f \in Flusher : fl'[f].at = fl[f].at /\ fl'[f].cur = fl[f].cur
      /\ \A f \in Flusher : f = p.task => fl'[f].cancel = TRUE /\ closer' = Closer("joining", f)
      /\ closer' \in [at: {"no", "joining", "joined", "closed"}, task: Flusher \cup {None}]
      /\ closer'.at # "closed"
  <2>1. CASE p.task # None
    <3>1. p.task \in Flusher /\ closer' = Closer("joining", p.task)
      BY <1>1, <1>3, <2>1
    <3>2. fl' = [fl EXCEPT ![p.task].cancel = TRUE]
      BY <1>1, <2>1
    <3>3. /\ fl' \in [Flusher -> Task] /\ \A f \in Flusher : f # p.task => fl'[f] = fl[f]
          /\ \A f \in Flusher : fl'[f].at = fl[f].at /\ fl'[f].cur = fl[f].cur
          /\ fl'[p.task].cancel = TRUE
      <4>1. PICK h \in Flusher : h = p.task
        BY <3>1
      <4> DEFINE t == [fl[h] EXCEPT !.cancel = TRUE]
      <4>2. t \in Task /\ t.at = fl[h].at /\ t.cur = fl[h].cur /\ t.cancel = TRUE
        BY <1>3 DEF Task
      <4>3. fl' = [fl EXCEPT ![h] = t]
        BY <1>3, <3>2, <4>1
      <4> HIDE DEF t
      <4> QED BY <1>3, <4>1, <4>2, <4>3
    <3> QED BY <3>1, <3>3 DEF Closer
  <2>2. CASE p.task = None
    <3>1. fl' = fl /\ closer' = Closer("joined", None) /\ p.task \notin Flusher
      BY <1>1, <2>2, EffectAssumptions
    <3> QED BY <1>3, <3>1 DEF Closer
  <2> QED BY <2>1, <2>2
<1>9. ASSUME NEW f \in Flusher
      PROVE  /\ TaskOf(f)' /\ ~Applying(f)' /\ (Closing(f)' <=> Closing(f))
             /\ Working(f)' => f = p.task
  <2>1. TaskOf(f)
    BY DEF LaneInv, TaskInv
  <2>2. Working(f)' => Working(f) /\ f = p.task
    BY <1>1, <1>8, <2>1 DEF TaskOf, Working
  <2>3. ~Applying(f)'
    BY <1>8, <2>2 DEF Applying, Working
  <2>4. /\ Working(f)' => p'.task = f /\ ~p'.failing
        /\ Closing(f)' => p'.failing
        /\ Working(f)' /\ fl'[f].cancel => closer' = Closer("joining", f)
    BY <1>4, <1>8, <2>1, <2>2 DEF TaskOf, Closing, Same
  <2>5. ASSUME fl'[f].at = "applying"
        PROVE  /\ fl'[f].cur \in EffectOf({"send", "close", "closed"}, 1..epoch')
               /\ transport' <= fl'[f].cur.epoch
    <3>1. /\ fl[f].cur \in EffectOf({"send", "close", "closed"}, 1..epoch)
          /\ transport <= fl[f].cur.epoch
      BY <1>8, <2>1, <2>5 DEF TaskOf
    <3>2. 1..epoch \subseteq 1..epoch'
      BY <1>2
    <3> QED BY <1>1, <1>8, <3>1, <3>2 DEF EffectOf
  <2>6. Closing(f)' <=> Closing(f)
    BY <1>8 DEF Closing
  <2> QED BY <1>1, <1>8, <2>2, <2>3, <2>4, <2>5, <2>6 DEF TaskOf
<1>10. TaskInv'
  <2>1. p'.failing => (\E f \in Flusher : Closing(f)') /\ p'.pending = <<>> /\ ~writer'
    BY <1>1, <1>4, <1>9 DEF LaneInv, TaskInv, Same
  <2>2. \A f, g \in Flusher : Closing(f)' /\ Closing(g)' => f = g
    BY <1>9 DEF LaneInv, TaskInv
  <2> QED BY <1>9, <2>1, <2>2 DEF TaskInv
<1>11. p'.enqueued = p.enqueued /\ p'.applied \in Nat /\ p'.enqueued \in Nat /\ p' \in Pump
       /\ p'.pendingEpoch = p.pendingEpoch /\ p.enqueued <= p'.enqueued
  BY <1>3, <1>4 DEF Same, Sound
<1>12. ASSUME NEW i \in Drainer
       PROVE  DrainOf(i)'
  <2>1. WokeTo(drain[i], ds[i]) /\ DrainOf(i) /\ drain[i] \in Drains
    BY <1>3, <1>6 DEF Wakes, LaneInv, DrainInv
  <2>2. CASE drain'[i] = ds[i]
    <3>1. WokeTo(drain[i], drain'[i]) /\ (p'.applied = p.applied \/ drain'[i].at # "waiting")
      BY <1>6, <2>1, <2>2
    <3> QED BY <1>1, <1>3, <1>4, <1>11, <2>1, <3>1, KeptDrain
  <2>3. CASE drain'[i] # ds[i]
    <3>1. /\ i = Reader /\ drain'[i].at = "raised" /\ Waiting(ds[i])
          /\ drain'[i].target = drain[i].target
      BY <1>7, <2>1, <2>3 DEF WokeTo
    <3>2. drain[i].at \in {"waiting", "woken"}
      BY <2>1, <3>1 DEF WokeTo, Waiting
    <3>3. drain'[i].target <= p'.enqueued
      BY <1>11, <2>1, <3>1, <3>2 DEF DrainOf
    <3> QED BY <3>1, <3>3 DEF DrainOf
  <2> QED BY <2>2, <2>3
<1>13. DrainInv'
  <2>1. \A i \in Drainer : drain'[i].at # "waiting"
    BY <1>4, <1>7, <1>12, NobodyWaits
  <2> QED BY <1>12, <2>1 DEF DrainInv
<1>14. ReaderInv'
  <2>1. WokeTo(drain[Reader], ds[Reader]) /\ ReaderInv
    BY <1>3, <1>6 DEF Wakes, LaneInv
  <2>2. /\ ~reader' => drain'[Reader].at = "idle" /\ transport' = None /\ ~writer'
        /\ drain'[Reader].at \in {"waiting", "woken", "ok"} => drain'[Reader].target = p'.enqueued
        /\ drain'[Reader].at \in {"idle", "retiring"} => ~drain'[Reader].error
    BY <1>1, <1>7, <1>11, <2>1 DEF ReaderInv, WokeTo, Waiting
  <2> QED BY <1>1, <1>4, <1>8, <1>9, <2>2 DEF ReaderInv
<1>15. TypeInv'
  <2>1. failed' \subseteq 1..p'.applied
    <3>1. failed \subseteq 1..p.applied
      BY <1>3 DEF TypeInv
    <3>2. 1..p.applied \subseteq 1..p'.applied
      BY <1>3, <1>4, <1>11
    <3> QED BY <1>1, <3>1, <3>2
  <2> QED BY <1>1, <1>2, <1>3, <1>7, <1>8, <1>11, <2>1 DEF TypeInv
<1>16. PendingInv' /\ OrderInv' /\ ClosesOwnTransport'
  BY <1>1, <1>2, <1>4, <1>11 DEF LaneInv, PendingInv, OrderInv, ClosesOwnTransport
<1> QED BY <1>10, <1>13, <1>14, <1>15, <1>16 DEF LaneInv

\* _force_close_transport after its join
LEMMA ForceCloseEndsStep ==
    ASSUME LaneInv, ForceCloseEnds
    PROVE  LaneInv'
<1>1. /\ closer.at = "joined" /\ ~reader /\ \A f \in Flusher : fl[f].at # "ready"
      /\ closer' = Closer("closed", None) /\ transport' = None
      /\ p' = [Discarded(p) EXCEPT !.task = None, !.flush = FALSE] /\ drain' = Woken(p')
      /\ fl' = fl /\ epoch' = epoch /\ reader' = reader /\ writer' = FALSE
      /\ emitted' = emitted /\ sent' = sent /\ failed' = failed /\ closedBy' = closedBy
  BY DEF ForceCloseEnds, CanEnd, hist
<1>2. /\ TypeInv /\ fl \in [Flusher -> Task] /\ drain \in [Drainer -> Drains] /\ Sound(p)
      /\ p.applied \in Nat /\ p.enqueued \in Nat /\ p.pendingEpoch <= epoch
      /\ Reader \in Drainer /\ epoch \in 1..MaxEpoch /\ MaxEpoch \in Nat
  BY EffectAssumptions DEF LaneInv, TypeInv, PendingInv, Sound, Pump
<1>3. /\ Sound(p') /\ p'.pending = <<>> /\ p'.applied = p.enqueued /\ p'.enqueued = p.enqueued
      /\ p'.pendingEpoch = p.pendingEpoch /\ p'.task = None /\ p'.failing = p.failing
      /\ p.applied <= p'.applied
  <2> DEFINE y == Discarded(p)
  <2>1. /\ Sound(y) /\ Same(y, p) /\ y.pending = <<>> /\ y.applied = p.enqueued /\ p.applied <= p.enqueued
    BY <1>2, DiscardedShape
  <2>2. p' = [y EXCEPT !.task = None, !.flush = FALSE]
    BY <1>1
  <2> HIDE DEF y
  <2>3. y \in Pump
    BY <2>1 DEF Sound
  <2>4. /\ p' \in Pump /\ p'.pending = y.pending /\ p'.applied = y.applied
        /\ p'.enqueued = y.enqueued /\ p'.pendingEpoch = y.pendingEpoch /\ p'.task = None
        /\ p'.failing = y.failing
    BY <2>2, <2>3 DEF Pump
  <2>5. Sound(p')
    BY <2>1, <2>4 DEF Sound
  <2> QED BY <2>1, <2>4, <2>5 DEF Same
<1>4. /\ Wakes(drain, drain')
      /\ p'.applied # p.applied => \A i \in Drainer : drain'[i].at # "waiting"
  BY <1>1, <1>2, WokenShape
<1>5. ~writer /\ ReaderInv /\ Drained /\ Closer("closed", None).at = "closed"
  BY <1>1 DEF LaneInv, ReaderInv, Drained, Closer
<1>6. ASSUME NEW f \in Flusher, Working(f)
      PROVE  Applying(f) /\ fl[f].cur.epoch = epoch /\ ~p.failing
  <2>1. TaskOf(f)
    BY DEF LaneInv, TaskInv
  <2>2. fl[f].at = "applying" /\ fl[f] \in Task
    BY <1>1, <1>2, <1>6 DEF Working
  <2>3. ~fl[f].cancel
    <3>1. closer # Closer("joining", f)
      BY <1>1 DEF Closer
    <3> QED BY <1>6, <2>1, <3>1 DEF TaskOf
  <2>4. Applying(f)
    BY <2>2, <2>3 DEF Applying
  <2> QED BY <1>5, <1>6, <2>1, <2>4 DEF ReaderInv, TaskOf
<1>7. ASSUME NEW f \in Flusher
      PROVE  TaskOf(f)' /\ (Applying(f)' => fl'[f].cur.epoch = epoch')
  <2>1. TaskOf(f) /\ fl'[f] = fl[f]
    BY <1>1 DEF LaneInv, TaskInv
  <2>2. Closing(f)' => p'.failing
    BY <1>1, <1>3, <2>1 DEF TaskOf, Closing
  <2>3. ASSUME Working(f)'
        PROVE  /\ fl'[f].at = "applying" /\ ~fl'[f].cancel /\ fl'[f].cur.epoch = epoch' /\ ~p'.failing
               /\ fl'[f].cur \in EffectOf({"send", "close", "closed"}, 1..epoch')
    BY <1>1, <1>3, <1>6, <2>1, <2>3 DEF Working, Applying, TaskOf
  <2>4. fl'[f].at = "applying" => Working(f)'
    BY DEF Working
  <2>5. transport' = None /\ None <= epoch' /\ closer'.at = "closed" /\ ~writer'
    BY <1>1, <1>2, <1>5 DEF None
  <2> QED BY <2>2, <2>3, <2>4, <2>5 DEF TaskOf, Applying
<1>8. TaskInv'
  <2>1. /\ p'.failing => (\E f \in Flusher : Closing(f)') /\ p'.pending = <<>> /\ ~writer'
        /\ \A f, g \in Flusher : /\ Closing(f)' /\ Closing(g)' => f = g
                                 /\ Working(f)' /\ Working(g)' => f = g
    BY <1>1, <1>3 DEF LaneInv, TaskInv, Closing, Working
  <2> QED BY <1>7, <2>1 DEF TaskInv
<1>9. DrainInv'
  <2>1. p.enqueued <= p'.enqueued
    BY <1>2, <1>3
  <2> QED BY <1>1, <1>3, <1>4, <2>1, KeptDrains
<1>10. ReaderInv'
  <2>1. WokeTo(drain[Reader], drain'[Reader])
    BY <1>2, <1>4 DEF Wakes
  <2>2. /\ drain'[Reader].at = "idle" /\ ~drain'[Reader].error /\ ~reader' /\ ~writer'
    BY <1>1, <1>5, <2>1 DEF ReaderInv, WokeTo
  <2> QED BY <1>1, <1>3, <1>7, <2>2 DEF ReaderInv, Online
<1>11. TypeInv'
  <2>1. /\ p' \in Pump /\ drain' \in [Drainer -> Drains] /\ None \in 0..epoch
        /\ Closer("closed", None) \in [at: {"no", "joining", "joined", "closed"}, task: Flusher \cup {None}]
    BY <1>2, <1>3, <1>4 DEF Sound, Wakes, None, Closer
  <2>2. failed' \subseteq 1..p'.applied
    <3>1. failed \subseteq 1..p.applied
      BY <1>2 DEF TypeInv
    <3>2. 1..p.applied \subseteq 1..p'.applied
      BY <1>2, <1>3
    <3> QED BY <1>1, <3>1, <3>2
  <2> QED BY <1>1, <1>2, <2>1, <2>2 DEF TypeInv
<1>12. PendingInv' /\ OrderInv' /\ ClosesOwnTransport'
  BY <1>1, <1>2, <1>3, <1>5 DEF LaneInv, PendingInv, OrderInv, ClosesOwnTransport
<1> QED BY <1>8, <1>9, <1>10, <1>11, <1>12 DEF LaneInv

\* A new connection is opened.
LEMMA DialStep ==
    ASSUME LaneInv, Dial
    PROVE  LaneInv'
<1>1. /\ closer.at = "closed" /\ epoch < MaxEpoch
      /\ \A f \in Flusher : fl[f].at # "closing" /\ ~(fl[f].at = "applying" /\ fl[f].cur.epoch = epoch)
      /\ epoch' = epoch + 1 /\ transport' = epoch + 1 /\ p' = Discarded(p) /\ drain' = Woken(p')
      /\ writer' = TRUE /\ reader' = TRUE /\ closer' = Closer("no", None) /\ fl' = fl
      /\ emitted' = emitted /\ sent' = sent /\ failed' = failed /\ closedBy' = closedBy
  BY DEF Dial, hist
<1>2. /\ epoch \in Nat /\ epoch' \in Nat /\ epoch <= epoch' /\ epoch' \in 1..MaxEpoch
      /\ emitted \in Seq(EffectOf(Kind, 1..epoch'))
      /\ p.pendingEpoch <= epoch'
      /\ OfEpoch(emitted, epoch + 1) = <<>> /\ OfEpoch(sent, epoch + 1) = <<>>
  BY <1>1, EpochGrows
<1>3. /\ TypeInv /\ fl \in [Flusher -> Task] /\ drain \in [Drainer -> Drains] /\ Sound(p)
      /\ p.applied \in Nat /\ p.enqueued \in Nat /\ Reader \in Drainer
  BY EffectAssumptions DEF LaneInv, TypeInv, PendingInv, Sound, Pump
<1>4. /\ Sound(p') /\ Same(p', p) /\ p'.pending = <<>> /\ p'.applied = p.enqueued
      /\ p.applied <= p'.applied
  BY <1>1, <1>3, DiscardedShape
<1>5. /\ Wakes(drain, drain')
      /\ p'.applied # p.applied => \A i \in Drainer : drain'[i].at # "waiting"
  BY <1>1, <1>3, WokenShape
<1>6. ReaderInv /\ ~reader /\ p.task = None
  BY <1>1 DEF LaneInv, ReaderInv
<1>7. ASSUME NEW f \in Flusher
      PROVE  TaskOf(f)' /\ ~Applying(f)' /\ ~Closing(f)' /\ ~Closing(f) /\ ~Working(f)'
  <2>1. ~Working(f)
    BY <1>1 DEF LaneInv, TaskInv, TaskOf
  <2>3. ~Working(f)' /\ ~Closing(f)' /\ ~Closing(f)
    BY <1>1, <2>1 DEF Working, Closing
  <2> QED BY <2>3, TaskIdle
<1>8. p'.failing = p.failing /\ p'.enqueued = p.enqueued /\ p'.pendingEpoch = p.pendingEpoch
      /\ p' \in Pump /\ p'.applied \in Nat
  BY <1>3, <1>4 DEF Same, Sound
<1>9. TaskInv'
  <2>1. ~p'.failing
    BY <1>7, <1>8 DEF LaneInv, TaskInv
  <2> QED BY <1>7, <2>1 DEF TaskInv
<1>10. DrainInv'
  <2>1. p.enqueued <= p'.enqueued
    BY <1>3, <1>8
  <2> QED BY <1>1, <1>4, <1>5, <2>1, KeptDrains
<1>11. ReaderInv'
  <2>1. WokeTo(drain[Reader], drain'[Reader])
    BY <1>3, <1>5 DEF Wakes
  <2>2. /\ drain'[Reader].at = "idle" /\ ~drain'[Reader].error
    BY <1>6, <2>1 DEF ReaderInv, WokeTo
  <2>3. closer'.at = "no"
    BY <1>1 DEF Closer
  <2> QED BY <1>1, <1>4, <1>7, <2>2, <2>3 DEF ReaderInv
<1>12. TypeInv'
  <2>1. /\ drain' \in [Drainer -> Drains] /\ transport' \in 0..epoch'
        /\ Closer("no", None) \in [at: {"no", "joining", "joined", "closed"}, task: Flusher \cup {None}]
    BY <1>1, <1>2, <1>5 DEF Wakes, Closer
  <2>2. failed' \subseteq 1..p'.applied
    <3>1. failed \subseteq 1..p.applied
      BY <1>3 DEF TypeInv
    <3>2. 1..p.applied \subseteq 1..p'.applied
      BY <1>3, <1>4, <1>8
    <3> QED BY <1>1, <3>1, <3>2
  <2> QED BY <1>1, <1>2, <1>3, <1>8, <2>1, <2>2 DEF TypeInv
<1>13. OrderInv'
  <2>1. Sends(<<>>) = <<>> /\ <<>> \o <<>> = <<>>
    BY OnlyEmpty, ConcatEmptySeq, EmptySeq DEF Sends
  <2>2. Follows(sent, emitted, epoch + 1, <<>>)
    BY <1>2, <2>1 DEF Follows
  <2> QED BY <1>1, <1>2, <1>4, <2>2 DEF LaneInv, OrderInv
<1>14. PendingInv' /\ ClosesOwnTransport'
  BY <1>1, <1>2, <1>4, <1>8 DEF LaneInv, PendingInv, ClosesOwnTransport
<1> QED BY <1>9, <1>10, <1>11, <1>12, <1>13, <1>14 DEF LaneInv
-----------------------------------------------------------------------------
(***************************************************************************)
(* The steps that emit effects                                             *)
(***************************************************************************)

\* A batch is at least one effect of its epoch.
LEMMA BatchShape ==
    ASSUME emitted \in Seq(Effect), NEW ep \in 1..MaxEpoch, NEW batch \in Batches(ep)
    PROVE  /\ batch \in Seq(EffectOf(Kind, {ep})) /\ Len(batch) \in Nat /\ Len(batch) >= 1
           /\ Len(emitted) + Len(batch) <= MaxEffects
<1>1. PICK ks \in BoundedSeq(Kind, MaxBatch) :
        Len(ks) \in 1..(MaxEffects - Len(emitted)) /\ batch = Batch(ks, ep)
  BY DEF Batches
<1>2. ks \in Seq(Kind)
  <2>1. PICK m \in 0..MaxBatch : ks \in [1..m -> Kind]
    BY <1>1 DEF BoundedSeq, SeqOf
  <2>2. m \in Nat
    BY <2>1, EffectAssumptions
  <2> QED BY <2>1, <2>2
<1>3. DOMAIN ks = 1..Len(ks) /\ Len(ks) \in Nat /\ Len(emitted) \in Nat /\ MaxEffects \in Nat
  BY <1>2, LenProperties, EffectAssumptions
<1>4. PICK l \in Nat : l = Len(ks)
  BY <1>3
<1>5. batch \in [1..l -> EffectOf(Kind, {ep})]
  <2>1. batch = [i \in 1..l |-> [id |-> Len(emitted) + i, kind |-> ks[i], epoch |-> ep]]
    BY <1>1, <1>3, <1>4 DEF Batch
  <2>2. ASSUME NEW i \in 1..l
        PROVE  [id |-> Len(emitted) + i, kind |-> ks[i], epoch |-> ep] \in EffectOf(Kind, {ep})
    <3>1. ks[i] \in Kind
      BY <1>2, <1>3, <1>4
    <3>2. Len(emitted) + i \in 1..MaxEffects
      BY <1>1, <1>3, <1>4
    <3> QED BY <3>1, <3>2 DEF EffectOf
  <2> QED BY <2>1, <2>2
<1>6. batch \in Seq(EffectOf(Kind, {ep})) /\ Len(batch) = l
  <2> DEFINE E == EffectOf(Kind, {ep})
  <2>1. batch \in [1..l -> E]
    BY <1>5
  <2> HIDE DEF E
  <2>2. batch \in Seq(E)
    BY <2>1
  <2>3. Len(batch) = l
    BY <2>1, <2>2, LenProperties
  <2> QED BY <2>2, <2>3 DEF E
<1> QED BY <1>1, <1>3, <1>4, <1>6

\* Appending effects of the pump's epoch
LEMMA QueuedShape ==
    ASSUME NEW x, Sound(x), NEW ep \in 1..MaxEpoch, NEW s \in Seq(EffectOf(Kind, {ep})),
           x.pending # <<>> => x.pendingEpoch = ep
    PROVE  /\ Sound(Queued(x, s, ep)) /\ Queued(x, s, ep).pending = x.pending \o s
           /\ Queued(x, s, ep).applied = x.applied
           /\ Queued(x, s, ep).enqueued = x.enqueued + Len(s)
           /\ Queued(x, s, ep).pendingEpoch = ep
           /\ Queued(x, s, ep).task = x.task /\ Queued(x, s, ep).flush = x.flush
           /\ Queued(x, s, ep).failing = x.failing
<1>1. /\ x \in Pump /\ x.applied \in Nat /\ x.enqueued \in Nat /\ Len(x.pending) \in Nat
      /\ Len(s) \in Nat /\ x.enqueued = x.applied + Len(x.pending)
      /\ x.pending \in Seq(EffectOf(Kind, {x.pendingEpoch}))
  BY LenProperties DEF Sound, Pump
<1>2. x.pending \in Seq(EffectOf(Kind, {ep}))
  <2>1. CASE x.pending = <<>>
    BY <2>1, EmptySeq
  <2>2. CASE x.pending # <<>>
    BY <1>1, <2>2
  <2> QED BY <2>1, <2>2
<1> DEFINE q == x.pending \o s
           e == x.enqueued + Len(s)
<1>3. q \in Seq(EffectOf(Kind, {ep})) /\ Len(q) = Len(x.pending) + Len(s)
  BY <1>2, ConcatProperties
<1>4. q \in Seq(Effect)
  BY <1>3, OneEpoch
<1>5. e \in Nat /\ e = x.applied + Len(q)
  BY <1>1, <1>3
<1>6. Queued(x, s, ep) = [x EXCEPT !.pending = q, !.enqueued = e, !.pendingEpoch = ep]
  <2>1. (IF x.pending = <<>> THEN ep ELSE x.pendingEpoch) = ep
    OBVIOUS
  <2>2. Queued(x, s, ep) = [x EXCEPT !.pending = q, !.enqueued = e,
                              !.pendingEpoch = IF x.pending = <<>> THEN ep ELSE x.pendingEpoch]
    BY <1>1 DEF Queued, Pump
  <2> HIDE DEF q, e
  <2> QED BY <2>1, <2>2
<1> HIDE DEF q, e
<1>7. PICK y : y = Queued(x, s, ep)
  OBVIOUS
<1>8. /\ y \in Pump /\ y.pending = q /\ y.applied = x.applied /\ y.enqueued = e
      /\ y.pendingEpoch = ep /\ y.task = x.task /\ y.flush = x.flush /\ y.failing = x.failing
  BY <1>1, <1>4, <1>5, <1>6, <1>7 DEF Pump
<1>9. Sound(y)
  BY <1>3, <1>5, <1>8 DEF Sound
<1> QED BY <1>7, <1>8, <1>9 DEF q, e

\* What another epoch left is dropped.
LEMMA PurgedShape ==
    ASSUME NEW x, Sound(x), NEW ep
    PROVE  /\ Sound(Purged(x, ep)) /\ Same(Purged(x, ep), x) /\ x.applied <= Purged(x, ep).applied
           /\ Purged(x, ep).pending # <<>> => Purged(x, ep).pendingEpoch = ep
           /\ (x.pending # <<>> => x.pendingEpoch = ep) => Purged(x, ep) = x
<1>1. CASE x.pending # <<>> /\ x.pendingEpoch # ep
  <2>1. Purged(x, ep) = Discarded(x)
    BY <1>1 DEF Purged
  <2>2. /\ Sound(Discarded(x)) /\ Same(Discarded(x), x)
        /\ Discarded(x).pending = <<>> /\ Discarded(x).applied = x.enqueued
        /\ x.applied <= x.enqueued
    BY DiscardedShape
  <2> QED BY <1>1, <2>1, <2>2
<1>2. CASE ~(x.pending # <<>> /\ x.pendingEpoch # ep)
  <2>1. Purged(x, ep) = x
    BY <1>2 DEF Purged
  <2>2. x.applied <= x.applied
    BY DEF Sound, Pump
  <2> QED BY <1>2, <2>1, <2>2 DEF Same
<1> QED BY <1>1, <1>2

\* The pump after a batch
LEMMA CollectedShape ==
    ASSUME Sound(p), NEW ep \in 1..MaxEpoch, NEW batch \in Seq(EffectOf(Kind, {ep})), Len(batch) >= 1
    PROVE  LET c == Collected(p, batch, ep) IN
           /\ Sound(c) /\ c.task = p.task /\ c.flush = p.flush /\ c.failing = p.failing
           /\ p.applied <= c.applied /\ p.enqueued <= c.enqueued
           /\ c.pendingEpoch = ep
           /\ p.failing => c.pending = <<>>
           /\ ~p.failing => c.pending # <<>> /\ c.pending = Purged(p, ep).pending \o Lane(batch)
<1>1. PICK x : x = Purged(p, ep)
  OBVIOUS
<1>2. /\ Sound(x) /\ Same(x, p) /\ p.applied <= x.applied
      /\ x.pending # <<>> => x.pendingEpoch = ep
  BY <1>1, PurgedShape
<1>3. /\ p.applied \in Nat /\ x.applied \in Nat /\ p.enqueued \in Nat /\ x.enqueued = p.enqueued
      /\ x.pending \in Seq(Effect) /\ Len(batch) \in Nat
  BY <1>2, LenProperties DEF Sound, Pump, Same
<1>4. CASE p.failing
  <2>1. PICK y : y = Queued(x, batch, ep)
    OBVIOUS
  <2>2. /\ Sound(y) /\ y.applied = x.applied /\ y.enqueued = x.enqueued + Len(batch)
        /\ y.pendingEpoch = ep /\ y.task = x.task /\ y.flush = x.flush /\ y.failing = x.failing
    BY <1>2, <2>1, QueuedShape
  <2>3. Collected(p, batch, ep) = Discarded(y)
    BY <1>1, <1>4, <2>1 DEF Collected
  <2>4. /\ Sound(Discarded(y)) /\ Same(Discarded(y), y)
        /\ Discarded(y).pending = <<>> /\ Discarded(y).applied = y.enqueued
        /\ y.applied <= y.enqueued
    BY <2>2, DiscardedShape
  <2>5. p.applied <= y.enqueued /\ p.enqueued <= y.enqueued
    <3>1. x.enqueued \in Nat /\ y.enqueued \in Nat
      BY <1>3, <2>2
    <3> QED BY <1>2, <1>3, <2>2, <2>4, <3>1
  <2> QED BY <1>2, <1>4, <2>2, <2>3, <2>4, <2>5 DEF Same
<1>5. CASE ~p.failing
  <2>1. PICK y : y = Queued(x, Lane(batch), ep)
    OBVIOUS
  <2>2. Lane(batch) \in Seq(EffectOf(Kind, {ep})) /\ Lane(batch) \in Seq(Effect) /\ Len(Lane(batch)) = Len(batch)
    BY LaneOfEpoch, OneEpoch, SendsOfLane
  <2>3. /\ Sound(y) /\ y.applied = x.applied /\ y.enqueued = x.enqueued + Len(Lane(batch))
        /\ y.pendingEpoch = ep /\ y.task = x.task /\ y.flush = x.flush /\ y.failing = x.failing
        /\ y.pending = x.pending \o Lane(batch)
    BY <1>2, <2>1, <2>2, QueuedShape
  <2>4. Collected(p, batch, ep) = y
    BY <1>1, <1>5, <2>1 DEF Collected
  <2>5. p.applied <= y.applied /\ p.enqueued <= y.enqueued
    BY <1>2, <1>3, <2>2, <2>3
  <2>6. y.pending # <<>>
    <3>1. Len(x.pending) \in Nat /\ Len(x.pending \o Lane(batch)) = Len(x.pending) + Len(Lane(batch))
      BY <1>3, <2>2, ConcatProperties, LenProperties
    <3>2. Len(y.pending) > 0 /\ y.pending \in Seq(Effect)
      BY <1>3, <2>2, <2>3, <3>1 DEF Sound, Pump
    <3> QED BY <3>2, EmptySeq
  <2> QED BY <1>1, <1>2, <1>5, <2>3, <2>4, <2>5, <2>6 DEF Same
<1> QED BY <1>4, <1>5

\* A collection that leaves the tasks and the connection alone
LEMMA CollectKept ==
    ASSUME LaneInv, Online, UNCHANGED <<fl, client, failed, closedBy>>,
           emitted' \in Seq(EffectOf(Kind, 1..epoch)), Len(emitted') <= MaxEffects,
           sent' \in Seq(Effect), InOrder(sent', emitted'),
           writer' => Follows(sent', emitted', epoch, p'.pending),
           writer' \in BOOLEAN, writer' => writer,
           Sound(p'), p'.task = p.task, p'.flush = p.flush, p'.failing = p.failing,
           p.applied <= p'.applied, p.enqueued <= p'.enqueued, p'.pendingEpoch <= epoch,
           p'.pending # <<>> => p'.pendingEpoch = epoch,
           p.failing => p'.pending = <<>>,
           ~p.failing /\ p.pending # <<>> => p'.pending # <<>> /\ p'.pending[1] = p.pending[1],
           drain' = Woken(p')
    PROVE  LaneInv'
<1>1. /\ epoch' = epoch /\ transport' = transport /\ reader' = reader /\ closer' = closer
      /\ fl' = fl /\ failed' = failed /\ closedBy' = closedBy
  BY DEF client
<1>2. /\ TypeInv /\ fl \in [Flusher -> Task] /\ drain \in [Drainer -> Drains]
      /\ epoch \in 1..MaxEpoch /\ MaxEpoch \in Nat /\ Reader \in Drainer
      /\ p.applied \in Nat /\ p'.applied \in Nat
  BY EffectAssumptions DEF LaneInv, TypeInv, Pump, Sound
<1>3. /\ Wakes(drain, drain')
      /\ p'.applied # p.applied => \A i \in Drainer : drain'[i].at # "waiting"
  BY <1>2, WokenShape
<1>10. closer.at # "closed"
  BY DEF LaneInv, ReaderInv, Online
<1>4. ASSUME NEW f \in Flusher
      PROVE  TaskOf(f)' /\ (Flushes(f) => Flushes(f)')
  <2>1. TaskOf(f)
    BY DEF LaneInv, TaskInv
  <2>2. (Working(f) => ~p'.failing) /\ (Closing(f) => p'.failing)
    BY <2>1 DEF TaskOf
  <2>3. Applying(f) => p'.pending # <<>> /\ (writer' => p'.pending[1] = p.pending[1])
    BY <1>10, <2>1 DEF TaskOf, Applying, Working
  <2>4. epoch \in Nat /\ epoch <= epoch' /\ epoch' \in Nat
    BY <1>1, <1>2
  <2>5. TaskOf(f)'
    BY <1>1, <2>1, <2>2, <2>3, <2>4, TaskKept
  <2>6. Flushes(f) => Flushes(f)'
    BY <1>1 DEF Flushes, Working, Closing
  <2> QED BY <2>5, <2>6
<1>5. TaskInv'
  <2>1. /\ p'.failing => (\E f \in Flusher : Closing(f)') /\ p'.pending = <<>> /\ ~writer'
        /\ \A f, g \in Flusher : /\ Closing(f)' /\ Closing(g)' => f = g
                                 /\ Working(f)' /\ Working(g)' => f = g
    BY <1>1 DEF LaneInv, TaskInv, Closing, Working
  <2> QED BY <1>4, <2>1 DEF TaskInv
<1>6. DrainInv'
  BY <1>1, <1>3, <1>4, KeptDrains
<1>7. ReaderInv'
  <2>1. WokeTo(drain[Reader], drain'[Reader])
    BY <1>2, <1>3 DEF Wakes
  <2>2. ReaderInv /\ ~Drained /\ closer.at # "closed"
    BY DEF LaneInv, ReaderInv, Online, Drained
  <2> QED BY <1>1, <2>1, <2>2, ReaderKept
<1>8. TypeInv'
  <2>1. failed' \subseteq 1..p'.applied
    <3>1. failed \subseteq 1..p.applied
      BY <1>2 DEF TypeInv
    <3>2. 1..p.applied \subseteq 1..p'.applied
      BY <1>2
    <3> QED BY <1>1, <3>1, <3>2
  <2>2. p' \in Pump /\ drain' \in [Drainer -> Drains]
    BY <1>3 DEF Sound, Wakes
  <2>3. emitted' \in Seq(Effect)
    <3>1. EffectOf(Kind, 1..epoch) \subseteq Effect
      BY <1>2 DEF EffectOf, Effect
    <3> QED BY <3>1, SeqMonotonic
  <2> QED BY <1>1, <1>2, <2>1, <2>2, <2>3 DEF TypeInv
<1>9. PendingInv' /\ OrderInv' /\ ClosesOwnTransport'
  BY <1>1 DEF LaneInv, PendingInv, OrderInv, ClosesOwnTransport
<1> QED BY <1>5, <1>6, <1>7, <1>8, <1>9 DEF LaneInv

\* An operation collects what the engine emitted.
LEMMA CollectStep ==
    ASSUME LaneInv, Collect
    PROVE  LaneInv'
<1>1. Online /\ UNCHANGED <<fl, client, failed, closedBy>>
  BY DEF Collect
<1>2. PICK batch \in Batches(epoch) :
         LET x == Purged(p, epoch)
             alone == Alone(x, batch)
             kind == batch[1].kind IN
         /\ emitted' = emitted \o batch
         /\ \/ /\ alone /\ kind = "send"
               /\ p' = x /\ drain' = Woken(x)
               /\ \/ sent' = sent \o Taken(batch, 1) /\ UNCHANGED writer
                  \/ writer' = FALSE /\ UNCHANGED sent
            \/ /\ alone /\ kind = "error"
               /\ p' = x /\ drain' = Woken(x) /\ UNCHANGED <<sent, writer>>
            \/ /\ p' = Collected(p, batch, epoch) /\ drain' = Woken(p')
               /\ UNCHANGED writer \/ writer' = FALSE
               /\ UNCHANGED sent
  BY DEF Collect, link, Shut
<1>3. /\ sent \in Seq(Effect) /\ emitted \in Seq(Effect) /\ epoch \in 1..MaxEpoch /\ Sound(p)
      /\ InOrder(sent, emitted) /\ (writer => Follows(sent, emitted, epoch, p.pending))
      /\ writer \in BOOLEAN /\ p.pending \in Seq(Effect) /\ p.pendingEpoch <= epoch
      /\ p.applied \in Nat /\ p.enqueued \in Nat
      /\ emitted \in Seq(EffectOf(Kind, 1..epoch)) /\ MaxEpoch \in Nat
      /\ p.pending # <<>> => p.pendingEpoch = epoch
  BY <1>1, EffectAssumptions DEF LaneInv, TypeInv, PendingInv, OrderInv, ReaderInv, Sound, Pump
<1>4. /\ batch \in Seq(EffectOf(Kind, {epoch})) /\ Len(batch) \in Nat /\ Len(batch) >= 1
      /\ Len(emitted) + Len(batch) <= MaxEffects
  BY <1>2, <1>3, BatchShape
<1>5. /\ InOrder(sent, emitted')
      /\ \A pend \in Seq(Effect) :
           Follows(sent, emitted, epoch, pend) => Follows(sent, emitted', epoch, pend \o Lane(batch))
      /\ emitted' \in Seq(Effect) /\ Len(emitted') <= MaxEffects
      /\ emitted' \in Seq(EffectOf(Kind, 1..epoch))
  <2>1. emitted' = emitted \o batch
    BY <1>2
  <2>2. Len(emitted \o batch) = Len(emitted) + Len(batch)
    BY <1>3, <1>4, OneEpoch, ConcatProperties
  <2>3. EffectOf(Kind, {epoch}) \subseteq EffectOf(Kind, 1..epoch)
    BY <1>3 DEF EffectOf
  <2>4. batch \in Seq(EffectOf(Kind, 1..epoch))
    BY <1>4, <2>3, SeqMonotonic
  <2>5. emitted \o batch \in Seq(EffectOf(Kind, 1..epoch))
    BY <1>3, <2>4, ConcatProperties
  <2> QED BY <1>3, <1>4, <2>1, <2>2, <2>5, EmittedInOrder
<1>6. Purged(p, epoch) = p
  BY <1>3, PurgedShape
<1>7. batch \in Seq(Effect) /\ Lane(batch) \in Seq(Effect) /\ Sends(Lane(batch)) = Sends(batch)
  BY <1>3, <1>4, OneEpoch, SendsOfLane
<1>8. ASSUME Alone(p, batch), p' = p, drain' = Woken(p),
             sent' \in Seq(Effect), InOrder(sent', emitted'),
             writer' => Follows(sent', emitted', epoch, p.pending),
             writer' \in BOOLEAN, writer' => writer
      PROVE  LaneInv'
  <2>1. p'.pending = <<>> /\ ~p.failing
    BY <1>8 DEF Alone
  <2>2. p.applied <= p'.applied /\ p.enqueued <= p'.enqueued /\ drain' = Woken(p')
    BY <1>3, <1>8
  <2> QED BY <1>1, <1>3, <1>5, <1>8, <2>1, <2>2, CollectKept
<1>9. Alone(p, batch) /\ writer => Follows(sent, emitted', epoch, batch)
  <2>1. SUFFICES ASSUME Alone(p, batch), writer
                 PROVE  Follows(sent, emitted', epoch, batch)
    OBVIOUS
  <2>2. p.pending = <<>> /\ Follows(sent, emitted', epoch, p.pending \o Lane(batch))
    BY <1>3, <1>5, <2>1 DEF Alone
  <2>3. <<>> \o Lane(batch) = Lane(batch)
    BY <1>7, ConcatEmptySeq
  <2>4. Follows(sent, emitted', epoch, Lane(batch))
    BY <2>2, <2>3
  <2> QED BY <1>7, <2>4 DEF Follows
<1>10. CASE /\ Alone(p, batch) /\ batch[1].kind = "send" /\ p' = p /\ drain' = Woken(p)
            /\ sent' = sent \o Taken(batch, 1) /\ writer' = writer
  <2>1. CASE ~writer
    <3>1. Taken(batch, 1) = <<>>
      BY <2>1 DEF Taken
    <3>2. sent' = sent
      BY <1>3, <1>10, <3>1, NothingTaken
    <3> QED BY <1>3, <1>5, <1>8, <1>10, <2>1, <3>2
  <2>2. CASE writer
    <3>1. sent' = sent \o SubSeq(batch, 1, 1) /\ Len(batch) = 1 /\ p.pending = <<>>
      BY <1>10, <2>2 DEF Taken, Alone
    <3>2. 1 \in 0..Len(batch) /\ \A i \in 1..1 : batch[i].kind = "send"
      BY <1>10, <3>1
    <3>3. /\ sent \o SubSeq(batch, 1, 1) \in Seq(Effect)
          /\ InOrder(sent \o SubSeq(batch, 1, 1), emitted')
          /\ Follows(sent \o SubSeq(batch, 1, 1), emitted', epoch, SubSeq(batch, 1 + 1, Len(batch)))
      <4>1. PICK e2 : e2 = emitted'
        OBVIOUS
      <4>2. e2 \in Seq(Effect) /\ InOrder(sent, e2) /\ Follows(sent, e2, epoch, batch)
        BY <1>5, <1>9, <1>10, <2>2, <4>1
      <4>3. /\ sent \o SubSeq(batch, 1, 1) \in Seq(Effect)
            /\ InOrder(sent \o SubSeq(batch, 1, 1), e2)
            /\ Follows(sent \o SubSeq(batch, 1, 1), e2, epoch, SubSeq(batch, 1 + 1, Len(batch)))
        BY <1>3, <1>4, <3>2, <4>2, TakenInOrder
      <4> QED BY <4>1, <4>3
    <3>4. SubSeq(batch, 1 + 1, Len(batch)) = <<>>
      <4>1. SubSeq(batch, 1 + 1, 1) \in Seq(Effect) /\ Len(SubSeq(batch, 1 + 1, 1)) = 0
        <5>1. \A i \in 1 + 1..1 : batch[i] \in Effect
          OBVIOUS
        <5> QED BY <5>1, SubSeqProperties
      <4> QED BY <3>1, <4>1, EmptySeq
    <3> QED BY <1>3, <1>8, <1>10, <3>1, <3>3, <3>4
  <2> QED BY <1>3, <2>1, <2>2
<1>11. CASE /\ Alone(p, batch) /\ p' = p /\ drain' = Woken(p) /\ writer' = FALSE /\ sent' = sent
  BY <1>3, <1>5, <1>8, <1>11
<1>12. CASE /\ Alone(p, batch) /\ batch[1].kind = "error" /\ p' = p /\ drain' = Woken(p)
            /\ sent' = sent /\ writer' = writer
  <2>1. writer => Follows(sent, emitted', epoch, p.pending)
    <3>1. SUFFICES ASSUME writer
                   PROVE  Follows(sent, emitted', epoch, p.pending)
      OBVIOUS
    <3>2. Len(batch) = 1 /\ p.pending = <<>> /\ batch # <<>> /\ batch[1].kind # "send"
      BY <1>12, EmptySeq DEF Alone
    <3>3. Sends(SubSeq(batch, 2, Len(batch))) = Sends(batch)
      BY <1>7, <3>2, OtherDropped
    <3>4. SubSeq(batch, 2, Len(batch)) = <<>>
      <4>1. SubSeq(batch, 2, 1) \in Seq(Effect) /\ Len(SubSeq(batch, 2, 1)) = 0
        <5>1. \A i \in 2..1 : batch[i] \in Effect
          OBVIOUS
        <5> QED BY <5>1, SubSeqProperties
      <4> QED BY <3>2, <4>1, EmptySeq
    <3>5. Follows(sent, emitted', epoch, batch)
      BY <1>9, <1>12, <3>1
    <3> QED BY <3>2, <3>3, <3>4, <3>5 DEF Follows
  <2> QED BY <1>3, <1>5, <1>8, <1>12, <2>1
<1>13. CASE /\ p' = Collected(p, batch, epoch) /\ drain' = Woken(p') /\ sent' = sent
            /\ writer' = writer \/ writer' = FALSE
  <2>1. /\ Sound(p') /\ p'.task = p.task /\ p'.flush = p.flush /\ p'.failing = p.failing
        /\ p.applied <= p'.applied /\ p.enqueued <= p'.enqueued
        /\ p'.pendingEpoch = epoch
        /\ p.failing => p'.pending = <<>>
        /\ ~p.failing => p'.pending # <<>> /\ p'.pending = p.pending \o Lane(batch)
    BY <1>3, <1>4, <1>6, <1>13, CollectedShape, ZenonT(40)
  <2>2. p.pending # <<>> => (p.pending \o Lane(batch))[1] = p.pending[1]
    <3>1. \A i \in 1..Len(p.pending) : (p.pending \o Lane(batch))[i] = p.pending[i]
      BY <1>3, <1>7, ConcatProperties
    <3>2. p.pending # <<>> => 1 \in 1..Len(p.pending)
      BY <1>3, EmptySeq, LenProperties
    <3> QED BY <3>1, <3>2
  <2>3. writer' \in BOOLEAN /\ (writer' => writer)
    <3>1. CASE writer' = writer
      BY <1>3, <3>1
    <3>2. CASE writer' = FALSE
      BY <3>2
    <3> QED BY <1>13, <3>1, <3>2
  <2>4. writer' => Follows(sent', emitted', epoch, p'.pending)
    <3>1. writer => ~p.failing
      BY DEF LaneInv, TaskInv
    <3> QED BY <1>3, <1>5, <1>13, <2>1, <2>3, <3>1
  <2>5. p'.pendingEpoch <= epoch
    BY <1>3, <2>1
  <2> QED BY <1>1, <1>3, <1>5, <1>13, <2>1, <2>2, <2>3, <2>4, <2>5, CollectKept
<1> QED BY <1>2, <1>6, <1>10, <1>11, <1>12, <1>13

\* The ending reader moves the epoch on and collects the last effects.
LEMMA RetireStep ==
    ASSUME LaneInv, Retire
    PROVE  LaneInv'
<1>1. /\ Online /\ epoch < MaxEpoch /\ epoch' = epoch + 1 /\ writer' = FALSE
      /\ fl' = fl /\ transport' = transport /\ reader' = reader /\ closer' = closer
      /\ sent' = sent /\ failed' = failed /\ closedBy' = closedBy
  BY DEF Retire, NextEpoch
<1>2. PICK batch \in {<<>>} \cup Batches(epoch + 1) :
        /\ emitted' = emitted \o batch
        /\ p' = IF batch = <<>> THEN p ELSE Collected(p, batch, epoch + 1)
        /\ drain' = [Woken(p') EXCEPT ![Reader].at = "retiring"]
  <2>1. Leftovers(epoch + 1) \subseteq Batches(epoch + 1)
    BY DEF Leftovers
  <2> QED BY <2>1 DEF Retire
<1>3. /\ epoch \in Nat /\ epoch' \in Nat /\ epoch <= epoch' /\ epoch' \in 1..MaxEpoch
      /\ emitted \in Seq(EffectOf(Kind, 1..epoch'))
      /\ p.pendingEpoch <= epoch' /\ transport \in 0..epoch'
  BY <1>1, EpochGrows
<1>4. /\ TypeInv /\ fl \in [Flusher -> Task] /\ drain \in [Drainer -> Drains] /\ Sound(p)
      /\ p.applied \in Nat /\ p.enqueued \in Nat /\ Reader \in Drainer
      /\ emitted \in Seq(Effect) /\ Len(emitted) <= MaxEffects /\ sent \in Seq(Effect)
      /\ InOrder(sent, emitted)
  BY EffectAssumptions DEF LaneInv, TypeInv, PendingInv, OrderInv, Sound, Pump
<1>5. /\ Sound(p') /\ p'.task = p.task /\ p'.flush = p.flush /\ p'.failing = p.failing
      /\ p.applied <= p'.applied /\ p.enqueued <= p'.enqueued /\ p'.pendingEpoch <= epoch'
      /\ p.failing => p'.pending = <<>>
      /\ ~p.failing /\ p.pending # <<>> => p'.pending # <<>>
      /\ emitted' \in Seq(EffectOf(Kind, 1..epoch')) /\ Len(emitted') <= MaxEffects
      /\ InOrder(sent, emitted')
  <2>1. CASE batch = <<>>
    <3>1. emitted' = emitted
      BY <1>2, <1>4, <2>1, ConcatEmptySeq
    <3>2. p' = p
      BY <1>2, <2>1
    <3>3. p.failing => p.pending = <<>>
      BY DEF LaneInv, TaskInv
    <3> QED BY <1>3, <1>4, <3>1, <3>2, <3>3
  <2>2. CASE batch # <<>>
    <3>1. PICK ep \in 1..MaxEpoch : ep = epoch + 1 /\ ep = epoch'
      BY <1>1, <1>3
    <3>2. batch \in Batches(ep) /\ p' = Collected(p, batch, ep)
      BY <1>2, <2>2, <3>1
    <3>3. /\ batch \in Seq(EffectOf(Kind, {ep})) /\ Len(batch) \in Nat /\ Len(batch) >= 1
          /\ Len(emitted) + Len(batch) <= MaxEffects
      BY <1>4, <3>2, BatchShape
    <3>4. /\ Sound(p') /\ p'.task = p.task /\ p'.flush = p.flush /\ p'.failing = p.failing
          /\ p.applied <= p'.applied /\ p.enqueued <= p'.enqueued /\ p'.pendingEpoch = ep
          /\ p.failing => p'.pending = <<>>
          /\ ~p.failing => p'.pending # <<>>
      BY <1>4, <3>2, <3>3, CollectedShape
    <3>5. InOrder(sent, emitted')
      BY <1>2, <1>4, <3>3, EmittedInOrder
    <3>6. EffectOf(Kind, {ep}) \subseteq EffectOf(Kind, 1..epoch')
      BY <1>3, <3>1 DEF EffectOf
    <3>7. batch \in Seq(EffectOf(Kind, 1..epoch'))
      BY <3>3, <3>6, SeqMonotonic
    <3>8. emitted' \in Seq(EffectOf(Kind, 1..epoch')) /\ Len(emitted') = Len(emitted) + Len(batch)
      BY <1>2, <1>3, <3>7, ConcatProperties
    <3>9. p'.pendingEpoch <= epoch'
      BY <1>3, <3>1, <3>4
    <3> QED BY <3>3, <3>4, <3>5, <3>8, <3>9
  <2> QED BY <2>1, <2>2
<1>6. PICK ds : ds = Woken(p')
  OBVIOUS
<1>7. /\ Wakes(drain, ds) /\ ds \in [Drainer -> Drains]
      /\ p'.applied # p.applied => \A i \in Drainer : ds[i].at # "waiting"
  BY <1>4, <1>6, WokenShape DEF Wakes
<1>8. drain' = [ds EXCEPT ![Reader].at = "retiring"]
  BY <1>2, <1>6
<1>9. /\ drain' \in [Drainer -> Drains] /\ \A i \in Drainer : i # Reader => drain'[i] = ds[i]
      /\ drain'[Reader].at = "retiring" /\ drain'[Reader].error = ds[Reader].error
  BY <1>4, <1>7, <1>8 DEF Drains
<1>10. ~drain'[Reader].error /\ reader' /\ closer.at # "closed" /\ ~Drained' /\ ~Online'
  <2>1. WokeTo(drain[Reader], ds[Reader]) /\ drain[Reader].at = "idle" /\ reader
    BY <1>1, <1>4, <1>7 DEF Wakes, Online
  <2>2. ~drain[Reader].error /\ closer.at # "closed"
    BY <2>1 DEF LaneInv, ReaderInv
  <2>3. ~drain'[Reader].error /\ reader'
    BY <1>1, <1>9, <2>1, <2>2 DEF WokeTo
  <2> QED BY <1>9, <2>2, <2>3 DEF Drained, Online
<1>11. ASSUME NEW f \in Flusher
       PROVE  TaskOf(f)' /\ (Flushes(f) => Flushes(f)')
  <2>1. TaskOf(f)
    BY DEF LaneInv, TaskInv
  <2>2. (Working(f) => ~p'.failing) /\ (Closing(f) => p'.failing)
    BY <1>5, <2>1 DEF TaskOf
  <2>3. Applying(f) => p'.pending # <<>>
    BY <1>5, <1>10, <2>1 DEF TaskOf, Applying, Working
  <2>4. ~writer' /\ fl'[f] = fl[f]
    BY <1>1
  <2>5. TaskOf(f)'
    BY <1>1, <1>3, <1>5, <1>10, <2>1, <2>2, <2>3, <2>4, TaskKept
  <2>6. Flushes(f) => Flushes(f)'
    BY <1>1, <1>5 DEF Flushes, Working, Closing
  <2> QED BY <2>5, <2>6
<1>12. TaskInv'
  <2>1. /\ p'.failing => (\E f \in Flusher : Closing(f)') /\ p'.pending = <<>> /\ ~writer'
        /\ \A f, g \in Flusher : /\ Closing(f)' /\ Closing(g)' => f = g
                                 /\ Working(f)' /\ Working(g)' => f = g
    BY <1>1, <1>5 DEF LaneInv, TaskInv, Closing, Working
  <2> QED BY <1>11, <2>1 DEF TaskInv
<1>13. p'.applied \in Nat /\ p'.enqueued \in Nat /\ p' \in Pump
  BY <1>5 DEF Sound, Pump
<1>14. DrainInv'
  <2>1. ASSUME NEW i \in Drainer
        PROVE  DrainOf(i)' /\ (drain'[i].at = "waiting" => drain[i].at = "waiting")
    <3>1. CASE i = Reader
      BY <1>9, <3>1 DEF DrainOf
    <3>2. CASE i # Reader
      <4>1. /\ WokeTo(drain[i], drain'[i]) /\ DrainOf(i) /\ drain[i] \in Drains
            /\ p'.applied = p.applied \/ drain'[i].at # "waiting"
        BY <1>4, <1>7, <1>9, <3>2 DEF Wakes, LaneInv, DrainInv
      <4>2. DrainOf(i)'
        BY <1>1, <1>4, <1>5, <1>13, <4>1, KeptDrain
      <4> QED BY <4>1, <4>2 DEF WokeTo
    <3> QED BY <3>1, <3>2
  <2>2. (\E f \in Flusher : Flushes(f)) => (\E f \in Flusher : Flushes(f)')
    BY <1>11
  <2> QED BY <2>1, <2>2 DEF LaneInv, DrainInv
<1>15. ReaderInv'
  BY <1>1, <1>9, <1>10 DEF ReaderInv
<1>16. TypeInv'
  <2>1. failed' \subseteq 1..p'.applied
    <3>1. failed \subseteq 1..p.applied
      BY <1>4 DEF TypeInv
    <3>2. 1..p.applied \subseteq 1..p'.applied
      BY <1>4, <1>5, <1>13
    <3> QED BY <1>1, <3>1, <3>2
  <2>2. emitted' \in Seq(Effect)
    <3>1. 1..epoch' \subseteq 1..MaxEpoch
      BY <1>3, EffectAssumptions
    <3>2. EffectOf(Kind, 1..epoch') \subseteq Effect
      BY <3>1 DEF EffectOf, Effect
    <3> QED BY <1>5, <3>2, SeqMonotonic
  <2> QED BY <1>1, <1>3, <1>4, <1>5, <1>9, <1>13, <2>1, <2>2 DEF TypeInv
<1>17. PendingInv' /\ OrderInv' /\ ClosesOwnTransport'
  BY <1>1, <1>5 DEF LaneInv, PendingInv, OrderInv, ClosesOwnTransport
<1> QED BY <1>12, <1>14, <1>15, <1>16, <1>17 DEF LaneInv
-----------------------------------------------------------------------------
(***************************************************************************)
(* The theorems                                                            *)
(***************************************************************************)

\* The pump starts in the invariant.
LEMMA InitLane ==
    ASSUME Init
    PROVE  LaneInv
<1>1. MaxEpoch \in Nat /\ MaxEffects \in Nat /\ Reader \in Drainer /\ 1 \in 1..MaxEpoch
  BY EffectAssumptions
<1>2. /\ p = [NewPump EXCEPT !.pendingEpoch = 1]
      /\ fl = [f \in Flusher |-> Free]
      /\ drain = [i \in Drainer |-> NotDraining]
      /\ epoch = 1 /\ writer = TRUE /\ transport = 1 /\ reader = TRUE /\ closer = Closer("no", None)
      /\ emitted = <<>> /\ sent = <<>> /\ failed = {} /\ closedBy = {}
  BY DEF Init
<1>3. <<>> \in Seq(Effect) /\ Len(<<>>) = 0 /\ \A S : <<>> \in Seq(S)
  BY EmptySeq
<1>4. /\ p \in Pump /\ p.pending = <<>> /\ p.pendingEpoch = 1 /\ p.enqueued = 0 /\ p.applied = 0
      /\ p.task = None /\ p.failing = FALSE
  <2>1. p = [pending |-> <<>>, pendingEpoch |-> 1, enqueued |-> 0, applied |-> 0,
             task |-> None, flush |-> FALSE, failing |-> FALSE]
    BY <1>2 DEF NewPump
  <2> QED BY <1>1, <1>3, <2>1 DEF Pump
<1>5. Free \in Task /\ Free.at = "free"
  BY DEF Free, Task
<1>6. fl \in [Flusher -> Task] /\ \A f \in Flusher : fl[f].at = "free"
  BY <1>2, <1>5
<1>7. NotDraining \in Drains /\ NotDraining.at = "idle" /\ NotDraining.error = FALSE
  BY DEF NotDraining, Drains
<1>8. /\ drain \in [Drainer -> Drains] /\ \A i \in Drainer : drain[i].at = "idle"
      /\ drain[Reader].error = FALSE
  BY <1>1, <1>2, <1>7
<1>9. TypeInv
  <2>1. closer \in [at: {"no", "joining", "joined", "closed"}, task: Flusher \cup {None}]
    BY <1>2 DEF Closer
  <2> QED BY <1>1, <1>2, <1>3, <1>4, <1>6, <1>8, <2>1 DEF TypeInv
<1>10. PendingInv
  <2>1. p.enqueued = p.applied + Len(p.pending) /\ p.pendingEpoch <= epoch
    BY <1>2, <1>3, <1>4
  <2>2. p.pending \in Seq(EffectOf(Kind, {p.pendingEpoch}))
    BY <1>3, <1>4
  <2> QED BY <1>4, <2>1, <2>2 DEF PendingInv, Sound
<1>11. TaskInv
  BY <1>4, <1>6 DEF TaskInv, TaskOf, Working, Closing, Applying
<1>12. DrainInv
  BY <1>8 DEF DrainInv, DrainOf
<1>13. ReaderInv
  <2>1. closer.at = "no"
    BY <1>2 DEF Closer
  <2> QED BY <1>1, <1>2, <1>4, <1>6, <1>8, <2>1 DEF ReaderInv, Applying, Drained
<1>14. OrderInv
  <2>1. /\ \A ep : OfEpoch(<<>>, ep) = <<>>
        /\ Sends(<<>>) = <<>> /\ <<>> \o <<>> = <<>>
    BY <1>3, OnlyEmpty, ConcatEmptySeq DEF Sends, OfEpoch
  <2>2. IsPrefix(<<>>, <<>>)
    BY <1>3, <2>1, ConcatIsPrefix
  <2>3. InOrder(sent, emitted)
    BY <1>2, <2>1, <2>2 DEF InOrder
  <2>4. Follows(sent, emitted, epoch, p.pending)
    BY <1>2, <1>4, <2>1 DEF Follows
  <2> QED BY <1>2, <1>3, <2>3, <2>4 DEF OrderInv
<1>15. ClosesOwnTransport
  BY <1>2 DEF ClosesOwnTransport
<1> QED BY <1>9, <1>10, <1>11, <1>12, <1>13, <1>14, <1>15 DEF LaneInv

\* Every step of the pump, its callers and its connection keeps the lane.
LEMMA NextLane ==
    ASSUME LaneInv, [Next]_vars
    PROVE  LaneInv'
<1>1. CASE UNCHANGED vars
  <2>1. /\ p' = p /\ fl' = fl /\ drain' = drain /\ epoch' = epoch /\ writer' = writer
        /\ transport' = transport /\ reader' = reader /\ closer' = closer /\ emitted' = emitted
        /\ sent' = sent /\ failed' = failed /\ closedBy' = closedBy
    BY <1>1 DEF vars
  <2>2. TypeInv' /\ PendingInv' /\ OrderInv' /\ ClosesOwnTransport'
    BY <2>1 DEF LaneInv, TypeInv, PendingInv, OrderInv, ClosesOwnTransport
  <2>3. TaskInv'
    BY <2>1 DEF LaneInv, TaskInv, TaskOf, Working, Closing, Applying
  <2>4. DrainInv'
    BY <2>1 DEF LaneInv, DrainInv, DrainOf, Flushes, Working, Closing
  <2>5. ReaderInv'
    BY <2>1 DEF LaneInv, ReaderInv, Applying, Drained, Online
  <2> QED BY <2>2, <2>3, <2>4, <2>5 DEF LaneInv
<1>2. CASE Collect
  BY <1>2, CollectStep
<1>3. CASE DrainInline
  BY <1>3, DrainInlineStep
<1>4. ASSUME NEW i \in Drainer, BeginDrain(i) \/ ResumeDrain(i) \/ CancelDrain(i)
      PROVE  LaneInv'
  BY <1>4, BeginDrainStep, ResumeDrainStep, CancelDrainStep
<1>5. ASSUME NEW f \in Flusher, FlusherSteps(f)
      PROVE  LaneInv'
  BY <1>5, FlusherStartsStep, SendAppliedStep, CloseTransportStep, CloseAppliedStep,
     FlusherClosedStep, FlusherCancelledStep, DoneStep DEF FlusherSteps
<1>6. CASE Retire \/ RetireDrains \/ ReaderEnds
  BY <1>6, RetireStep, RetireDrainsStep, ReaderEndsStep
<1>7. CASE ForceClose \/ ForceCloseEnds \/ Dial
  BY <1>7, ForceCloseStep, ForceCloseEndsStep, DialStep
<1>8. CASE WriterExits
  BY <1>8, WriterExitsStep
<1> QED BY <1>1, <1>2, <1>3, <1>4, <1>5, <1>6, <1>7, <1>8 DEF Next

\* The inductive invariant: who may apply an effect, what each drain() still
\* waits for, and where every send is.
THEOREM LaneInvariant == Spec => []LaneInv
<1>1. Init => LaneInv
  BY InitLane
<1>2. LaneInv /\ [Next]_vars => LaneInv'
  BY NextLane
<1> QED BY <1>1, <1>2, PTL DEF Spec

\* Sends reach a connection only through a writer that runs.
OutputInv == output \in {"runs", "exited", "parks", "shut"} /\ (writer => output = "runs")

\* A flusher that goes on leaves the writer alone, or its failing send shuts it.
LEMMA OutputHold ==
    ASSUME OutputInv, NEW f, NEW x, NEW ds, NEW s, Hold(f, x, ds, s)
    PROVE  OutputInv'
<1>1. UNCHANGED link \/ (writer' = FALSE /\ output' \in {"shut", output})
  BY DEF Hold, Fail
<1> QED BY <1>1 DEF OutputInv, link

\* Whoever shuts, retires, stops or loses the writer says so in both variables.
LEMMA NextOutput ==
    ASSUME OutputInv, [Next]_vars
    PROVE  OutputInv'
<1>1. CASE UNCHANGED link
  BY <1>1 DEF OutputInv, link
<1>2. ASSUME NEW o, WriterAfter(o)
      PROVE  OutputInv'
  BY <1>2 DEF OutputInv, WriterAfter
<1>3. CASE UNCHANGED vars
  BY <1>1, <1>3 DEF vars, link
<1>4. CASE Collect
  <2>1. UNCHANGED link \/ Shut
    BY <1>4 DEF Collect, link
  <2> QED BY <1>1, <2>1 DEF Shut, OutputInv
<1>5. CASE DrainInline
  BY <1>2, <1>5 DEF DrainInline
<1>6. ASSUME NEW i \in Drainer, BeginDrain(i) \/ ResumeDrain(i) \/ CancelDrain(i)
      PROVE  OutputInv'
  BY <1>1, <1>2, <1>6 DEF BeginDrain, Drain, ResumeDrain, CancelDrain
<1>7. ASSUME NEW f \in Flusher, FlusherSteps(f)
      PROVE  OutputInv'
  <2>1. CASE FlusherStarts(f)
    BY <2>1, OutputHold DEF FlusherStarts
  <2>2. CASE SendApplied(f)
    BY <2>2, OutputHold DEF SendApplied
  <2>3. CASE CloseTransport(f)
    BY <2>3 DEF CloseTransport, OutputInv
  <2>4. CASE CloseApplied(f)
    BY <2>4, OutputHold DEF CloseApplied
  <2>5. CASE FlusherClosed(f) \/ FlusherCancelled(f) \/ Done(f)
    BY <1>1, <2>5 DEF FlusherClosed, FlusherCancelled, Done
  <2> QED BY <1>7, <2>1, <2>2, <2>3, <2>4, <2>5 DEF FlusherSteps
<1>8. CASE WriterExits
  BY <1>8 DEF WriterExits, OutputInv
<1>9. CASE Retire \/ ForceClose
  BY <1>9 DEF Retire, ForceClose, NextEpoch, OutputInv
<1>10. CASE RetireDrains
  BY <1>2, <1>10 DEF RetireDrains, Drain
<1>11. CASE ReaderEnds \/ ForceCloseEnds
  BY <1>11 DEF ReaderEnds, ForceCloseEnds, Stopped, OutputInv
<1>12. CASE Dial
  BY <1>12 DEF Dial, OutputInv
<1> QED BY <1>3, <1>4, <1>5, <1>6, <1>7, <1>8, <1>9, <1>10, <1>11, <1>12 DEF Next

\* The two variables of the writer agree in every reachable state.
LEMMA OutputInvariant == Spec => []OutputInv
<1>1. Init => OutputInv
  BY DEF Init, OutputInv
<1>2. OutputInv /\ [Next]_vars => OutputInv'
  BY NextOutput
<1> QED BY <1>1, <1>2, PTL DEF Spec

\* Positions, a worker for whoever waits, one holder of the lock, and closes
\* that only reach their own transport
LEMMA LaneIsExact ==
    ASSUME LaneInv, OutputInv
    PROVE  LaneExact
<1>1. TypeOK
  <2>1. /\ p.pending \in Seq(Effect) /\ p.enqueued \in Nat /\ p.applied \in Nat
        /\ p.pendingEpoch \in 1..MaxEpoch /\ p.task \in Flusher \cup {None}
        /\ epoch \in 1..MaxEpoch /\ transport \in 0..epoch /\ MaxEpoch \in Nat /\ Sound(p)
    BY EffectAssumptions DEF LaneInv, TypeInv, Pump, PendingInv
  <2>2. p.applied \in 0..p.enqueued
    <3>1. Len(p.pending) \in Nat /\ p.enqueued = p.applied + Len(p.pending)
      BY <2>1, LenProperties DEF Sound
    <3> QED BY <2>1, <3>1
  <2>3. transport \in 0..MaxEpoch
    BY <2>1
  <2>4. \A f \in Flusher : fl[f].at \in {"free", "ready", "applying", "closing", "done"}
    BY DEF LaneInv, TypeInv, Task
  <2>5. \A i \in Drainer : drain[i].at \in {"idle", "retiring", "waiting", "woken", "ok", "raised"}
    BY DEF LaneInv, TypeInv, Drains
  <2> QED BY <2>1, <2>2, <2>3, <2>4, <2>5 DEF TypeOK, OutputInv
<1>2. PositionsExact
  <2>1. /\ p.pending \in Seq(Effect) /\ p.enqueued \in Nat /\ p.applied \in Nat /\ Len(p.pending) \in Nat
        /\ p.enqueued = p.applied + Len(p.pending)
    BY LenProperties DEF LaneInv, PendingInv, Sound, Pump
  <2> QED BY <2>1 DEF PositionsExact
<1>3. SomebodyFlushes
  <2> DEFINE H == {f \in Flusher : fl[f].at \in {"applying", "closing"}}
  <2>1. \A f, g \in H : f = g
    <3>1. SUFFICES ASSUME NEW f \in H, NEW g \in H, f # g
                   PROVE  FALSE
      OBVIOUS
    <3>2. CASE Closing(f) /\ Closing(g)
      BY <3>1, <3>2 DEF LaneInv, TaskInv
    <3>3. CASE Working(f)
      BY <3>1, <3>3, WorksAlone DEF Working, Closing
    <3>4. CASE Working(g)
      BY <3>1, <3>4, WorksAlone DEF Working, Closing
    <3> QED BY <3>1, <3>2, <3>3, <3>4 DEF Working, Closing
  <2>2. Cardinality(H) <= 1
    <3>1. CASE H = {}
      <4>1. Cardinality(H) = 0
        BY <3>1, FS_EmptySet
      <4> QED BY <4>1
    <3>2. CASE H # {}
      <4>1. PICK f \in H : H = {f}
        BY <2>1, <3>2
      <4>2. Cardinality({f}) = 1
        BY FS_Singleton
      <4>3. Cardinality(H) = 1
        <5> HIDE DEF H
        <5> QED BY <4>1, <4>2
      <4> QED BY <4>3
    <3> QED BY <3>1, <3>2
  <2>3. \A f \in Flusher : Flushes(f) =>
          fl[f].at \in {"ready", "applying", "closing"} \/ (fl[f].at = "done" /\ p.task = f /\ p.flush)
    BY DEF Flushes, Working, Closing
  <2>4. (\E i \in Drainer : drain[i].at = "waiting") => \E f \in Flusher : Flushes(f)
    BY DEF LaneInv, DrainInv
  <2> QED BY <2>2, <2>3, <2>4 DEF SomebodyFlushes
<1> QED BY <1>1, <1>2, <1>3 DEF LaneInv, LaneExact

\* The lane is exact: its two positions differ by what is pending, whoever waits
\* has a flusher to be woken by, one task at most applies effects, and a close
\* effect never reaches a later connection's transport.
THEOREM LaneAlwaysExact == Spec => []LaneExact
<1>1. LaneInv /\ OutputInv => LaneExact
  BY LaneIsExact
<1> QED BY <1>1, LaneInvariant, OutputInvariant, PTL

\* No drain() returns as if everything had been applied when an effect in its
\* range failed.
THEOREM FailuresReported == Spec => []FailureReported
<1>1. LaneInv => FailureReported
  BY DEF LaneInv, DrainInv, DrainOf, FailureReported
<1> QED BY <1>1, LaneInvariant, PTL

\* Each connection's writer gets the sends the engine emitted for it, in order
\* and without a gap, and while it accepts the rest of them is pending.
THEOREM SendsInOrder == Spec => []SendOrder
<1>1. LaneInv => SendOrder
  BY DEF LaneInv, OrderInv, InOrder, Follows, SendOrder
<1> QED BY <1>1, LaneInvariant, PTL
=============================================================================
