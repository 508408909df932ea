----------------------- MODULE IteratorDeliveryProofs -----------------------
(***************************************************************************)
(* StreamExact and AckedNeverLost of IteratorDelivery, for any number of   *)
(* iterators, messages, sizes, bounds, streams and reconnections.          *)
(*                                                                         *)
(* StreamInv is the inductive invariant.  What makes AckedNeverLost        *)
(* inductive is where the reader stands: its lot is the end of what        *)
(* arrived, so what arrived before it is settled, and of that exactly the  *)
(* owed messages whose deadline did not pass were committed.               *)
(***************************************************************************)
EXTENDS IteratorDelivery, SeqFoldsProofs, FiniteSetTheorems

Delivery ==
    [queue : Seq(Message), bytes : Nat, accounted : BOOLEAN, closed : BOOLEAN,
     stream : Nat, waiting : Nat \cup {-1}, admission : Nat]
ReaderTask ==
    [at : {"idle", "waiting", "woken"}, lot : Seq(Message), stale : BOOLEAN, generation : Nat]
Iterators == [at : {"none", "open", "waiting", "woken", "ended", "refused"}, stream : Nat]

TypeInv ==
    /\ d \in Delivery /\ d.waiting <= d.stream
    /\ reader \in ReaderTask
    /\ it \in [Iterator -> Iterators]
    /\ \A i \in Iterator : it[i].stream <= d.stream
    /\ connected \in BOOLEAN
    /\ committed \in Seq(Message) /\ given \in Seq(Message)

\* What was decoded: numbered in order, and the lot is what nobody settled yet.
LotInv ==
    /\ arrived \in Seq(Message) /\ Len(arrived) <= MaxArrivals
    /\ \A n \in 1..Len(arrived) : arrived[n].id = n
    /\ \A n \in 1..Len(reader.lot) : ~reader.lot[n].expired
    /\ reader.lot # <<>> => connected
    /\ reader.at # "idle" => reader.lot # <<>> /\ ~TooLarge(Head(reader.lot))

\* The messages of the two exceptions are not in these sets.
OwedSet == {m \in Message : m.acked /\ ~TooLarge(m)}
AckedSet == {m \in Message : m.acked}
UnexpiredSet == {m \in Message : ~m.expired}
Kept(s, O) == Only(Only(s, O), UnexpiredSet)

\* Of a = s \o lot, the part s is settled, and c was committed for it.
Settles(s, a, c, lot, O) ==
    /\ a = s \o lot
    /\ Only(c, O) = Kept(s, O)
OwedInv == \E s \in Seq(Message) : Settles(s, arrived, committed, reader.lot, OwedSet)

\* The iterators of the current stream that wait: one at most, and
\* _waiting_generation knows whether there is one.
There == {i \in Iterator : it[i].at \in {"waiting", "woken"} /\ it[i].stream = d.stream}
WaiterInv ==
    /\ \A i, j \in There : i = j
    /\ (d.waiting = d.stream) <=> (There # {})

IteratorWaits(i) ==
    it[i].at = "waiting" => d.queue = <<>> /\ ~d.closed /\ it[i].stream = d.stream
ReaderWaits ==
    reader.at = "waiting" => Full(Head(reader.lot)) /\ reader.generation = d.admission
WaitInv == (\A i \in Iterator : IteratorWaits(i)) /\ ReaderWaits

StreamInv ==
    TypeInv /\ LotInv /\ OwedInv /\ StreamIntact /\ ChargeExact /\ WaiterInv /\ WaitInv

-----------------------------------------------------------------------------
(***************************************************************************)
(* What is owed                                                            *)
(***************************************************************************)

\* The sizes of messages are numbers and not zero.
LEMMA MessageSizes == \A m \in Message : m.size \in Nat \ {0}
BY DeliveryAssumptions DEF Message

\* Filtered messages are messages.
LEMMA OnlyMessages ==
    ASSUME NEW S
    PROVE  \A s \in Seq(Message) : Only(s, S) \in Seq(Message)
<1>1. TAKE s \in Seq(Message)
<1>2. Only(s, S) \in Seq(Message \cap S) /\ Message \cap S \subseteq Message
  BY OnlyTyped
<1> HIDE DEF Message
<1> QED BY <1>2, SeqMonotonic

\* What is kept of a concatenation
LEMMA KeptConcat ==
    ASSUME NEW O, NEW s \in Seq(Message), NEW u \in Seq(Message)
    PROVE  /\ Kept(s, O) \in Seq(Message) /\ Kept(u, O) \in Seq(Message)
           /\ Kept(s \o u, O) = Kept(s, O) \o Kept(u, O)
<1>1. Only(s, O) \in Seq(Message) /\ Only(u, O) \in Seq(Message)
  BY OnlyMessages
<1>2. Only(s \o u, O) = Only(s, O) \o Only(u, O)
  BY OnlyConcat
<1>3. Kept(s, O) \in Seq(Message) /\ Kept(u, O) \in Seq(Message)
  BY <1>1, OnlyMessages DEF Kept
<1>4. Only(Only(s, O) \o Only(u, O), UnexpiredSet) = Kept(s, O) \o Kept(u, O)
  <2> DEFINE a == Only(s, O)
             b == Only(u, O)
  <2>1. a \in Seq(Message) /\ b \in Seq(Message)
    BY <1>1
  <2> HIDE DEF a, b, UnexpiredSet, Message
  <2>2. Only(a \o b, UnexpiredSet) = Only(a, UnexpiredSet) \o Only(b, UnexpiredSet)
    BY <2>1, OnlyConcat
  <2> QED BY <2>2 DEF a, b, Kept
<1> QED BY <1>2, <1>3, <1>4 DEF Kept

\* What has no expired message is kept.
LEMMA KeptUnexpired ==
    ASSUME NEW O, NEW s \in Seq(Message), \A n \in 1..Len(s) : ~s[n].expired
    PROVE  Kept(s, O) = Only(s, O)
<1>1. s \in Seq(UnexpiredSet)
  <2>1. \A n \in 1..Len(s) : s[n] \in UnexpiredSet
    BY ElementOfSeq DEF UnexpiredSet
  <2> HIDE DEF UnexpiredSet
  <2> QED BY <2>1
<1>2. Only(s, O) \in Seq(UnexpiredSet)
  <2>1. Only(s, O) \in Seq(UnexpiredSet \cap O)
    BY <1>1, OnlyTyped
  <2> QED BY <2>1, SeqMonotonic
<1> QED BY <1>2, OnlyAll DEF Kept

\* One message that is not owed, or that expired
LEMMA KeptNot ==
    ASSUME NEW O, NEW m \in Message, m \notin O \/ m.expired
    PROVE  Kept(<<m>>, O) = <<>>
<1>1. <<m>> \in Seq({m})
  OBVIOUS
<1>2. CASE m \notin O
  <2>1. {m} \cap O = {}
    BY <1>2
  <2>2. Only(<<m>>, O) = <<>>
    BY <1>1, <2>1, OnlyNone
  <2> QED BY <2>2, OnlyEmpty DEF Kept
<1>3. CASE m.expired
  <2>1. Only(<<m>>, O) \in Seq({m} \cap O)
    BY <1>1, OnlyTyped
  <2>2. ({m} \cap O) \cap UnexpiredSet = {}
    BY <1>3 DEF UnexpiredSet
  <2> DEFINE P == {m} \cap O
             o == Only(<<m>>, O)
  <2>3. o \in Seq(P) /\ P \cap UnexpiredSet = {}
    BY <2>1, <2>2
  <2> HIDE DEF P, o, UnexpiredSet
  <2>4. Only(o, UnexpiredSet) = <<>>
    BY <2>3, OnlyNone
  <2> QED BY <2>4 DEF o, Kept
<1> QED BY <1>2, <1>3

\* A sequence that is not empty is its head and its tail.
LEMMA HeadAndTail ==
    ASSUME NEW T, NEW s \in Seq(T), s # <<>>
    PROVE  /\ Head(s) \in T /\ Tail(s) \in Seq(T) /\ s = <<Head(s)>> \o Tail(s)
           /\ Len(s) \in Nat \ {0} /\ Len(Tail(s)) = Len(s) - 1 /\ Head(s) = s[1]
           /\ \A n \in 1..Len(Tail(s)) : Tail(s)[n] = s[n + 1]
<1>1. /\ Head(s) \in T /\ Tail(s) \in Seq(T) /\ Len(Tail(s)) = Len(s) - 1
      /\ \A n \in 1..Len(Tail(s)) : Tail(s)[n] = s[n + 1]
  BY HeadTailProperties
<1>2. Len(s) \in Nat \ {0} /\ Head(s) = s[1]
  BY LenProperties, EmptySeq
<1>3. s = <<Head(s)>> \o Tail(s)
  <2> DEFINE h == <<Head(s)>>
             t == Tail(s)
  <2>1. h \in Seq(T) /\ Len(h) = 1 /\ h[1] = s[1]
    BY <1>1, <1>2
  <2>2. t \in Seq(T) /\ Len(t) = Len(s) - 1 /\ \A n \in 1..Len(t) : t[n] = s[n + 1]
    BY <1>1
  <2> HIDE DEF h, t
  <2>3. /\ h \o t \in Seq(T) /\ Len(h \o t) = Len(h) + Len(t)
        /\ \A n \in 1..Len(h) + Len(t) : (h \o t)[n] = IF n <= Len(h) THEN h[n] ELSE t[n - Len(h)]
    <3>1. h \in Seq(T) /\ t \in Seq(T)
      BY <2>1, <2>2
    <3> QED BY <3>1, ConcatProperties
  <2>4. Len(h \o t) = Len(s)
    BY <1>2, <2>1, <2>2, <2>3
  <2>5. ASSUME NEW n \in 1..Len(s)
        PROVE  (h \o t)[n] = s[n]
    <3>1. CASE n = 1
      BY <1>2, <2>1, <2>2, <2>3, <3>1
    <3>2. CASE n # 1
      <4>1. n - 1 \in 1..Len(t) /\ (n - 1) + 1 = n
        BY <1>2, <2>2, <3>2
      <4>2. (h \o t)[n] = t[n - 1]
        BY <1>2, <2>1, <2>2, <2>3, <3>2
      <4> QED BY <2>2, <4>1, <4>2
    <3> QED BY <3>1, <3>2
  <2>6. h \o t = s
    BY <2>3, <2>4, <2>5, SeqEqual
  <2> QED BY <2>6 DEF h, t
<1> QED BY <1>1, <1>2, <1>3

\* The head of the lot is settled: the rest is what is left.
LEMMA SplitLot ==
    ASSUME NEW s \in Seq(Message), NEW lot \in Seq(Message), lot # <<>>
    PROVE  /\ s \o <<Head(lot)>> \in Seq(Message)
           /\ s \o lot = (s \o <<Head(lot)>>) \o Tail(lot)
<1> DEFINE h == <<Head(lot)>>
           t == Tail(lot)
<1>1. h \in Seq(Message) /\ t \in Seq(Message) /\ lot = h \o t
  BY HeadAndTail
<1> HIDE DEF h, t, Message
<1>2. s \o h \in Seq(Message) /\ (s \o h) \o t = s \o (h \o t)
  BY <1>1, ConcatProperties, ConcatAssociative
<1> QED BY <1>1, <1>2 DEF h, t

\* It is dropped, and nobody is owed it.
LEMMA SettleDropped ==
    ASSUME NEW O, NEW s \in Seq(Message), NEW a \in Seq(Message), NEW c \in Seq(Message),
           NEW lot \in Seq(Message), lot # <<>>, Settles(s, a, c, lot, O), Head(lot) \notin O
    PROVE  Settles(s \o <<Head(lot)>>, a, c, Tail(lot), O)
<1>1. Head(lot) \in Message /\ <<Head(lot)>> \in Seq(Message)
  BY HeadAndTail
<1>2. Kept(<<Head(lot)>>, O) = <<>>
  BY <1>1, KeptNot
<1>3. Kept(s \o <<Head(lot)>>, O) = Kept(s, O) \o <<>> /\ Kept(s, O) \in Seq(Message)
  <2> DEFINE h == <<Head(lot)>>
  <2>1. h \in Seq(Message) /\ Kept(h, O) = <<>>
    BY <1>1, <1>2
  <2> HIDE DEF h
  <2>2. Kept(s \o h, O) = Kept(s, O) \o Kept(h, O) /\ Kept(s, O) \in Seq(Message)
    BY <2>1, KeptConcat
  <2> QED BY <2>1, <2>2 DEF h
<1>4. Kept(s \o <<Head(lot)>>, O) = Kept(s, O)
  BY <1>3, ConcatEmptySeq
<1> QED BY <1>4, SplitLot DEF Settles

\* It is committed.
LEMMA SettleCommitted ==
    ASSUME NEW O, NEW s \in Seq(Message), NEW a \in Seq(Message), NEW c \in Seq(Message),
           NEW lot \in Seq(Message), lot # <<>>, Settles(s, a, c, lot, O), ~Head(lot).expired
    PROVE  Settles(s \o <<Head(lot)>>, a, c \o <<Head(lot)>>, Tail(lot), O)
<1> DEFINE h == <<Head(lot)>>
<1>1. h \in Seq(Message) /\ \A n \in 1..Len(h) : ~h[n].expired
  BY HeadAndTail
<1> HIDE DEF h
<1>2. Kept(h, O) = Only(h, O)
  BY <1>1, KeptUnexpired
<1>3. Kept(s \o h, O) = Kept(s, O) \o Only(h, O)
  BY <1>1, <1>2, KeptConcat
<1>4. Only(c \o h, O) = Only(c, O) \o Only(h, O)
  BY <1>1, OnlyConcat
<1> QED BY <1>3, <1>4, SplitLot DEF Settles, h

\* The reader ends: the acknowledged rest of its lot is committed.
LEMMA SettleRest ==
    ASSUME NEW O, O \subseteq AckedSet,
           NEW s \in Seq(Message), NEW a \in Seq(Message), NEW c \in Seq(Message),
           NEW lot \in Seq(Message), Settles(s, a, c, lot, O),
           \A n \in 1..Len(lot) : ~lot[n].expired
    PROVE  Settles(a, a, c \o Only(lot, AckedSet), <<>>, O)
<1>1. Kept(a, O) = Kept(s, O) \o Only(lot, O)
  <2>1. Kept(s \o lot, O) = Kept(s, O) \o Kept(lot, O)
    BY KeptConcat
  <2>2. Kept(lot, O) = Only(lot, O)
    BY KeptUnexpired
  <2> QED BY <2>1, <2>2 DEF Settles
<1>2. Only(lot, AckedSet) \in Seq(Message)
  BY OnlyMessages
<1>3. Only(Only(lot, AckedSet), O) = Only(lot, O)
  BY OnlyWithin
<1>4. Only(c \o Only(lot, AckedSet), O) = Only(c, O) \o Only(lot, O)
  <2>1. Only(c \o Only(lot, AckedSet), O) = Only(c, O) \o Only(Only(lot, AckedSet), O)
    BY <1>2, OnlyConcat, ZenonT(40)
  <2> QED BY <1>3, <2>1
<1>5. a = a \o <<>>
  BY ConcatEmptySeq
<1> QED BY <1>1, <1>4, <1>5 DEF Settles

Expire(a, k) == [a EXCEPT ![k].expired = TRUE]

\* The deadline of the head of the lot passes: it leaves the lot marked.
LEMMA SettleExpired ==
    ASSUME NEW O, NEW s \in Seq(Message), NEW a \in Seq(Message), NEW c \in Seq(Message),
           NEW lot \in Seq(Message), lot # <<>>, Settles(s, a, c, lot, O),
           \A n \in 1..Len(a) : a[n].id = n,
           NEW b, b = Expire(a, Head(lot).id)
    PROVE  /\ b \in Seq(Message) /\ Len(b) = Len(a)
           /\ \A n \in 1..Len(b) : b[n].id = n
           /\ \E u \in Seq(Message) : Settles(u, b, c, Tail(lot), O)
<1> DEFINE m == Head(lot)
           k == Len(s) + 1
           e == [m EXCEPT !.expired = TRUE]
           t == Tail(lot)
           u == s \o <<e>>
<1>1. /\ m \in Message /\ t \in Seq(Message) /\ Len(lot) \in Nat \ {0} /\ m = lot[1]
      /\ Len(t) = Len(lot) - 1 /\ \A n \in 1..Len(t) : t[n] = lot[n + 1]
  BY HeadAndTail
<1>2. e \in Message /\ e.expired /\ e.id = m.id
  BY <1>1 DEF Message
<1>3. Len(s) \in Nat
  BY LenProperties
<1>4. a = s \o lot /\ Len(a) = Len(s) + Len(lot)
  BY ConcatProperties DEF Settles
<1>5. \A n \in 1..Len(s) : a[n] = s[n]
  <2>1. \A n \in 1..Len(s) + Len(lot) :
           (s \o lot)[n] = IF n <= Len(s) THEN s[n] ELSE lot[n - Len(s)]
    BY ConcatProperties
  <2> QED BY <1>1, <1>3, <1>4, <2>1
<1>6. \A n \in k..Len(a) : a[n] = lot[n - Len(s)]
  <2>1. \A n \in 1..Len(s) + Len(lot) :
           (s \o lot)[n] = IF n <= Len(s) THEN s[n] ELSE lot[n - Len(s)]
    BY ConcatProperties
  <2> QED BY <1>1, <1>3, <1>4, <2>1
<1>7. k \in 1..Len(a) /\ a[k] = m /\ m.id = k
  <2>1. k \in 1..Len(a) /\ k \in k..Len(a) /\ k - Len(s) = 1
    BY <1>1, <1>3, <1>4
  <2>2. a[k] = lot[1]
    BY <1>6, <2>1
  <2> QED BY <1>1, <2>1, <2>2
<1>8. /\ b \in Seq(Message) /\ Len(b) = Len(a) /\ b[k] = e
      /\ \A n \in 1..Len(a) : n # k => b[n] = a[n]
  <2>1. b = [a EXCEPT ![k] = e]
    BY <1>7 DEF Expire
  <2>2. k \in 1..Len(a) /\ e \in Message
    BY <1>2, <1>7
  <2> HIDE DEF e, k, Message
  <2>3. /\ [a EXCEPT ![k] = e] \in Seq(Message)
        /\ Len([a EXCEPT ![k] = e]) = Len(a)
        /\ \A n \in 1..Len(a) : [a EXCEPT ![k] = e][n] = IF n = k THEN e ELSE a[n]
    BY <2>2, ExceptSeq
  <2> QED BY <2>1, <2>2, <2>3
<1>9. \A n \in 1..Len(b) : b[n].id = n
  BY <1>2, <1>7, <1>8
<1> HIDE DEF e, t, m
<1>10. u \in Seq(Message) /\ Len(u) = k /\ u[k] = e /\ \A n \in 1..Len(s) : u[n] = s[n]
  <2>1. u = Append(s, e)
    BY <1>2, AppendIsConcat
  <2> QED BY <1>2, <2>1, AppendProperties
<1> HIDE DEF u
<1>11. b = u \o t
  <2>1. /\ u \o t \in Seq(Message) /\ Len(u \o t) = k + Len(t)
        /\ \A n \in 1..k + Len(t) : (u \o t)[n] = IF n <= k THEN u[n] ELSE t[n - k]
    <3>1. u \in Seq(Message) /\ t \in Seq(Message) /\ Len(u) = k
      BY <1>1, <1>10
    <3> HIDE DEF k
    <3> QED BY <3>1, ConcatProperties
  <2>2. Len(u \o t) = Len(b)
    <3>1. Len(u \o t) = k + Len(t) /\ Len(b) = Len(s) + Len(lot) /\ Len(t) = Len(lot) - 1
      BY <1>1, <1>4, <1>8, <2>1
    <3>2. PICK i, j : i = Len(s) /\ j = Len(lot)
      OBVIOUS
    <3>3. i \in Nat /\ j \in Nat /\ Len(u \o t) = (i + 1) + (j - 1) /\ Len(b) = i + j
      BY <1>1, <1>3, <3>1, <3>2
    <3>4. (i + 1) + (j - 1) = i + j
      BY <3>3
    <3> QED BY <3>3, <3>4
  <2>3. ASSUME NEW n \in 1..Len(b)
        PROVE  b[n] = (u \o t)[n]
    <3>1. n \in 1..k + Len(t) /\ n \in 1..Len(a)
      BY <1>8, <2>1, <2>2
    <3>2. CASE n < k
      <4>1. n \in 1..Len(s) /\ n # k /\ n <= k
        BY <1>3, <3>2
      <4> QED BY <1>5, <1>8, <1>10, <2>1, <3>1, <4>1
    <3>3. CASE n = k
      <4>1. k <= k /\ k \in 1..k + Len(t)
        BY <1>3, <3>1, <3>3
      <4>2. (u \o t)[k] = u[k]
        BY <2>1, <4>1
      <4> QED BY <1>8, <1>10, <3>3, <4>2
    <3>4. CASE n > k
      <4>1. n - k \in 1..Len(t) /\ n - Len(s) = (n - k) + 1 /\ n \in k..Len(a) /\ n # k /\ ~(n <= k)
        BY <1>1, <1>3, <1>4, <3>1, <3>4
      <4> QED BY <1>1, <1>6, <1>8, <2>1, <3>1, <4>1
    <3>5. n < k \/ n = k \/ n > k
      <4>1. n \in Nat /\ k \in Nat
        BY <1>3, <3>1
      <4> QED BY <4>1
    <3> QED BY <3>2, <3>3, <3>4, <3>5
  <2> QED BY <1>8, <2>1, <2>2, <2>3, SeqEqual
<1>12. Only(c, O) = Kept(u, O)
  <2>1. <<e>> \in Seq(Message) /\ Kept(<<e>>, O) = <<>>
    BY <1>2, KeptNot
  <2>2. Kept(u, O) = Kept(s, O) \o Kept(<<e>>, O) /\ Kept(s, O) \in Seq(Message)
    <3> DEFINE h == <<e>>
    <3>1. h \in Seq(Message)
      BY <2>1
    <3> HIDE DEF h
    <3>2. Kept(s \o h, O) = Kept(s, O) \o Kept(h, O) /\ Kept(s, O) \in Seq(Message)
      BY <3>1, KeptConcat
    <3> QED BY <3>2 DEF h, u
  <2>3. Kept(s, O) \o <<>> = Kept(s, O)
    BY <2>2, ConcatEmptySeq
  <2> QED BY <2>1, <2>2, <2>3 DEF Settles
<1> QED BY <1>8, <1>9, <1>10, <1>11, <1>12 DEF Settles, t

-----------------------------------------------------------------------------
(***************************************************************************)
(* The queue and those who wait                                            *)
(***************************************************************************)

\* Two values of the stream that only differ in what was put into its queue
SameStream(x, y) ==
    /\ x.accounted = y.accounted /\ x.closed = y.closed /\ x.stream = y.stream
    /\ x.waiting = y.waiting /\ x.admission = y.admission

\* What is put into the queue is charged, and promised.
LEMMA CommitStep ==
    ASSUME TypeInv, StreamIntact, ChargeExact, NEW x \in Delivery, NEW s \in Seq(Message),
           x.queue = d.queue, x.bytes = d.bytes, x.accounted = d.accounted,
           Commit(x, s), given' = given
    PROVE  /\ d' \in Delivery /\ SameStream(d', x) /\ d'.queue = d.queue \o s
           /\ committed' \in Seq(Message) /\ committed' = committed \o s
           /\ StreamIntact' /\ ChargeExact'
<1>1. d' = Put(x, s) /\ committed' = committed \o s
  BY DEF Commit
<1>2. d.queue \in Seq(Message) /\ committed \in Seq(Message) /\ given \in Seq(Message)
  BY DEF TypeInv, Delivery
<1>3. d.queue \o s \in Seq(Message) /\ committed \o s \in Seq(Message)
  BY <1>2, ConcatProperties
<1>4. TotalSize(d.queue) \in Nat /\ TotalSize(s) \in Nat
  BY <1>2, MessageSizes, TotalTyped
<1>5. TotalSize(d.queue \o s) = TotalSize(d.queue) + TotalSize(s)
  BY <1>2, MessageSizes, TotalConcat
<1>6. d'.queue = d.queue \o s /\ SameStream(d', x)
  BY <1>1 DEF Put, Delivery, SameStream
<1>7. d'.bytes = IF x.accounted THEN d.bytes + TotalSize(s) ELSE d.bytes
  BY <1>1 DEF Put, Delivery
<1>8. d' \in Delivery
  <2>1. d'.bytes \in Nat
    BY <1>4, <1>7 DEF TypeInv, Delivery
  <2>2. d' = [x EXCEPT !.queue = d.queue \o s, !.bytes = d'.bytes]
    BY <1>1, <1>7 DEF Put, Delivery
  <2> QED BY <1>3, <2>1, <2>2 DEF Delivery
<1>9. StreamIntact'
  <2>1. (given \o d.queue) \o s = given \o (d.queue \o s)
    <3> DEFINE q == d.queue
    <3>1. q \in Seq(Message) /\ given \in Seq(Message)
      BY <1>2
    <3> HIDE DEF q, Message
    <3>2. (given \o q) \o s = given \o (q \o s)
      BY <3>1, ConcatAssociative
    <3> QED BY <3>2 DEF q
  <2> QED BY <1>1, <1>6, <2>1 DEF StreamIntact
<1>10. ChargeExact'
  BY <1>4, <1>5, <1>6, <1>7 DEF ChargeExact, SameStream
<1> QED BY <1>1, <1>3, <1>6, <1>8, <1>9, <1>10

\* Everyone who waits for a message is woken, and waits for none.
LEMMA ReadyStep ==
    ASSUME TypeInv, it' = Ready(it)
    PROVE  /\ it' \in [Iterator -> Iterators]
           /\ \A i \in Iterator :
                /\ it'[i].stream = it[i].stream /\ it'[i].at # "waiting"
                /\ it'[i].at \in {"waiting", "woken"} <=> it[i].at \in {"waiting", "woken"}
<1>1. SUFFICES ASSUME NEW i \in Iterator
               PROVE  /\ Ready(it)[i] \in Iterators
                      /\ Ready(it)[i].stream = it[i].stream /\ Ready(it)[i].at # "waiting"
                      /\ Ready(it)[i].at \in {"waiting", "woken"} <=> it[i].at \in {"waiting", "woken"}
  BY DEF Ready
<1>2. it[i] \in Iterators
  BY DEF TypeInv
<1>3. Ready(it)[i] = IF it[i].at = "waiting" THEN [it[i] EXCEPT !.at = "woken"] ELSE it[i]
  BY DEF Ready
<1> QED BY <1>2, <1>3 DEF Iterators

\* As long as nobody starts or stops waiting the one who waits is the same.
LEMMA WaiterKept ==
    ASSUME TypeInv, WaiterInv, d'.stream = d.stream, d'.waiting = d.waiting,
           \A i \in Iterator :
             /\ it'[i].stream = it[i].stream
             /\ it'[i].at \in {"waiting", "woken"} <=> it[i].at \in {"waiting", "woken"}
    PROVE  WaiterInv'
<1>1. There' = There
  BY DEF There
<1> QED BY <1>1 DEF WaiterInv

\* What a commit does to those who wait
LEMMA CommitWakes ==
    ASSUME TypeInv, WaiterInv, WaitInv, NEW x \in Delivery, NEW s \in Seq(Message),
           x.queue = d.queue, x.stream = d.stream, x.waiting = d.waiting, x.closed = d.closed,
           d' \in Delivery, SameStream(d', x), d'.queue = d.queue \o s, Commit(x, s)
    PROVE  /\ it' \in [Iterator -> Iterators]
           /\ \A i \in Iterator : it'[i].stream <= d'.stream
           /\ d'.waiting <= d'.stream
           /\ WaiterInv' /\ \A i \in Iterator : IteratorWaits(i)'
<1>1. d'.stream = d.stream /\ d'.waiting = d.waiting /\ d'.closed = d.closed
  BY DEF SameStream
<1>2. CASE s = <<>>
  <2>1. it' = it
    BY <1>2 DEF Commit
  <2>2. d'.queue = d.queue
    <3>1. d.queue \in Seq(Message)
      BY DEF TypeInv, Delivery
    <3> QED BY <1>2, <3>1, ConcatEmptySeq
  <2> QED BY <1>1, <2>1, <2>2, WaiterKept DEF TypeInv, WaitInv, IteratorWaits
<1>3. CASE s # <<>>
  <2>1. it' = Ready(it)
    BY <1>3 DEF Commit
  <2>2. /\ it' \in [Iterator -> Iterators]
        /\ \A i \in Iterator :
             /\ it'[i].stream = it[i].stream /\ it'[i].at # "waiting"
             /\ it'[i].at \in {"waiting", "woken"} <=> it[i].at \in {"waiting", "woken"}
    BY <2>1, ReadyStep
  <2>3. WaiterInv'
    BY <1>1, <2>2, WaiterKept
  <2> QED BY <1>1, <2>2, <2>3 DEF TypeInv, IteratorWaits
<1> QED BY <1>2, <1>3

-----------------------------------------------------------------------------
(***************************************************************************)
(* The reader's steps                                                      *)
(***************************************************************************)

\* Who is owed what depends on the mode only.
LEMMA OwedSetKept ==
    ASSUME d'.accounted = d.accounted
    PROVE  OwedSet' = OwedSet /\ OwedSet \subseteq AckedSet
BY DEF OwedSet, AckedSet, TooLarge

\* The head of the lot leaves it.
LEMMA RestStep ==
    ASSUME TypeInv, LotInv, reader.lot # <<>>, reader' = Rest(reader),
           arrived' = arrived, connected' = connected, d'.accounted = d.accounted
    PROVE  /\ reader' \in ReaderTask /\ reader'.lot = Tail(reader.lot)
           /\ LotInv' /\ ReaderWaits'
<1>1. reader \in ReaderTask /\ reader.lot \in Seq(Message)
  BY DEF TypeInv, ReaderTask
<1>2. /\ Tail(reader.lot) \in Seq(Message) /\ Len(reader.lot) \in Nat \ {0}
      /\ Len(Tail(reader.lot)) = Len(reader.lot) - 1
      /\ \A n \in 1..Len(Tail(reader.lot)) : Tail(reader.lot)[n] = reader.lot[n + 1]
  BY <1>1, HeadAndTail
<1>3. (reader.stale /\ Tail(reader.lot) # <<>>) \in BOOLEAN
  BY <1>1 DEF ReaderTask
<1>4. reader' = [at |-> "idle", lot |-> Tail(reader.lot),
                 stale |-> reader.stale /\ Tail(reader.lot) # <<>>, generation |-> 0]
  BY DEF Rest, NoReader
<1>5. reader' \in ReaderTask /\ reader'.lot = Tail(reader.lot) /\ reader'.at = "idle"
  BY <1>2, <1>3, <1>4 DEF ReaderTask
<1>6. \A n \in 1..Len(reader'.lot) : ~reader'.lot[n].expired
  <2>1. SUFFICES ASSUME NEW n \in 1..Len(Tail(reader.lot))
                 PROVE  ~Tail(reader.lot)[n].expired
    BY <1>5
  <2>2. n + 1 \in 1..Len(reader.lot)
    BY <1>2
  <2> QED BY <1>2, <2>2 DEF LotInv
<1>7. LotInv'
  BY <1>5, <1>6 DEF LotInv
<1> QED BY <1>5, <1>7 DEF ReaderWaits

\* ... because it was committed;
LEMMA CommitHead ==
    ASSUME StreamInv, reader.lot # <<>>, Commit(d, <<Head(reader.lot)>>), reader' = Rest(reader),
           UNCHANGED <<connected, arrived, given>>
    PROVE  StreamInv'
<1> USE DEF StreamInv
<1>1. d \in Delivery /\ reader.lot \in Seq(Message)
  BY DEF TypeInv, ReaderTask
<1>2. Head(reader.lot) \in Message /\ <<Head(reader.lot)>> \in Seq(Message)
      /\ ~Head(reader.lot).expired
  <2>1. /\ Head(reader.lot) \in Message /\ Head(reader.lot) = reader.lot[1]
        /\ Len(reader.lot) \in Nat \ {0}
    BY <1>1, HeadAndTail
  <2>2. 1 \in 1..Len(reader.lot)
    BY <2>1
  <2> QED BY <2>1, <2>2 DEF LotInv
<1>3. PICK s : s = <<Head(reader.lot)>>
  OBVIOUS
<1>4. /\ d' \in Delivery /\ SameStream(d', d) /\ d'.queue = d.queue \o s
      /\ committed' \in Seq(Message) /\ committed' = committed \o s
      /\ StreamIntact' /\ ChargeExact'
  BY <1>1, <1>2, <1>3, CommitStep
<1>5. /\ it' \in [Iterator -> Iterators]
      /\ \A i \in Iterator : it'[i].stream <= d'.stream
      /\ d'.waiting <= d'.stream
      /\ WaiterInv' /\ \A i \in Iterator : IteratorWaits(i)'
  BY <1>1, <1>2, <1>3, <1>4, CommitWakes
<1>6. d'.accounted = d.accounted
  BY <1>4 DEF SameStream
<1>7. reader' \in ReaderTask /\ reader'.lot = Tail(reader.lot) /\ LotInv' /\ ReaderWaits'
  BY <1>6, RestStep
<1>8. OwedInv'
  <2>1. PICK u \in Seq(Message) : Settles(u, arrived, committed, reader.lot, OwedSet)
    BY DEF OwedInv
  <2>2. Settles(u \o s, arrived, committed \o s, Tail(reader.lot), OwedSet)
    BY <1>1, <1>2, <1>3, <2>1, SettleCommitted DEF TypeInv, LotInv
  <2>3. u \o s \in Seq(Message)
    BY <1>2, <1>3, ConcatProperties
  <2>4. Settles(u \o s, arrived', committed', reader'.lot, OwedSet')
    BY <1>4, <1>6, <1>7, <2>2, OwedSetKept
  <2> QED BY <2>3, <2>4 DEF OwedInv
<1>9. TypeInv'
  BY <1>4, <1>5, <1>7 DEF TypeInv
<1> QED BY <1>4, <1>5, <1>7, <1>8, <1>9 DEF WaitInv

\* ... or because nobody is owed it.
LEMMA DropHead ==
    ASSUME StreamInv, reader.lot # <<>>, ~Head(reader.lot).acked, reader' = Rest(reader),
           UNCHANGED <<d, it, committed, connected, arrived, given>>
    PROVE  StreamInv'
<1> USE DEF StreamInv
<1>1. reader.lot \in Seq(Message)
  BY DEF TypeInv, ReaderTask
<1>2. reader' \in ReaderTask /\ reader'.lot = Tail(reader.lot) /\ LotInv' /\ ReaderWaits'
  BY RestStep
<1>3. OwedInv'
  <2>1. PICK u \in Seq(Message) : Settles(u, arrived, committed, reader.lot, OwedSet)
    BY DEF OwedInv
  <2>2. Head(reader.lot) \notin OwedSet
    BY DEF OwedSet
  <2>3. Settles(u \o <<Head(reader.lot)>>, arrived, committed, Tail(reader.lot), OwedSet)
    BY <1>1, <2>1, <2>2, SettleDropped DEF TypeInv, LotInv
  <2>4. u \o <<Head(reader.lot)>> \in Seq(Message)
    BY <1>1, SplitLot
  <2>5. Settles(u \o <<Head(reader.lot)>>, arrived', committed', reader'.lot, OwedSet')
    BY <1>2, <2>3, OwedSetKept
  <2> QED BY <2>4, <2>5 DEF OwedInv
<1>4. TypeInv'
  BY <1>2 DEF TypeInv
<1>5. StreamIntact' /\ ChargeExact'
  BY DEF StreamIntact, ChargeExact
<1>6. WaiterInv'
  BY WaiterKept
<1> QED BY <1>2, <1>3, <1>4, <1>5, <1>6 DEF WaitInv, IteratorWaits

\* It waits for room, for the first time or again.
LEMMA WaitForRoom ==
    ASSUME StreamInv, reader.lot # <<>>, ~TooLarge(Head(reader.lot)), Full(Head(reader.lot)),
           NEW g \in Nat, g = d.admission,
           reader' = [reader EXCEPT !.at = "waiting", !.generation = g],
           UNCHANGED <<d, it, committed, connected, arrived, given>>
    PROVE  StreamInv'
<1> USE DEF StreamInv
<1>1. reader' \in ReaderTask /\ reader'.lot = reader.lot /\ reader'.generation = d'.admission
  BY DEF TypeInv, ReaderTask
<1>2. TypeInv' /\ LotInv'
  BY <1>1 DEF TypeInv, LotInv, TooLarge
<1>3. OwedInv'
  BY <1>1, OwedSetKept DEF OwedInv
<1>4. StreamIntact' /\ ChargeExact'
  BY DEF StreamIntact, ChargeExact
<1>5. WaiterInv'
  BY WaiterKept
<1>6. ReaderWaits'
  BY <1>1 DEF ReaderWaits, Full
<1> QED BY <1>2, <1>3, <1>4, <1>5, <1>6 DEF WaitInv, IteratorWaits

\* The lane hands the head of the lot to accept().
LEMMA DeliverStep ==
    ASSUME StreamInv, Deliver
    PROVE  StreamInv'
<1>1. reader.lot # <<>> /\ UNCHANGED <<connected, arrived, given>>
  BY DEF Deliver
<1>2. CASE reader.stale /\ ~Head(reader.lot).acked /\ reader' = Rest(reader)
           /\ UNCHANGED <<d, it, committed>>
  BY <1>1, <1>2, DropHead
<1>3. CASE Commit(d, <<Head(reader.lot)>>) /\ reader' = Rest(reader)
  BY <1>1, <1>3, CommitHead
<1>4. CASE /\ ~TooLarge(Head(reader.lot)) /\ Full(Head(reader.lot))
           /\ reader' = [reader EXCEPT !.at = "waiting", !.generation = d.admission]
           /\ UNCHANGED <<d, it, committed>>
  <2>1. d.admission \in Nat
    BY DEF StreamInv, TypeInv, Delivery
  <2> QED BY <1>1, <1>4, <2>1, WaitForRoom
<1> QED BY <1>2, <1>3, <1>4 DEF Deliver

\* A woken admission is committed, given up or waits on.
LEMMA ResumeReaderStep ==
    ASSUME StreamInv, ResumeReader
    PROVE  StreamInv'
<1>1. /\ reader.lot # <<>> /\ ~TooLarge(Head(reader.lot)) /\ reader \in ReaderTask
      /\ UNCHANGED <<connected, arrived, given>> /\ d.admission \in Nat
  BY DEF ResumeReader, StreamInv, LotInv, TypeInv, Delivery
<1>2. CASE Commit(d, <<Head(reader.lot)>>) /\ reader' = Rest(reader)
  BY <1>1, <1>2, CommitHead
<1>3. CASE /\ ~Admitted(Head(reader.lot)) /\ reader.generation # d.admission
           /\ reader' = Rest(reader) /\ UNCHANGED <<d, it, committed>>
  BY <1>1, <1>3, DropHead DEF Admitted
<1>4. CASE /\ ~Admitted(Head(reader.lot)) /\ reader.generation = d.admission
           /\ reader' = [reader EXCEPT !.at = "waiting"] /\ UNCHANGED <<d, it, committed>>
  <2>1. reader' = [reader EXCEPT !.at = "waiting", !.generation = d.admission]
    BY <1>1, <1>4 DEF ReaderTask
  <2>2. Full(Head(reader.lot))
    BY <1>4 DEF Admitted
  <2> QED BY <1>1, <1>4, <2>1, <2>2, WaitForRoom
<1> QED BY <1>2, <1>3, <1>4 DEF ResumeReader

\* A lot is decoded.
LEMMA DecodeStep ==
    ASSUME StreamInv, Decode
    PROVE  StreamInv'
<1> USE DEF StreamInv
<1>1. connected /\ reader = NoReader /\ UNCHANGED <<d, it, connected, committed, given>>
  BY DEF Decode
<1>2. PICK n \in 1..LotSize : \E lot \in [1..n -> [acked : BOOLEAN, size : Sizes]] :
         LET new == [i \in 1..n |-> [id |-> Len(arrived) + i, acked |-> lot[i].acked,
                                     size |-> lot[i].size, expired |-> FALSE]] IN
         /\ Len(arrived) + n <= MaxArrivals
         /\ arrived' = arrived \o new
         /\ reader' = [reader EXCEPT !.lot = new]
  BY DEF Decode
<1>3. PICK lot \in [1..n -> [acked : BOOLEAN, size : Sizes]] :
         LET new == [i \in 1..n |-> [id |-> Len(arrived) + i, acked |-> lot[i].acked,
                                     size |-> lot[i].size, expired |-> FALSE]] IN
         /\ Len(arrived) + n <= MaxArrivals
         /\ arrived' = arrived \o new
         /\ reader' = [reader EXCEPT !.lot = new]
  BY <1>2
<1>4. PICK new : new = [i \in 1..n |-> [id |-> Len(arrived) + i, acked |-> lot[i].acked,
                                        size |-> lot[i].size, expired |-> FALSE]]
  OBVIOUS
<1>5. /\ Len(arrived) + n <= MaxArrivals /\ arrived' = arrived \o new
      /\ reader' = [reader EXCEPT !.lot = new]
  BY <1>3, <1>4
<1>6. n \in Nat /\ Len(arrived) \in Nat /\ MaxArrivals \in Nat /\ arrived \in Seq(Message)
  BY DeliveryAssumptions, LenProperties DEF LotInv
<1>7. \A i \in 1..n : new[i] \in Message /\ new[i].id = Len(arrived) + i /\ ~new[i].expired
  <2>1. TAKE i \in 1..n
  <2>2. new[i] = [id |-> Len(arrived) + i, acked |-> lot[i].acked,
                  size |-> lot[i].size, expired |-> FALSE]
    BY <1>4
  <2>3. Len(arrived) + i \in 1..MaxArrivals
    BY <1>5, <1>6
  <2>4. lot[i] \in [acked : BOOLEAN, size : Sizes]
    BY <1>3
  <2> QED BY <2>2, <2>3, <2>4 DEF Message
<1>8. new \in Seq(Message) /\ Len(new) = n
  BY <1>4, <1>6, <1>7
<1>9. /\ arrived' \in Seq(Message) /\ Len(arrived') = Len(arrived) + n
      /\ \A i \in 1..Len(arrived) + n :
           arrived'[i] = IF i <= Len(arrived) THEN arrived[i] ELSE new[i - Len(arrived)]
  BY <1>5, <1>6, <1>8, ConcatProperties
<1>10. \A i \in 1..Len(arrived') : arrived'[i].id = i
  <2>1. TAKE i \in 1..Len(arrived')
  <2>2. CASE i <= Len(arrived)
    BY <1>6, <1>9, <2>2 DEF LotInv
  <2>3. CASE ~(i <= Len(arrived))
    <3>1. i - Len(arrived) \in 1..n /\ Len(arrived) + (i - Len(arrived)) = i
      BY <1>6, <1>9, <2>3
    <3> QED BY <1>7, <1>9, <2>3, <3>1
  <2> QED BY <2>2, <2>3
<1>11. reader' = [at |-> "idle", lot |-> new, stale |-> FALSE, generation |-> 0]
  BY <1>1, <1>5 DEF NoReader
<1>12. reader' \in ReaderTask /\ reader'.lot = new /\ reader'.at = "idle"
  BY <1>8, <1>11 DEF ReaderTask
<1>13. LotInv'
  <2>1. Len(arrived') <= MaxArrivals
    BY <1>5, <1>9
  <2>2. \A i \in 1..Len(reader'.lot) : ~reader'.lot[i].expired
    BY <1>7, <1>8, <1>12
  <2> QED BY <1>1, <1>9, <1>10, <1>12, <2>1, <2>2 DEF LotInv
<1>14. OwedInv'
  <2>1. PICK s \in Seq(Message) : Settles(s, arrived, committed, reader.lot, OwedSet)
    BY DEF OwedInv
  <2>2. arrived = s
    <3>1. reader.lot = <<>>
      BY <1>1 DEF NoReader
    <3>2. s \o <<>> = s
      BY ConcatEmptySeq
    <3> QED BY <2>1, <3>1, <3>2 DEF Settles
  <2>3. Settles(arrived, arrived', committed', reader'.lot, OwedSet')
    BY <1>1, <1>5, <1>12, <2>1, <2>2, OwedSetKept DEF Settles
  <2> QED BY <1>6, <2>3 DEF OwedInv
<1>15. TypeInv'
  BY <1>1, <1>12 DEF TypeInv
<1>16. StreamIntact' /\ ChargeExact'
  BY <1>1 DEF StreamIntact, ChargeExact
<1>17. WaiterInv'
  BY <1>1, WaiterKept
<1> QED BY <1>1, <1>12, <1>13, <1>14, <1>15, <1>16, <1>17 DEF WaitInv, IteratorWaits, ReaderWaits

\* Another admission generation leaves the stream as it is.
LEMMA LaterAdmission ==
    ASSUME NEW x \in Delivery, NEW y, y = [x EXCEPT !.admission = @ + 1]
    PROVE  /\ y \in Delivery /\ y.queue = x.queue /\ y.bytes = x.bytes
           /\ y.accounted = x.accounted /\ y.stream = x.stream /\ y.waiting = x.waiting
           /\ y.closed = x.closed
<1>1. x.admission + 1 \in Nat
  BY DEF Delivery
<1>2. y \in Delivery
  BY <1>1 DEF Delivery
<1> QED BY <1>2 DEF Delivery

\* The reader ends; rest is what is left of its lot.
LEMMA EndedStep ==
    ASSUME StreamInv, NEW rest \in Seq(Message), Ended(rest),
           arrived' \in Seq(Message), Len(arrived') <= MaxArrivals,
           \A n \in 1..Len(arrived') : arrived'[n].id = n,
           \A n \in 1..Len(rest) : ~rest[n].expired,
           NEW u \in Seq(Message), Settles(u, arrived', committed, rest, OwedSet)
    PROVE  StreamInv'
<1> USE DEF StreamInv
<1>1. PICK x : x = [d EXCEPT !.admission = @ + 1]
  OBVIOUS
<1>2. /\ x \in Delivery /\ x.queue = d.queue /\ x.bytes = d.bytes /\ x.accounted = d.accounted
      /\ x.stream = d.stream /\ x.waiting = d.waiting /\ x.closed = d.closed
  BY <1>1, LaterAdmission DEF TypeInv
<1>3. PICK s : s = Only(rest, AckedSet)
  OBVIOUS
<1>4. s \in Seq(Message) /\ s = Acked(rest)
  BY <1>3, OnlyMessages DEF Acked, AckedSet
<1>5. Commit(x, s) /\ given' = given /\ reader' = NoReader /\ connected' = FALSE
  BY <1>1, <1>4 DEF Ended
<1>6. /\ d' \in Delivery /\ SameStream(d', x) /\ d'.queue = d.queue \o s
      /\ committed' \in Seq(Message) /\ committed' = committed \o s
      /\ StreamIntact' /\ ChargeExact'
  BY <1>2, <1>4, <1>5, CommitStep
<1>7. /\ it' \in [Iterator -> Iterators]
      /\ \A i \in Iterator : it'[i].stream <= d'.stream
      /\ d'.waiting <= d'.stream
      /\ WaiterInv' /\ \A i \in Iterator : IteratorWaits(i)'
  BY <1>2, <1>4, <1>5, <1>6, CommitWakes
<1>8. d'.accounted = d.accounted
  BY <1>2, <1>6 DEF SameStream
<1>9. reader' \in ReaderTask /\ reader'.lot = <<>> /\ reader'.at = "idle"
  BY <1>5 DEF NoReader, ReaderTask
<1>10. LotInv'
  <2>1. \A n \in 1..Len(reader'.lot) : ~reader'.lot[n].expired
    BY <1>9
  <2> QED BY <1>9, <2>1 DEF LotInv
<1>11. OwedInv'
  <2>1. Settles(arrived', arrived', committed \o s, <<>>, OwedSet)
    <3>1. PICK a \in Seq(Message) : a = arrived'
      OBVIOUS
    <3>2. Settles(a, a, committed \o Only(rest, AckedSet), <<>>, OwedSet)
      BY <1>8, <3>1, OwedSetKept, SettleRest DEF TypeInv
    <3> QED BY <1>3, <3>1, <3>2
  <2>2. Settles(arrived', arrived', committed', reader'.lot, OwedSet')
    BY <1>6, <1>8, <1>9, <2>1, OwedSetKept
  <2> QED BY <2>2 DEF OwedInv
<1>12. TypeInv'
  BY <1>5, <1>6, <1>7, <1>9 DEF TypeInv
<1> QED BY <1>6, <1>7, <1>9, <1>10, <1>11, <1>12 DEF WaitInv, ReaderWaits

\* Connection loss, or disconnect()
LEMMA RetireStep ==
    ASSUME StreamInv, Retire
    PROVE  StreamInv'
<1>1. PICK u \in Seq(Message) : Settles(u, arrived, committed, reader.lot, OwedSet)
  BY DEF StreamInv, OwedInv
<1>2. /\ reader.lot \in Seq(Message) /\ arrived' = arrived /\ arrived \in Seq(Message)
      /\ Len(arrived) <= MaxArrivals /\ \A n \in 1..Len(arrived) : arrived[n].id = n
      /\ \A n \in 1..Len(reader.lot) : ~reader.lot[n].expired
      /\ Ended(reader.lot)
  BY DEF StreamInv, TypeInv, LotInv, ReaderTask, Retire
<1> QED BY <1>1, <1>2, EndedStep

\* The tail of the lot has no expired message.
LEMMA TailUnexpired ==
    ASSUME TypeInv, LotInv, reader.lot # <<>>
    PROVE  /\ reader.lot \in Seq(Message) /\ Tail(reader.lot) \in Seq(Message)
           /\ \A n \in 1..Len(Tail(reader.lot)) : ~Tail(reader.lot)[n].expired
<1>1. reader.lot \in Seq(Message)
  BY DEF TypeInv, ReaderTask
<1>2. /\ Tail(reader.lot) \in Seq(Message) /\ Len(reader.lot) \in Nat \ {0}
      /\ Len(Tail(reader.lot)) = Len(reader.lot) - 1
      /\ \A n \in 1..Len(Tail(reader.lot)) : Tail(reader.lot)[n] = reader.lot[n + 1]
  BY <1>1, HeadAndTail
<1>3. ASSUME NEW n \in 1..Len(Tail(reader.lot))
      PROVE  ~Tail(reader.lot)[n].expired
  <2>1. n + 1 \in 1..Len(reader.lot)
    BY <1>2
  <2> QED BY <1>2, <2>1 DEF LotInv
<1> QED BY <1>1, <1>2, <1>3

\* The deadline of the admission passes.
LEMMA TimeOutStep ==
    ASSUME StreamInv, TimeOut
    PROVE  StreamInv'
<1>1. reader.lot # <<>> /\ TypeInv /\ LotInv /\ OwedInv
  BY DEF StreamInv, LotInv, TimeOut
<1>2. PICK s \in Seq(Message) : Settles(s, arrived, committed, reader.lot, OwedSet)
  BY <1>1 DEF OwedInv
<1>3. PICK b : b = arrived'
  OBVIOUS
<1>4. b = Expire(arrived, Head(reader.lot).id) /\ Ended(Tail(reader.lot))
  BY <1>3 DEF TimeOut, Expire
<1>5. /\ arrived \in Seq(Message) /\ committed \in Seq(Message) /\ reader.lot \in Seq(Message)
      /\ Len(arrived) <= MaxArrivals /\ \A n \in 1..Len(arrived) : arrived[n].id = n
  BY <1>1, TailUnexpired DEF TypeInv, LotInv
<1>6. /\ b \in Seq(Message) /\ Len(b) = Len(arrived)
      /\ \A n \in 1..Len(b) : b[n].id = n
      /\ \E u \in Seq(Message) : Settles(u, b, committed, Tail(reader.lot), OwedSet)
  <2>1. PICK lot, c, O, a : lot = reader.lot /\ c = committed /\ O = OwedSet /\ a = arrived
    OBVIOUS
  <2>2. /\ a \in Seq(Message) /\ c \in Seq(Message) /\ lot \in Seq(Message) /\ lot # <<>>
        /\ Settles(s, a, c, lot, O) /\ \A n \in 1..Len(a) : a[n].id = n
        /\ b = Expire(a, Head(lot).id)
    BY <1>1, <1>2, <1>4, <1>5, <2>1
  <2>3. /\ b \in Seq(Message) /\ Len(b) = Len(a)
        /\ \A n \in 1..Len(b) : b[n].id = n
        /\ \E u \in Seq(Message) : Settles(u, b, c, Tail(lot), O)
    BY <2>2, SettleExpired
  <2> QED BY <2>1, <2>3
<1>7. PICK u \in Seq(Message) : Settles(u, b, committed, Tail(reader.lot), OwedSet)
  BY <1>6
<1>8. /\ Tail(reader.lot) \in Seq(Message)
      /\ \A n \in 1..Len(Tail(reader.lot)) : ~Tail(reader.lot)[n].expired
  BY <1>1, TailUnexpired
<1> QED BY <1>3, <1>4, <1>5, <1>6, <1>7, <1>8, EndedStep

\* A message that can never fit ends the connection.
LEMMA OversizedStep ==
    ASSUME StreamInv, Oversized
    PROVE  StreamInv'
<1>1. /\ reader.lot # <<>> /\ TypeInv /\ LotInv /\ OwedInv /\ arrived' = arrived
      /\ TooLarge(Head(reader.lot)) /\ Ended(Tail(reader.lot))
  BY DEF StreamInv, Oversized
<1>2. PICK s \in Seq(Message) : Settles(s, arrived, committed, reader.lot, OwedSet)
  BY <1>1 DEF OwedInv
<1>3. /\ arrived \in Seq(Message) /\ committed \in Seq(Message) /\ reader.lot \in Seq(Message)
      /\ Len(arrived) <= MaxArrivals /\ \A n \in 1..Len(arrived) : arrived[n].id = n
  BY <1>1, TailUnexpired DEF TypeInv, LotInv
<1>4. Head(reader.lot) \notin OwedSet
  BY <1>1 DEF OwedSet
<1>5. PICK u : u = s \o <<Head(reader.lot)>>
  OBVIOUS
<1>6. u \in Seq(Message) /\ Settles(u, arrived, committed, Tail(reader.lot), OwedSet)
  BY <1>1, <1>2, <1>3, <1>4, <1>5, SettleDropped, SplitLot
<1>7. /\ Tail(reader.lot) \in Seq(Message)
      /\ \A n \in 1..Len(Tail(reader.lot)) : ~Tail(reader.lot)[n].expired
  BY <1>1, TailUnexpired
<1> QED BY <1>1, <1>3, <1>6, <1>7, EndedStep

\* The epoch is invalidated under a reader that still has its lot.
LEMMA InvalidateStep ==
    ASSUME StreamInv, Invalidate
    PROVE  StreamInv'
<1> USE DEF StreamInv
<1>1. /\ d' = [d EXCEPT !.admission = @ + 1] /\ reader' = [Space(reader) EXCEPT !.stale = TRUE]
      /\ UNCHANGED <<it, connected, arrived, committed, given>>
  BY DEF Invalidate
<1>2. /\ d' \in Delivery /\ d'.queue = d.queue /\ d'.bytes = d.bytes
      /\ d'.accounted = d.accounted /\ d'.stream = d.stream /\ d'.waiting = d.waiting
      /\ d'.closed = d.closed
  BY <1>1, LaterAdmission DEF TypeInv
<1>3. /\ reader' \in ReaderTask /\ reader'.lot = reader.lot /\ reader'.at # "waiting"
      /\ reader'.at # "idle" => reader.at # "idle"
  BY <1>1 DEF TypeInv, ReaderTask, Space
<1>4. TypeInv' /\ LotInv'
  BY <1>1, <1>2, <1>3 DEF TypeInv, LotInv, TooLarge
<1>5. OwedInv'
  BY <1>1, <1>2, <1>3, OwedSetKept DEF OwedInv
<1>6. StreamIntact' /\ ChargeExact'
  BY <1>1, <1>2 DEF StreamIntact, ChargeExact
<1>7. WaiterInv'
  BY <1>1, <1>2, WaiterKept
<1> QED BY <1>1, <1>2, <1>3, <1>4, <1>5, <1>6, <1>7 DEF WaitInv, IteratorWaits, ReaderWaits

-----------------------------------------------------------------------------
(***************************************************************************)
(* The stream's and the iterators' steps                                   *)
(***************************************************************************)

\* A step of neither the reader nor the queue
LEMMA Untouched ==
    ASSUME StreamInv, UNCHANGED <<reader, connected, arrived, committed, given>>,
           d' \in Delivery, d'.queue = d.queue, d'.bytes = d.bytes, d'.accounted = d.accounted
    PROVE  LotInv' /\ OwedInv' /\ StreamIntact' /\ ChargeExact'
<1> USE DEF StreamInv
<1>1. LotInv'
  BY DEF LotInv, TooLarge
<1>2. OwedInv'
  BY OwedSetKept DEF OwedInv
<1> QED BY <1>1, <1>2 DEF StreamIntact, ChargeExact

\* The stream closes.
LEMMA CloseStep ==
    ASSUME StreamInv, Close
    PROVE  StreamInv'
<1> USE DEF StreamInv
<1>1. /\ d' = [d EXCEPT !.closed = TRUE] /\ it' = Ready(it)
      /\ UNCHANGED <<reader, connected, arrived, committed, given>>
  BY DEF Close
<1>2. /\ d' \in Delivery /\ d'.queue = d.queue /\ d'.bytes = d.bytes
      /\ d'.accounted = d.accounted /\ d'.stream = d.stream /\ d'.waiting = d.waiting
      /\ d'.admission = d.admission
  BY <1>1 DEF TypeInv, Delivery
<1>3. LotInv' /\ OwedInv' /\ StreamIntact' /\ ChargeExact'
  BY <1>1, <1>2, Untouched
<1>4. /\ it' \in [Iterator -> Iterators]
      /\ \A i \in Iterator :
           /\ it'[i].stream = it[i].stream /\ it'[i].at # "waiting"
           /\ it'[i].at \in {"waiting", "woken"} <=> it[i].at \in {"waiting", "woken"}
  BY <1>1, ReadyStep
<1>5. WaiterInv'
  BY <1>2, <1>4, WaiterKept
<1>6. TypeInv'
  BY <1>1, <1>2, <1>4 DEF TypeInv
<1>7. WaitInv'
  BY <1>1, <1>2, <1>4 DEF WaitInv, IteratorWaits, ReaderWaits, Full
<1> QED BY <1>3, <1>5, <1>6, <1>7

\* A reconnection goes on with the stream.
LEMMA ReconnectStep ==
    ASSUME StreamInv, Reconnect
    PROVE  StreamInv'
<1> USE DEF StreamInv
<1>1. /\ d' = [d EXCEPT !.closed = FALSE] /\ connected' = TRUE
      /\ UNCHANGED <<reader, it, arrived, committed, given>>
  BY DEF Reconnect
<1>2. /\ d' \in Delivery /\ d'.queue = d.queue /\ d'.bytes = d.bytes /\ d'.closed = FALSE
      /\ d'.accounted = d.accounted /\ d'.stream = d.stream /\ d'.waiting = d.waiting
      /\ d'.admission = d.admission
  BY <1>1 DEF TypeInv, Delivery
<1>3. LotInv'
  BY <1>1, <1>2 DEF LotInv, TooLarge
<1>4. OwedInv'
  BY <1>1, <1>2, OwedSetKept DEF OwedInv
<1>5. StreamIntact' /\ ChargeExact'
  BY <1>1, <1>2 DEF StreamIntact, ChargeExact
<1>6. WaiterInv'
  BY <1>1, <1>2, WaiterKept
<1>7. TypeInv'
  BY <1>1, <1>2 DEF TypeInv
<1>8. WaitInv'
  BY <1>1, <1>2 DEF WaitInv, IteratorWaits, ReaderWaits, Full
<1> QED BY <1>3, <1>4, <1>5, <1>6, <1>7, <1>8

\* An explicit connect() replaces the stream: nobody waits in the new one.
LEMMA ResetStreamStep ==
    ASSUME StreamInv, ResetStream
    PROVE  StreamInv'
<1> USE DEF StreamInv
<1>1. /\ d' = [d EXCEPT !.closed = FALSE, !.stream = @ + 1, !.admission = @ + 1]
      /\ it' = Ready(it) /\ ~connected
      /\ UNCHANGED <<reader, connected, arrived, committed, given>>
  BY DEF ResetStream
<1>2. d \in Delivery /\ d.stream \in Nat /\ d.stream + 1 \in Nat /\ d.admission + 1 \in Nat
      /\ d.waiting \in Nat \cup {-1} /\ d.waiting <= d.stream
  BY DEF TypeInv, Delivery
<1>3. /\ d' \in Delivery /\ d'.queue = d.queue /\ d'.bytes = d.bytes
      /\ d'.accounted = d.accounted /\ d'.stream = d.stream + 1 /\ d'.waiting = d.waiting
  BY <1>1, <1>2 DEF Delivery
<1>4. LotInv' /\ OwedInv' /\ StreamIntact' /\ ChargeExact'
  BY <1>1, <1>3, Untouched
<1>5. /\ it' \in [Iterator -> Iterators]
      /\ \A i \in Iterator :
           /\ it'[i].stream = it[i].stream /\ it'[i].at # "waiting"
           /\ it'[i].at \in {"waiting", "woken"} <=> it[i].at \in {"waiting", "woken"}
  BY <1>1, ReadyStep
<1>6. \A i \in Iterator : it'[i].stream <= d.stream /\ it'[i].stream \in Nat
  <2>1. TAKE i \in Iterator
  <2>2. it'[i] \in Iterators /\ it[i].stream <= d.stream
    BY <1>5 DEF TypeInv
  <2> QED BY <1>5, <2>2 DEF Iterators
<1>7. \A i \in Iterator : it'[i].stream <= d'.stream /\ it'[i].stream # d'.stream
  BY <1>2, <1>3, <1>6
<1>8. There' = {} /\ d'.waiting # d'.stream /\ d'.waiting <= d'.stream
  <2>1. There' = {}
    BY <1>7 DEF There
  <2> QED BY <1>2, <1>3, <2>1
<1>9. WaiterInv'
  BY <1>8 DEF WaiterInv
<1>10. TypeInv'
  BY <1>1, <1>3, <1>5, <1>7, <1>8 DEF TypeInv
<1>11. WaitInv'
  <2>1. reader.at # "waiting"
    BY <1>1 DEF LotInv
  <2> QED BY <1>1, <1>5, <2>1 DEF WaitInv, IteratorWaits, ReaderWaits
<1> QED BY <1>4, <1>9, <1>10, <1>11

\* An iterator is created: it does not wait.
LEMMA OpenStep ==
    ASSUME StreamInv, NEW i \in Iterator, Open(i)
    PROVE  StreamInv'
<1> USE DEF StreamInv
<1>1. /\ it' = [it EXCEPT ![i] = [at |-> "open", stream |-> d.stream]] /\ it[i].at = "none"
      /\ UNCHANGED <<d, reader, connected, arrived, committed, given>>
  BY DEF Open
<1>2. d \in Delivery /\ d.stream \in Nat /\ it \in [Iterator -> Iterators]
  BY DEF TypeInv, Delivery
<1>3. LotInv' /\ OwedInv' /\ StreamIntact' /\ ChargeExact'
  BY <1>1, <1>2, Untouched
<1>4. it' \in [Iterator -> Iterators] /\ \A j \in Iterator : j # i => it'[j] = it[j]
  BY <1>1, <1>2 DEF Iterators
<1>5. it'[i].at = "open" /\ it'[i].stream = d.stream
  BY <1>1, <1>2
<1>6. There' = There
  BY <1>1, <1>4, <1>5 DEF There
<1>7. WaiterInv'
  BY <1>1, <1>6 DEF WaiterInv
<1>8. TypeInv'
  <2>1. \A j \in Iterator : it'[j].stream <= d'.stream
    BY <1>1, <1>2, <1>4, <1>5 DEF TypeInv
  <2> QED BY <1>1, <1>4, <2>1 DEF TypeInv
<1>9. WaitInv'
  <2>1. \A j \in Iterator : IteratorWaits(j)'
    BY <1>1, <1>4, <1>5 DEF WaitInv, IteratorWaits
  <2> QED BY <1>1, <2>1 DEF WaitInv, ReaderWaits, Full
<1> QED BY <1>3, <1>7, <1>8, <1>9

\* x is the stream once iterator i is not waiting in it.
Left(i, x) ==
    /\ x \in Delivery /\ x.waiting <= x.stream
    /\ x.queue = d.queue /\ x.bytes = d.bytes /\ x.accounted = d.accounted
    /\ x.closed = d.closed /\ x.stream = d.stream /\ x.admission = d.admission
    /\ (x.waiting = x.stream) <=> (There \ {i} # {})

\* One that is open does not wait,
LEMMA LeftOpen ==
    ASSUME StreamInv, NEW i \in Iterator, it[i].at = "open"
    PROVE  Left(i, d)
<1>1. i \notin There
  BY DEF There
<1>2. There \ {i} = There
  BY <1>1
<1> QED BY <1>2 DEF Left, StreamInv, TypeInv, WaiterInv

\* and one that waited leaves the wait with the generation it entered it with,
\* whatever stream is the current one by then.
LEMMA LeftWait ==
    ASSUME StreamInv, NEW i \in Iterator, it[i].at \in {"waiting", "woken"}
    PROVE  Left(i, LeaveWait(i))
<1> USE DEF StreamInv
<1>1. PICK x : x = LeaveWait(i)
  OBVIOUS
<1>2. /\ d \in Delivery /\ d.stream \in Nat /\ d.waiting <= d.stream /\ -1 <= d.stream
      /\ -1 # d.stream
  BY DEF TypeInv, Delivery
<1>3. /\ x \in Delivery /\ x.queue = d.queue /\ x.bytes = d.bytes /\ x.accounted = d.accounted
      /\ x.closed = d.closed /\ x.stream = d.stream /\ x.admission = d.admission
      /\ x.waiting = IF d.waiting = it[i].stream THEN -1 ELSE d.waiting
  <2>1. CASE d.waiting = it[i].stream
    <3>1. x = [d EXCEPT !.waiting = -1]
      BY <1>1, <2>1 DEF LeaveWait
    <3> QED BY <1>2, <2>1, <3>1 DEF Delivery
  <2>2. CASE d.waiting # it[i].stream
    BY <1>1, <1>2, <2>2 DEF LeaveWait
  <2> QED BY <2>1, <2>2
<1>4. x.waiting <= x.stream
  BY <1>2, <1>3
<1>5. (x.waiting = x.stream) <=> (There \ {i} # {})
  <2>1. CASE it[i].stream = d.stream
    <3>1. i \in There
      BY <2>1 DEF There
    <3>2. There \ {i} = {} /\ d.waiting = d.stream
      BY <3>1 DEF WaiterInv
    <3> QED BY <1>2, <1>3, <2>1, <3>2
  <2>2. CASE it[i].stream # d.stream
    <3>1. i \notin There
      BY <2>2 DEF There
    <3>2. There \ {i} = There /\ (d.waiting = d.stream <=> There # {})
      BY <3>1 DEF WaiterInv
    <3>3. CASE d.waiting = it[i].stream
      BY <1>2, <1>3, <2>2, <3>2, <3>3
    <3>4. CASE d.waiting # it[i].stream
      BY <1>3, <3>2, <3>4
    <3> QED BY <3>3, <3>4
  <2> QED BY <2>1, <2>2
<1> QED BY <1>1, <1>3, <1>4, <1>5 DEF Left

\* Iterator i goes where it does not wait.
LEMMA Leaves ==
    ASSUME StreamInv, NEW i \in Iterator, NEW x, Left(i, x),
           NEW a \in {"open", "ended", "refused"}, it' = [it EXCEPT ![i].at = a],
           d'.stream = x.stream, d'.waiting = x.waiting
    PROVE  /\ it' \in [Iterator -> Iterators] /\ \A j \in Iterator : it'[j].stream <= d'.stream
           /\ it'[i].at # "waiting" /\ \A j \in Iterator : j # i => it'[j] = it[j]
           /\ WaiterInv'
<1> USE DEF StreamInv
<1>1. it \in [Iterator -> Iterators] /\ \A j \in Iterator : it[j].stream <= d.stream
  BY DEF TypeInv
<1>2. it'[i] = [it[i] EXCEPT !.at = a] /\ \A j \in Iterator : j # i => it'[j] = it[j]
  BY <1>1
<1>3. it[i] \in Iterators
  BY <1>1
<1>4. it'[i] \in Iterators /\ it'[i].at = a /\ it'[i].stream = it[i].stream
  BY <1>2, <1>3 DEF Iterators
<1>5. it' \in [Iterator -> Iterators]
  BY <1>1, <1>2, <1>4
<1>6. There' = There \ {i}
  BY <1>2, <1>4 DEF There, Left
<1>7. WaiterInv'
  BY <1>6 DEF WaiterInv, Left
<1>8. \A j \in Iterator : it'[j].stream <= d'.stream
  BY <1>1, <1>2, <1>4 DEF Left
<1> QED BY <1>2, <1>4, <1>5, <1>7, <1>8

\* ... and takes nothing with it.
LEMMA LeavesQueue ==
    ASSUME StreamInv, NEW i \in Iterator, NEW x, Left(i, x),
           NEW a \in {"open", "ended", "refused"}, it' = [it EXCEPT ![i].at = a], d' = x,
           UNCHANGED <<reader, connected, arrived, committed, given>>
    PROVE  StreamInv'
<1> USE DEF StreamInv
<1>1. /\ it' \in [Iterator -> Iterators] /\ \A j \in Iterator : it'[j].stream <= d'.stream
      /\ it'[i].at # "waiting" /\ \A j \in Iterator : j # i => it'[j] = it[j]
      /\ WaiterInv'
  BY Leaves
<1>2. LotInv' /\ OwedInv' /\ StreamIntact' /\ ChargeExact'
  BY Untouched DEF Left
<1>3. TypeInv'
  BY <1>1 DEF TypeInv, Left
<1>4. \A j \in Iterator : IteratorWaits(j)'
  BY <1>1 DEF WaitInv, IteratorWaits, Left
<1>5. ReaderWaits'
  BY DEF WaitInv, ReaderWaits, Full, Left
<1> QED BY <1>1, <1>2, <1>3, <1>4, <1>5 DEF WaitInv

\* It takes a message: the queue gets shorter by it, and the reader may go on.
LEMMA Takes ==
    ASSUME StreamInv, NEW i \in Iterator, NEW x, Left(i, x), x.queue # <<>>,
           it' = [it EXCEPT ![i].at = "open"], given' = Append(given, Head(x.queue)),
           d' = Take(x), reader' = Space(reader), UNCHANGED <<connected, arrived, committed>>
    PROVE  StreamInv'
<1> USE DEF StreamInv
<1>1. PICK q : q = x.queue
  OBVIOUS
<1>2. x \in Delivery /\ q = d.queue /\ q \in Seq(Message) /\ q # <<>> /\ given \in Seq(Message)
  BY <1>1 DEF Left, TypeInv, Delivery
<1>3. PICK m, t : m = Head(q) /\ t = Tail(q)
  OBVIOUS
<1>4. /\ m \in Message /\ t \in Seq(Message) /\ q = <<m>> \o t /\ <<m>> \in Seq(Message)
  BY <1>2, <1>3, HeadAndTail
<1>5. TotalSize(q) = m.size + TotalSize(t) /\ m.size \in Nat /\ TotalSize(t) \in Nat
  <2>1. TotalSize(<<m>>) = m.size
    <3>1. <<>> \in Seq(Message) /\ Append(<<>>, m) = <<m>>
      BY <1>4, EmptySeq
    <3>2. TotalSize(Append(<<>>, m)) = TotalSize(<<>>) + m.size
      BY <1>4, <3>1, TotalAppend
    <3>3. m.size \in Nat
      BY <1>4, MessageSizes
    <3> QED BY <3>1, <3>2, <3>3, TotalEmpty
  <2>2. TotalSize(<<m>> \o t) = TotalSize(<<m>>) + TotalSize(t)
    <3> DEFINE h == <<m>>
    <3>1. h \in Seq(Message)
      BY <1>4
    <3> HIDE DEF h
    <3>2. TotalSize(h \o t) = TotalSize(h) + TotalSize(t)
      BY <1>4, <3>1, MessageSizes, TotalConcat
    <3> QED BY <3>2 DEF h
  <2> QED BY <1>4, <2>1, <2>2, MessageSizes, TotalTyped
<1>6. d.bytes = IF d.accounted THEN TotalSize(q) ELSE 0
  BY <1>2 DEF ChargeExact
<1>7. PICK n : n = IF d.accounted THEN TotalSize(t) ELSE 0
  OBVIOUS
<1>8. d' = [x EXCEPT !.queue = t, !.bytes = n] /\ n \in Nat
  <2>1. PICK k : k = IF x.accounted THEN x.bytes - m.size ELSE x.bytes
    OBVIOUS
  <2>2. d' = [x EXCEPT !.queue = t, !.bytes = k]
    BY <1>1, <1>2, <1>3, <2>1 DEF Take, Delivery
  <2>3. k = n
    BY <1>5, <1>6, <1>7, <2>1 DEF Left
  <2>4. n \in Nat
    BY <1>5, <1>7
  <2> QED BY <2>2, <2>3, <2>4
<1>9. /\ d' \in Delivery /\ d'.queue = t /\ d'.bytes = n /\ d'.accounted = d.accounted
      /\ d'.closed = d.closed /\ d'.stream = x.stream /\ d'.waiting = x.waiting
      /\ d'.stream = d.stream /\ d'.admission = d.admission
  BY <1>2, <1>4, <1>8 DEF Delivery, Left
<1>10. /\ it' \in [Iterator -> Iterators] /\ \A j \in Iterator : it'[j].stream <= d'.stream
       /\ it'[i].at # "waiting" /\ \A j \in Iterator : j # i => it'[j] = it[j]
       /\ WaiterInv'
  BY <1>9, Leaves
<1>11. given' \in Seq(Message) /\ StreamIntact'
  <2>1. given' = given \o <<m>>
    BY <1>1, <1>2, <1>3, <1>4, AppendIsConcat
  <2>2. given' \in Seq(Message)
    BY <1>2, <1>4, <2>1, ConcatProperties
  <2>3. (given \o <<m>>) \o t = given \o (<<m>> \o t)
    <3> DEFINE h == <<m>>
    <3>1. h \in Seq(Message)
      BY <1>4
    <3> HIDE DEF h, Message
    <3>2. (given \o h) \o t = given \o (h \o t)
      BY <1>2, <1>4, <3>1, ConcatAssociative
    <3> QED BY <3>2 DEF h
  <2> QED BY <1>2, <1>4, <1>9, <2>1, <2>2, <2>3 DEF StreamIntact
<1>12. ChargeExact'
  BY <1>7, <1>9 DEF ChargeExact
<1>13. /\ reader' \in ReaderTask /\ reader'.lot = reader.lot /\ reader'.at # "waiting"
       /\ reader'.at # "idle" => reader.at # "idle"
  BY DEF TypeInv, ReaderTask, Space
<1>14. TypeInv'
  <2>1. d'.waiting <= d'.stream
    BY <1>9 DEF Left
  <2> QED BY <1>9, <1>10, <1>11, <1>13, <2>1 DEF TypeInv
<1>15. LotInv'
  BY <1>9, <1>13 DEF LotInv, TooLarge
<1>16. OwedInv'
  BY <1>9, <1>13, OwedSetKept DEF OwedInv
<1>17. \A j \in Iterator : IteratorWaits(j)'
  BY <1>2, <1>10 DEF WaitInv, IteratorWaits
<1>18. ReaderWaits'
  BY <1>13 DEF ReaderWaits
<1> QED BY <1>10, <1>11, <1>12, <1>14, <1>15, <1>16, <1>17, <1>18 DEF WaitInv

\* It waits: nobody else does.
LEMMA Waits ==
    ASSUME StreamInv, NEW i \in Iterator, NEW x, Left(i, x), it[i].stream = x.stream,
           x.queue = <<>>, ~x.closed, x.waiting # x.stream,
           it' = [it EXCEPT ![i].at = "waiting"], d' = [x EXCEPT !.waiting = x.stream],
           UNCHANGED <<reader, connected, arrived, committed, given>>
    PROVE  StreamInv'
<1> USE DEF StreamInv
<1>1. x \in Delivery /\ x.stream \in Nat
  BY DEF Left, Delivery
<1>2. /\ d' \in Delivery /\ d'.queue = d.queue /\ d'.bytes = d.bytes /\ d'.accounted = d.accounted
      /\ d'.closed = d.closed /\ d'.stream = d.stream /\ d'.waiting = d.stream
      /\ d'.admission = d.admission /\ d'.waiting <= d'.stream
  BY <1>1 DEF Left, Delivery
<1>3. it[i] \in Iterators /\ it \in [Iterator -> Iterators]
  BY DEF TypeInv
<1>4. /\ it'[i] = [it[i] EXCEPT !.at = "waiting"]
      /\ \A j \in Iterator : j # i => it'[j] = it[j]
  BY <1>3
<1>5. it'[i] \in Iterators /\ it'[i].at = "waiting" /\ it'[i].stream = it[i].stream
  BY <1>3, <1>4 DEF Iterators
<1>6. it' \in [Iterator -> Iterators]
  BY <1>3, <1>4, <1>5
<1>7. There' = {i}
  <2>1. There \ {i} = {} /\ it[i].stream = d.stream
    BY DEF Left
  <2>2. i \in There'
    BY <1>2, <1>5, <2>1 DEF There
  <2>3. \A j \in There' : j = i
    BY <1>2, <1>4, <2>1 DEF There
  <2> QED BY <2>2, <2>3
<1>8. WaiterInv'
  BY <1>2, <1>7 DEF WaiterInv
<1>9. LotInv' /\ OwedInv' /\ StreamIntact' /\ ChargeExact'
  BY <1>2, Untouched
<1>10. TypeInv'
  <2>1. \A j \in Iterator : it'[j].stream <= d'.stream
    BY <1>2, <1>4, <1>5 DEF TypeInv
  <2> QED BY <1>2, <1>6, <2>1 DEF TypeInv
<1>11. \A j \in Iterator : IteratorWaits(j)'
  <2>1. IteratorWaits(i)'
    BY <1>2, <1>5 DEF IteratorWaits, Left
  <2>2. \A j \in Iterator : j # i => IteratorWaits(j)'
    BY <1>2, <1>4 DEF WaitInv, IteratorWaits
  <2> QED BY <2>1, <2>2
<1>12. ReaderWaits'
  BY <1>2 DEF WaitInv, ReaderWaits, Full
<1> QED BY <1>8, <1>9, <1>10, <1>11, <1>12 DEF WaitInv

\* __anext__, from a stream it does not wait in
LEMMA AdvanceStep ==
    ASSUME StreamInv, NEW i \in Iterator, NEW x, Left(i, x), Advance(i, x),
           UNCHANGED <<connected, arrived, committed>>
    PROVE  StreamInv'
<1>1. CASE it' = [it EXCEPT ![i].at = "ended"] /\ d' = x /\ UNCHANGED <<reader, given>>
  BY <1>1, LeavesQueue
<1>2. CASE /\ x.queue # <<>> /\ it' = [it EXCEPT ![i].at = "open"]
           /\ given' = Append(given, Head(x.queue)) /\ d' = Take(x) /\ reader' = Space(reader)
  BY <1>2, Takes
<1>3. CASE it' = [it EXCEPT ![i].at = "refused"] /\ d' = x /\ UNCHANGED <<reader, given>>
  BY <1>3, LeavesQueue
<1>4. CASE /\ it[i].stream = x.stream /\ x.queue = <<>> /\ ~x.closed /\ x.waiting # x.stream
           /\ it' = [it EXCEPT ![i].at = "waiting"] /\ d' = [x EXCEPT !.waiting = x.stream]
           /\ UNCHANGED <<reader, given>>
  BY <1>4, Waits
<1> QED BY <1>1, <1>2, <1>3, <1>4 DEF Advance

-----------------------------------------------------------------------------
\* The stream starts in the invariant.
LEMMA InitStream ==
    ASSUME Init
    PROVE  StreamInv
<1>1. PICK accounted \in Modes : d = NewDelivery(accounted)
  BY DEF Init
<1>2. accounted \in BOOLEAN /\ MaxArrivals \in Nat
  BY DeliveryAssumptions
<1>3. /\ d \in Delivery /\ d.queue = <<>> /\ d.bytes = 0 /\ d.stream = 0 /\ d.waiting = -1
  BY <1>1, <1>2, EmptySeq DEF NewDelivery, Delivery
<1>4. /\ reader \in ReaderTask /\ reader.lot = <<>> /\ reader.at = "idle"
  BY EmptySeq DEF Init, NoReader, ReaderTask
<1>5. it \in [Iterator -> Iterators] /\ \A i \in Iterator : it[i].at = "none" /\ it[i].stream = 0
  BY DEF Init, Iterators
<1>6. TypeInv
  BY <1>3, <1>4, <1>5, EmptySeq DEF Init, TypeInv
<1>7. LotInv
  BY <1>2, <1>4, EmptySeq DEF Init, LotInv
<1>8. OwedInv
  <2>1. Kept(<<>>, OwedSet) = <<>> /\ Only(<<>>, OwedSet) = <<>>
    BY OnlyEmpty DEF Kept
  <2>2. <<>> \in Seq(Message) /\ <<>> \o <<>> = <<>>
    BY EmptySeq, ConcatEmptySeq
  <2>3. Settles(<<>>, arrived, committed, reader.lot, OwedSet)
    BY <1>4, <2>1, <2>2 DEF Init, Settles
  <2> QED BY <2>2, <2>3 DEF OwedInv
<1>9. StreamIntact
  <2>1. <<>> \in Seq(Message) /\ <<>> \o <<>> = <<>>
    BY EmptySeq, ConcatEmptySeq
  <2> QED BY <1>3, <2>1 DEF Init, StreamIntact
<1>10. ChargeExact
  BY <1>3, TotalEmpty DEF ChargeExact
<1>11. WaiterInv
  <2>1. There = {}
    BY <1>5 DEF There
  <2>2. -1 # 0
    OBVIOUS
  <2> QED BY <1>3, <2>1, <2>2 DEF WaiterInv
<1>12. WaitInv
  BY <1>4, <1>5 DEF WaitInv, IteratorWaits, ReaderWaits
<1> QED BY <1>6, <1>7, <1>8, <1>9, <1>10, <1>11, <1>12 DEF StreamInv

\* Every step of the reader, the stream and the iterators keeps it.
LEMMA NextStream ==
    ASSUME StreamInv, [Next]_vars
    PROVE  StreamInv'
<1>1. CASE UNCHANGED vars
  <2>1. UNCHANGED <<d, reader, it, connected, arrived, committed, given>>
    BY <1>1 DEF vars
  <2>2. LotInv' /\ OwedInv' /\ StreamIntact' /\ ChargeExact'
    BY <2>1, Untouched DEF StreamInv, TypeInv
  <2>3. WaiterInv'
    BY <2>1, WaiterKept DEF StreamInv
  <2>4. TypeInv' /\ WaitInv'
    BY <2>1 DEF StreamInv, TypeInv, WaitInv, IteratorWaits, ReaderWaits, Full
  <2> QED BY <2>2, <2>3, <2>4 DEF StreamInv
<1>2. CASE Decode
  BY <1>2, DecodeStep
<1>3. CASE Deliver
  BY <1>3, DeliverStep
<1>4. CASE ResumeReader
  BY <1>4, ResumeReaderStep
<1>5. CASE Retire
  BY <1>5, RetireStep
<1>6. CASE TimeOut
  BY <1>6, TimeOutStep
<1>7. CASE Oversized
  BY <1>7, OversizedStep
<1>8. CASE Invalidate
  BY <1>8, InvalidateStep
<1>9. CASE Close
  BY <1>9, CloseStep
<1>10. CASE Reconnect
  BY <1>10, ReconnectStep
<1>11. CASE ResetStream
  BY <1>11, ResetStreamStep
<1>12. ASSUME NEW i \in Iterator, Open(i) \/ AskNext(i) \/ Resume(i) \/ CancelIterator(i)
       PROVE  StreamInv'
  <2>1. CASE Open(i)
    BY <2>1, OpenStep
  <2>2. CASE AskNext(i)
    <3>1. Left(i, d)
      BY <2>2, LeftOpen DEF AskNext
    <3> QED BY <2>2, <3>1, AdvanceStep DEF AskNext
  <2>3. CASE Resume(i)
    <3>1. Left(i, LeaveWait(i))
      BY <2>3, LeftWait DEF Resume
    <3> QED BY <2>3, <3>1, AdvanceStep DEF Resume
  <2>4. CASE CancelIterator(i)
    <3>1. Left(i, LeaveWait(i))
      BY <2>4, LeftWait DEF CancelIterator
    <3> QED BY <2>4, <3>1, LeavesQueue DEF CancelIterator
  <2> QED BY <1>12, <2>1, <2>2, <2>3, <2>4
<1> QED
  BY <1>1, <1>2, <1>3, <1>4, <1>5, <1>6, <1>7, <1>8, <1>9, <1>10, <1>11, <1>12 DEF Next

\* The inductive invariant: where the reader stands in what arrived, what is
\* queued and charged, and who waits.
THEOREM StreamInvariant == Spec => []StreamInv
<1>1. Init => StreamInv
  BY InitStream
<1>2. StreamInv /\ [Next]_vars => StreamInv'
  BY NextStream
<1> QED BY <1>1, <1>2, PTL DEF Spec

\* The stream is what was promised and not yet given, charged to the byte, and
\* nobody waits for what is there already: StreamExact, however many iterators,
\* reconnections and replaced streams there are.
THEOREM StreamAlwaysExact == Spec => []StreamExact
<1>1. StreamInv => StreamExact
  <2> SUFFICES ASSUME StreamInv
               PROVE  StreamExact
    OBVIOUS
  <2> USE DEF StreamInv
  <2>1. TypeOK
    <3>1. d.bytes \in Nat /\ d.closed \in BOOLEAN /\ d.stream \in Nat
      BY DEF TypeInv, Delivery
    <3>2. d.waiting \in {-1} \cup 0..d.stream
      BY DEF TypeInv, Delivery
    <3>3. /\ reader.at \in {"idle", "waiting", "woken"}
          /\ reader.at # "idle" => reader.lot # <<>> /\ connected
      BY DEF TypeInv, ReaderTask, LotInv
    <3>4. \A i \in Iterator :
             it[i].at \in {"none", "open", "waiting", "woken", "ended", "refused"}
      BY DEF TypeInv, Iterators
    <3> QED BY <3>1, <3>2, <3>3, <3>4 DEF TypeOK
  <2>2. NobodyWaitsInVain
    BY DEF NobodyWaitsInVain, WaitInv, IteratorWaits, ReaderWaits
  <2>3. OneWaiter
    <3>1. There = {} \/ \E i \in There : There = {i}
      BY DEF WaiterInv
    <3>2. Cardinality(There) <= 1
      <4>1. CASE There = {}
        BY <4>1, FS_EmptySet
      <4>2. ASSUME NEW i \in There, There = {i}
            PROVE  Cardinality(There) <= 1
        BY <4>2, FS_Singleton
      <4> QED BY <3>1, <4>1, <4>2
    <3> QED BY <3>2 DEF OneWaiter, There, WaiterInv
  <2> QED BY <2>1, <2>2, <2>3 DEF StreamExact
<1> QED BY <1>1, StreamInvariant, PTL

\* A message nobody else owns is committed once, in order, or still in the lot,
\* unless it can never fit or its own deadline passed: AckedNeverLost, through
\* losses, invalidations and timeouts wherever the reader waits.
THEOREM NoAckedLoss == Spec => []AckedNeverLost
<1>1. StreamInv => AckedNeverLost
  <2> SUFFICES ASSUME StreamInv
               PROVE  AckedNeverLost
    OBVIOUS
  <2>1. PICK s \in Seq(Message) : Settles(s, arrived, committed, reader.lot, OwedSet)
    BY DEF StreamInv, OwedInv
  <2>2. reader.lot \in Seq(Message) /\ \A n \in 1..Len(reader.lot) : ~reader.lot[n].expired
    BY DEF StreamInv, TypeInv, ReaderTask, LotInv
  <2>3. Kept(s \o reader.lot, OwedSet) = Kept(s, OwedSet) \o Kept(reader.lot, OwedSet)
    BY <2>2, KeptConcat
  <2>4. Kept(reader.lot, OwedSet) = Only(reader.lot, OwedSet)
    BY <2>2, KeptUnexpired
  <2>5. Kept(arrived, OwedSet) = Only(committed, OwedSet) \o Only(reader.lot, OwedSet)
    BY <2>1, <2>3, <2>4 DEF Settles
  <2> QED BY <2>5 DEF AckedNeverLost, Owed, Kept, OwedSet, UnexpiredSet
<1> QED BY <1>1, StreamInvariant, PTL
=============================================================================
