-------------------------- MODULE WritePumpProofs --------------------------
(***************************************************************************)
(* The safety of WritePump for any number of producers, frames, limits and *)
(* connections: WireExact and FailedGenerationSilent.                      *)
(*                                                                         *)
(* Both follow from WriterInv.  The order on the wire (Carried) is only    *)
(* inductive together with what tells the three writers apart (Modes): an  *)
(* eager write and a latency flush go past the writer task, so they are    *)
(* sound because a bound pump is healthy and one that is not writing holds *)
(* no batch, whence the queue is all that the wire still misses.  The      *)
(* account (Charged) needs the same: an eager write is charged nothing.    *)
(*                                                                         *)
(* No frame reaches another transport because every holder of a frame of   *)
(* an earlier connection has an epoch below the pump's (HeldBy); that      *)
(* survives a pump whose epoch runs ahead of the client's after a failure  *)
(* because no holder's epoch exceeds the client's.  It is also why a       *)
(* failed generation is silent.  The terminal packet is last because the   *)
(* pump that admitted one is sealed, or latched by its failed eager write  *)
(* (Ended).  The line of waiters is exactly the parked producers (Lined)   *)
(* because notify() takes from it whom it wakes.                           *)
(***************************************************************************)
EXTENDS WritePump, SeqFoldsProofs, FiniteSetTheorems

PlainKind == {"data", "ack", "seg"}
FrameOf(K) == [id : Nat \X Nat, kind : K, size : Nat \ {0}, conn : Nat]
Plain == FrameOf(PlainKind)
Frames == FrameOf(PlainKind \cup {"terminal"})
PartOf(T) == [f : T, part : {1, 2}]
Piece == PartOf(Frames)

Pumps ==
    [queue : Seq(Frames), bytes : Nat, resident : Nat, unfinished : Nat,
     task : {"none", "waiting", "writing", "done"}, batch : Seq(Frames), pos : Nat,
     bound : BOOLEAN, armed : BOOLEAN, ackArmed : BOOLEAN, rearm : BOOLEAN,
     deferred : BOOLEAN, sealed : BOOLEAN, latch : BOOLEAN, epoch : Nat, line : Seq(Proc)]
Holder == [at : {"ready", "parked", "woken"}, frame : Plain, epoch : Nat]
Clients ==
    [phase : {"up", "closing", "retired", "stopped", "dialing"}, epoch : Nat, opened : Nat]

Tasks == [Proc -> Holder \cup {Idle}]

TypeInv ==
    /\ w \in Pumps /\ prod \in Tasks /\ client \in Clients
    /\ wire \in Seq(Piece) /\ log \in Seq(Frames)

\* The line holds exactly the parked producers, each once.
Lined(x, ps) ==
    /\ Distinct(x.line)
    /\ \A p \in Proc : ps[p].at = "parked" <=> Has(x.line, p)

\* A frame of an earlier connection was captured in an epoch the pump has left.
HeldBy(ps, c, x) ==
    \A p \in Proc : ps[p].at # "idle" =>
        /\ ps[p].epoch <= c.epoch
        /\ ps[p].frame.conn # c.opened => ps[p].epoch < x.epoch

\* What the writer holds, who may write through it, and in which epoch.
Modes(x, c) ==
    /\ x.task # "writing" => x.batch = <<>> /\ x.pos = 0
    /\ x.task = "writing" => ~x.latch /\ x.pos <= Len(AllParts(x.batch))
    /\ x.bound => x.task \in {"waiting", "writing"} /\ ~x.latch
    /\ c.phase \in {"stopped", "dialing"} => x.task = "none"
    /\ c.phase = "dialing" => x.epoch = c.epoch
    /\ c.phase = "up" /\ x.epoch # c.epoch => x.latch \/ x.task = "done"
    /\ c.epoch <= x.epoch

Healthy(x) == x.task \in {"waiting", "writing"} /\ ~x.latch
Todo(x) == SubSeq(AllParts(x.batch), x.pos + 1, Len(AllParts(x.batch)))

\* The wire is a prefix of what was admitted, and a healthy pump holds the rest.
Carried(x, s, l) ==
    /\ \E rest \in Seq(Piece) : AllParts(l) = s \o rest
    /\ Healthy(x) => AllParts(l) = (s \o Todo(x)) \o AllParts(x.queue)

Charged(x) ==
    /\ x.bytes = TotalSize(x.batch \o x.queue)
    /\ x.resident = Len(x.batch) + Len(x.queue) /\ x.unfinished = x.resident
    /\ x.resident <= MaxMessages
    /\ x.bytes <= MaxBytes \/ x.resident = 1

\* A terminal packet is the last one admitted, and closes the pump.
Ended(x, l) ==
    \/ l \in Seq(Plain)
    \/ /\ x.sealed \/ x.latch
       /\ \E s \in Seq(Plain) : \E f \in Frames : f.kind = "terminal" /\ l = Append(s, f)

FramesFor(n) == {f \in Frames : f.conn = n}

WriterInv ==
    /\ TypeInv
    /\ Lined(w, prod) /\ HeldBy(prod, client, w) /\ Modes(w, client)
    /\ Carried(w, wire, log) /\ Charged(w)
    /\ Ended(w, log) /\ log \in Seq(FramesFor(client.opened))

-----------------------------------------------------------------------------
(* The parts of a sequence of frames *)

\* What the recursive function of AllParts(s) satisfies
Joining(k, s, n) == IF n = 0 THEN <<>> ELSE k[n - 1] \o Parts(s[n])
Joins(k, s) == k = [n \in 0..Len(s) |-> Joining(k, s, n)]

\* Two such functions agree as far as their sequences do.
LEMMA JoinsAgree ==
    ASSUME NEW T, NEW s \in Seq(T), NEW u \in Seq(T), NEW k, NEW j, Joins(k, s), Joins(j, u),
           NEW m \in Nat, m <= Len(s), m <= Len(u), \A n \in 1..m : s[n] = u[n]
    PROVE  \A n \in 0..m : k[n] = j[n]
<1> DEFINE A == {n \in Nat : n <= m => k[n] = j[n]}
<1>1. 0 \in A
  BY DEF Joins, Joining
<1>2. ASSUME NEW n \in Nat, n \in A
      PROVE  n + 1 \in A
  <2>1. SUFFICES ASSUME n + 1 <= m
                 PROVE  k[n + 1] = j[n + 1]
    OBVIOUS
  <2>2. k[n] = j[n] /\ s[n + 1] = u[n + 1] /\ n + 1 \in 0..Len(s) /\ n + 1 \in 0..Len(u)
    BY <1>2, <2>1
  <2>3. k[n + 1] = Joining(k, s, n + 1) /\ j[n + 1] = Joining(j, u, n + 1)
    BY <2>2 DEF Joins
  <2>4. (n + 1) - 1 = n /\ n + 1 # 0
    OBVIOUS
  <2> QED BY <2>2, <2>3, <2>4 DEF Joining
<1>3. \A n \in Nat : n \in A
  <2> HIDE DEF A
  <2> QED BY <1>1, <1>2, InductiveSet
<1> QED BY <1>3

\* There is such a function.
LEMMA JoinsExist ==
    ASSUME NEW T
    PROVE  \A s \in Seq(T) : \E k : Joins(k, s)
<1> DEFINE A == {s \in Seq(T) : \E k : Joins(k, s)}
<1>1. <<>> \in A
  <2>1. Joins([n \in 0..0 |-> <<>>], <<>>)
    BY DEF Joins, Joining
  <2> QED BY <2>1
<1>2. ASSUME NEW s \in Seq(T), NEW e \in T, s \in A
      PROVE  Append(s, e) \in A
  <2>1. PICK k : Joins(k, s)
    BY <1>2
  <2> DEFINE u == Append(s, e)
             l == Len(s) + 1
             j == [n \in 0..l |-> IF n = l THEN Joining(k, u, l) ELSE k[n]]
  <2>2. u \in Seq(T) /\ Len(u) = l /\ \A n \in 1..Len(s) : u[n] = s[n]
    BY AppendProperties
  <2>3. \A n \in 0..l : j[n] = Joining(j, u, n)
    <3>1. TAKE n \in 0..l
    <3>2. CASE n = l
      <4>1. l - 1 \in 0..l /\ l - 1 # l /\ l # 0
        BY LenProperties
      <4>2. j[l - 1] = k[l - 1] /\ j[l] = Joining(k, u, l)
        BY <4>1
      <4> HIDE DEF j, u, l
      <4> QED BY <3>2, <4>2 DEF Joining
    <3>3. CASE n # l
      <4>1. n \in 0..Len(s) /\ j[n] = k[n]
        BY <3>3
      <4>2. k[n] = Joining(k, s, n)
        BY <2>1, <4>1 DEF Joins
      <4>3. CASE n = 0
        BY <4>1, <4>2, <4>3 DEF Joining
      <4>4. CASE n # 0
        <5>1. n \in 1..Len(s) /\ n - 1 \in 0..l /\ n - 1 # l
          BY <4>1, <4>4
        <5>2. j[n - 1] = k[n - 1] /\ u[n] = s[n]
          BY <2>2, <5>1
        <5> HIDE DEF j, u, l
        <5> QED BY <4>1, <4>2, <4>4, <5>2 DEF Joining
      <4> QED BY <4>3, <4>4
    <3> QED BY <3>2, <3>3
  <2>4. Joins(j, u)
    <3>1. j = [n \in 0..l |-> j[n]]
      OBVIOUS
    <3> HIDE DEF j, u, l
    <3> QED BY <2>2, <2>3, <3>1 DEF Joins
  <2> QED BY <2>2, <2>4
<1>3. \A s \in Seq(T) : s \in A
  <2> HIDE DEF A
  <2> QED BY <1>1, <1>2, InductiveSeqs
<1> QED BY <1>3

\* AllParts is the last value of one.
LEMMA PartsJoin ==
    ASSUME NEW T, NEW s \in Seq(T)
    PROVE  \E k : Joins(k, s) /\ AllParts(s) = k[Len(s)]
<1> DEFINE Is(k) == k = [n \in 0..Len(s) |-> IF n = 0 THEN <<>> ELSE k[n - 1] \o Parts(s[n])]
           f == CHOOSE k : Is(k)
<1>1. AllParts(s) = f[Len(s)]
  BY DEF AllParts
<1>2. \E k : Is(k)
  <2>1. PICK k : Joins(k, s)
    BY JoinsExist
  <2>2. Is(k)
    BY <2>1 DEF Joins, Joining
  <2> QED BY <2>2
<1>3. Is(f)
  <2> HIDE DEF Is
  <2> QED BY <1>2
<1>4. Joins(f, s)
  BY <1>3 DEF Joins, Joining
<1> HIDE DEF f
<1> QED BY <1>1, <1>4

\* Nothing has no parts.
LEMMA PartsEmpty == AllParts(<<>>) = <<>>
<1>1. PICK k : Joins(k, <<>>) /\ AllParts(<<>>) = k[Len(<<>>)]
  <2>1. <<>> \in Seq({})
    BY EmptySeq
  <2> QED BY <2>1, PartsJoin
<1> QED BY <1>1 DEF Joins, Joining

\* A frame adds its parts.
LEMMA PartsAppend ==
    ASSUME NEW T, NEW s \in Seq(T), NEW e \in T
    PROVE  AllParts(Append(s, e)) = AllParts(s) \o Parts(e)
<1> DEFINE u == Append(s, e)
           l == Len(s) + 1
<1>1. u \in Seq(T) /\ Len(u) = l /\ u[l] = e /\ \A n \in 1..Len(s) : u[n] = s[n]
  BY AppendProperties
<1>2. Len(s) \in Nat /\ l - 1 = Len(s) /\ l # 0 /\ l \in 0..l
  BY LenProperties
<1> HIDE DEF u, l
<1>3. PICK k : Joins(k, s) /\ AllParts(s) = k[Len(s)]
  BY PartsJoin
<1>4. PICK j : Joins(j, u) /\ AllParts(u) = j[l]
  BY <1>1, PartsJoin
<1>5. j[Len(s)] = k[Len(s)]
  <2>1. \A n \in 0..Len(s) : k[n] = j[n]
    BY <1>1, <1>2, <1>3, <1>4, JoinsAgree DEF l
  <2> QED BY <1>2, <2>1
<1>6. j[l] = Joining(j, u, l)
  BY <1>1, <1>2, <1>4 DEF Joins
<1>7. j[l] = j[Len(s)] \o Parts(e)
  BY <1>1, <1>2, <1>6 DEF Joining
<1> QED BY <1>3, <1>4, <1>5, <1>7 DEF u

\* A frame has one part or two.
LEMMA PartsShape ==
    ASSUME NEW T, NEW e \in T
    PROVE  /\ Parts(e) \in Seq(PartOf(T)) /\ Len(Parts(e)) \in {1, 2}
           /\ e.kind # "seg" => Parts(e) = <<[f |-> e, part |-> 1]>>
<1>1. [f |-> e, part |-> 1] \in PartOf(T) /\ [f |-> e, part |-> 2] \in PartOf(T)
  BY DEF PartOf
<1> QED BY <1>1 DEF Parts

\* The parts of frames are parts of those frames.
LEMMA PartsTyped ==
    ASSUME NEW T
    PROVE  \A s \in Seq(T) : AllParts(s) \in Seq(PartOf(T))
<1> DEFINE A == {s \in Seq(T) : AllParts(s) \in Seq(PartOf(T))}
<1>1. <<>> \in A
  BY PartsEmpty, EmptySeq
<1>2. ASSUME NEW s \in Seq(T), NEW e \in T, s \in A
      PROVE  Append(s, e) \in A
  <2>1. Append(s, e) \in Seq(T) /\ AllParts(Append(s, e)) = AllParts(s) \o Parts(e)
    BY AppendProperties, PartsAppend
  <2>2. AllParts(s) \in Seq(PartOf(T)) /\ Parts(e) \in Seq(PartOf(T))
    BY <1>2, PartsShape
  <2>3. AllParts(s) \o Parts(e) \in Seq(PartOf(T))
    BY <2>2, ConcatProperties
  <2> QED BY <2>1, <2>3
<1>3. \A s \in Seq(T) : s \in A
  <2> HIDE DEF A
  <2> QED BY <1>1, <1>2, InductiveSeqs
<1> QED BY <1>3

\* The parts of two sequences follow each other.
LEMMA PartsConcat ==
    ASSUME NEW T, NEW s \in Seq(T)
    PROVE  \A u \in Seq(T) : AllParts(s \o u) = AllParts(s) \o AllParts(u)
<1> DEFINE A == {u \in Seq(T) : AllParts(s \o u) = AllParts(s) \o AllParts(u)}
<1>0. PICK P : P = PartOf(T)
  OBVIOUS
<1>1. <<>> \in A
  <2>1. AllParts(s) \in Seq(P)
    BY <1>0, PartsTyped
  <2> QED BY <2>1, PartsEmpty, EmptySeq, ConcatEmptySeq
<1>2. ASSUME NEW u \in Seq(T), NEW e \in T, u \in A
      PROVE  Append(u, e) \in A
  <2>1. PICK a, b, c : a = AllParts(s) /\ b = AllParts(u) /\ c = Parts(e)
    OBVIOUS
  <2>2. a \in Seq(P) /\ b \in Seq(P) /\ c \in Seq(P)
    BY <1>0, <2>1, PartsTyped, PartsShape
  <2>3. Append(u, e) \in Seq(T) /\ AllParts(Append(u, e)) = b \o c
    BY <2>1, AppendProperties, PartsAppend
  <2>4. s \o Append(u, e) = Append(s \o u, e) /\ s \o u \in Seq(T)
    <3> DEFINE h == <<e>>
    <3>1. h \in Seq(T)
      OBVIOUS
    <3>2. Append(u, e) = u \o h
      BY AppendIsConcat
    <3>3. s \o u \in Seq(T)
      BY ConcatProperties
    <3>4. Append(s \o u, e) = (s \o u) \o h
      BY <3>3, AppendIsConcat
    <3> HIDE DEF h
    <3> QED BY <3>1, <3>2, <3>3, <3>4, ConcatAssociative
  <2>5. AllParts(Append(s \o u, e)) = AllParts(s \o u) \o c
    BY <2>1, <2>4, PartsAppend
  <2>6. AllParts(s \o u) = a \o b
    BY <1>2, <2>1
  <2>7. (a \o b) \o c = a \o (b \o c)
    BY <2>2, ConcatAssociative
  <2>8. AllParts(s \o Append(u, e)) = AllParts(s) \o AllParts(Append(u, e))
    BY <2>1, <2>3, <2>4, <2>5, <2>6, <2>7
  <2> QED BY <2>3, <2>8
<1>3. \A u \in Seq(T) : u \in A
  <2> HIDE DEF A
  <2> QED BY <1>1, <1>2, InductiveSeqs
<1> QED BY <1>3

-----------------------------------------------------------------------------
(* Sequences, minima and prefixes *)

\* The smaller of two
LEMMA MinOfTwo ==
    ASSUME NEW a \in Nat, NEW b \in Nat
    PROVE  Min({a, b}) = IF a <= b THEN a ELSE b
<1> DEFINE m == IF a <= b THEN a ELSE b
<1>1. m \in {a, b} /\ \A y \in {a, b} : m <= y
  OBVIOUS
<1>2. \A x \in {a, b} : (\A y \in {a, b} : x <= y) => x = m
  OBVIOUS
<1> HIDE DEF m
<1>3. Min({a, b}) = m
  BY <1>1, <1>2 DEF Min
<1> QED BY <1>3 DEF m

\* The counter that is never below zero
LEMMA MaxWithZero ==
    ASSUME NEW a \in Nat
    PROVE  Max({0, a}) = a
<1>1. a \in {0, a} /\ \A y \in {0, a} : a >= y
  OBVIOUS
<1>2. \A x \in {0, a} : (\A y \in {0, a} : x >= y) => x = a
  OBVIOUS
<1> QED BY <1>1, <1>2 DEF Max

\* A sequence is what is before a place and what is after it.
LEMMA SplitAt ==
    ASSUME NEW T, NEW s \in Seq(T), NEW n \in 0..Len(s)
    PROVE  /\ SubSeq(s, 1, n) \in Seq(T) /\ SubSeq(s, n + 1, Len(s)) \in Seq(T)
           /\ Len(SubSeq(s, 1, n)) = n /\ Len(SubSeq(s, n + 1, Len(s))) = Len(s) - n
           /\ SubSeq(s, 1, n) \o SubSeq(s, n + 1, Len(s)) = s
           /\ \A i \in 1..n : SubSeq(s, 1, n)[i] = s[i]
           /\ \A i \in 1..Len(s) - n : SubSeq(s, n + 1, Len(s))[i] = s[n + i]
<1>1. PICK l \in Nat : l = Len(s)
  BY LenProperties
<1>2. \A i \in 1..l : s[i] \in T
  BY <1>1, ElementOfSeq
<1>3. /\ SubSeq(s, 1, n) \in Seq(T)
      /\ Len(SubSeq(s, 1, n)) = IF 1 <= n THEN n - 1 + 1 ELSE 0
      /\ \A i \in 1..n - 1 + 1 : SubSeq(s, 1, n)[i] = s[1 + i - 1]
  <2>1. \A i \in 1..n : s[i] \in T
    BY <1>1, <1>2
  <2> QED BY <2>1, SubSeqProperties
<1>4. /\ SubSeq(s, n + 1, l) \in Seq(T)
      /\ Len(SubSeq(s, n + 1, l)) = IF n + 1 <= l THEN l - (n + 1) + 1 ELSE 0
      /\ \A i \in 1..l - (n + 1) + 1 : SubSeq(s, n + 1, l)[i] = s[(n + 1) + i - 1]
  <2>1. n + 1 \in Int /\ l \in Int /\ \A i \in n + 1..l : s[i] \in T
    BY <1>1, <1>2
  <2> QED BY <2>1, SubSeqProperties
<1>5. SubSeq(s, 1, n) \o SubSeq(s, n + 1, l) = SubSeq(s, 1, l)
  <2>1. 1 \in 1..Len(s) + 1 /\ n \in 1 - 1..Len(s) /\ l \in n..Len(s)
    BY <1>1
  <2> QED BY <2>1, ConcatAdjacentSubSeq
<1>6. SubSeq(s, 1, l) = s
  BY <1>1, SubSeqFull
<1>7. Len(SubSeq(s, 1, n)) = n /\ Len(SubSeq(s, n + 1, l)) = l - n
  BY <1>1, <1>3, <1>4
<1>8. ASSUME NEW i \in 1..n
      PROVE  SubSeq(s, 1, n)[i] = s[i]
  <2>1. i \in 1..n - 1 + 1 /\ 1 + i - 1 = i
    BY <1>1
  <2> QED BY <1>3, <2>1
<1>9. ASSUME NEW i \in 1..l - n
      PROVE  SubSeq(s, n + 1, l)[i] = s[n + i]
  <2>1. i \in 1..l - (n + 1) + 1 /\ (n + 1) + i - 1 = n + i
    BY <1>1
  <2> QED BY <1>4, <2>1
<1> QED BY <1>1, <1>3, <1>4, <1>5, <1>6, <1>7, <1>8, <1>9

\* What comes first is a prefix.
LEMMA FirstIsPrefix ==
    ASSUME NEW T, NEW a \in Seq(T), NEW b \in Seq(T)
    PROVE  IsPrefix(a, a \o b)
<1>1. PICK c : c = a \o b
  OBVIOUS
<1>2. /\ c \in Seq(T) /\ Len(c) = Len(a) + Len(b) /\ Len(a) \in Nat /\ Len(b) \in Nat
      /\ \A i \in 1..Len(a) : c[i] = a[i]
  BY <1>1, ConcatProperties, LenProperties
<1>3. Len(a) \in 0..Len(c)
  BY <1>2
<1>4. PICK u : u = SubSeq(c, 1, Len(a))
  OBVIOUS
<1>5. u \in Seq(T) /\ Len(u) = Len(a) /\ \A i \in 1..Len(a) : u[i] = c[i]
  BY <1>2, <1>3, <1>4, SplitAt
<1>6. u = a
  BY <1>2, <1>5, SeqEqual
<1>7. SubSeq(a, 1, Len(a)) = a
  BY SubSeqFull
<1> QED BY <1>1, <1>2, <1>4, <1>6, <1>7 DEF IsPrefix

-----------------------------------------------------------------------------
(* Producers in line *)

\* Some parked producers were woken, nothing else.
Woke(ps, qs) ==
    \A p \in Proc : \/ qs[p] = ps[p]
                    \/ ps[p] \in Holder /\ qs[p] = [ps[p] EXCEPT !.at = "woken"]

\* The first of a line leave it.
LEMMA FirstLeave ==
    ASSUME NEW s \in Seq(Proc), Distinct(s), NEW k \in 0..Len(s)
    PROVE  /\ SubSeq(s, k + 1, Len(s)) \in Seq(Proc) /\ Distinct(SubSeq(s, k + 1, Len(s)))
           /\ \A p : Has(SubSeq(s, k + 1, Len(s)), p) <=> Has(s, p) /\ p \notin {s[i] : i \in 1..k}
<1>1. PICK l \in Nat : l = Len(s)
  BY LenProperties
<1>2. PICK t : t = SubSeq(s, k + 1, Len(s))
  OBVIOUS
<1>3. t \in Seq(Proc) /\ Len(t) = l - k /\ \A i \in 1..l - k : t[i] = s[k + i]
  BY <1>1, <1>2, SplitAt
<1>4. \A i \in 1..l - k : k + i \in 1..l /\ k + i \notin 1..k
  BY <1>1
<1>5. Distinct(t)
  <2>1. SUFFICES ASSUME NEW i \in 1..l - k, NEW j \in 1..l - k, t[i] = t[j]
                 PROVE  i = j
    BY <1>3 DEF Distinct
  <2>2. s[k + i] = s[k + j] /\ k + i \in 1..l /\ k + j \in 1..l
    BY <1>3, <1>4, <2>1
  <2>3. k + i = k + j
    BY <1>1, <2>2 DEF Distinct
  <2> QED BY <1>1, <2>3
<1>6. ASSUME NEW p
      PROVE  Has(t, p) <=> Has(s, p) /\ p \notin {s[i] : i \in 1..k}
  <2>1. ASSUME Has(t, p) PROVE Has(s, p) /\ p \notin {s[i] : i \in 1..k}
    <3>1. PICK i \in 1..l - k : t[i] = p
      BY <1>3, <2>1 DEF Has
    <3>2. s[k + i] = p /\ k + i \in 1..l /\ k + i \notin 1..k
      BY <1>3, <1>4, <3>1
    <3>3. \A j \in 1..k : s[j] # p
      <4>1. \A j \in 1..k : j \in 1..l
        BY <1>1
      <4> QED BY <1>1, <3>2, <4>1 DEF Distinct
    <3> QED BY <1>1, <3>2, <3>3 DEF Has
  <2>2. ASSUME Has(s, p), p \notin {s[i] : i \in 1..k} PROVE Has(t, p)
    <3>1. PICK j \in 1..l : s[j] = p
      BY <1>1, <2>2 DEF Has
    <3>2. j \notin 1..k
      BY <2>2, <3>1
    <3>3. j - k \in 1..l - k /\ k + (j - k) = j
      BY <1>1, <3>1, <3>2
    <3>4. t[j - k] = p
      BY <1>3, <3>1, <3>3
    <3> QED BY <1>3, <3>3, <3>4 DEF Has
  <2> QED BY <2>1, <2>2
<1> QED BY <1>2, <1>3, <1>5, <1>6

\* A producer that is woken is woken.
LEMMA WakeInShape ==
    ASSUME NEW ps \in Tasks, NEW W \in SUBSET Proc, \A p \in W : ps[p].at = "parked"
    PROVE  /\ WakeIn(ps, W) \in Tasks /\ Woke(ps, WakeIn(ps, W))
           /\ \A p \in Proc : WakeIn(ps, W)[p].at = IF p \in W THEN "woken" ELSE ps[p].at
<1>1. PICK qs : qs = WakeIn(ps, W)
  OBVIOUS
<1>2. /\ qs = [p \in Proc |-> qs[p]]
      /\ \A p \in Proc : qs[p] = IF p \in W THEN [ps[p] EXCEPT !.at = "woken"] ELSE ps[p]
  BY <1>1 DEF WakeIn
<1>3. \A p \in Proc : ps[p] \in Holder \cup {Idle}
  BY DEF Tasks
<1>4. \A p \in W : ps[p] \in Holder
  BY <1>3 DEF Idle
<1>5. ASSUME NEW p \in Proc
      PROVE  /\ qs[p] \in Holder \cup {Idle} /\ qs[p].at = IF p \in W THEN "woken" ELSE ps[p].at
             /\ \/ qs[p] = ps[p]
                \/ ps[p] \in Holder /\ qs[p] = [ps[p] EXCEPT !.at = "woken"]
  <2>1. CASE p \in W
    BY <1>2, <1>4, <2>1 DEF Holder
  <2>2. CASE p \notin W
    BY <1>2, <1>3, <2>2
  <2> QED BY <2>1, <2>2
<1> QED BY <1>1, <1>2, <1>5 DEF Tasks, Woke

\* notify(n): the first n of the line are woken and leave it.
LEMMA NotifyShape ==
    ASSUME NEW x \in Pumps, NEW ps \in Tasks, Lined(x, ps), NEW n \in Nat
    PROVE  /\ \E u \in Seq(Proc) : Notify(x, n) = [x EXCEPT !.line = u]
           /\ Notify(x, n) \in Pumps /\ WakeIn(ps, Woken(x, n)) \in Tasks
           /\ Woke(ps, WakeIn(ps, Woken(x, n)))
           /\ Lined(Notify(x, n), WakeIn(ps, Woken(x, n)))
<1>1. PICK s : s = x.line
  OBVIOUS
<1>2. s \in Seq(Proc) /\ Len(s) \in Nat
  BY <1>1, LenProperties DEF Pumps
<1>3. PICK k : k = Min({n, Len(s)})
  OBVIOUS
<1>4. k \in 0..Len(s)
  BY <1>2, <1>3, MinOfTwo
<1>5. PICK t : t = SubSeq(s, k + 1, Len(s))
  OBVIOUS
<1>6. PICK W : W = {s[i] : i \in 1..k}
  OBVIOUS
<1>7. t \in Seq(Proc) /\ Distinct(t) /\ \A p : Has(t, p) <=> Has(s, p) /\ p \notin W
  BY <1>1, <1>2, <1>4, <1>5, <1>6, FirstLeave DEF Lined
<1>8. Notify(x, n) = [x EXCEPT !.line = t] /\ Woken(x, n) = W
  BY <1>1, <1>3, <1>5, <1>6 DEF Notify, Woken, Pumps
<1>9. PICK y : y = [x EXCEPT !.line = t]
  OBVIOUS
<1>10. y \in Pumps /\ y.line = t
  BY <1>7, <1>9 DEF Pumps
<1>11. W \in SUBSET Proc /\ \A p \in W : Has(s, p) /\ ps[p].at = "parked"
  <2>1. \A i \in 1..k : i \in 1..Len(s) /\ s[i] \in Proc
    BY <1>2, <1>4, ElementOfSeq
  <2>2. \A p \in W : p \in Proc /\ Has(s, p)
    BY <1>6, <2>1 DEF Has
  <2> QED BY <1>1, <2>2 DEF Lined
<1>12. PICK qs : qs = WakeIn(ps, W)
  OBVIOUS
<1>13. /\ qs \in Tasks /\ Woke(ps, qs)
       /\ \A p \in Proc : qs[p].at = IF p \in W THEN "woken" ELSE ps[p].at
  BY <1>11, <1>12, WakeInShape
<1>14. \A p \in Proc : qs[p].at = "parked" <=> Has(t, p)
  BY <1>1, <1>7, <1>13 DEF Lined
<1>15. Lined(y, qs)
  BY <1>7, <1>10, <1>14 DEF Lined
<1> QED BY <1>7, <1>8, <1>9, <1>10, <1>12, <1>13, <1>15

\* notify_all()
LEMMA WakeAllShape ==
    ASSUME NEW x \in Pumps, NEW ps \in Tasks, Lined(x, ps)
    PROVE  /\ [x EXCEPT !.line = <<>>] \in Pumps
           /\ WakeIn(ps, Range(x.line)) \in Tasks /\ Woke(ps, WakeIn(ps, Range(x.line)))
           /\ Lined([x EXCEPT !.line = <<>>], WakeIn(ps, Range(x.line)))
<1>1. PICK s, W : s = x.line /\ W = Range(s)
  OBVIOUS
<1>2. s \in Seq(Proc) /\ Len(s) \in Nat /\ DOMAIN s = 1..Len(s)
  BY <1>1, LenProperties DEF Pumps
<1>3. \A p : p \in W <=> Has(s, p)
  BY <1>1, <1>2 DEF Range, Has
<1>4. W \in SUBSET Proc /\ \A p \in Proc : ps[p].at = "parked" <=> p \in W
  <2>1. \A p \in W : p \in Proc
    BY <1>2, <1>3, ElementOfSeq DEF Has
  <2> QED BY <1>1, <1>3, <2>1 DEF Lined
<1>5. PICK y, qs : y = [x EXCEPT !.line = <<>>] /\ qs = WakeIn(ps, W)
  OBVIOUS
<1>6. y \in Pumps /\ y.line = <<>>
  <2>1. <<>> \in Seq(Proc)
    BY EmptySeq
  <2> QED BY <1>5, <2>1 DEF Pumps
<1>7. /\ qs \in Tasks /\ Woke(ps, qs)
      /\ \A p \in Proc : qs[p].at = IF p \in W THEN "woken" ELSE ps[p].at
  BY <1>4, <1>5, WakeInShape
<1>8. Lined(y, qs)
  BY <1>4, <1>6, <1>7, EmptySeq DEF Lined, Has, Distinct
<1> QED BY <1>1, <1>5, <1>6, <1>7, <1>8

\* Whoever is only woken holds the frame it held.
LEMMA HeldKept ==
    ASSUME NEW ps \in Tasks, NEW qs, Woke(ps, qs), NEW c \in Clients, NEW x \in Pumps,
           NEW y \in Pumps, HeldBy(ps, c, x), x.epoch <= y.epoch
    PROVE  HeldBy(qs, c, y)
<1>1. SUFFICES ASSUME NEW p \in Proc, qs[p].at # "idle"
               PROVE  /\ qs[p].epoch <= c.epoch
                      /\ qs[p].frame.conn # c.opened => qs[p].epoch < y.epoch
  BY DEF HeldBy
<1>2. ps[p] \in Holder \cup {Idle}
  BY DEF Tasks
<1>3. /\ ps[p] \in Holder /\ qs[p].epoch = ps[p].epoch /\ qs[p].frame = ps[p].frame
  <2>1. CASE qs[p] = ps[p]
    <3>1. ps[p] # Idle
      BY <1>1, <2>1 DEF Idle
    <3> QED BY <1>2, <2>1, <3>1
  <2>2. CASE ps[p] \in Holder /\ qs[p] = [ps[p] EXCEPT !.at = "woken"]
    BY <2>2 DEF Holder
  <2> QED BY <2>1, <2>2 DEF Woke
<1>4. ps[p].at # "idle" /\ ps[p].epoch \in Nat /\ x.epoch \in Nat /\ y.epoch \in Nat
  BY <1>3 DEF Holder, Pumps
<1>5. /\ ps[p].epoch <= c.epoch /\ (ps[p].frame.conn # c.opened => ps[p].epoch < x.epoch)
  BY <1>4 DEF HeldBy
<1> QED BY <1>3, <1>4, <1>5

-----------------------------------------------------------------------------
(* The queue, the batch and the wire *)

\* What the queue and the batch are made of
LEMMA FrameFacts ==
    /\ \A f \in Frames : f.size \in Nat \ {0}
    /\ Plain \subseteq Frames
    /\ \A s \in Seq(Frames) : AllParts(s) \in Seq(Piece)
    /\ \A f \in Frames : Parts(f) \in Seq(Piece)
<1>1. \A f \in Frames : f.size \in Nat \ {0}
  BY DEF Frames, FrameOf
<1>2. Plain \subseteq Frames
  BY DEF Plain, Frames, FrameOf
<1> QED BY <1>1, <1>2, PartsTyped, PartsShape DEF Piece

\* Concatenations of parts
LEMMA Joined ==
    ASSUME NEW a \in Seq(Piece), NEW b \in Seq(Piece), NEW c \in Seq(Piece)
    PROVE  /\ a \o b \in Seq(Piece) /\ (a \o b) \o c = a \o (b \o c)
           /\ a \o <<>> = a /\ <<>> \o a = a
<1>1. PICK P : P = Piece
  OBVIOUS
<1>2. a \in Seq(P) /\ b \in Seq(P) /\ c \in Seq(P)
  BY <1>1
<1>3. a \o b \in Seq(P)
  BY <1>2, ConcatProperties
<1>4. (a \o b) \o c = a \o (b \o c)
  BY <1>2, ConcatAssociative
<1>5. a \o <<>> = a /\ <<>> \o a = a
  BY <1>2, ConcatEmptySeq
<1> QED BY <1>1, <1>3, <1>4, <1>5

\* What the writer has yet to write of its batch
LEMMA TodoShape ==
    ASSUME NEW x \in Pumps
    PROVE  /\ Todo(x) \in Seq(Piece)
           /\ x.batch = <<>> /\ x.pos = 0 => Todo(x) = <<>>
           /\ x.pos = Len(AllParts(x.batch)) => Todo(x) = <<>>
<1>1. PICK t, n : t = AllParts(x.batch) /\ n = x.pos
  OBVIOUS
<1>2. t \in Seq(Piece) /\ Len(t) \in Nat /\ n \in Nat
  <2>1. x.batch \in Seq(Frames) /\ x.pos \in Nat
    BY DEF Pumps
  <2> QED BY <1>1, <2>1, FrameFacts, LenProperties
<1>3. Todo(x) = SubSeq(t, n + 1, Len(t))
  BY <1>1 DEF Todo
<1>4. SubSeq(t, n + 1, Len(t)) \in Seq(Piece)
  <2>1. \A i \in n + 1..Len(t) : t[i] \in Piece
    <3>1. \A i \in n + 1..Len(t) : i \in 1..Len(t)
      BY <1>2
    <3> QED BY <1>2, <3>1, ElementOfSeq
  <2> QED BY <1>2, <2>1, SubSeqProperties
<1>5. n = Len(t) => SubSeq(t, n + 1, Len(t)) = <<>>
  BY <1>2, SubSeqEmpty
<1>6. x.batch = <<>> /\ x.pos = 0 => n = Len(t)
  BY <1>1, PartsEmpty, EmptySeq
<1> QED BY <1>1, <1>3, <1>4, <1>5, <1>6

\* What a pump's change leaves to the wire when its queue and batch stay
LEMMA CarriedKept ==
    ASSUME NEW x, NEW y, NEW s, NEW l, Carried(x, s, l), Healthy(y) => Healthy(x),
           y.queue = x.queue, y.batch = x.batch, y.pos = x.pos
    PROVE  Carried(y, s, l)
BY DEF Carried, Todo

\* ... and when it is no longer healthy
LEMMA CarriedUnhealthy ==
    ASSUME NEW x, NEW y, NEW s, NEW l, Carried(x, s, l), ~Healthy(y)
    PROVE  Carried(y, s, l)
BY DEF Carried

\* A frame joins the queue.
LEMMA PutShape ==
    ASSUME NEW x \in Pumps, NEW f \in Frames
    PROVE  LET y == Put(x, f) IN
           /\ y \in Pumps /\ y.queue = Append(x.queue, f) /\ y.bytes = x.bytes + f.size
           /\ y.resident = x.resident + 1 /\ y.unfinished = x.unfinished + 1
           /\ y.task = x.task /\ y.batch = x.batch /\ y.pos = x.pos /\ y.bound = x.bound
           /\ y.latch = x.latch /\ y.sealed = x.sealed /\ y.epoch = x.epoch /\ y.line = x.line
<1>1. PICK q, b, r, u : /\ q = Append(x.queue, f) /\ b = x.bytes + f.size
                        /\ r = x.resident + 1 /\ u = x.unfinished + 1
  OBVIOUS
<1>2. /\ x.queue \in Seq(Frames) /\ x.bytes \in Nat /\ x.resident \in Nat /\ x.unfinished \in Nat
  BY DEF Pumps
<1>3. q \in Seq(Frames) /\ b \in Nat /\ r \in Nat /\ u \in Nat
  <2>1. f.size \in Nat
    BY FrameFacts
  <2>2. q \in Seq(Frames)
    BY <1>1, <1>2, AppendProperties
  <2> QED BY <1>1, <1>2, <2>1, <2>2
<1>4. Put(x, f) = [x EXCEPT !.queue = q, !.bytes = b, !.resident = r, !.unfinished = u]
  BY <1>1 DEF Put, Pumps
<1>5. PICK y : y = Put(x, f)
  OBVIOUS
<1>6. y \in Pumps
  <2>1. [x EXCEPT !.queue = q, !.bytes = b, !.resident = r, !.unfinished = u] \in Pumps
    BY <1>3 DEF Pumps
  <2> QED BY <1>4, <1>5, <2>1
<1>7. /\ y.queue = q /\ y.bytes = b /\ y.resident = r /\ y.unfinished = u
      /\ y.task = x.task /\ y.batch = x.batch /\ y.pos = x.pos /\ y.bound = x.bound
      /\ y.latch = x.latch /\ y.sealed = x.sealed /\ y.epoch = x.epoch /\ y.line = x.line
  BY <1>4, <1>5, SMTT(30) DEF Pumps
<1> QED BY <1>1, <1>5, <1>6, <1>7

Room(x, f) ==
    \/ x.resident < MaxMessages /\ (x.bytes + f.size <= MaxBytes \/ x.resident = 0)
    \/ x.queue = <<>> /\ x.bytes = 0

\* ... where there is room for it,
LEMMA PutCharged ==
    ASSUME NEW x \in Pumps, Charged(x), NEW f \in Frames, Room(x, f)
    PROVE  Charged(Put(x, f))
<1>1. PICK y : y = Put(x, f)
  OBVIOUS
<1>2. /\ y.queue = Append(x.queue, f) /\ y.bytes = x.bytes + f.size
      /\ y.resident = x.resident + 1 /\ y.unfinished = x.unfinished + 1 /\ y.batch = x.batch
  BY <1>1, PutShape
<1>3. PICK b, q : b = x.batch /\ q = x.queue
  OBVIOUS
<1>4. /\ b \in Seq(Frames) /\ q \in Seq(Frames) /\ x.bytes \in Nat /\ x.resident \in Nat
      /\ f.size \in Nat \ {0} /\ Len(b) \in Nat /\ Len(q) \in Nat
  BY <1>3, FrameFacts, LenProperties DEF Pumps
<1>5. b \o q \in Seq(Frames) /\ Len(b \o q) = Len(b) + Len(q) /\ b \o Append(q, f) = Append(b \o q, f)
  <2>1. b \o q \in Seq(Frames) /\ Len(b \o q) = Len(b) + Len(q)
    BY <1>4, ConcatProperties
  <2>2. PICK h : h = <<f>>
    OBVIOUS
  <2>3. h \in Seq(Frames)
    BY <2>2
  <2>4. Append(q, f) = q \o h /\ Append(b \o q, f) = (b \o q) \o h
    BY <1>4, <2>1, <2>2, AppendIsConcat
  <2>5. (b \o q) \o h = b \o (q \o h)
    BY <1>4, <2>3, ConcatAssociative
  <2> QED BY <2>1, <2>4, <2>5
<1>6. TotalSize(b \o Append(q, f)) = TotalSize(b \o q) + f.size
  BY <1>5, TotalAppend
<1>7. y.bytes = TotalSize(y.batch \o y.queue)
  BY <1>2, <1>3, <1>6 DEF Charged
<1>8. Len(Append(q, f)) = Len(q) + 1
  BY <1>4, AppendProperties
<1>9. y.resident = Len(y.batch) + Len(y.queue) /\ y.unfinished = y.resident
  <2>1. PICK i \in Nat : i = Len(b)
    BY <1>4
  <2>2. PICK j \in Nat : j = Len(q)
    BY <1>4
  <2>3. x.resident = i + j /\ x.unfinished = x.resident
    BY <1>3, <2>1, <2>2 DEF Charged
  <2>4. Len(y.batch) = i /\ Len(y.queue) = j + 1
    BY <1>2, <1>3, <1>8, <2>1, <2>2
  <2> QED BY <1>2, <2>3, <2>4
<1>10. x.bytes = 0 => x.resident = 0
  <2>1. PICK n : n = TotalSize(b \o q)
    OBVIOUS
  <2>2. n \in Nat /\ n >= Len(b \o q)
    BY <1>5, <2>1, FrameFacts, TotalTyped
  <2>3. x.bytes = n /\ x.resident = Len(b \o q)
    BY <1>3, <1>5, <2>1 DEF Charged
  <2> QED BY <1>4, <2>2, <2>3
<1>11. x.resident < MaxMessages /\ (x.bytes + f.size <= MaxBytes \/ x.resident = 0)
  <2>1. 0 < MaxMessages
    BY WriterAssumptions
  <2> QED BY <1>10, <2>1 DEF Room
<1>12. y.resident <= MaxMessages /\ (y.bytes <= MaxBytes \/ y.resident = 1)
  <2>1. MaxMessages \in Nat
    BY WriterAssumptions
  <2> QED BY <1>2, <1>4, <1>11, <2>1
<1> QED BY <1>1, <1>7, <1>9, <1>12 DEF Charged

\* ... and follows what was admitted before it.
LEMMA PutCarried ==
    ASSUME NEW x \in Pumps, NEW s \in Seq(Piece), NEW l \in Seq(Frames), NEW f \in Frames,
           Carried(x, s, l)
    PROVE  Carried(Put(x, f), s, Append(l, f))
<1>1. PICK y, c, t, q : /\ y = Put(x, f) /\ c = Parts(f) /\ t = Todo(x)
                        /\ q = AllParts(x.queue)
  OBVIOUS
<1>2. x.queue \in Seq(Frames)
  BY DEF Pumps
<1>3. c \in Seq(Piece) /\ t \in Seq(Piece) /\ q \in Seq(Piece)
  BY <1>1, <1>2, FrameFacts, TodoShape
<1>4. AllParts(Append(l, f)) = AllParts(l) \o c /\ AllParts(Append(x.queue, f)) = q \o c
  BY <1>1, <1>2, PartsAppend
<1>5. /\ y.queue = Append(x.queue, f) /\ y.task = x.task /\ y.latch = x.latch
      /\ y.batch = x.batch /\ y.pos = x.pos
  BY <1>1, PutShape
<1>6. \E rest \in Seq(Piece) : AllParts(Append(l, f)) = s \o rest
  <2>1. PICK rest \in Seq(Piece) : AllParts(l) = s \o rest
    BY DEF Carried
  <2>2. rest \o c \in Seq(Piece) /\ (s \o rest) \o c = s \o (rest \o c)
    BY <1>3, Joined, SMTT(30)
  <2> QED BY <1>4, <2>1, <2>2
<1>7. Todo(y) = t /\ (Healthy(y) => Healthy(x))
  BY <1>1, <1>5 DEF Todo, Healthy
<1>8. ASSUME Healthy(x)
      PROVE  AllParts(Append(l, f)) = (s \o t) \o (q \o c)
  <2>1. AllParts(l) = (s \o t) \o q
    BY <1>1, <1>8 DEF Carried
  <2>2. s \o t \in Seq(Piece)
    BY <1>3, Joined
  <2>3. ((s \o t) \o q) \o c = (s \o t) \o (q \o c)
    BY <1>3, <2>2, Joined, SMTT(30)
  <2> QED BY <1>4, <2>1, <2>3
<1> QED BY <1>1, <1>4, <1>5, <1>6, <1>7, <1>8 DEF Carried

\* An idle pump has put everything on the wire.
LEMMA AllWritten ==
    ASSUME NEW x \in Pumps, NEW s \in Seq(Piece), NEW l \in Seq(Frames), Carried(x, s, l),
           Healthy(x), x.batch = <<>>, x.pos = 0
    PROVE  AllParts(l) = s \o AllParts(x.queue) /\ (x.queue = <<>> => AllParts(l) = s)
<1>1. Todo(x) = <<>> /\ x.queue \in Seq(Frames)
  BY TodoShape DEF Pumps
<1>2. AllParts(x.queue) \in Seq(Piece)
  BY <1>1, FrameFacts
<1>3. s \o <<>> = s
  BY Joined
<1>4. AllParts(l) = (s \o <<>>) \o AllParts(x.queue)
  BY <1>1 DEF Carried
<1> QED BY <1>3, <1>4, PartsEmpty

\* The eager write carries a frame past an empty queue;
LEMMA EagerCarried ==
    ASSUME NEW y \in Pumps, NEW l \in Seq(Frames), NEW f \in Frames,
           y.queue = <<>>, y.batch = <<>>, y.pos = 0
    PROVE  /\ AllParts(l) \o Parts(f) \in Seq(Piece)
           /\ Carried(y, AllParts(l) \o Parts(f), Append(l, f))
<1>1. PICK s, c : s = AllParts(l) /\ c = Parts(f)
  OBVIOUS
<1>2. s \in Seq(Piece) /\ c \in Seq(Piece) /\ AllParts(Append(l, f)) = s \o c
  BY <1>1, FrameFacts, PartsAppend
<1>3. s \o c \in Seq(Piece)
  BY <1>2, Joined
<1>4. (s \o c) \o <<>> = s \o c /\ <<>> \in Seq(Piece)
  BY <1>3, Joined, EmptySeq
<1>5. Todo(y) = <<>> /\ AllParts(y.queue) = <<>>
  BY TodoShape, PartsEmpty
<1> QED BY <1>1, <1>2, <1>3, <1>4, <1>5 DEF Carried

\* one that fails leaves any beginning of it there.
LEMMA EagerFailsCarried ==
    ASSUME NEW y \in Pumps, NEW l \in Seq(Frames), NEW f \in Frames, f.kind # "seg",
           NEW n \in 0..1, ~Healthy(y)
    PROVE  /\ AllParts(l) \o SubSeq(Parts(f), 1, n) \in Seq(Piece)
           /\ Carried(y, AllParts(l) \o SubSeq(Parts(f), 1, n), Append(l, f))
<1>1. PICK s, c : s = AllParts(l) /\ c = Parts(f)
  OBVIOUS
<1>2. s \in Seq(Piece) /\ c \in Seq(Piece) /\ AllParts(Append(l, f)) = s \o c
  BY <1>1, FrameFacts, PartsAppend
<1>3. n \in 0..Len(c)
  <2>1. Len(c) \in {1, 2}
    BY <1>1, PartsShape
  <2> QED BY <2>1
<1>4. PICK a, b : a = SubSeq(c, 1, n) /\ b = SubSeq(c, n + 1, Len(c))
  OBVIOUS
<1>5. a \in Seq(Piece) /\ b \in Seq(Piece) /\ a \o b = c
  <2>1. c \in Seq(Piece) /\ n \in 0..Len(c)
    BY <1>2, <1>3
  <2> QED BY <1>4, <2>1, SplitAt, ZenonT(40)
<1>6. s \o a \in Seq(Piece) /\ (s \o a) \o b = s \o (a \o b)
  <2>1. s \in Seq(Piece) /\ a \in Seq(Piece) /\ b \in Seq(Piece)
    BY <1>2, <1>5
  <2> QED BY <2>1, Joined
<1> QED BY <1>1, <1>2, <1>4, <1>5, <1>6 DEF Carried

\* The latency flush carries the whole queue, or a beginning of it when it fails.
LEMMA FlushCarried ==
    ASSUME NEW x \in Pumps, NEW s \in Seq(Piece), NEW l \in Seq(Frames), Carried(x, s, l),
           Healthy(x), x.batch = <<>>, x.pos = 0, NEW y \in Pumps
    PROVE  /\ s \o AllParts(x.queue) \in Seq(Piece)
           /\ y.queue = <<>> /\ y.batch = <<>> /\ y.pos = 0 =>
                Carried(y, s \o AllParts(x.queue), l)
           /\ \A k \in 0..Len(x.queue) :
                /\ s \o AllParts(SubSeq(x.queue, 1, k)) \in Seq(Piece)
                /\ ~Healthy(y) => Carried(y, s \o AllParts(SubSeq(x.queue, 1, k)), l)
<1>1. PICK q : q = x.queue
  OBVIOUS
<1>2. q \in Seq(Frames) /\ AllParts(l) = s \o AllParts(q) /\ AllParts(q) \in Seq(Piece)
  BY <1>1, AllWritten, FrameFacts DEF Pumps
<1>3. s \o AllParts(q) \in Seq(Piece)
  BY <1>2, Joined
<1>4. ASSUME y.queue = <<>>, y.batch = <<>>, y.pos = 0
      PROVE  Carried(y, s \o AllParts(q), l)
  <2>1. (s \o AllParts(q)) \o <<>> = s \o AllParts(q) /\ <<>> \in Seq(Piece)
    BY <1>3, Joined, EmptySeq
  <2>2. Todo(y) = <<>> /\ AllParts(y.queue) = <<>>
    BY <1>4, TodoShape, PartsEmpty
  <2> QED BY <1>2, <2>1, <2>2 DEF Carried
<1>5. ASSUME NEW k \in 0..Len(q)
      PROVE  /\ s \o AllParts(SubSeq(q, 1, k)) \in Seq(Piece)
             /\ ~Healthy(y) => Carried(y, s \o AllParts(SubSeq(q, 1, k)), l)
  <2>1. PICK a, b : a = SubSeq(q, 1, k) /\ b = SubSeq(q, k + 1, Len(q))
    OBVIOUS
  <2>2. a \in Seq(Frames) /\ b \in Seq(Frames) /\ a \o b = q
    <3>1. q \in Seq(Frames) /\ k \in 0..Len(q)
      BY <1>2
    <3>2. /\ SubSeq(q, 1, k) \in Seq(Frames) /\ SubSeq(q, k + 1, Len(q)) \in Seq(Frames)
          /\ SubSeq(q, 1, k) \o SubSeq(q, k + 1, Len(q)) = q
      BY <3>1, SplitAt
    <3> QED BY <2>1, <3>2
  <2>3. /\ AllParts(a) \in Seq(Piece) /\ AllParts(b) \in Seq(Piece)
        /\ AllParts(q) = AllParts(a) \o AllParts(b)
    BY <2>2, FrameFacts, PartsConcat
  <2>4. /\ s \o AllParts(a) \in Seq(Piece)
        /\ (s \o AllParts(a)) \o AllParts(b) = s \o (AllParts(a) \o AllParts(b))
    BY <2>3, Joined
  <2> QED BY <1>2, <2>1, <2>3, <2>4 DEF Carried
<1> QED BY <1>1, <1>3, <1>4, <1>5

\* The writer's batch comes from the front of the queue.
LEMMA TakeShape ==
    ASSUME NEW x \in Pumps, x.batch = <<>>, x.pos = 0
    PROVE  LET y == TakeBatch(x) IN
           /\ y \in Pumps /\ y.batch \o y.queue = x.queue
           /\ Len(y.batch) + Len(y.queue) = Len(x.queue)
           /\ AllParts(x.queue) = AllParts(y.batch) \o AllParts(y.queue)
           /\ y.bytes = x.bytes /\ y.resident = x.resident /\ y.unfinished = x.unfinished
           /\ y.task = "writing" /\ y.pos = 0 /\ y.bound = x.bound
           /\ y.latch = x.latch /\ y.sealed = x.sealed /\ y.epoch = x.epoch /\ y.line = x.line
<1>1. PICK q, n : q = x.queue /\ n = Min({BatchLimit, Len(q)})
  OBVIOUS
<1>2. q \in Seq(Frames) /\ Len(q) \in Nat
  BY <1>1, LenProperties DEF Pumps
<1>3. n \in 0..Len(q)
  <2>1. BatchLimit \in Nat
    BY WriterAssumptions
  <2> QED BY <1>1, <1>2, <2>1, MinOfTwo
<1>4. PICK a, b : a = SubSeq(q, 1, n) /\ b = SubSeq(q, n + 1, Len(q))
  OBVIOUS
<1>5. /\ a \in Seq(Frames) /\ b \in Seq(Frames) /\ a \o b = q
      /\ Len(a) = n /\ Len(b) = Len(q) - n
  BY <1>2, <1>3, <1>4, SplitAt, ZenonT(40)
<1>6. AllParts(q) = AllParts(a) \o AllParts(b)
  BY <1>5, PartsConcat
<1>7. PICK y : y = TakeBatch(x)
  OBVIOUS
<1>8. TakeBatch(x) = [x EXCEPT !.batch = a, !.pos = 0, !.queue = b, !.armed = FALSE, !.task = "writing"]
  BY <1>1, <1>4 DEF TakeBatch, Pumps
<1>9. y \in Pumps
  <2>1. [x EXCEPT !.batch = a, !.pos = 0, !.queue = b, !.armed = FALSE, !.task = "writing"] \in Pumps
    BY <1>5 DEF Pumps
  <2> QED BY <1>7, <1>8, <2>1
<1>10. /\ y.batch = a /\ y.queue = b
       /\ y.bytes = x.bytes /\ y.resident = x.resident /\ y.unfinished = x.unfinished
       /\ y.task = "writing" /\ y.pos = 0 /\ y.bound = x.bound
       /\ y.latch = x.latch /\ y.sealed = x.sealed /\ y.epoch = x.epoch /\ y.line = x.line
  BY <1>7, <1>8 DEF Pumps
<1>11. Len(a) + Len(b) = Len(q)
  BY <1>2, <1>3, <1>5
<1> QED BY <1>1, <1>5, <1>6, <1>7, <1>9, <1>10, <1>11

\* A batch taken changes nobody's place and charges nobody.
LEMMA TakeCarried ==
    ASSUME NEW x \in Pumps, x.batch = <<>>, x.pos = 0, NEW s \in Seq(Piece),
           NEW l \in Seq(Frames)
    PROVE  /\ Charged(x) => Charged(TakeBatch(x))
           /\ Carried(x, s, l) /\ x.task = "waiting" => Carried(TakeBatch(x), s, l)
<1>1. PICK y, q, a, b : y = TakeBatch(x) /\ q = x.queue /\ a = y.batch /\ b = y.queue
  OBVIOUS
<1>2. /\ y \in Pumps /\ a \o b = q /\ Len(a) + Len(b) = Len(q)
      /\ AllParts(q) = AllParts(a) \o AllParts(b)
      /\ y.bytes = x.bytes /\ y.resident = x.resident /\ y.unfinished = x.unfinished
      /\ y.task = "writing" /\ y.pos = 0 /\ y.latch = x.latch
  BY <1>1, TakeShape
<1>3. q \in Seq(Frames) /\ a \in Seq(Frames) /\ b \in Seq(Frames) /\ Len(q) \in Nat
  BY <1>1, <1>2, LenProperties DEF Pumps
<1>4. ASSUME Charged(x)
      PROVE  Charged(y)
  <2>1. x.batch \o x.queue = q /\ Len(x.batch) + Len(x.queue) = Len(q)
    BY <1>1, <1>3, ConcatEmptySeq, EmptySeq
  <2> QED BY <1>1, <1>2, <1>4, <2>1 DEF Charged
<1>5. ASSUME Carried(x, s, l), x.task = "waiting"
      PROVE  Carried(y, s, l)
  <2>1. Healthy(y) => Healthy(x)
    BY <1>2, <1>5 DEF Healthy
  <2>2. PICK t, u : t = AllParts(a) /\ u = AllParts(b)
    OBVIOUS
  <2>3. t \in Seq(Piece) /\ u \in Seq(Piece)
    BY <1>3, <2>2, FrameFacts
  <2>4. Todo(y) = t
    <3>1. 0 + 1 = 1
      OBVIOUS
    <3>2. Todo(y) = SubSeq(t, 1, Len(t))
      BY <1>1, <1>2, <2>2, <3>1 DEF Todo
    <3> QED BY <2>3, <3>2, SubSeqFull
  <2>5. Healthy(x) => AllParts(l) = s \o (t \o u)
    BY <1>1, <1>2, <1>5, <2>2, AllWritten
  <2>6. (s \o t) \o u = s \o (t \o u)
    BY <2>3, Joined
  <2> QED BY <1>1, <1>5, <2>1, <2>2, <2>4, <2>5, <2>6 DEF Carried
<1> QED BY <1>1, <1>4, <1>5

\* One part more of the batch
LEMMA WriteCarried ==
    ASSUME NEW x \in Pumps, NEW s \in Seq(Piece), NEW l \in Seq(Frames), Carried(x, s, l),
           Healthy(x), x.pos < Len(AllParts(x.batch))
    PROVE  LET y == [x EXCEPT !.pos = @ + 1]
               u == Append(s, AllParts(x.batch)[x.pos + 1]) IN
           /\ y \in Pumps /\ u \in Seq(Piece) /\ Carried(y, u, l)
<1>1. PICK t, n : t = AllParts(x.batch) /\ n = x.pos
  OBVIOUS
<1>2. /\ x.batch \in Seq(Frames) /\ n \in Nat /\ t \in Seq(Piece) /\ Len(t) \in Nat
      /\ x.queue \in Seq(Frames)
  <2>1. x.batch \in Seq(Frames) /\ x.pos \in Nat /\ x.queue \in Seq(Frames)
    BY DEF Pumps
  <2> QED BY <1>1, <2>1, FrameFacts, LenProperties
<1>3. PICK y : y = [x EXCEPT !.pos = n + 1]
  OBVIOUS
<1>4. y \in Pumps
  <2>1. PICK k \in Nat : k = n + 1
    BY <1>2
  <2>2. [x EXCEPT !.pos = k] \in Pumps
    BY DEF Pumps
  <2> QED BY <1>3, <2>1, <2>2
<1>5. /\ y.pos = n + 1 /\ y.batch = x.batch /\ y.queue = x.queue /\ y.task = x.task
      /\ y.latch = x.latch
  BY <1>3 DEF Pumps
<1>6. PICK e, h, r : e = t[n + 1] /\ h = <<e>> /\ r = SubSeq(t, (n + 1) + 1, Len(t))
  OBVIOUS
<1>7. n + 1 \in 1..Len(t) /\ Len(t) \in n + 1..Len(t)
  BY <1>1, <1>2
<1>8. e \in Piece /\ h \in Seq(Piece)
  BY <1>2, <1>6, <1>7, ElementOfSeq
<1>9. Todo(x) = h \o r /\ Todo(y) = r
  <2>1. SubSeq(t, n + 1, Len(t)) = <<t[n + 1]>> \o SubSeq(t, (n + 1) + 1, Len(t))
    BY <1>2, <1>7, SubSeqRecursiveFirst
  <2>2. Todo(x) = SubSeq(t, n + 1, Len(t)) /\ Todo(y) = SubSeq(t, (n + 1) + 1, Len(t))
    BY <1>1, <1>5 DEF Todo
  <2> QED BY <1>6, <2>1, <2>2
<1>10. r \in Seq(Piece)
  BY <1>4, <1>9, TodoShape
<1>11. PICK u, q : u = Append(s, e) /\ q = AllParts(x.queue)
  OBVIOUS
<1>12. q \in Seq(Piece) /\ u = s \o h /\ u \in Seq(Piece)
  <2>1. u = s \o h
    BY <1>6, <1>8, <1>11, AppendIsConcat
  <2>2. s \o h \in Seq(Piece)
    BY <1>8, Joined
  <2> QED BY <1>2, <1>11, <2>1, <2>2, FrameFacts
<1>13. AllParts(l) = (u \o r) \o q
  <2>1. AllParts(l) = (s \o (h \o r)) \o q
    BY <1>9, <1>11 DEF Carried
  <2>2. (s \o h) \o r = s \o (h \o r)
    BY <1>8, <1>10, Joined
  <2> QED BY <1>12, <2>1, <2>2
<1>14. \E rest \in Seq(Piece) : AllParts(l) = u \o rest
  <2>1. r \o q \in Seq(Piece) /\ (u \o r) \o q = u \o (r \o q)
    BY <1>10, <1>12, Joined, SMTT(30)
  <2> QED BY <1>13, <2>1
<1>15. Carried(y, u, l)
  BY <1>5, <1>9, <1>11, <1>13, <1>14 DEF Carried
<1> QED BY <1>1, <1>3, <1>4, <1>6, <1>11, <1>12, <1>15

\* The batch is given back, whatever became of it.
LEMMA ReleaseShape ==
    ASSUME NEW x \in Pumps, Charged(x)
    PROVE  LET y == ReleaseBatch(x) IN
           /\ y \in Pumps /\ Charged(y) /\ y.batch = <<>> /\ y.pos = 0 /\ y.queue = x.queue
           /\ y.task = x.task /\ y.bound = x.bound
           /\ y.latch = x.latch /\ y.sealed = x.sealed /\ y.epoch = x.epoch /\ y.line = x.line
<1>1. PICK b, q : b = x.batch /\ q = x.queue
  OBVIOUS
<1>2. /\ b \in Seq(Frames) /\ q \in Seq(Frames) /\ x.bytes \in Nat /\ x.resident \in Nat
  BY <1>1 DEF Pumps
<1>3. PICK i \in Nat : i = Len(b)
  BY <1>2, LenProperties
<1>4. PICK j \in Nat : j = Len(q)
  BY <1>2, LenProperties
<1>5. PICK m \in Nat : m = TotalSize(b)
  BY <1>2, FrameFacts, TotalTyped
<1>6. PICK k \in Nat : k = TotalSize(q) /\ k >= j
  BY <1>2, <1>4, FrameFacts, TotalTyped
<1>7. TotalSize(b \o q) = m + k
  BY <1>2, <1>5, <1>6, FrameFacts, TotalConcat
<1>8. /\ x.bytes = m + k /\ x.resident = i + j /\ x.unfinished = i + j
      /\ i + j <= MaxMessages /\ (m + k <= MaxBytes \/ i + j = 1)
  BY <1>1, <1>3, <1>4, <1>7 DEF Charged
<1>9. Max({0, x.bytes - m}) = k /\ x.resident - i = j /\ x.unfinished - i = j
  <2>1. x.bytes - m = k
    BY <1>8
  <2> QED BY <1>8, <2>1, MaxWithZero
<1>10. ReleaseBatch(x) = [x EXCEPT !.batch = <<>>, !.pos = 0, !.bytes = k, !.resident = j, !.unfinished = j]
  BY <1>1, <1>3, <1>5, <1>9 DEF ReleaseBatch, Pumps
<1>11. PICK y : y = ReleaseBatch(x)
  OBVIOUS
<1>12. y \in Pumps
  <2>1. <<>> \in Seq(Frames)
    BY EmptySeq
  <2>2. [x EXCEPT !.batch = <<>>, !.pos = 0, !.bytes = k, !.resident = j, !.unfinished = j] \in Pumps
    BY <2>1 DEF Pumps
  <2> QED BY <1>10, <1>11, <2>2
<1>13. /\ y.batch = <<>> /\ y.pos = 0 /\ y.queue = q /\ y.bytes = k /\ y.resident = j
       /\ y.unfinished = j /\ y.task = x.task /\ y.bound = x.bound
       /\ y.latch = x.latch /\ y.sealed = x.sealed /\ y.epoch = x.epoch /\ y.line = x.line
  BY <1>1, <1>10, <1>11 DEF Pumps
<1>14. Charged(y)
  <2>1. <<>> \o q = q /\ Len(<<>>) = 0
    BY <1>2, ConcatEmptySeq, EmptySeq
  <2>2. j <= MaxMessages /\ (k <= MaxBytes \/ j = 1)
    <3>1. MaxMessages \in Nat /\ MaxBytes \in Nat
      BY WriterAssumptions
    <3>2. j = 0 => k = 0
      <4>1. j = 0 => q = <<>>
        BY <1>2, <1>4, EmptySeq
      <4> QED BY <1>6, <4>1, TotalEmpty
    <3> QED BY <1>8, <3>1, <3>2
  <2> QED BY <1>4, <1>6, <1>13, <2>1, <2>2 DEF Charged
<1> QED BY <1>1, <1>11, <1>12, <1>13, <1>14

-----------------------------------------------------------------------------
(* The pump's other changes *)

\* The queue, the batch and their account are as they were.
Stock(x, y) ==
    /\ y.queue = x.queue /\ y.bytes = x.bytes /\ y.resident = x.resident
    /\ y.unfinished = x.unfinished /\ y.batch = x.batch /\ y.pos = x.pos

\* The eager binding is dropped, with the failure latched or not.
LEMMA DropShape ==
    ASSUME NEW x \in Pumps
    PROVE  LET y == DropEagerBinding(x) IN
           /\ y \in Pumps /\ Stock(x, y) /\ y.bound = FALSE /\ y.task = x.task
           /\ y.latch = x.latch /\ y.sealed = x.sealed /\ y.epoch = x.epoch /\ y.line = x.line
<1>1. DropEagerBinding(x) \in Pumps
  BY DEF DropEagerBinding, Pumps
<1> QED BY <1>1 DEF DropEagerBinding, Pumps, Stock

\* ... and the generation left
LEMMA FenceShape ==
    ASSUME NEW x \in Pumps
    PROVE  LET y == Fence(x) IN
           /\ y \in Pumps /\ Stock(x, y) /\ y.bound = FALSE /\ y.task = x.task
           /\ y.latch = TRUE /\ y.sealed = x.sealed /\ y.epoch = x.epoch + 1 /\ y.line = x.line
<1>1. PICK z : z = DropEagerBinding(x)
  OBVIOUS
<1>2. /\ z \in Pumps /\ Stock(x, z) /\ z.bound = FALSE /\ z.task = x.task
      /\ z.sealed = x.sealed /\ z.epoch = x.epoch /\ z.line = x.line
  BY <1>1, DropShape
<1>3. PICK e \in Nat : e = z.epoch + 1
  BY <1>2 DEF Pumps
<1>4. Fence(x) = [z EXCEPT !.latch = TRUE, !.epoch = e]
  BY <1>1, <1>2, <1>3 DEF Fence, Pumps
<1>5. PICK y : y = [z EXCEPT !.latch = TRUE, !.epoch = e]
  OBVIOUS
<1>6. y \in Pumps
  <2>1. [z EXCEPT !.latch = TRUE, !.epoch = e] \in Pumps
    BY <1>2 DEF Pumps
  <2> QED BY <1>5, <2>1
<1>7. /\ Stock(z, y) /\ y.bound = z.bound /\ y.task = z.task /\ y.latch = TRUE
      /\ y.sealed = z.sealed /\ y.epoch = e /\ y.line = z.line
  BY <1>2, <1>5 DEF Pumps, Stock
<1> QED BY <1>2, <1>3, <1>4, <1>5, <1>6, <1>7 DEF Stock

\* A permit is spent.
LEMMA SpendShape ==
    ASSUME NEW x \in Pumps, NEW f
    PROVE  LET y == SpendPermit(x, f) IN
           /\ y \in Pumps /\ Stock(x, y) /\ y.bound = x.bound /\ y.task = x.task
           /\ y.latch = x.latch /\ y.sealed = x.sealed /\ y.epoch = x.epoch /\ y.line = x.line
<1>1. CASE f.kind # "ack"
  <2>1. SpendPermit(x, f) = [x EXCEPT !.armed = FALSE, !.rearm = TRUE]
    BY <1>1 DEF SpendPermit
  <2>2. [x EXCEPT !.armed = FALSE, !.rearm = TRUE] \in Pumps
    BY DEF Pumps
  <2> QED BY <2>1, <2>2 DEF Pumps, Stock
<1>2. CASE f.kind = "ack" /\ AckOwned
  <2>1. SpendPermit(x, f) = [x EXCEPT !.ackArmed = FALSE, !.deferred = TRUE]
    BY <1>2 DEF SpendPermit
  <2>2. [x EXCEPT !.ackArmed = FALSE, !.deferred = TRUE] \in Pumps
    BY DEF Pumps
  <2> QED BY <2>1, <2>2 DEF Pumps, Stock
<1>3. CASE f.kind = "ack" /\ ~AckOwned
  <2>1. SpendPermit(x, f) = [x EXCEPT !.ackArmed = FALSE, !.rearm = TRUE]
    BY <1>3 DEF SpendPermit
  <2>2. [x EXCEPT !.ackArmed = FALSE, !.rearm = TRUE] \in Pumps
    BY DEF Pumps
  <2> QED BY <2>1, <2>2 DEF Pumps, Stock
<1> QED BY <1>1, <1>2, <1>3

\* Nothing is left in the pump.
LEMMA EmptyCharged ==
    ASSUME NEW y, y.queue = <<>>, y.batch = <<>>, y.bytes = 0, y.resident = 0, y.unfinished = 0
    PROVE  Charged(y)
<1>1. <<>> \o <<>> = <<>> /\ Len(<<>>) = 0
  <2>1. <<>> \in Seq({})
    BY EmptySeq
  <2> QED BY <2>1, ConcatEmptySeq, EmptySeq
<1>2. 0 <= MaxMessages /\ 0 <= MaxBytes
  BY WriterAssumptions
<1> QED BY <1>1, <1>2, TotalEmpty DEF Charged

\* discard()
LEMMA EmptiedShape ==
    ASSUME NEW x \in Pumps, Charged(x), x.batch = <<>>, x.pos = 0
    PROVE  LET y == Emptied(x) IN
           /\ y \in Pumps /\ Charged(y) /\ y.queue = <<>> /\ y.batch = <<>> /\ y.pos = 0
           /\ y.bound = FALSE /\ y.task = x.task /\ y.latch = x.latch /\ y.sealed = x.sealed
           /\ y.epoch = x.epoch /\ y.line = x.line
<1>1. PICK z : z = DropEagerBinding(x)
  OBVIOUS
<1>2. /\ z \in Pumps /\ Stock(x, z) /\ z.bound = FALSE /\ z.task = x.task
      /\ z.latch = x.latch /\ z.sealed = x.sealed /\ z.epoch = x.epoch /\ z.line = x.line
  BY <1>1, DropShape
<1>3. z.resident - Len(x.queue) = 0 /\ z.unfinished - Len(x.queue) = 0
  <2>1. Len(x.queue) \in Nat /\ Len(x.batch) = 0
    BY LenProperties, EmptySeq DEF Pumps
  <2> QED BY <1>2, <2>1 DEF Charged, Stock
<1>4. Emptied(x) = [z EXCEPT !.queue = <<>>, !.bytes = 0, !.resident = 0, !.unfinished = 0]
  BY <1>1, <1>2, <1>3 DEF Emptied, Pumps
<1>5. PICK y : y = [z EXCEPT !.queue = <<>>, !.bytes = 0, !.resident = 0, !.unfinished = 0]
  OBVIOUS
<1>6. y \in Pumps
  <2>1. <<>> \in Seq(Frames)
    BY EmptySeq
  <2>2. [z EXCEPT !.queue = <<>>, !.bytes = 0, !.resident = 0, !.unfinished = 0] \in Pumps
    BY <1>2, <2>1 DEF Pumps
  <2> QED BY <1>5, <2>2
<1>7. /\ y.queue = <<>> /\ y.bytes = 0 /\ y.resident = 0 /\ y.unfinished = 0
      /\ y.batch = z.batch /\ y.pos = z.pos /\ y.bound = z.bound /\ y.task = z.task
      /\ y.latch = z.latch /\ y.sealed = z.sealed /\ y.epoch = z.epoch /\ y.line = z.line
  BY <1>2, <1>5 DEF Pumps
<1>8. y.batch = <<>> /\ y.pos = 0
  BY <1>2, <1>7 DEF Stock
<1>9. Charged(y)
  BY <1>7, <1>8, EmptyCharged
<1> QED BY <1>2, <1>4, <1>5, <1>6, <1>7, <1>8, <1>9

\* reset() and start()
LEMMA StartedShape ==
    ASSUME NEW x \in Pumps
    PROVE  LET y == Started(x) IN
           /\ y \in Pumps /\ Charged(y) /\ y.queue = <<>> /\ y.batch = <<>> /\ y.pos = 0
           /\ y.bytes = 0 /\ y.resident = 0
           /\ y.bound = Nowait /\ y.task = "waiting" /\ y.latch = FALSE /\ y.sealed = FALSE
           /\ y.epoch = x.epoch /\ y.line = x.line
<1>1. <<>> \in Seq(Frames) /\ Nowait \in BOOLEAN
  BY EmptySeq, WriterAssumptions
<1>2. x.epoch \in Nat /\ x.line \in Seq(Proc)
  BY DEF Pumps
<1>3. PICK y : y = Started(x)
  OBVIOUS
<1>4. /\ y.queue = <<>> /\ y.batch = <<>> /\ y.pos = 0
      /\ y.bytes = 0 /\ y.resident = 0 /\ y.unfinished = 0
      /\ y.bound = Nowait /\ y.task = "waiting" /\ y.latch = FALSE /\ y.sealed = FALSE
      /\ y.epoch = x.epoch /\ y.line = x.line
  BY <1>3 DEF Started, NewPump
<1>5. Started(x) \in Pumps
  BY <1>1, <1>2 DEF Started, NewPump, Pumps
<1> QED BY <1>3, <1>4, <1>5, EmptyCharged

-----------------------------------------------------------------------------
(* Steps that leave the queue and the wire alone *)

\* What is left to show of such a step
LEMMA QuietStep ==
    ASSUME WriterInv, w' \in Pumps, Stock(w, w'), Healthy(w') => Healthy(w),
           w.sealed \/ w.latch => w'.sealed \/ w'.latch, UNCHANGED <<wire, log>>,
           prod' \in Tasks, client' \in Clients, client'.opened = client.opened,
           Lined(w', prod'), HeldBy(prod', client', w'), Modes(w', client')
    PROVE  WriterInv'
<1>1. TypeInv'
  BY DEF WriterInv, TypeInv
<1>2. Carried(w', wire', log')
  <2>1. Carried(w', wire, log)
    BY CarriedKept DEF WriterInv, Stock
  <2> QED BY <2>1
<1>3. Charged(w')
  BY DEF WriterInv, Charged, Stock
<1>4. Ended(w', log')
  BY DEF WriterInv, Ended
<1>5. log' \in Seq(FramesFor(client'.opened))
  BY DEF WriterInv
<1> QED BY <1>1, <1>2, <1>3, <1>4, <1>5 DEF WriterInv

\* What a producer may hold
Fits(h) ==
    \/ h = Idle
    \/ h \in Holder /\ h.epoch <= client.epoch /\ (h.frame.conn # client.opened => h.epoch < w.epoch)

\* A producer that is in no line changes what it holds.
LEMMA Goes ==
    ASSUME WriterInv, NEW p \in Proc, prod[p].at # "parked", NEW h, Fits(h), h.at # "parked",
           prod' = [prod EXCEPT ![p] = h]
    PROVE  prod' \in Tasks /\ Lined(w, prod') /\ HeldBy(prod', client, w)
<1>1. prod \in Tasks /\ h \in Holder \cup {Idle}
  BY DEF WriterInv, TypeInv, Fits
<1>2. prod' \in Tasks /\ \A q \in Proc : prod'[q] = IF q = p THEN h ELSE prod[q]
  BY <1>1 DEF Tasks
<1>3. Lined(w, prod')
  BY <1>2 DEF WriterInv, Lined
<1>4. HeldBy(prod', client, w)
  <2>1. h.at # "idle" => h # Idle
    BY DEF Idle
  <2> QED BY <1>2, <2>1 DEF WriterInv, HeldBy, Fits
<1> QED BY <1>2, <1>3, <1>4

\* Nothing but what producers hold changes.
LEMMA ProdStep ==
    ASSUME WriterInv, prod' \in Tasks, Lined(w, prod'), HeldBy(prod', client, w),
           UNCHANGED <<w, client, wire, log>>
    PROVE  WriterInv'
<1>1. w' = w /\ client' = client /\ Stock(w, w) /\ w \in Pumps /\ client \in Clients
      /\ Modes(w, client)
  BY DEF WriterInv, TypeInv, Stock
<1> QED BY <1>1, QuietStep

\* A producer joins the line.
LEMMA ParksStep ==
    ASSUME WriterInv, NEW p \in Proc, prod[p] \in Holder, prod[p].at # "parked",
           prod' = [prod EXCEPT ![p].at = "parked"],
           w' = [w EXCEPT !.line = Append(@, p)], UNCHANGED <<client, wire, log>>
    PROVE  WriterInv'
<1>1. PICK s : s = w.line
  OBVIOUS
<1>2. /\ w \in Pumps /\ s \in Seq(Proc) /\ prod \in Tasks /\ client \in Clients
      /\ Lined(w, prod) /\ Modes(w, client) /\ HeldBy(prod, client, w)
  BY <1>1 DEF WriterInv, TypeInv, Pumps
<1>3. PICK t : t = Append(s, p)
  OBVIOUS
<1>4. /\ t \in Seq(Proc) /\ (Distinct(t) <=> Distinct(s) /\ ~Has(s, p))
      /\ \A x : Has(t, x) <=> Has(s, x) \/ x = p
  BY <1>2, <1>3, AppendProperties, HasAppend
<1>5. w' = [w EXCEPT !.line = t]
  BY <1>1, <1>2, <1>3 DEF Pumps
<1>6. w' \in Pumps
  <2>1. [w EXCEPT !.line = t] \in Pumps
    BY <1>2, <1>4 DEF Pumps
  <2> QED BY <1>5, <2>1
<1>7. /\ w'.line = t /\ Stock(w, w') /\ w'.task = w.task /\ w'.bound = w.bound
      /\ w'.latch = w.latch /\ w'.sealed = w.sealed /\ w'.epoch = w.epoch
  BY <1>2, <1>5 DEF Pumps, Stock
<1>8. /\ \A q \in Proc : q # p => prod'[q] = prod[q]
      /\ prod'[p] = [prod[p] EXCEPT !.at = "parked"] /\ prod' = [q \in Proc |-> prod'[q]]
  BY <1>2 DEF Tasks
<1>9. prod'[p] \in Holder /\ prod'[p].at = "parked" /\ prod'[p].epoch = prod[p].epoch
      /\ prod'[p].frame = prod[p].frame /\ prod[p].at # "idle"
  BY <1>8 DEF Holder
<1>10. prod' \in Tasks
  BY <1>2, <1>8, <1>9 DEF Tasks
<1>11. Lined(w', prod')
  <2>1. ~Has(s, p) /\ Distinct(s)
    BY <1>1, <1>2 DEF Lined
  <2> QED BY <1>1, <1>2, <1>4, <1>7, <1>8, <1>9, <2>1 DEF Lined
<1>12. HeldBy(prod', client, w')
  BY <1>2, <1>7, <1>8, <1>9 DEF HeldBy
<1>13. Modes(w', client) /\ (Healthy(w') => Healthy(w))
  BY <1>2, <1>7 DEF Modes, Stock, Healthy
<1> QED BY <1>2, <1>6, <1>7, <1>10, <1>11, <1>12, <1>13, QuietStep

-----------------------------------------------------------------------------
(* Producers *)

\* The identifier and the frame a producer makes
LEMMA FrameShape ==
    ASSUME WriterInv, NEW p \in Nat, NEW shape, shape.size \in Nat \ {0}, NEW K,
           shape.kind \in K, K \subseteq PlainKind \cup {"terminal"}
    PROVE  LET f == Frame(NewId(p), shape) IN
           /\ f \in FrameOf(K) /\ f \in Frames /\ f.kind = shape.kind /\ f.size = shape.size
           /\ f.conn = client.opened
<1>1. log \in Seq(Frames) /\ client.opened \in Nat
  BY DEF WriterInv, TypeInv, Clients
<1>2. PICK S : S = {i \in DOMAIN log : log[i].id[1] = p}
  OBVIOUS
<1>3. Cardinality(S) \in Nat
  <2>1. DOMAIN log = 1..Len(log) /\ Len(log) \in Nat
    BY <1>1, LenProperties
  <2>2. IsFiniteSet(1..Len(log))
    BY <2>1, FS_Interval
  <2>3. S \subseteq 1..Len(log)
    BY <1>2, <2>1
  <2>4. IsFiniteSet(S)
    BY <2>2, <2>3, FS_Subset
  <2> QED BY <2>4, FS_CardinalityType
<1>4. PICK k \in Nat : k = Cardinality(S) + 1
  BY <1>3
<1>5. NewId(p) = <<p, k>>
  BY <1>2, <1>4 DEF NewId
<1>6. PICK f : f = [id |-> <<p, k>>, kind |-> shape.kind, size |-> shape.size, conn |-> client.opened]
  OBVIOUS
<1>7. Frame(NewId(p), shape) = f
  BY <1>5, <1>6 DEF Frame
<1>8. f \in FrameOf(K) /\ f \in Frames
  <2>1. <<p, k>> \in Nat \X Nat
    OBVIOUS
  <2> QED BY <1>1, <1>6, <2>1 DEF FrameOf, Frames
<1> QED BY <1>6, <1>7, <1>8

\* The shapes producers send
LEMMA ShapesPlain == \A s \in Shapes : s.kind \in PlainKind /\ s.size \in Nat \ {0}
BY WriterAssumptions DEF PlainKind

\* A task is a number, and none has the client's.
LEMMA ProcNat == Proc \subseteq Nat
BY WriterAssumptions DEF Proc

\* A frame is captured with the client's epoch.
LEMMA CaptureStep ==
    ASSUME WriterInv, NEW p \in Proc, NEW shape \in Shapes, Capture(p, shape)
    PROVE  WriterInv'
<1>1. PICK h : h = Holding("ready", Frame(NewId(p), shape), client.epoch)
  OBVIOUS
<1>2. PICK f : f = Frame(NewId(p), shape)
  OBVIOUS
<1>3. f \in Plain /\ f.conn = client.opened
  <2>1. p \in Nat /\ shape.kind \in PlainKind /\ shape.size \in Nat \ {0}
    BY ProcNat, ShapesPlain
  <2> QED BY <1>2, <2>1, FrameShape DEF Plain
<1>4. client.epoch \in Nat
  BY DEF WriterInv, TypeInv, Clients
<1>5. h \in Holder /\ h.epoch = client.epoch /\ h.frame = f /\ h.at = "ready"
  BY <1>1, <1>2, <1>3, <1>4 DEF Holding, Holder
<1>6. Fits(h) /\ h.at # "parked"
  BY <1>3, <1>4, <1>5 DEF Fits
<1>7. prod[p].at # "parked" /\ prod' = [prod EXCEPT ![p] = h]
  BY <1>1 DEF Capture, Idle
<1> QED BY <1>6, <1>7, Goes, ProdStep DEF Capture

\* A producer that is ready or woken has a frame.
LEMMA Holds ==
    ASSUME WriterInv, NEW p \in Proc, prod[p].at # "idle"
    PROVE  /\ prod[p] \in Holder /\ prod[p].frame \in Plain /\ prod[p].frame \in Frames
           /\ prod[p].epoch \in Nat /\ prod[p].epoch <= client.epoch
           /\ prod[p].frame.conn # client.opened => prod[p].epoch < w.epoch
<1>1. prod[p] \in Holder \cup {Idle} /\ prod[p] # Idle
  BY DEF WriterInv, TypeInv, Tasks, Idle
<1> QED BY <1>1, FrameFacts DEF Holder, WriterInv, HeldBy

\* It gives the frame up.
LEMMA GivesUp ==
    ASSUME WriterInv, NEW p \in Proc, prod[p].at # "parked", prod' = [prod EXCEPT ![p] = Idle]
    PROVE  prod' \in Tasks /\ Lined(w, prod') /\ HeldBy(prod', client, w)
<1>1. Fits(Idle) /\ Idle.at # "parked"
  BY DEF Fits, Idle
<1> QED BY <1>1, Goes

\* What admitting a frame does to the pump, the wire and the log
Admitted(y, s, f) ==
    /\ y \in Pumps /\ s \in Seq(Piece) /\ Append(log, f) \in Seq(Frames)
    /\ Append(log, f) \in Seq(FramesFor(client.opened))
    /\ Carried(y, s, Append(log, f)) /\ Charged(y) /\ Modes(y, client)
    /\ y.line = w.line /\ w.epoch <= y.epoch /\ y.sealed = w.sealed
    /\ y.latch \/ y.epoch = w.epoch
    /\ log \in Seq(Plain)

\* The log after it
LEMMA AdmittedLog ==
    ASSUME WriterInv, NEW f \in Frames, f.conn = client.opened, ~w.sealed, ~w.latch
    PROVE  /\ Append(log, f) \in Seq(Frames) /\ Append(log, f) \in Seq(FramesFor(client.opened))
           /\ log \in Seq(Plain)
<1>1. log \in Seq(Frames) /\ log \in Seq(FramesFor(client.opened)) /\ Ended(w, log)
  BY DEF WriterInv, TypeInv
<1>2. PICK S : S = FramesFor(client.opened)
  OBVIOUS
<1>3. f \in S
  BY <1>2 DEF FramesFor
<1>4. log \in Seq(S)
  BY <1>1, <1>2
<1>5. Append(log, f) \in Seq(Frames) /\ Append(log, f) \in Seq(S)
  BY <1>1, <1>3, <1>4, AppendProperties
<1> QED BY <1>1, <1>2, <1>5 DEF Ended

\* The frame is queued where there is room.
LEMMA PutAdmitted ==
    ASSUME WriterInv, NEW f \in Frames, f.conn = client.opened, ~w.sealed, ~w.latch, Room(w, f)
    PROVE  Admitted(Put(w, f), wire, f)
<1>1. PICK y : y = Put(w, f)
  OBVIOUS
<1>2. /\ w \in Pumps /\ wire \in Seq(Piece) /\ log \in Seq(Frames) /\ Carried(w, wire, log)
      /\ Charged(w) /\ Modes(w, client) /\ w.epoch \in Nat
  BY DEF WriterInv, TypeInv, Pumps
<1>3. /\ y \in Pumps /\ y.task = w.task /\ y.batch = w.batch /\ y.pos = w.pos /\ y.bound = w.bound
      /\ y.latch = w.latch /\ y.sealed = w.sealed /\ y.epoch = w.epoch /\ y.line = w.line
  BY <1>1, <1>2, PutShape
<1>4. Carried(y, wire, Append(log, f)) /\ Charged(y)
  BY <1>1, <1>2, PutCarried, PutCharged
<1>5. Modes(y, client)
  BY <1>2, <1>3 DEF Modes
<1> QED BY <1>1, <1>2, <1>3, <1>4, <1>5, AdmittedLog DEF Admitted

\* An eager write meets a healthy pump that holds nothing.
LEMMA EagerIdle ==
    ASSUME WriterInv, NEW f \in Frames, MayWriteEager(f)
    PROVE  /\ Healthy(w) /\ w.task = "waiting" /\ w.queue = <<>> /\ w.batch = <<>> /\ w.pos = 0
           /\ AllParts(log) = wire /\ f.kind # "seg" /\ client.phase \notin {"stopped", "dialing"}
<1>1. w.bound /\ w.task # "writing" /\ w.queue = <<>> /\ f.kind # "seg"
  BY DEF MayWriteEager
<1>2. Modes(w, client) /\ w \in Pumps /\ wire \in Seq(Piece) /\ log \in Seq(Frames)
      /\ Carried(w, wire, log)
  BY DEF WriterInv, TypeInv
<1>3. /\ w.task = "waiting" /\ ~w.latch /\ w.batch = <<>> /\ w.pos = 0
      /\ client.phase \notin {"stopped", "dialing"}
  BY <1>1, <1>2 DEF Modes
<1>4. Healthy(w)
  BY <1>3 DEF Healthy
<1>5. AllParts(log) = wire
  BY <1>1, <1>2, <1>3, <1>4, AllWritten
<1> QED BY <1>1, <1>3, <1>4, <1>5

\* try_enqueue() past its checks
LEMMA AdmissionStep ==
    ASSUME WriterInv, NEW f \in Frames, f.conn = client.opened, ~w.sealed, ~w.latch,
           CanEnqueueSize(f.size), NEW a \in Admissions(f)
    PROVE  Admitted(a.pump, wire \o a.parts, f)
<1>1. Room(w, f)
  BY DEF CanEnqueueSize, Room
<1>2. /\ w \in Pumps /\ wire \in Seq(Piece) /\ log \in Seq(Frames) /\ Charged(w)
      /\ Modes(w, client) /\ w.epoch \in Nat /\ client.epoch \in Nat
  BY DEF WriterInv, TypeInv, Pumps, Clients
<1>3. CASE a = Outcome(Put(w, f), <<>>)
  <2>1. a.pump = Put(w, f) /\ a.parts = <<>>
    BY <1>3 DEF Outcome
  <2>2. wire \o <<>> = wire
    BY <1>2, Joined
  <2> QED BY <1>1, <2>1, <2>2, PutAdmitted
<1>4. CASE MayWriteEager(f) /\ a = Outcome(SpendPermit(w, f), Parts(f))
  <2>1. PICK y, s : y = SpendPermit(w, f) /\ s = wire \o Parts(f)
    OBVIOUS
  <2>2. a.pump = y /\ a.parts = Parts(f)
    BY <1>4, <2>1 DEF Outcome
  <2>3. /\ y \in Pumps /\ Stock(w, y) /\ y.bound = w.bound /\ y.task = w.task
        /\ y.latch = w.latch /\ y.sealed = w.sealed /\ y.epoch = w.epoch /\ y.line = w.line
    BY <1>2, <2>1, SpendShape
  <2>4. y.queue = <<>> /\ y.batch = <<>> /\ y.pos = 0 /\ AllParts(log) = wire
    BY <1>4, <2>3, EagerIdle DEF Stock
  <2>5. s \in Seq(Piece) /\ Carried(y, s, Append(log, f))
    BY <1>2, <2>1, <2>3, <2>4, EagerCarried
  <2>6. Charged(y)
    BY <1>2, <2>3 DEF Charged, Stock
  <2>7. Modes(y, client)
    BY <1>2, <2>3 DEF Modes, Stock
  <2> QED BY <1>2, <2>1, <2>2, <2>3, <2>5, <2>6, <2>7, AdmittedLog DEF Admitted
<1>5. ASSUME MayWriteEager(f), NEW n \in 0..1, a = Outcome(Put(Fence(w), f), SubSeq(Parts(f), 1, n))
      PROVE  Admitted(a.pump, wire \o a.parts, f)
  <2>1. PICK x, y, s : x = Fence(w) /\ y = Put(x, f) /\ s = wire \o SubSeq(Parts(f), 1, n)
    OBVIOUS
  <2>2. a.pump = y /\ a.parts = SubSeq(Parts(f), 1, n)
    BY <1>5, <2>1 DEF Outcome
  <2>3. /\ x \in Pumps /\ Stock(w, x) /\ x.bound = FALSE /\ x.task = w.task
        /\ x.latch = TRUE /\ x.sealed = w.sealed /\ x.epoch = w.epoch + 1 /\ x.line = w.line
    BY <1>2, <2>1, FenceShape
  <2>4. /\ y \in Pumps /\ y.task = x.task /\ y.batch = x.batch /\ y.pos = x.pos /\ y.bound = x.bound
        /\ y.latch = x.latch /\ y.sealed = x.sealed /\ y.epoch = x.epoch /\ y.line = x.line
    BY <2>1, <2>3, PutShape
  <2>5. /\ w.task = "waiting" /\ w.batch = <<>> /\ w.pos = 0 /\ AllParts(log) = wire
        /\ f.kind # "seg" /\ client.phase \notin {"stopped", "dialing"}
    BY <1>5, EagerIdle
  <2>6. ~Healthy(y)
    BY <2>3, <2>4 DEF Healthy
  <2>7. s \in Seq(Piece) /\ Carried(y, s, Append(log, f))
    BY <1>2, <2>1, <2>4, <2>5, <2>6, EagerFailsCarried
  <2>8. Charged(x) /\ Room(x, f)
    BY <1>1, <1>2, <2>3 DEF Charged, Stock, Room
  <2>9. Charged(y)
    BY <2>1, <2>3, <2>8, PutCharged
  <2>10. Modes(y, client)
    <3>1. y.task = "waiting" /\ y.batch = <<>> /\ y.pos = 0 /\ ~y.bound /\ y.latch
          /\ y.epoch = w.epoch + 1
      BY <2>3, <2>4, <2>5 DEF Stock
    <3>2. client.epoch <= y.epoch
      BY <1>2, <3>1 DEF Modes
    <3> QED BY <2>5, <3>1, <3>2 DEF Modes
  <2> QED BY <1>2, <2>1, <2>2, <2>3, <2>4, <2>7, <2>9, <2>10, AdmittedLog DEF Admitted
<1> QED BY <1>3, <1>4, <1>5 DEF Admissions

\* A step that admits a frame
LEMMA AdmitsStep ==
    ASSUME WriterInv, NEW f \in Frames, NEW y, NEW s, Admitted(y, s, f),
           w' \in Pumps, Stock(y, w'), w'.task = y.task, w'.bound = y.bound,
           w'.latch = y.latch, w'.epoch = y.epoch, w'.line = y.line, Ended(w', log'),
           wire' = s, log' = Append(log, f), client' = client,
           prod' \in Tasks, Lined(w, prod'), HeldBy(prod', client, w)
    PROVE  WriterInv'
<1>1. client \in Clients /\ w \in Pumps /\ w.epoch \in Nat
  BY DEF WriterInv, TypeInv, Pumps
<1>2. /\ y \in Pumps /\ s \in Seq(Piece) /\ Append(log, f) \in Seq(Frames)
      /\ Append(log, f) \in Seq(FramesFor(client.opened))
      /\ Carried(y, s, Append(log, f)) /\ Charged(y) /\ Modes(y, client)
      /\ y.line = w.line /\ w.epoch <= y.epoch
  BY DEF Admitted
<1>3. TypeInv'
  BY <1>1, <1>2 DEF TypeInv
<1>4. Carried(w', wire', log')
  <2>1. Carried(w', s, Append(log, f))
    <3>1. Healthy(w') => Healthy(y)
      BY DEF Healthy
    <3> QED BY <1>2, <3>1, CarriedKept DEF Stock
  <2> QED BY <2>1
<1>5. Charged(w')
  BY <1>2 DEF Charged, Stock
<1>6. Modes(w', client')
  BY <1>2 DEF Modes, Stock
<1>7. Lined(w', prod')
  BY <1>2 DEF Lined
<1>8. HeldBy(prod', client', w')
  <2>1. Woke(prod', prod')
    BY DEF Woke
  <2>2. w.epoch <= w'.epoch
    BY <1>2
  <2>3. HeldBy(prod', client, w')
    <3>1. PICK ps : ps = prod'
      OBVIOUS
    <3>2. ps \in Tasks /\ Woke(ps, ps) /\ HeldBy(ps, client, w)
      BY <2>1, <3>1
    <3>3. PICK z : z = w'
      OBVIOUS
    <3>4. HeldBy(ps, client, z)
      BY <1>1, <2>2, <3>2, <3>3, HeldKept
    <3> QED BY <3>1, <3>3, <3>4
  <2> QED BY <2>3
<1> QED BY <1>2, <1>3, <1>4, <1>5, <1>6, <1>7, <1>8 DEF WriterInv

\* A producer's frame is no terminal packet.
LEMMA PlainAdmits ==
    ASSUME WriterInv, NEW f \in Plain, NEW y, NEW s, Admitted(y, s, f), w' = y,
           wire' = s, log' = Append(log, f), client' = client,
           prod' \in Tasks, Lined(w, prod'), HeldBy(prod', client, w)
    PROVE  WriterInv'
<1>1. f \in Frames
  BY FrameFacts
<1>2. Ended(w', log')
  <2>1. log \in Seq(Plain)
    BY DEF Admitted
  <2>2. Append(log, f) \in Seq(Plain)
    BY <2>1, AppendProperties
  <2> QED BY <2>2 DEF Ended
<1>3. w' \in Pumps /\ Stock(y, w')
  BY DEF Admitted, Stock
<1> QED BY <1>1, <1>2, <1>3, AdmitsStep

\* A frame of the pump's own epoch belongs to the open connection.
LEMMA CurrentFrame ==
    ASSUME WriterInv, NEW p \in Proc, prod[p].at # "idle", ~Stale(prod[p].epoch)
    PROVE  prod[p].frame.conn = client.opened /\ ~w.sealed /\ ~w.latch
<1>1. prod[p].epoch = w.epoch /\ ~w.sealed /\ ~w.latch
  BY DEF Stale
<1>2. w.epoch \in Nat
  BY DEF WriterInv, TypeInv, Pumps
<1> QED BY <1>1, <1>2, Holds

\* enqueue() up to its first suspension
LEMMA EnqueueStep ==
    ASSUME WriterInv, NEW p \in Proc, Enqueue(p)
    PROVE  WriterInv'
<1>1. prod[p].at = "ready" /\ client' = client
  BY DEF Enqueue
<1>2. /\ prod[p] \in Holder /\ prod[p].frame \in Plain /\ prod[p].frame \in Frames
  BY <1>1, Holds
<1>3. PICK f : f = prod[p].frame
  OBVIOUS
<1>4. CASE Stale(prod[p].epoch) /\ prod' = [prod EXCEPT ![p] = Idle] /\ UNCHANGED <<w, wire, log>>
  BY <1>1, <1>4, GivesUp, ProdStep
<1>5. CASE /\ ~Stale(prod[p].epoch) /\ CanEnqueueSize(f.size)
           /\ \E a \in Admissions(f) : w' = a.pump /\ Admit(f, a)
           /\ prod' = [prod EXCEPT ![p] = Idle]
  <2>1. PICK a \in Admissions(f) : w' = a.pump /\ Admit(f, a)
    BY <1>5
  <2>2. f.conn = client.opened /\ ~w.sealed /\ ~w.latch /\ f \in Plain /\ f \in Frames
    BY <1>1, <1>2, <1>3, <1>5, CurrentFrame
  <2>3. PICK y, s : y = a.pump /\ s = wire \o a.parts
    OBVIOUS
  <2>4. Admitted(y, s, f)
    BY <1>5, <2>2, <2>3, AdmissionStep
  <2>5. wire' = s /\ log' = Append(log, f) /\ w' = y
    BY <2>1, <2>3 DEF Admit
  <2>6. prod' \in Tasks /\ Lined(w, prod') /\ HeldBy(prod', client, w)
    BY <1>1, <1>5, GivesUp
  <2> QED BY <1>1, <2>2, <2>4, <2>5, <2>6, PlainAdmits
<1>6. CASE /\ ~Stale(prod[p].epoch) /\ ~CanEnqueueSize(f.size)
           /\ prod' = [prod EXCEPT ![p].at = "parked"]
           /\ w' = [w EXCEPT !.line = Append(@, p)]
           /\ UNCHANGED <<wire, log>>
  BY <1>1, <1>2, <1>6, ParksStep
<1> QED BY <1>3, <1>4, <1>5, <1>6 DEF Enqueue

\* try_enqueue() refuses
LEMMA RefuseStep ==
    ASSUME WriterInv, NEW p \in Proc, Refuse(p)
    PROVE  WriterInv'
BY GivesUp, ProdStep DEF Refuse

\* A waiter runs again.
LEMMA ResumeWaiterStep ==
    ASSUME WriterInv, NEW p \in Proc, ResumeWaiter(p)
    PROVE  WriterInv'
<1>1. prod[p].at = "woken" /\ client' = client /\ wire' = wire
  BY DEF ResumeWaiter
<1>2. /\ prod[p] \in Holder /\ prod[p].frame \in Plain /\ prod[p].frame \in Frames
  BY <1>1, Holds
<1>3. PICK f : f = prod[p].frame
  OBVIOUS
<1>4. CASE Stale(prod[p].epoch) /\ prod' = [prod EXCEPT ![p] = Idle] /\ UNCHANGED <<w, log>>
  BY <1>1, <1>4, GivesUp, ProdStep
<1>5. CASE /\ prod' = [prod EXCEPT ![p].at = "parked"]
           /\ w' = [w EXCEPT !.line = Append(@, p)]
           /\ UNCHANGED log
  BY <1>1, <1>2, <1>5, ParksStep
<1>6. CASE /\ ~Stale(prod[p].epoch)
           /\ CanEnqueueSize(f.size) \/ (w.queue = <<>> /\ w.bytes = 0)
           /\ prod' = [prod EXCEPT ![p] = Idle] /\ w' = Put(w, f) /\ log' = Append(log, f)
  <2>1. f.conn = client.opened /\ ~w.sealed /\ ~w.latch /\ f \in Plain /\ f \in Frames
    BY <1>1, <1>2, <1>3, <1>6, CurrentFrame
  <2>2. Room(w, f)
    BY <1>6 DEF CanEnqueueSize, Room
  <2>3. Admitted(Put(w, f), wire, f)
    BY <2>1, <2>2, PutAdmitted
  <2>4. prod' \in Tasks /\ Lined(w, prod') /\ HeldBy(prod', client, w)
    BY <1>1, <1>6, GivesUp
  <2> QED BY <1>1, <1>6, <2>1, <2>3, <2>4, PlainAdmits
<1> QED BY <1>3, <1>4, <1>5, <1>6 DEF ResumeWaiter

\* A waiter is cancelled.
LEMMA CancelWaiterStep ==
    ASSUME WriterInv, NEW p \in Proc, CancelWaiter(p)
    PROVE  WriterInv'
<1>1. /\ w \in Pumps /\ prod \in Tasks /\ client \in Clients /\ Lined(w, prod)
      /\ Modes(w, client) /\ HeldBy(prod, client, w) /\ w.line \in Seq(Proc)
  BY DEF WriterInv, TypeInv, Pumps
<1>2. PICK s : s = Only(w.line, Proc \ {p})
  OBVIOUS
<1>3. /\ s \in Seq(Proc) /\ Distinct(s)
      /\ \A q : Has(s, q) <=> Has(w.line, q) /\ q \in Proc \ {p}
  <2>1. s \in Seq(Proc \cap (Proc \ {p}))
    BY <1>1, <1>2, OnlyTyped
  <2>2. s \in Seq(Proc)
    BY <2>1, SeqMonotonic
  <2>3. Distinct(w.line)
    BY <1>1 DEF Lined
  <2>4. PICK l, S : l = w.line /\ S = Proc \ {p}
    OBVIOUS
  <2>5. l \in Seq(Proc) /\ Distinct(l) /\ s = Only(l, S)
    BY <1>1, <1>2, <2>3, <2>4
  <2>6. \A u \in Seq(Proc) : /\ \A q : Has(Only(u, S), q) <=> Has(u, q) /\ q \in S
                             /\ Distinct(u) => Distinct(Only(u, S))
    BY OnlyMembers
  <2>7. \A q : Has(Only(l, S), q) <=> Has(l, q) /\ q \in S
    BY <2>5, <2>6
  <2>8. Distinct(Only(l, S))
    BY <2>5, <2>6
  <2> QED BY <2>2, <2>4, <2>5, <2>7, <2>8
<1>4. PICK x : x = [w EXCEPT !.line = s]
  OBVIOUS
<1>5. x \in Pumps
  <2>1. [w EXCEPT !.line = s] \in Pumps
    BY <1>1, <1>3 DEF Pumps
  <2> QED BY <1>4, <2>1
<1>6. /\ x.line = s /\ Stock(w, x) /\ x.task = w.task /\ x.bound = w.bound
      /\ x.latch = w.latch /\ x.sealed = w.sealed /\ x.epoch = w.epoch
  BY <1>1, <1>4 DEF Pumps, Stock
<1>7. PICK n \in {0, 1} : /\ w' = Notify(x, n)
                          /\ prod' = [WakeIn(prod, Woken(x, n)) EXCEPT ![p] = Idle]
  <2>1. PICK n : n = IF Cardinality(Waiters) > 1 THEN 1 ELSE 0
    OBVIOUS
  <2>2. n \in {0, 1}
    BY <2>1
  <2>3. w' = Notify(x, n) /\ prod' = [WakeIn(prod, Woken(x, n)) EXCEPT ![p] = Idle]
    BY <1>2, <1>4, <2>1 DEF CancelWaiter
  <2> QED BY <2>2, <2>3
<1>8. PICK ps : ps = [prod EXCEPT ![p] = Idle]
  OBVIOUS
<1>9. ps \in Tasks /\ \A q \in Proc : ps[q] = IF q = p THEN Idle ELSE prod[q]
  BY <1>1, <1>8 DEF Tasks
<1>10. Lined(x, ps)
  <2>1. Idle.at # "parked"
    BY DEF Idle
  <2>2. ASSUME NEW q \in Proc
        PROVE  ps[q].at = "parked" <=> Has(s, q)
    <3>1. CASE q = p
      BY <1>3, <1>9, <2>1, <3>1
    <3>2. CASE q # p
      BY <1>1, <1>3, <1>9, <3>2 DEF Lined
    <3> QED BY <3>1, <3>2
  <2> QED BY <1>3, <1>6, <2>2 DEF Lined
<1>11. HeldBy(ps, client, x)
  <2>1. Idle.at = "idle"
    BY DEF Idle
  <2> QED BY <1>1, <1>6, <1>9, <2>1 DEF HeldBy
<1>12. PICK W : W = Woken(x, n)
  OBVIOUS
<1>13. p \notin W
  <2>1. Len(s) \in Nat /\ n \in Nat
    BY <1>3, LenProperties
  <2>2. Min({n, Len(s)}) <= Len(s) /\ Min({n, Len(s)}) \in Nat
    BY <2>1, MinOfTwo
  <2>3. \A i \in 1..Min({n, Len(s)}) : i \in 1..Len(s)
    BY <2>1, <2>2
  <2>4. \A i \in 1..Len(s) : s[i] # p
    BY <1>3 DEF Has
  <2> QED BY <1>6, <1>12, <2>3, <2>4 DEF Woken
<1>14. prod' = WakeIn(ps, W)
  <2>1. prod' = [WakeIn(prod, W) EXCEPT ![p] = Idle]
    BY <1>7, <1>12
  <2>2. ps = [q \in Proc |-> IF q = p THEN Idle ELSE prod[q]]
    BY <1>1, <1>8 DEF Tasks
  <2>3. \A q \in Proc : [WakeIn(prod, W) EXCEPT ![p] = Idle][q] = WakeIn(ps, W)[q]
    BY <1>9, <1>13 DEF WakeIn
  <2> QED BY <2>1, <2>3 DEF WakeIn
<1>15. PICK y, qs : y = Notify(x, n) /\ qs = WakeIn(ps, W)
  OBVIOUS
<1>16. /\ \E u \in Seq(Proc) : y = [x EXCEPT !.line = u]
       /\ y \in Pumps /\ qs \in Tasks /\ Woke(ps, qs) /\ Lined(y, qs)
  <2>1. n \in Nat
    OBVIOUS
  <2> QED BY <1>5, <1>9, <1>10, <1>12, <1>15, <2>1, NotifyShape
<1>17. /\ Stock(x, y) /\ y.task = x.task /\ y.bound = x.bound
       /\ y.latch = x.latch /\ y.sealed = x.sealed /\ y.epoch = x.epoch
  <2>1. PICK u \in Seq(Proc) : y = [x EXCEPT !.line = u]
    BY <1>16
  <2> QED BY <1>5, <2>1 DEF Pumps, Stock
<1>18. x.epoch <= y.epoch
  BY <1>5, <1>17 DEF Pumps
<1>19. HeldBy(qs, client, y)
  BY <1>1, <1>5, <1>9, <1>11, <1>16, <1>18, HeldKept
<1>20. w' = y /\ prod' = qs /\ UNCHANGED <<client, wire, log>>
  BY <1>7, <1>14, <1>15 DEF CancelWaiter
<1>21. Stock(w, y) /\ Modes(y, client) /\ (Healthy(y) => Healthy(w))
  BY <1>1, <1>6, <1>17 DEF Stock, Modes, Healthy
<1> QED BY <1>1, <1>6, <1>16, <1>17, <1>19, <1>20, <1>21, QuietStep

\* The last packet
LEMMA SendTerminalStep ==
    ASSUME WriterInv, SendTerminal
    PROVE  WriterInv'
<1>1. PICK f : f = Frame(NewId(0), TerminalShape)
  OBVIOUS
<1>2. f \in Frames /\ f.kind = "terminal" /\ f.conn = client.opened
  <2>1. TerminalShape.kind \in {"terminal"} /\ TerminalShape.size \in Nat \ {0} /\ 0 \in Nat
        /\ {"terminal"} \subseteq PlainKind \cup {"terminal"}
    BY DEF TerminalShape
  <2>2. f \in Frames /\ f.kind = TerminalShape.kind /\ f.conn = client.opened
    BY <1>1, <2>1, FrameShape
  <2> QED BY <2>2 DEF TerminalShape
<1> DEFINE Sealed(x) == IF client.epoch = x.epoch THEN [x EXCEPT !.sealed = TRUE] ELSE x
<1>3. ASSUME NEW x \in Pumps
      PROVE  /\ Sealed(x) \in Pumps /\ Stock(x, Sealed(x)) /\ Sealed(x).task = x.task
             /\ Sealed(x).bound = x.bound /\ Sealed(x).latch = x.latch
             /\ Sealed(x).epoch = x.epoch /\ Sealed(x).line = x.line
             /\ x.sealed \/ client.epoch = x.epoch => Sealed(x).sealed
  <2>1. CASE client.epoch = x.epoch
    <3>1. [x EXCEPT !.sealed = TRUE] \in Pumps
      BY DEF Pumps
    <3> QED BY <2>1, <3>1 DEF Pumps, Stock
  <2>2. CASE client.epoch # x.epoch
    BY <2>2 DEF Stock
  <2> QED BY <2>1, <2>2
<1>4. /\ w \in Pumps /\ prod \in Tasks /\ client \in Clients /\ Lined(w, prod)
      /\ HeldBy(prod, client, w) /\ Modes(w, client)
  BY DEF WriterInv, TypeInv
<1>5. prod' = prod /\ client' = client
  BY DEF SendTerminal
<1>6. CASE w' = Sealed(w) /\ UNCHANGED <<wire, log>>
  <2> HIDE DEF Sealed
  <2>1. /\ w' \in Pumps /\ Stock(w, w') /\ w'.task = w.task
        /\ w'.bound = w.bound /\ w'.latch = w.latch
        /\ w'.epoch = w.epoch /\ w'.line = w.line /\ (w.sealed => w'.sealed)
    BY <1>3, <1>4, <1>6
  <2>2. Lined(w', prod') /\ HeldBy(prod', client', w') /\ Modes(w', client')
        /\ (Healthy(w') => Healthy(w))
    BY <1>4, <1>5, <2>1 DEF Lined, HeldBy, Modes, Healthy, Stock
  <2> QED BY <1>4, <1>5, <1>6, <2>1, <2>2, QuietStep
<1>7. CASE /\ ~Stale(client.epoch) /\ CanEnqueueSize(f.size)
           /\ \E a \in Admissions(f) : w' = Sealed(a.pump) /\ Admit(f, a)
  <2>1. PICK a \in Admissions(f) : w' = Sealed(a.pump) /\ Admit(f, a)
    BY <1>7
  <2>2. ~w.sealed /\ ~w.latch /\ client.epoch = w.epoch
    BY <1>7 DEF Stale
  <2>3. PICK y, s : y = a.pump /\ s = wire \o a.parts
    OBVIOUS
  <2>4. Admitted(y, s, f)
    BY <1>2, <1>7, <2>2, <2>3, AdmissionStep
  <2>5. y \in Pumps /\ log \in Seq(Plain) /\ (y.latch \/ y.epoch = w.epoch)
    BY <2>4 DEF Admitted
  <2>6. wire' = s /\ log' = Append(log, f) /\ w' = Sealed(y)
    BY <2>1, <2>3 DEF Admit
  <2> HIDE DEF Sealed
  <2>7. /\ w' \in Pumps /\ Stock(y, w') /\ w'.task = y.task
        /\ w'.bound = y.bound /\ w'.latch = y.latch
        /\ w'.epoch = y.epoch /\ w'.line = y.line /\ (client.epoch = y.epoch => w'.sealed)
    BY <1>3, <2>5, <2>6
  <2>8. w'.sealed \/ w'.latch
    BY <2>2, <2>5, <2>7
  <2>9. Ended(w', log')
    BY <1>2, <2>5, <2>6, <2>8 DEF Ended
  <2> QED BY <1>2, <1>4, <1>5, <2>4, <2>6, <2>7, <2>9, AdmitsStep
<1> QED BY <1>1, <1>6, <1>7 DEF SendTerminal

-----------------------------------------------------------------------------
(* The writer task and the connection's life *)

\* A step after which every producer is where it was or woken
LEMMA PumpStep ==
    ASSUME WriterInv, w' \in Pumps, prod' \in Tasks, client' \in Clients,
           Lined(w', prod'), Woke(prod, prod'), HeldBy(prod, client', w'), Modes(w', client'),
           wire' \in Seq(Piece), log' \in Seq(Frames), log' \in Seq(FramesFor(client'.opened)),
           Carried(w', wire', log'), Charged(w'), Ended(w', log')
    PROVE  WriterInv'
<1>1. prod \in Tasks
  BY DEF WriterInv, TypeInv
<1>2. PICK ps, qs, c, y : ps = prod /\ qs = prod' /\ c = client' /\ y = w'
  OBVIOUS
<1>3. /\ ps \in Tasks /\ Woke(ps, qs) /\ c \in Clients /\ y \in Pumps /\ HeldBy(ps, c, y)
      /\ y.epoch <= y.epoch
  BY <1>1, <1>2 DEF Pumps
<1>4. HeldBy(qs, c, y)
  BY <1>3, HeldKept
<1>5. TypeInv'
  BY DEF TypeInv
<1>6. HeldBy(prod', client', w')
  BY <1>2, <1>4
<1> QED BY <1>5, <1>6 DEF WriterInv

\* Nobody is woken.
LEMMA NobodyWoken == \A ps \in Tasks : Woke(ps, ps)
BY DEF Woke

\* The frames held stay those of the connection when it does and the pump's
\* epoch is no earlier.
LEMMA HeldLater ==
    ASSUME WriterInv, NEW c \in Clients, NEW y \in Pumps, c.opened = client.opened,
           client.epoch <= c.epoch, w.epoch <= y.epoch
    PROVE  HeldBy(prod, c, y)
<1>1. SUFFICES ASSUME NEW p \in Proc, prod[p].at # "idle"
               PROVE  /\ prod[p].epoch <= c.epoch
                      /\ prod[p].frame.conn # c.opened => prod[p].epoch < y.epoch
  BY DEF HeldBy
<1>2. /\ prod[p].epoch \in Nat /\ prod[p].epoch <= client.epoch
      /\ prod[p].frame.conn # client.opened => prod[p].epoch < w.epoch
  BY <1>1, Holds
<1>3. client.epoch \in Nat /\ c.epoch \in Nat /\ w.epoch \in Nat /\ y.epoch \in Nat
  BY DEF WriterInv, TypeInv, Clients, Pumps
<1> QED BY <1>2, <1>3

\* A pump given the client's next epoch has left those of every frame held.
LEMMA HeldNext ==
    ASSUME WriterInv, NEW c \in Clients, NEW y \in Pumps, c.epoch = client.epoch + 1,
           y.epoch = client.epoch + 1
    PROVE  HeldBy(prod, c, y)
<1>1. SUFFICES ASSUME NEW p \in Proc, prod[p].at # "idle"
               PROVE  /\ prod[p].epoch <= c.epoch
                      /\ prod[p].frame.conn # c.opened => prod[p].epoch < y.epoch
  BY DEF HeldBy
<1>2. prod[p].epoch \in Nat /\ prod[p].epoch <= client.epoch
  BY <1>1, Holds
<1>3. client.epoch \in Nat
  BY DEF WriterInv, TypeInv, Clients
<1> QED BY <1>2, <1>3

\* A step of the pump alone
LEMMA AloneStep ==
    ASSUME WriterInv, NEW y \in Pumps, w' = y, y.line = w.line, w.epoch <= y.epoch,
           Modes(y, client), NEW s \in Seq(Piece), wire' = s, Carried(y, s, log), Charged(y),
           w.sealed \/ w.latch => y.sealed \/ y.latch, UNCHANGED <<prod, client, log>>
    PROVE  WriterInv'
<1>1. /\ prod \in Tasks /\ client \in Clients /\ Lined(w, prod) /\ log \in Seq(Frames)
      /\ log \in Seq(FramesFor(client.opened)) /\ Ended(w, log) /\ client.epoch <= client.epoch
  BY DEF WriterInv, TypeInv, Clients
<1>2. Lined(y, prod) /\ Ended(y, log)
  BY <1>1 DEF Lined, Ended
<1>3. Woke(prod, prod)
  BY <1>1, NobodyWoken
<1>4. HeldBy(prod, client, y)
  BY <1>1, HeldLater
<1> QED BY <1>1, <1>2, <1>3, <1>4, PumpStep

\* A step that wakes everyone and admits nothing
LEMMA WakesStep ==
    ASSUME WriterInv, NEW x \in Pumps, x.line = w.line, WakeAll(x), NEW c \in Clients,
           client' = c, HeldBy(prod, c, x), Modes(x, c), Charged(x),
           Carried(x, wire', log'), Ended(x, log'), wire' \in Seq(Piece),
           log' \in Seq(Frames), log' \in Seq(FramesFor(c.opened))
    PROVE  WriterInv'
<1>1. prod \in Tasks /\ Lined(x, prod)
  BY DEF WriterInv, TypeInv, Lined
<1>2. PICK y, qs : y = [x EXCEPT !.line = <<>>] /\ qs = WakeIn(prod, Range(x.line))
  OBVIOUS
<1>3. y \in Pumps /\ qs \in Tasks /\ Woke(prod, qs) /\ Lined(y, qs)
  BY <1>1, <1>2, WakeAllShape
<1>4. /\ Stock(x, y) /\ y.task = x.task /\ y.bound = x.bound
      /\ y.latch = x.latch /\ y.sealed = x.sealed /\ y.epoch = x.epoch
  BY <1>2 DEF Pumps, Stock
<1>5. HeldBy(prod, c, y) /\ Modes(y, c) /\ Charged(y) /\ Ended(y, log')
  BY <1>4 DEF HeldBy, Modes, Charged, Ended, Stock
<1>6. Carried(y, wire', log')
  BY <1>4 DEF Carried, Todo, Healthy, Stock
<1>7. w' = y /\ prod' = qs
  BY <1>2 DEF WakeAll
<1> QED BY <1>3, <1>5, <1>6, <1>7, PumpStep

\* ... on the same connection
LEMMA WakesQuietly ==
    ASSUME WriterInv, NEW x \in Pumps, x.line = w.line, WakeAll(x), NEW c \in Clients,
           client' = c, c.opened = client.opened, HeldBy(prod, c, x), Modes(x, c), Charged(x),
           Carried(x, wire, log), w.sealed \/ w.latch => x.sealed \/ x.latch,
           UNCHANGED <<wire, log>>
    PROVE  WriterInv'
<1>1. /\ wire \in Seq(Piece) /\ log \in Seq(Frames) /\ log \in Seq(FramesFor(c.opened))
      /\ Ended(w, log)
  BY DEF WriterInv, TypeInv
<1>2. Ended(x, log)
  BY <1>1 DEF Ended
<1> QED BY <1>1, <1>2, WakesStep

\* The reader meets the broker's DISCONNECT.
LEMMA ObserveBrokerDisconnectStep ==
    ASSUME WriterInv, ObserveBrokerDisconnect
    PROVE  WriterInv'
<1>1. /\ w \in Pumps /\ client \in Clients /\ HeldBy(prod, client, w) /\ Modes(w, client)
      /\ Charged(w) /\ Carried(w, wire, log)
  BY DEF WriterInv, TypeInv
<1>2. PICK x : x = [w EXCEPT !.sealed = TRUE]
  OBVIOUS
<1>3. x \in Pumps
  <2>1. [w EXCEPT !.sealed = TRUE] \in Pumps
    BY <1>1 DEF Pumps
  <2> QED BY <1>2, <2>1
<1>4. /\ Stock(w, x) /\ x.task = w.task /\ x.bound = w.bound /\ x.latch = w.latch
      /\ x.sealed = TRUE /\ x.epoch = w.epoch /\ x.line = w.line
  BY <1>1, <1>2 DEF Pumps, Stock
<1>5. HeldBy(prod, client, x) /\ Modes(x, client) /\ Charged(x) /\ Carried(x, wire, log)
  BY <1>1, <1>4 DEF HeldBy, Modes, Charged, Carried, Healthy, Todo, Stock
<1>6. WakeAll(x) /\ client' = client /\ UNCHANGED <<wire, log>>
  BY <1>2 DEF ObserveBrokerDisconnect
<1> QED BY <1>1, <1>3, <1>4, <1>5, <1>6, WakesQuietly

\* The latency flush, complete or failed
LEMMA FlushLatencyBatchStep ==
    ASSUME WriterInv, FlushLatencyBatch
    PROVE  WriterInv'
<1>1. /\ w \in Pumps /\ Modes(w, client) /\ Charged(w) /\ Carried(w, wire, log)
      /\ wire \in Seq(Piece) /\ log \in Seq(Frames) /\ client \in Clients
  BY DEF WriterInv, TypeInv
<1>2. /\ w.bound /\ w.task # "writing" /\ client.phase \in {"up", "closing"}
      /\ UNCHANGED <<prod, client, log>>
  BY DEF FlushLatencyBatch
<1>3. Healthy(w) /\ w.task = "waiting" /\ w.batch = <<>> /\ w.pos = 0 /\ ~w.latch
  BY <1>1, <1>2 DEF Modes, Healthy
<1>4. PICK n \in Nat : n = Len(w.queue)
  BY <1>1, LenProperties DEF Pumps
<1>5. CASE /\ w' = [w EXCEPT !.queue = <<>>, !.bytes = @ - TotalSize(w.queue),
                             !.resident = @ - n, !.unfinished = @ - n]
           /\ wire' = wire \o AllParts(w.queue)
  <2>1. /\ w.queue \in Seq(Frames) /\ w.batch \o w.queue = w.queue /\ Len(w.batch) = 0
        /\ w.bytes \in Nat /\ w.resident \in Nat /\ w.unfinished \in Nat
    BY <1>1, <1>3, ConcatEmptySeq DEF Pumps
  <2>2. w.bytes = TotalSize(w.queue) /\ w.resident = n /\ w.unfinished = n
    BY <1>1, <1>4, <2>1 DEF Charged
  <2>3. w.bytes - TotalSize(w.queue) = 0 /\ w.resident - n = 0 /\ w.unfinished - n = 0
    BY <2>1, <2>2
  <2>4. PICK y : y = [w EXCEPT !.queue = <<>>, !.bytes = 0, !.resident = 0, !.unfinished = 0]
    OBVIOUS
  <2>5. y \in Pumps
    <3>1. <<>> \in Seq(Frames)
      BY EmptySeq
    <3>2. [w EXCEPT !.queue = <<>>, !.bytes = 0, !.resident = 0, !.unfinished = 0] \in Pumps
      BY <1>1, <3>1 DEF Pumps
    <3> QED BY <2>4, <3>2
  <2>6. /\ y.queue = <<>> /\ y.bytes = 0 /\ y.resident = 0 /\ y.unfinished = 0
        /\ y.batch = w.batch /\ y.pos = w.pos /\ y.task = w.task /\ y.bound = w.bound
        /\ y.latch = w.latch /\ y.sealed = w.sealed /\ y.epoch = w.epoch /\ y.line = w.line
    BY <1>1, <2>4 DEF Pumps
  <2>7. w' = y
    BY <1>1, <1>5, <2>3, <2>4 DEF Pumps
  <2>8. Charged(y) /\ w.epoch <= y.epoch
    BY <1>1, <1>3, <2>6, EmptyCharged DEF Pumps
  <2>9. PICK s : s = wire \o AllParts(w.queue)
    OBVIOUS
  <2>10. s \in Seq(Piece) /\ Carried(y, s, log)
    BY <1>1, <1>3, <2>5, <2>6, <2>9, FlushCarried
  <2>11. Modes(y, client)
    BY <1>1, <2>6 DEF Modes
  <2> QED BY <1>2, <1>5, <2>5, <2>6, <2>7, <2>8, <2>9, <2>10, <2>11, AloneStep
<1>6. CASE /\ w' = Fence(w)
           /\ \E k \in 0..n : wire' = wire \o AllParts(SubSeq(w.queue, 1, k))
  <2>1. PICK k \in 0..n : wire' = wire \o AllParts(SubSeq(w.queue, 1, k))
    BY <1>6
  <2>2. PICK y : y = Fence(w)
    OBVIOUS
  <2>3. /\ y \in Pumps /\ Stock(w, y) /\ y.bound = FALSE /\ y.task = w.task
        /\ y.latch = TRUE /\ y.sealed = w.sealed /\ y.epoch = w.epoch + 1 /\ y.line = w.line
    BY <1>1, <2>2, FenceShape
  <2>4. ~Healthy(y) /\ Charged(y)
    BY <1>1, <2>3 DEF Healthy, Charged, Stock
  <2>5. PICK s : s = wire \o AllParts(SubSeq(w.queue, 1, k))
    OBVIOUS
  <2>6. k \in 0..Len(w.queue)
    BY <1>4
  <2>7. s \in Seq(Piece) /\ Carried(y, s, log)
    BY <1>1, <1>3, <2>3, <2>4, <2>5, <2>6, FlushCarried
  <2>8. w.epoch <= y.epoch /\ client.epoch <= y.epoch
    <3>1. w.epoch \in Nat /\ client.epoch \in Nat
      BY <1>1 DEF Pumps, Clients
    <3>2. client.epoch <= w.epoch
      BY <1>1 DEF Modes
    <3> QED BY <2>3, <3>1, <3>2
  <2>9. Modes(y, client)
    BY <1>1, <1>2, <1>3, <2>3, <2>8 DEF Modes, Stock
  <2> QED BY <1>2, <1>6, <2>1, <2>2, <2>3, <2>4, <2>5, <2>7, <2>8, <2>9, AloneStep
<1> QED BY <1>4, <1>5, <1>6 DEF FlushLatencyBatch

\* A step that touches permits only
LEMMA PermitStep ==
    ASSUME WriterInv, NEW a \in BOOLEAN, NEW b \in BOOLEAN, NEW r \in BOOLEAN, NEW d \in BOOLEAN,
           w' = [w EXCEPT !.armed = a, !.ackArmed = b, !.rearm = r, !.deferred = d],
           UNCHANGED <<prod, client, wire, log>>
    PROVE  WriterInv'
<1>1. /\ w \in Pumps /\ Modes(w, client) /\ Charged(w) /\ Carried(w, wire, log)
      /\ wire \in Seq(Piece)
  BY DEF WriterInv, TypeInv
<1>2. PICK y : y = [w EXCEPT !.armed = a, !.ackArmed = b, !.rearm = r, !.deferred = d]
  OBVIOUS
<1>3. y \in Pumps
  <2>1. [w EXCEPT !.armed = a, !.ackArmed = b, !.rearm = r, !.deferred = d] \in Pumps
    BY <1>1 DEF Pumps
  <2> QED BY <1>2, <2>1
<1>4. /\ Stock(w, y) /\ y.task = w.task /\ y.bound = w.bound /\ y.latch = w.latch
      /\ y.sealed = w.sealed /\ y.epoch = w.epoch /\ y.line = w.line /\ w.epoch <= y.epoch
  BY <1>1, <1>2 DEF Pumps, Stock
<1>5. Modes(y, client) /\ Charged(y) /\ Carried(y, wire, log)
  BY <1>1, <1>4 DEF Modes, Charged, Carried, Healthy, Todo, Stock
<1> QED BY <1>1, <1>2, <1>3, <1>4, <1>5, AloneStep

\* The callbacks that give the permits back
LEMMA RearmStep ==
    ASSUME WriterInv, Rearm \/ RearmDeferredAck
    PROVE  WriterInv'
<1>1. w \in Pumps /\ UNCHANGED <<prod, client, wire, log>>
  BY DEF WriterInv, TypeInv, Rearm, RearmDeferredAck
<1>2. PICK idle \in BOOLEAN : idle = (w.bound /\ w.task # "writing" /\ w.queue = <<>>)
  OBVIOUS
<1>3. CASE Rearm
  <2>1. PICK a \in BOOLEAN, b \in BOOLEAN :
          a = (w.armed \/ idle) /\ b = (w.ackArmed \/ idle)
    OBVIOUS
  <2>2. w' = [w EXCEPT !.rearm = FALSE, !.armed = a, !.ackArmed = b]
    BY <1>2, <1>3, <2>1 DEF Rearm
  <2>3. PICK d \in BOOLEAN : d = w.deferred
    BY <1>1 DEF Pumps
  <2>4. [w EXCEPT !.rearm = FALSE, !.armed = a, !.ackArmed = b]
          = [w EXCEPT !.armed = a, !.ackArmed = b, !.rearm = FALSE, !.deferred = d]
    BY <1>1, <2>3 DEF Pumps
  <2> QED BY <1>1, <2>2, <2>4, PermitStep
<1>4. CASE RearmDeferredAck
  <2>1. PICK b \in BOOLEAN : b = (w.ackArmed \/ idle)
    OBVIOUS
  <2>2. w' = [w EXCEPT !.deferred = FALSE, !.ackArmed = b]
    BY <1>2, <1>4, <2>1 DEF RearmDeferredAck
  <2>3. PICK a \in BOOLEAN, r \in BOOLEAN : a = w.armed /\ r = w.rearm
    BY <1>1 DEF Pumps
  <2>4. [w EXCEPT !.deferred = FALSE, !.ackArmed = b]
          = [w EXCEPT !.armed = a, !.ackArmed = b, !.rearm = r, !.deferred = FALSE]
    BY <1>1, <2>3 DEF Pumps
  <2> QED BY <1>1, <2>2, <2>4, PermitStep
<1> QED BY <1>3, <1>4

\* The writer gives up on its transport with the batch it holds.
LEMMA GiveUpStep ==
    ASSUME WriterInv, NEW x \in Pumps, Charged(x), x.line = w.line, x.epoch = w.epoch,
           x.latch = w.latch, x.sealed = w.sealed, GiveUp(x),
           client.phase \notin {"stopped", "dialing"}, UNCHANGED <<client, wire, log>>
    PROVE  WriterInv'
<1>1. /\ w \in Pumps /\ client \in Clients /\ Modes(w, client) /\ Carried(w, wire, log)
      /\ client.epoch <= client.epoch
  BY DEF WriterInv, TypeInv, Clients
<1>2. PICK r : r = ReleaseBatch(x)
  OBVIOUS
<1>3. /\ r \in Pumps /\ Charged(r) /\ r.batch = <<>> /\ r.pos = 0
      /\ r.latch = x.latch /\ r.sealed = x.sealed /\ r.epoch = x.epoch /\ r.line = x.line
  BY <1>2, ReleaseShape
<1>4. PICK d : d = DropEagerBinding(r)
  OBVIOUS
<1>5. /\ d \in Pumps /\ Stock(r, d) /\ d.bound = FALSE
      /\ d.latch = r.latch /\ d.sealed = r.sealed /\ d.epoch = r.epoch /\ d.line = r.line
  BY <1>3, <1>4, DropShape
<1>6. PICK e : e = IF x.latch THEN d.epoch ELSE d.epoch + 1
  OBVIOUS
<1>7. e \in Nat /\ w.epoch <= e /\ client.epoch <= e
  <2>1. d.epoch = w.epoch /\ w.epoch \in Nat /\ client.epoch \in Nat
    BY <1>1, <1>3, <1>5 DEF Pumps, Clients
  <2>2. client.epoch <= w.epoch
    BY <1>1 DEF Modes
  <2> QED BY <1>6, <2>1, <2>2
<1>8. PICK y : y = [d EXCEPT !.task = "done", !.epoch = e]
  OBVIOUS
<1>9. y \in Pumps
  <2>1. [d EXCEPT !.task = "done", !.epoch = e] \in Pumps
    BY <1>5, <1>7 DEF Pumps
  <2> QED BY <1>8, <2>1
<1>10. /\ Stock(d, y) /\ y.task = "done" /\ y.epoch = e /\ y.bound = FALSE
       /\ y.latch = w.latch /\ y.sealed = w.sealed /\ y.line = w.line
       /\ y.batch = <<>> /\ y.pos = 0
  BY <1>3, <1>5, <1>8 DEF Pumps, Stock
<1>11. WakeAll(y)
  BY <1>2, <1>4, <1>6, <1>8 DEF GiveUp
<1>12. Charged(y) /\ ~Healthy(y)
  BY <1>3, <1>5, <1>10 DEF Charged, Stock, Healthy
<1>13. Modes(y, client)
  BY <1>7, <1>10 DEF Modes
<1>14. Carried(y, wire, log)
  BY <1>1, <1>12, CarriedUnhealthy
<1>15. HeldBy(prod, client, y)
  BY <1>1, <1>7, <1>9, <1>10, HeldLater
<1> QED BY <1>1, <1>9, <1>10, <1>11, <1>12, <1>13, <1>14, <1>15, WakesQuietly

\* The writer takes a batch, or meets the failure of an eager write.
LEMMA WriterTakeStep ==
    ASSUME WriterInv, WriterTake
    PROVE  WriterInv'
<1>1. /\ w \in Pumps /\ client \in Clients /\ Modes(w, client) /\ Carried(w, wire, log)
      /\ Charged(w) /\ wire \in Seq(Piece) /\ log \in Seq(Frames) /\ w.task = "waiting"
      /\ UNCHANGED <<client, wire, log>>
  BY DEF WriterInv, TypeInv, WriterTake
<1>2. w.batch = <<>> /\ w.pos = 0 /\ client.phase \notin {"stopped", "dialing"}
  BY <1>1 DEF Modes
<1>3. PICK y : y = TakeBatch(w)
  OBVIOUS
<1>4. /\ y \in Pumps /\ y.task = "writing" /\ y.pos = 0 /\ y.bound = w.bound
      /\ y.latch = w.latch /\ y.sealed = w.sealed /\ y.epoch = w.epoch /\ y.line = w.line
  BY <1>1, <1>2, <1>3, TakeShape
<1>5. Charged(y) /\ Carried(y, wire, log)
  BY <1>1, <1>2, <1>3, TakeCarried
<1>6. CASE w.latch /\ GiveUp(y)
  BY <1>1, <1>2, <1>4, <1>5, <1>6, GiveUpStep
<1>7. CASE ~w.latch /\ w' = y /\ UNCHANGED prod
  <2>1. AllParts(y.batch) \in Seq(Piece)
    BY <1>4, FrameFacts DEF Pumps
  <2>2. y.pos <= Len(AllParts(y.batch))
    BY <1>4, <2>1, LenProperties
  <2>3. Modes(y, client) /\ w.epoch <= y.epoch
    BY <1>1, <1>2, <1>4, <1>7, <2>2 DEF Modes, Pumps
  <2> QED BY <1>1, <1>4, <1>5, <1>7, <2>3, AloneStep
<1> QED BY <1>3, <1>6, <1>7 DEF WriterTake

\* One part of the batch is written.
LEMMA WriterWriteStep ==
    ASSUME WriterInv, WriterWrite
    PROVE  WriterInv'
<1>1. /\ w \in Pumps /\ client \in Clients /\ Modes(w, client) /\ Carried(w, wire, log)
      /\ Charged(w) /\ wire \in Seq(Piece) /\ log \in Seq(Frames) /\ w.task = "writing"
      /\ w.pos < Len(AllParts(w.batch)) /\ UNCHANGED <<prod, client, log>>
  BY DEF WriterInv, TypeInv, WriterWrite
<1>2. Healthy(w)
  BY <1>1 DEF Modes, Healthy
<1>3. PICK y, u : /\ y = [w EXCEPT !.pos = @ + 1]
                  /\ u = Append(wire, AllParts(w.batch)[w.pos + 1])
  OBVIOUS
<1>4. y \in Pumps /\ u \in Seq(Piece) /\ Carried(y, u, log)
  BY <1>1, <1>2, <1>3, WriteCarried
<1>5. /\ y.queue = w.queue /\ y.bytes = w.bytes /\ y.resident = w.resident
      /\ y.unfinished = w.unfinished /\ y.batch = w.batch /\ y.pos = w.pos + 1
      /\ y.task = w.task /\ y.bound = w.bound /\ y.latch = w.latch
      /\ y.sealed = w.sealed /\ y.epoch = w.epoch /\ y.line = w.line
  BY <1>1, <1>3 DEF Pumps
<1>6. AllParts(w.batch) \in Seq(Piece) /\ w.pos \in Nat
  BY <1>1, FrameFacts DEF Pumps
<1>7. y.pos <= Len(AllParts(y.batch))
  <2>1. PICK k \in Nat : k = Len(AllParts(w.batch))
    BY <1>6, LenProperties
  <2>2. w.pos + 1 <= k
    BY <1>1, <1>6, <2>1
  <2> QED BY <1>5, <2>1, <2>2
<1>8. Charged(y)
  BY <1>1, <1>5 DEF Charged
<1>9. Modes(y, client) /\ w.epoch <= y.epoch
  BY <1>1, <1>5, <1>7 DEF Modes, Pumps
<1>10. w' = y /\ wire' = u
  BY <1>3 DEF WriterWrite
<1> QED BY <1>1, <1>4, <1>5, <1>8, <1>9, <1>10, AloneStep

\* The whole batch is on the wire: its room is given back and announced.
LEMMA WriterCompleteStep ==
    ASSUME WriterInv, WriterComplete
    PROVE  WriterInv'
<1>1. /\ w \in Pumps /\ prod \in Tasks /\ client \in Clients /\ Modes(w, client)
      /\ Carried(w, wire, log) /\ Charged(w) /\ wire \in Seq(Piece) /\ log \in Seq(Frames)
      /\ log \in Seq(FramesFor(client.opened)) /\ Ended(w, log) /\ Lined(w, prod)
      /\ w.task = "writing" /\ w.pos = Len(AllParts(w.batch)) /\ UNCHANGED <<client, wire, log>>
      /\ client.epoch <= client.epoch
  BY DEF WriterInv, TypeInv, WriterComplete, Clients
<1>2. PICK n \in Nat : n = Len(w.batch)
  BY <1>1, LenProperties DEF Pumps
<1>3. PICK r : r = ReleaseBatch(w)
  OBVIOUS
<1>4. /\ r \in Pumps /\ Charged(r) /\ r.batch = <<>> /\ r.pos = 0 /\ r.queue = w.queue
      /\ r.bound = w.bound /\ r.latch = w.latch /\ r.sealed = w.sealed /\ r.epoch = w.epoch
      /\ r.line = w.line
  BY <1>1, <1>3, ReleaseShape
<1>5. PICK x : x = [r EXCEPT !.task = "waiting"]
  OBVIOUS
<1>6. x \in Pumps
  <2>1. [r EXCEPT !.task = "waiting"] \in Pumps
    BY <1>4 DEF Pumps
  <2> QED BY <1>5, <2>1
<1>7. /\ Stock(r, x) /\ x.task = "waiting" /\ x.bound = w.bound /\ x.latch = w.latch
      /\ x.sealed = w.sealed /\ x.epoch = w.epoch /\ x.line = w.line
  BY <1>4, <1>5 DEF Pumps, Stock
<1>8. PICK z, qs : z = Notify(x, n) /\ qs = WakeIn(prod, Woken(x, n))
  OBVIOUS
<1>9. /\ \E u \in Seq(Proc) : z = [x EXCEPT !.line = u]
      /\ z \in Pumps /\ qs \in Tasks /\ Woke(prod, qs) /\ Lined(z, qs)
  <2>1. Lined(x, prod)
    BY <1>1, <1>7 DEF Lined
  <2> QED BY <1>1, <1>6, <1>8, <2>1, NotifyShape
<1>10. /\ Stock(x, z) /\ z.task = x.task /\ z.bound = x.bound /\ z.latch = x.latch
       /\ z.sealed = x.sealed /\ z.epoch = x.epoch
  <2>1. PICK u \in Seq(Proc) : z = [x EXCEPT !.line = u]
    BY <1>9
  <2> QED BY <1>6, <2>1 DEF Pumps, Stock
<1>11. PICK idle \in BOOLEAN : idle = (x.queue = <<>> /\ x.bound)
  OBVIOUS
<1>12. PICK a \in BOOLEAN, b \in BOOLEAN : a = (z.armed \/ idle) /\ b = (z.ackArmed \/ idle)
  OBVIOUS
<1>13. PICK y : y = [z EXCEPT !.armed = a, !.ackArmed = b]
  OBVIOUS
<1>14. y \in Pumps
  <2>1. [z EXCEPT !.armed = a, !.ackArmed = b] \in Pumps
    BY <1>9 DEF Pumps
  <2> QED BY <1>13, <2>1
<1>15. /\ Stock(z, y) /\ y.task = z.task /\ y.bound = z.bound /\ y.latch = z.latch
       /\ y.sealed = z.sealed /\ y.epoch = z.epoch /\ y.line = z.line
  BY <1>9, <1>13 DEF Pumps, Stock
<1>16. w' = y /\ prod' = qs
  BY <1>2, <1>3, <1>5, <1>8, <1>11, <1>12, <1>13 DEF WriterComplete
<1>17. Stock(r, y)
  BY <1>7, <1>10, <1>15 DEF Stock
<1>18. Charged(y) /\ Lined(y, qs) /\ Ended(y, log)
  BY <1>1, <1>4, <1>7, <1>9, <1>10, <1>15, <1>17 DEF Charged, Stock, Lined, Ended
<1>19. Modes(y, client) /\ w.epoch <= y.epoch
  BY <1>1, <1>4, <1>7, <1>10, <1>15, <1>17 DEF Modes, Stock, Pumps
<1>20. Carried(y, wire, log)
  <2>1. Todo(w) = <<>> /\ Healthy(w)
    BY <1>1, TodoShape DEF Modes, Healthy
  <2>2. Todo(y) = <<>> /\ y.queue = w.queue
    BY <1>4, <1>14, <1>17, TodoShape DEF Stock
  <2> QED BY <1>1, <2>1, <2>2 DEF Carried
<1>21. HeldBy(prod, client, y)
  BY <1>1, <1>14, <1>19, HeldLater
<1> QED BY <1>1, <1>9, <1>14, <1>16, <1>18, <1>19, <1>20, <1>21, PumpStep

\* A transport call fails.
LEMMA WriterFailStep ==
    ASSUME WriterInv, WriterFail
    PROVE  WriterInv'
<1>1. w \in Pumps /\ Charged(w) /\ client.phase \notin {"stopped", "dialing"}
  BY DEF WriterInv, TypeInv, WriterFail, Modes
<1> QED BY <1>1, GiveUpStep DEF WriterFail

\* The pump in the client's next epoch
LEMMA NextShape ==
    ASSUME NEW x \in Pumps, NEW e \in Nat
    PROVE  LET y == [x EXCEPT !.epoch = e] IN
           /\ y \in Pumps /\ Stock(x, y) /\ y.bound = x.bound /\ y.task = x.task
           /\ y.latch = x.latch /\ y.sealed = x.sealed /\ y.epoch = e /\ y.line = x.line
<1>1. PICK y : y = [x EXCEPT !.epoch = e]
  OBVIOUS
<1>2. y \in Pumps
  <2>1. [x EXCEPT !.epoch = e] \in Pumps
    BY DEF Pumps
  <2> QED BY <1>1, <2>1
<1>3. /\ Stock(x, y) /\ y.bound = x.bound /\ y.task = x.task
      /\ y.latch = x.latch /\ y.sealed = x.sealed /\ y.epoch = e /\ y.line = x.line
  BY <1>1 DEF Pumps, Stock
<1> QED BY <1>1, <1>2, <1>3

\* _force_close leaves the epoch before it waits for anything.
LEMMA ForceCloseStep ==
    ASSUME WriterInv, ForceClose
    PROVE  WriterInv'
<1>1. /\ w \in Pumps /\ client \in Clients /\ Modes(w, client) /\ Carried(w, wire, log)
      /\ Charged(w) /\ client.epoch \in Nat
  BY DEF WriterInv, TypeInv, Clients
<1>2. PICK e \in Nat : e = client.epoch + 1
  BY <1>1
<1>3. PICK x, c : x = [w EXCEPT !.epoch = e] /\ c = [client EXCEPT !.phase = "closing", !.epoch = e]
  OBVIOUS
<1>4. /\ x \in Pumps /\ Stock(w, x) /\ x.bound = w.bound /\ x.task = w.task
      /\ x.latch = w.latch /\ x.sealed = w.sealed /\ x.epoch = e /\ x.line = w.line
  BY <1>1, <1>3, NextShape
<1>5. c \in Clients /\ c.phase = "closing" /\ c.epoch = e /\ c.opened = client.opened
  BY <1>1, <1>3 DEF Clients
<1>6. WakeAll(x) /\ client' = c /\ UNCHANGED <<wire, log>>
  BY <1>2, <1>3 DEF ForceClose, NextEpoch
<1>7. Charged(x) /\ Carried(x, wire, log)
  BY <1>1, <1>4 DEF Charged, Carried, Healthy, Todo, Stock
<1>8. e <= e
  OBVIOUS
<1>9. Modes(x, c)
  BY <1>1, <1>4, <1>5, <1>8 DEF Modes, Stock
<1>10. HeldBy(prod, c, x)
  BY <1>2, <1>4, <1>5, HeldNext
<1> QED BY <1>4, <1>5, <1>6, <1>7, <1>9, <1>10, WakesQuietly

\* The epoch of the ended reader, and the work it left
LEMMA RetireStep ==
    ASSUME WriterInv, Retire
    PROVE  WriterInv'
<1>1. /\ w \in Pumps /\ prod \in Tasks /\ client \in Clients /\ Modes(w, client)
      /\ Carried(w, wire, log) /\ Charged(w) /\ client.epoch \in Nat /\ Lined(w, prod)
      /\ UNCHANGED <<wire, log>>
  BY DEF WriterInv, TypeInv, Clients, Retire
<1>2. PICK e \in Nat : e = client.epoch + 1
  BY <1>1
<1>3. PICK x, c : x = [w EXCEPT !.epoch = e] /\ c = [client EXCEPT !.phase = "retired", !.epoch = e]
  OBVIOUS
<1>4. /\ x \in Pumps /\ Stock(w, x) /\ x.bound = w.bound /\ x.task = w.task
      /\ x.latch = w.latch /\ x.sealed = w.sealed /\ x.epoch = e /\ x.line = w.line
  BY <1>1, <1>3, NextShape
<1>5. c \in Clients /\ c.phase = "retired" /\ c.epoch = e /\ c.opened = client.opened
  BY <1>1, <1>3 DEF Clients
<1>6. PICK y, ps : y = [x EXCEPT !.line = <<>>] /\ ps = WakeIn(prod, Range(x.line))
  OBVIOUS
<1>7. y \in Pumps /\ ps \in Tasks /\ Woke(prod, ps) /\ Lined(y, ps)
  <2>1. Lined(x, prod)
    BY <1>1, <1>4 DEF Lined
  <2> QED BY <1>1, <1>4, <1>6, <2>1, WakeAllShape
<1>8. /\ Stock(w, y) /\ y.bound = w.bound /\ y.task = w.task
      /\ y.latch = w.latch /\ y.sealed = w.sealed /\ y.epoch = e /\ y.line = <<>>
  BY <1>4, <1>6 DEF Pumps, Stock
<1>9. w' = y /\ client' = c
  BY <1>2, <1>3, <1>6 DEF Retire, NextEpoch
<1> DEFINE left(p) == Frame(NewId(p), [kind |-> "ack", size |-> 1])
<1>10. PICK L \in SUBSET {p \in Proc : prod[p] = Idle} :
         prod' = [p \in Proc |-> IF p \in L THEN Holding("ready", left(p), e) ELSE ps[p]]
  BY <1>2, <1>4, <1>6 DEF Retire
<1>11. ASSUME NEW p \in Proc
       PROVE  left(p) \in Plain /\ left(p).conn = client.opened
  <2>1. PICK shape : shape = [kind |-> "ack", size |-> 1]
    OBVIOUS
  <2>2. shape.kind \in PlainKind /\ shape.size \in Nat \ {0} /\ p \in Nat
        /\ PlainKind \subseteq PlainKind \cup {"terminal"}
    BY <2>1, ProcNat DEF PlainKind
  <2>3. Frame(NewId(p), shape) \in FrameOf(PlainKind) /\ Frame(NewId(p), shape).conn = client.opened
    BY <2>2, FrameShape
  <2> QED BY <2>1, <2>3 DEF Plain
<1>12. ASSUME NEW p \in Proc, p \in L
       PROVE  /\ prod'[p] \in Holder /\ prod'[p].at = "ready" /\ prod'[p].epoch = e
              /\ prod'[p].frame.conn = c.opened
  <2>1. PICK f : f = left(p)
    OBVIOUS
  <2>2. f \in Plain /\ f.conn = client.opened
    BY <1>11, <2>1
  <2>3. prod'[p] = Holding("ready", f, e)
    BY <1>10, <1>12, <2>1
  <2> QED BY <1>5, <2>2, <2>3 DEF Holding, Holder
<1> HIDE DEF left
<1>13. ASSUME NEW p \in Proc, p \notin L
       PROVE  prod'[p] = ps[p]
  BY <1>10, <1>13
<1>14. prod' \in Tasks
  <2>1. DOMAIN prod' = Proc /\ prod' = [p \in Proc |-> prod'[p]]
    BY <1>10
  <2>2. \A p \in Proc : prod'[p] \in Holder \cup {Idle}
    BY <1>7, <1>12, <1>13 DEF Tasks
  <2> QED BY <2>1, <2>2 DEF Tasks
<1>15. Lined(y, prod')
  <2>1. \A p \in Proc : ~Has(y.line, p)
    BY <1>8 DEF Has
  <2>2. \A p \in Proc : ps[p].at # "parked"
    BY <1>7, <2>1 DEF Lined
  <2>3. \A p \in Proc : prod'[p].at # "parked"
    BY <1>12, <1>13, <2>2
  <2> QED BY <1>7, <2>1, <2>3 DEF Lined
<1>16. HeldBy(ps, c, y)
  <2>1. HeldBy(prod, c, y)
    BY <1>2, <1>5, <1>7, <1>8, HeldNext
  <2>2. y.epoch <= y.epoch
    BY <1>8
  <2> QED BY <1>1, <1>5, <1>7, <2>1, <2>2, HeldKept
<1>17. HeldBy(prod', c, y)
  <2>1. SUFFICES ASSUME NEW p \in Proc, prod'[p].at # "idle"
                 PROVE  /\ prod'[p].epoch <= c.epoch
                        /\ prod'[p].frame.conn # c.opened => prod'[p].epoch < y.epoch
    BY DEF HeldBy
  <2>2. CASE p \in L
    BY <1>5, <1>12, <2>2
  <2>3. CASE p \notin L
    BY <1>13, <1>16, <2>1, <2>3 DEF HeldBy
  <2> QED BY <2>2, <2>3
<1>18. e <= e
  OBVIOUS
<1>19. Modes(y, c) /\ (Healthy(y) => Healthy(w))
  BY <1>1, <1>5, <1>8, <1>18 DEF Modes, Stock, Healthy
<1> QED BY <1>1, <1>5, <1>7, <1>8, <1>9, <1>14, <1>15, <1>17, <1>19, QuietStep

\* stop()
LEMMA StopStep ==
    ASSUME WriterInv, Stop
    PROVE  WriterInv'
<1>1. /\ w \in Pumps /\ client \in Clients /\ Modes(w, client) /\ Carried(w, wire, log)
      /\ Charged(w) /\ UNCHANGED <<wire, log>>
  BY DEF WriterInv, TypeInv, Stop
<1>2. PICK r : r = ReleaseBatch(w)
  OBVIOUS
<1>3. /\ r \in Pumps /\ Charged(r) /\ r.batch = <<>> /\ r.pos = 0
      /\ r.latch = w.latch /\ r.sealed = w.sealed /\ r.epoch = w.epoch /\ r.line = w.line
  BY <1>1, <1>2, ReleaseShape
<1>4. PICK d : d = DropEagerBinding(r)
  OBVIOUS
<1>5. /\ d \in Pumps /\ Stock(r, d) /\ d.bound = FALSE
      /\ d.latch = r.latch /\ d.sealed = r.sealed /\ d.epoch = r.epoch /\ d.line = r.line
  BY <1>3, <1>4, DropShape
<1>6. PICK x, c : x = [d EXCEPT !.task = "none"] /\ c = [client EXCEPT !.phase = "stopped"]
  OBVIOUS
<1>7. x \in Pumps
  <2>1. [d EXCEPT !.task = "none"] \in Pumps
    BY <1>5 DEF Pumps
  <2> QED BY <1>6, <2>1
<1>8. /\ Stock(d, x) /\ x.task = "none" /\ x.epoch = w.epoch /\ x.bound = FALSE
      /\ x.latch = w.latch /\ x.sealed = w.sealed /\ x.line = w.line
      /\ x.batch = <<>> /\ x.pos = 0
  BY <1>3, <1>5, <1>6 DEF Pumps, Stock
<1>9. c \in Clients /\ c.phase = "stopped" /\ c.epoch = client.epoch /\ c.opened = client.opened
  BY <1>1, <1>6 DEF Clients
<1>10. WakeAll(x) /\ client' = c
  BY <1>2, <1>4, <1>6 DEF Stop
<1>11. Charged(x) /\ ~Healthy(x)
  BY <1>3, <1>5, <1>8 DEF Charged, Stock, Healthy
<1>12. Modes(x, c)
  BY <1>1, <1>8, <1>9 DEF Modes
<1>13. Carried(x, wire, log)
  BY <1>1, <1>11, CarriedUnhealthy
<1>14. client.epoch <= c.epoch /\ w.epoch <= x.epoch
  BY <1>1, <1>8, <1>9 DEF Clients, Pumps
<1>15. HeldBy(prod, c, x)
  BY <1>7, <1>9, <1>14, HeldLater
<1> QED BY <1>1, <1>7, <1>8, <1>9, <1>10, <1>11, <1>12, <1>13, <1>15, WakesQuietly

\* discard(), and what it leaves of the invariant
LEMMA EmptiedStep ==
    ASSUME WriterInv, NEW x \in Pumps, Stock(w, x), x.latch = w.latch, x.sealed = w.sealed,
           x.line = w.line, w.task = "none", x.task = "none", NEW c \in Clients,
           c.opened = client.opened, c.phase = "stopped", c.epoch <= x.epoch,
           HeldBy(prod, c, x), WakeAll(Emptied(x)), client' = c, UNCHANGED <<wire, log>>
    PROVE  WriterInv'
<1>1. /\ w \in Pumps /\ Modes(w, client) /\ Carried(w, wire, log) /\ Charged(w)
  BY DEF WriterInv, TypeInv
<1>2. x.batch = <<>> /\ x.pos = 0 /\ Charged(x)
  BY <1>1 DEF Modes, Stock, Charged
<1>3. PICK y : y = Emptied(x)
  OBVIOUS
<1>4. /\ y \in Pumps /\ Charged(y) /\ y.queue = <<>> /\ y.batch = <<>> /\ y.pos = 0
      /\ y.bound = FALSE /\ y.task = "none" /\ y.latch = w.latch /\ y.sealed = w.sealed
      /\ y.epoch = x.epoch /\ y.line = w.line
  BY <1>2, <1>3, EmptiedShape
<1>5. ~Healthy(y) /\ Modes(y, c)
  BY <1>4 DEF Healthy, Modes
<1>6. Carried(y, wire, log)
  BY <1>1, <1>5, CarriedUnhealthy
<1>7. HeldBy(prod, c, y)
  BY <1>4 DEF HeldBy
<1> QED BY <1>3, <1>4, <1>5, <1>6, <1>7, WakesQuietly

\* discard() after the transport was closed
LEMMA DiscardStep ==
    ASSUME WriterInv, Discard
    PROVE  WriterInv'
<1>1. /\ w \in Pumps /\ client \in Clients /\ HeldBy(prod, client, w) /\ client.phase = "stopped"
      /\ WakeAll(Emptied(w)) /\ UNCHANGED <<client, wire, log>>
  BY DEF WriterInv, TypeInv, Discard
<1>2. w.task = "none" /\ client.epoch <= w.epoch
  BY <1>1 DEF WriterInv, Modes
<1>3. Stock(w, w)
  BY DEF Stock
<1> QED BY <1>1, <1>2, <1>3, EmptiedStep

\* A connection attempt begins: no frame held belongs to it.
LEMMA DialStep ==
    ASSUME WriterInv, Dial
    PROVE  WriterInv'
<1>1. /\ w \in Pumps /\ client \in Clients /\ Modes(w, client) /\ Charged(w)
      /\ client.epoch \in Nat /\ client.opened \in Nat /\ client.phase = "stopped"
      /\ wire' = <<>> /\ log' = <<>>
  BY DEF WriterInv, TypeInv, Clients, Dial
<1>2. PICK e \in Nat : e = client.epoch + 1
  BY <1>1
<1>3. PICK o \in Nat : o = client.opened + 1
  BY <1>1
<1>4. PICK x, c : x = [w EXCEPT !.epoch = e] /\ c = [phase |-> "dialing", epoch |-> e, opened |-> o]
  OBVIOUS
<1>5. /\ x \in Pumps /\ Stock(w, x) /\ x.bound = w.bound /\ x.task = w.task
      /\ x.latch = w.latch /\ x.sealed = w.sealed /\ x.epoch = e /\ x.line = w.line
  BY <1>1, <1>4, NextShape
<1>6. c \in Clients /\ c.phase = "dialing" /\ c.epoch = e /\ c.opened = o
  BY <1>4 DEF Clients
<1>7. WakeAll(x) /\ client' = c
  BY <1>2, <1>3, <1>4 DEF Dial, NextEpoch
<1>8. w.task = "none" /\ e <= e
  BY <1>1 DEF Modes
<1>9. Charged(x) /\ Modes(x, c) /\ ~Healthy(x)
  BY <1>1, <1>5, <1>6, <1>8 DEF Charged, Modes, Stock, Healthy
<1>10. HeldBy(prod, c, x)
  BY <1>2, <1>5, <1>6, HeldNext
<1>11. /\ <<>> \in Seq(Piece) /\ <<>> \in Seq(Frames) /\ <<>> \in Seq(FramesFor(c.opened))
       /\ <<>> \in Seq(Plain)
  BY EmptySeq
<1>12. Ended(x, <<>>)
  BY <1>11 DEF Ended
<1>13. Carried(x, <<>>, <<>>)
  <2>1. AllParts(<<>>) = <<>> \o <<>>
    BY <1>11, PartsEmpty, ConcatEmptySeq
  <2> QED BY <1>9, <1>11, <2>1 DEF Carried
<1> QED BY <1>1, <1>5, <1>6, <1>7, <1>9, <1>10, <1>11, <1>12, <1>13, WakesStep

\* ... and fails.
LEMMA DialFailsStep ==
    ASSUME WriterInv, DialFails
    PROVE  WriterInv'
<1>1. /\ w \in Pumps /\ client \in Clients /\ client.epoch \in Nat /\ client.phase = "dialing"
      /\ UNCHANGED <<wire, log>>
  BY DEF WriterInv, TypeInv, Clients, DialFails
<1>2. PICK e \in Nat : e = client.epoch + 1
  BY <1>1
<1>3. PICK x, c : x = [w EXCEPT !.epoch = e] /\ c = [client EXCEPT !.phase = "stopped", !.epoch = e]
  OBVIOUS
<1>4. /\ x \in Pumps /\ Stock(w, x) /\ x.task = w.task
      /\ x.latch = w.latch /\ x.sealed = w.sealed /\ x.epoch = e /\ x.line = w.line
  BY <1>1, <1>3, NextShape
<1>5. c \in Clients /\ c.phase = "stopped" /\ c.epoch = e /\ c.opened = client.opened
  BY <1>1, <1>3 DEF Clients
<1>6. WakeAll(Emptied(x)) /\ client' = c
  BY <1>2, <1>3 DEF DialFails, NextEpoch
<1>7. w.task = "none" /\ e <= e
  BY <1>1 DEF WriterInv, Modes
<1>8. HeldBy(prod, c, x)
  BY <1>2, <1>4, <1>5, HeldNext
<1> QED BY <1>1, <1>4, <1>5, <1>6, <1>7, <1>8, EmptiedStep

\* reset(), start() and the CONNECT packet
LEMMA ConnectStep ==
    ASSUME WriterInv, Connect
    PROVE  WriterInv'
<1>1. /\ w \in Pumps /\ prod \in Tasks /\ client \in Clients /\ Modes(w, client)
      /\ HeldBy(prod, client, w) /\ Lined(w, prod) /\ client.phase = "dialing" /\ prod' = prod
  BY DEF WriterInv, TypeInv, Connect
<1>2. PICK c : c = [client EXCEPT !.phase = "up"]
  OBVIOUS
<1>3. c \in Clients /\ c.phase = "up" /\ c.epoch = client.epoch /\ c.opened = client.opened
  BY <1>1, <1>2 DEF Clients
<1>4. PICK f : f = Frame(NewId(0), [kind |-> "data", size |-> 1])
  OBVIOUS
<1>5. f \in Plain /\ f \in Frames /\ f.kind = "data" /\ f.conn = c.opened
  <2>1. PICK shape : shape = [kind |-> "data", size |-> 1]
    OBVIOUS
  <2>2. shape.kind \in PlainKind /\ shape.size \in Nat \ {0} /\ 0 \in Nat
        /\ PlainKind \subseteq PlainKind \cup {"terminal"} /\ shape.kind = "data"
    BY <2>1 DEF PlainKind
  <2>3. f \in FrameOf(PlainKind) /\ f \in Frames /\ f.kind = shape.kind /\ f.conn = client.opened
    BY <1>4, <2>1, <2>2, FrameShape
  <2> QED BY <1>3, <2>2, <2>3 DEF Plain
<1>6. PICK x : x = Started(w)
  OBVIOUS
<1>7. /\ x \in Pumps /\ Charged(x) /\ x.queue = <<>> /\ x.batch = <<>> /\ x.pos = 0
      /\ x.bytes = 0 /\ x.resident = 0
      /\ x.bound = Nowait /\ x.task = "waiting" /\ x.latch = FALSE /\ x.sealed = FALSE
      /\ x.epoch = w.epoch /\ x.line = w.line
  BY <1>1, <1>6, StartedShape
<1>8. PICK l, e : l = <<f>> /\ e = <<>>
  OBVIOUS
<1>9. /\ l \in Seq(Frames) /\ l \in Seq(FramesFor(c.opened)) /\ l \in Seq(Plain)
      /\ l = Append(e, f) /\ e \in Seq(Frames) /\ e \in Seq(Piece)
  <2>1. f \in FramesFor(c.opened)
    BY <1>5 DEF FramesFor
  <2> QED BY <1>5, <1>8, <2>1
<1>10. client' = c /\ log' = l
  BY <1>2, <1>4, <1>8 DEF Connect
<1>11. Woke(prod, prod)
  BY <1>1, NobodyWoken
<1>12. AllParts(e) = e
  BY <1>8, PartsEmpty
<1>13. ASSUME NEW y \in Pumps, w' = y, NEW s \in Seq(Piece), wire' = s, Carried(y, s, l),
              Charged(y), y.batch = <<>>, y.pos = 0, y.task = "waiting", y.bound = Nowait,
              y.latch = FALSE, y.epoch = w.epoch, y.line = w.line
       PROVE  WriterInv'
  <2>1. Lined(y, prod) /\ HeldBy(prod, c, y)
    BY <1>1, <1>3, <1>13 DEF Lined, HeldBy
  <2>2. Ended(y, l)
    BY <1>9 DEF Ended
  <2>3. y.epoch = c.epoch /\ c.epoch <= y.epoch
    BY <1>1, <1>3, <1>13 DEF Modes, Clients
  <2>4. Modes(y, c)
    BY <1>3, <1>13, <2>3 DEF Modes
  <2> QED BY <1>1, <1>3, <1>9, <1>10, <1>11, <1>13, <2>1, <2>2, <2>4, PumpStep
<1>14. CASE w' = SpendPermit(x, f) /\ wire' = Parts(f)
  <2>1. PICK y, s : y = SpendPermit(x, f) /\ s = Parts(f)
    OBVIOUS
  <2>2. /\ y \in Pumps /\ Stock(x, y) /\ y.bound = x.bound /\ y.task = x.task
        /\ y.latch = x.latch /\ y.epoch = x.epoch /\ y.line = x.line
    BY <1>7, <2>1, SpendShape
  <2>3. s \in Seq(Piece)
    BY <1>5, <2>1, FrameFacts
  <2>4. AllParts(e) \o s = s
    BY <1>8, <1>12, <2>3, ConcatEmptySeq
  <2>5. y.queue = <<>> /\ y.batch = <<>> /\ y.pos = 0 /\ Charged(y)
    BY <1>7, <2>2 DEF Stock, Charged
  <2>6. Carried(y, AllParts(e) \o s, Append(e, f))
    BY <1>5, <1>9, <2>1, <2>2, <2>5, EagerCarried
  <2>7. Carried(y, s, l)
    BY <1>9, <2>4, <2>6
  <2> QED BY <1>7, <1>13, <1>14, <2>1, <2>2, <2>3, <2>5, <2>7
<1>15. CASE w' = Put(x, f) /\ wire' = <<>>
  <2>1. PICK y : y = Put(x, f)
    OBVIOUS
  <2>2. /\ y \in Pumps /\ y.batch = x.batch /\ y.pos = x.pos /\ y.bound = x.bound
        /\ y.task = x.task /\ y.latch = x.latch /\ y.epoch = x.epoch /\ y.line = x.line
    BY <1>5, <1>7, <2>1, PutShape
  <2>3. Charged(y)
    <3>1. Room(x, f)
      BY <1>7 DEF Room
    <3> QED BY <1>5, <1>7, <2>1, <3>1, PutCharged
  <2>4. Carried(x, e, e)
    <3>1. Todo(x) = e /\ AllParts(x.queue) = e
      BY <1>7, <1>8, <1>12, TodoShape
    <3>2. e \o e = e /\ (e \o e) \o e = e
      BY <1>8, <1>9, ConcatEmptySeq
    <3> QED BY <1>9, <1>12, <3>1, <3>2 DEF Carried
  <2>5. Carried(y, e, l)
    BY <1>5, <1>7, <1>9, <2>1, <2>4, PutCarried
  <2> QED BY <1>7, <1>8, <1>9, <1>13, <1>15, <2>1, <2>2, <2>3, <2>5
<1> QED BY <1>4, <1>6, <1>14, <1>15 DEF Connect

-----------------------------------------------------------------------------
(* The theorems *)

\* No connection yet
LEMMA InitWriter == Init => WriterInv
<1>1. SUFFICES ASSUME Init PROVE WriterInv
  OBVIOUS
<1>2. PICK e : e = <<>>
  OBVIOUS
<1>3. /\ e \in Seq(Frames) /\ e \in Seq(Piece) /\ e \in Seq(Proc) /\ e \in Seq(Plain)
      /\ e \in Seq(FramesFor(0)) /\ Len(e) = 0
  BY <1>2, EmptySeq
<1>4. /\ w = NewPump /\ wire = e /\ log = e /\ client = [phase |-> "stopped", epoch |-> 0, opened |-> 0]
      /\ prod = [p \in Proc |-> Idle]
  BY <1>1, <1>2 DEF Init
<1>5. NewPump \in Pumps
  BY <1>2, <1>3 DEF NewPump, Pumps
<1>6. /\ w \in Pumps /\ w.queue = e /\ w.batch = e /\ w.bytes = 0 /\ w.resident = 0
      /\ w.unfinished = 0 /\ w.task = "none" /\ w.pos = 0 /\ w.bound = FALSE /\ w.epoch = 0
      /\ w.line = e
  BY <1>2, <1>4, <1>5 DEF NewPump
<1>7. client \in Clients /\ client.phase = "stopped" /\ client.epoch = 0 /\ client.opened = 0
  BY <1>4 DEF Clients
<1>8. prod \in Tasks /\ \A p \in Proc : prod[p].at = "idle"
  BY <1>4 DEF Tasks, Idle
<1>9. TypeInv
  BY <1>3, <1>4, <1>6, <1>7, <1>8 DEF TypeInv
<1>10. Lined(w, prod) /\ HeldBy(prod, client, w)
  BY <1>3, <1>6, <1>8 DEF Lined, HeldBy, Has, Distinct
<1>11. Modes(w, client)
  BY <1>2, <1>6, <1>7 DEF Modes
<1>12. Carried(w, wire, log)
  <2>1. AllParts(e) = e /\ e \o e = e
    BY <1>2, <1>3, PartsEmpty, ConcatEmptySeq
  <2> QED BY <1>3, <1>4, <1>6, <2>1 DEF Carried, Healthy
<1>13. Charged(w)
  BY <1>2, <1>6, EmptyCharged
<1>14. Ended(w, log) /\ log \in Seq(FramesFor(client.opened))
  BY <1>3, <1>4, <1>7 DEF Ended
<1> QED BY <1>9, <1>10, <1>11, <1>12, <1>13, <1>14 DEF WriterInv

\* Every step keeps the invariant.
LEMMA NextWriter == WriterInv /\ [Next]_vars => WriterInv'
<1>1. SUFFICES ASSUME WriterInv, [Next]_vars PROVE WriterInv'
  OBVIOUS
<1>2. CASE Produce
  BY <1>1, <1>2, CaptureStep, EnqueueStep, RefuseStep, ResumeWaiterStep, CancelWaiterStep
     DEF Produce
<1>3. CASE Write
  BY <1>1, <1>3, WriterTakeStep, WriterWriteStep, WriterCompleteStep, WriterFailStep DEF Write
<1>4. CASE SendTerminal \/ ObserveBrokerDisconnect \/ FlushLatencyBatch \/ Rearm \/ RearmDeferredAck
  BY <1>1, <1>4, SendTerminalStep, ObserveBrokerDisconnectStep, FlushLatencyBatchStep, RearmStep
<1>5. CASE ForceClose \/ Retire \/ Stop \/ Discard \/ Dial \/ DialFails \/ Connect
  BY <1>1, <1>5, ForceCloseStep, RetireStep, StopStep, DiscardStep, DialStep, DialFailsStep,
     ConnectStep
<1>6. CASE UNCHANGED vars
  BY <1>1, <1>6 DEF vars, WriterInv, TypeInv
<1> QED BY <1>1, <1>2, <1>3, <1>4, <1>5, <1>6 DEF Next

\* The pump's account, its line of waiters, its modes and its epochs, for every
\* number of producers and connections and every limit
THEOREM WriterInvariant == Spec => []WriterInv
BY InitWriter, NextWriter, PTL DEF Spec

\* The wire shows a beginning of what was admitted.
LEMMA OnWire ==
    ASSUME WriterInv, NEW i \in DOMAIN wire
    PROVE  /\ AllParts(log) \in Seq(Piece) /\ i \in 1..Len(wire) /\ Len(wire) \in Nat
           /\ Len(AllParts(log)) \in Nat /\ Len(wire) <= Len(AllParts(log))
           /\ i \in 1..Len(AllParts(log)) /\ wire[i] = AllParts(log)[i]
<1>1. wire \in Seq(Piece) /\ log \in Seq(Frames)
  BY DEF WriterInv, TypeInv
<1>2. PICK rest \in Seq(Piece) : AllParts(log) = wire \o rest
  BY DEF WriterInv, Carried
<1>3. PICK n \in Nat, m \in Nat : n = Len(wire) /\ m = Len(rest)
  BY <1>1, <1>2, LenProperties
<1>4. i \in 1..n
  BY <1>1, <1>3, LenProperties
<1>5. /\ wire \o rest \in Seq(Piece) /\ Len(wire \o rest) = n + m
      /\ (wire \o rest)[i] = wire[i]
  BY <1>1, <1>2, <1>3, <1>4, ConcatProperties
<1>6. i \in 1..(n + m) /\ n <= n + m /\ n + m \in Nat
  BY <1>4
<1> QED BY <1>2, <1>3, <1>4, <1>5, <1>6

\* The typing of the pump, and its line
LEMMA TypedOK == WriterInv => TypeOK
<1>1. SUFFICES ASSUME WriterInv PROVE TypeOK
  OBVIOUS
<1>2. w \in Pumps /\ prod \in Tasks /\ client \in Clients /\ Lined(w, prod)
  BY <1>1 DEF WriterInv, TypeInv
<1>3. /\ w.task \in {"none", "waiting", "writing", "done"}
      /\ {w.bytes, w.resident, w.unfinished, w.epoch, w.pos} \subseteq Nat
      /\ {w.bound, w.armed, w.ackArmed, w.rearm, w.deferred, w.sealed, w.latch} \subseteq BOOLEAN
      /\ w.line \in Seq(Proc)
  BY <1>2 DEF Pumps
<1>4. \A p \in Proc : prod[p].at \in {"idle", "ready", "parked", "woken"}
  BY <1>2 DEF Tasks, Holder, Idle
<1>5. Range(w.line) = {p \in Proc : prod[p].at = "parked"}
  <2>1. DOMAIN w.line = 1..Len(w.line) /\ \A i \in 1..Len(w.line) : w.line[i] \in Proc
    BY <1>3, LenProperties, ElementOfSeq
  <2>2. \A p : p \in Range(w.line) <=> p \in Proc /\ Has(w.line, p)
    BY <2>1 DEF Range, Has
  <2> QED BY <1>2, <2>2 DEF Lined
<1>6. client.phase \in {"up", "closing", "retired", "stopped", "dialing"}
  BY <1>2 DEF Clients
<1> QED BY <1>3, <1>4, <1>5, <1>6 DEF TypeOK

\* The account
LEMMA AccountOK == WriterInv => Accounting
<1>1. SUFFICES ASSUME WriterInv PROVE Accounting
  OBVIOUS
<1>2. w.batch \in Seq(Frames) /\ w.queue \in Seq(Frames) /\ Charged(w)
  BY <1>1 DEF WriterInv, TypeInv, Pumps
<1>3. Len(w.batch \o w.queue) = Len(w.batch) + Len(w.queue)
  BY <1>2, ConcatProperties
<1> QED BY <1>2, <1>3 DEF Charged, Accounting

\* The order on the wire
LEMMA OrderOK == WriterInv => WireOrder
<1>1. SUFFICES ASSUME WriterInv PROVE WireOrder
  OBVIOUS
<1>2. wire \in Seq(Piece) /\ Carried(w, wire, log)
  BY <1>1 DEF WriterInv, TypeInv
<1>3. PICK rest \in Seq(Piece) : AllParts(log) = wire \o rest
  BY <1>2 DEF Carried
<1>4. IsPrefix(wire, AllParts(log))
  BY <1>2, <1>3, FirstIsPrefix
<1>5. (w.task \in {"waiting", "writing"} /\ ~w.latch) =>
        AllParts(log) = (wire \o Todo(w)) \o AllParts(w.queue)
  BY <1>2 DEF Carried, Healthy
<1> QED BY <1>4, <1>5 DEF WireOrder, Todo

\* A part of a plain frame is not the terminal packet's.
LEMMA PlainParts ==
    ASSUME NEW s \in Seq(Plain), NEW i \in 1..Len(AllParts(s))
    PROVE  AllParts(s)[i].f.kind # "terminal"
<1>1. PICK u : u = AllParts(s)
  OBVIOUS
<1>2. u \in Seq(PartOf(Plain))
  BY <1>1, PartsTyped
<1>3. u[i] \in PartOf(Plain)
  BY <1>1, <1>2, ElementOfSeq
<1> QED BY <1>1, <1>3 DEF PartOf, Plain, FrameOf, PlainKind

\* Nothing follows the terminal packet.
LEMMA LastOK == WriterInv => TerminalLast
<1>1. SUFFICES ASSUME WriterInv, NEW i \in DOMAIN wire, wire[i].f.kind = "terminal"
               PROVE  i = Len(wire)
  BY DEF TerminalLast
<1>2. /\ i \in 1..Len(wire) /\ Len(wire) \in Nat /\ Len(wire) <= Len(AllParts(log))
      /\ i \in 1..Len(AllParts(log)) /\ wire[i] = AllParts(log)[i]
  BY <1>1, OnWire
<1>3. CASE log \in Seq(Plain)
  BY <1>1, <1>2, <1>3, PlainParts
<1>4. CASE \E s \in Seq(Plain) : \E f \in Frames : f.kind = "terminal" /\ log = Append(s, f)
  <2>1. PICK s \in Seq(Plain) : \E f \in Frames : f.kind = "terminal" /\ log = Append(s, f)
    BY <1>4
  <2>2. PICK f \in Frames : f.kind = "terminal" /\ log = Append(s, f)
    BY <2>1
  <2>3. s \in Seq(Frames)
    BY FrameFacts, SeqMonotonic
  <2>4. PICK a, b : a = AllParts(s) /\ b = Parts(f)
    OBVIOUS
  <2>5. AllParts(log) = a \o b /\ a \in Seq(Piece) /\ b \in Seq(Piece) /\ Len(b) = 1
    <3>1. AllParts(log) = a \o b
      BY <2>2, <2>3, <2>4, PartsAppend
    <3>2. a \in Seq(Piece) /\ b \in Seq(Piece)
      BY <2>3, <2>4, FrameFacts
    <3>3. b = <<[f |-> f, part |-> 1]>>
      BY <2>2, <2>4, PartsShape
    <3> QED BY <3>1, <3>2, <3>3
  <2>6. PICK n \in Nat : n = Len(a)
    BY <2>5, LenProperties
  <2>7. Len(a \o b) = n + 1 /\ \A j \in 1..n : (a \o b)[j] = a[j]
    BY <2>5, <2>6, ConcatProperties, SMTT(30)
  <2>8. i \notin 1..n
    <3>1. SUFFICES ASSUME i \in 1..n PROVE FALSE
      OBVIOUS
    <3>2. a[i].f.kind # "terminal"
      BY <2>4, <2>6, <3>1, PlainParts
    <3> QED BY <1>1, <1>2, <2>5, <2>7, <3>1, <3>2
  <2>9. PICK m \in Nat : m = Len(wire)
    BY <1>2
  <2>10. i \in 1..m /\ m <= n + 1
    BY <1>2, <2>5, <2>7, <2>9
  <2> QED BY <2>8, <2>9, <2>10
<1> QED BY <1>1, <1>3, <1>4 DEF WriterInv, Ended

\* Every part on the wire is of a frame of the open connection.
LEMMA OwnOK == WriterInv => OwnTransport
<1>1. SUFFICES ASSUME WriterInv, NEW i \in DOMAIN wire
               PROVE  wire[i].f.conn = client.opened
  BY DEF OwnTransport
<1>2. i \in 1..Len(AllParts(log)) /\ wire[i] = AllParts(log)[i]
  BY <1>1, OnWire
<1>3. PICK T : T = FramesFor(client.opened)
  OBVIOUS
<1>4. log \in Seq(T)
  BY <1>1, <1>3 DEF WriterInv
<1>5. AllParts(log) \in Seq(PartOf(T))
  BY <1>4, PartsTyped
<1>6. wire[i] \in PartOf(T)
  BY <1>2, <1>5, ElementOfSeq
<1> QED BY <1>3, <1>6 DEF PartOf, FramesFor

\* Whatever the limits, the number of producers and the order of their steps,
\* the counters equal what the pump owns, the transport sees the admitted frames
\* in order and in one piece, nothing after the DISCONNECT and nothing of another
\* connection.
THEOREM WireAlwaysExact == Spec => []WireExact
<1>1. WriterInv => WireExact
  BY TypedOK, AccountOK, OrderOK, LastOK, OwnOK DEF WireExact
<1> QED BY <1>1, WriterInvariant, PTL

\* In an epoch that is not the client's, every producer is stale and the writer
\* has failed or ended.
LEMMA SilentStep ==
    ASSUME WriterInv, [Next]_vars, client.phase = "up", w.epoch # client.epoch
    PROVE  wire' = wire
<1>1. /\ Modes(w, client) /\ client.epoch \in Nat /\ w.epoch \in Nat
  BY DEF WriterInv, TypeInv, Clients, Pumps
<1>2. client.epoch < w.epoch /\ (w.latch \/ w.task = "done")
  BY <1>1 DEF Modes
<1>3. ~w.bound /\ w.task # "writing"
  BY <1>1, <1>2 DEF Modes
<1>4. ASSUME NEW p \in Proc, prod[p].at # "idle"
      PROVE  Stale(prod[p].epoch)
  BY <1>1, <1>2, <1>4, Holds DEF Stale
<1>5. CASE Produce
  <2>1. PICK p \in Proc : \/ \E s \in Shapes : Capture(p, s)
                          \/ Enqueue(p) \/ Refuse(p) \/ ResumeWaiter(p) \/ CancelWaiter(p)
    BY <1>5 DEF Produce
  <2>2. CASE Enqueue(p)
    BY <1>4, <2>2 DEF Enqueue
  <2> QED BY <2>1, <2>2 DEF Capture, Refuse, ResumeWaiter, CancelWaiter
<1>6. CASE Write
  BY <1>3, <1>6 DEF Write, WriterTake, WriterWrite, WriterComplete, WriterFail
<1>7. CASE SendTerminal
  <2>1. Stale(client.epoch)
    BY <1>2 DEF Stale
  <2> QED BY <1>7, <2>1 DEF SendTerminal
<1>8. CASE ObserveBrokerDisconnect \/ FlushLatencyBatch \/ Rearm \/ RearmDeferredAck
  BY <1>3, <1>8 DEF ObserveBrokerDisconnect, FlushLatencyBatch, Rearm, RearmDeferredAck
<1>9. CASE ForceClose \/ Retire \/ Stop \/ Discard \/ Dial \/ DialFails \/ Connect
  BY <1>9 DEF ForceClose, Retire, Stop, Discard, Dial, DialFails, Connect
<1>10. CASE UNCHANGED vars
  BY <1>10 DEF vars
<1> QED BY <1>5, <1>6, <1>7, <1>8, <1>9, <1>10 DEF Next

\* Once an eager or latency write failed, no step puts another byte on that
\* transport: not a parked producer, not the terminal packet, not the writer.
THEOREM FailedStaysSilent == Spec => FailedGenerationSilent
<1>1. WriterInv /\ [Next]_vars =>
        [(client.phase = "up" /\ w.epoch # client.epoch) => wire' = wire]_vars
  BY SilentStep
<1> QED BY <1>1, WriterInvariant, PTL DEF Spec, FailedGenerationSilent
=============================================================================
