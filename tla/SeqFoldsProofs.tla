--------------------------- MODULE SeqFoldsProofs ---------------------------
(***************************************************************************)
(* Facts about SeqFolds, and the two inductions they rest on.              *)
(* The library's induction theorems take the property as an operator; here *)
(* it is a set, which the provers can be given.                            *)
(***************************************************************************)
EXTENDS SeqFolds, SequenceTheorems, WellFoundedInduction, TLAPS

-----------------------------------------------------------------------------
\* A set of naturals that is not empty has a least element.
LEMMA LeastExists ==
    ASSUME NEW A \in SUBSET Nat, A # {}
    PROVE  \E n \in A : \A k \in A : n <= k
<1> DEFINE R == OpToRel(<, Nat)
<1>1. PICK n \in A : \A k \in A : ~ (<<k, n>> \in R)
  BY NatLessThanWellFounded, WFMin
<1> HIDE DEF R
<1>2. \A k \in A : ~ (k < n)
  BY <1>1 DEF OpToRel, R
<1> QED BY <1>2

\* Induction over the naturals
LEMMA InductiveSet ==
    ASSUME NEW A, 0 \in A, \A n \in Nat : n \in A => n + 1 \in A
    PROVE  \A n \in Nat : n \in A
<1> DEFINE Bad == Nat \ A
<1>1. SUFFICES ASSUME Bad # {}
               PROVE  FALSE
  OBVIOUS
<1>2. PICK n \in Bad : \A k \in Bad : n <= k
  BY <1>1, LeastExists
<1>3. n \in Nat /\ n # 0 /\ n - 1 \in Nat /\ n - 1 \notin Bad
  BY <1>2
<1> QED BY <1>2, <1>3

\* Induction over sequences
LEMMA InductiveSeqs ==
    ASSUME NEW T, NEW A, <<>> \in A,
           \A s \in Seq(T) : \A e \in T : s \in A => Append(s, e) \in A
    PROVE  \A s \in Seq(T) : s \in A
<1> DEFINE B == {n \in Nat : \A s \in Seq(T) : Len(s) = n => s \in A}
<1>1. 0 \in B
  BY EmptySeq
<1>2. ASSUME NEW n \in Nat, n \in B
      PROVE  n + 1 \in B
  <2>1. SUFFICES ASSUME NEW s \in Seq(T), Len(s) = n + 1
                 PROVE  s \in A
    OBVIOUS
  <2>2. s # <<>>
    BY <2>1
  <2>3. PICK u \in Seq(T), e \in T : s = Append(u, e)
    BY <2>2, SequenceEmptyOrAppend
  <2>4. Len(u) = n
    BY <2>1, <2>3, AppendProperties
  <2> QED BY <1>2, <2>3, <2>4
<1>3. \A n \in Nat : n \in B
  <2> HIDE DEF B
  <2> QED BY <1>1, <1>2, InductiveSet
<1> QED BY <1>3, LenProperties

-----------------------------------------------------------------------------
\* What the recursive function of Only(s, S) satisfies
Upon(k, s, S, n) ==
    IF n = 0 THEN <<>>
    ELSE IF s[n] \in S THEN Append(k[n - 1], s[n]) ELSE k[n - 1]
Filters(k, s, S) == k = [n \in 0..Len(s) |-> Upon(k, s, S, n)]

\* Two such functions agree as far as their sequences do.
LEMMA FiltersAgree ==
    ASSUME NEW T, NEW s \in Seq(T), NEW u \in Seq(T), NEW S, NEW k, NEW j,
           Filters(k, s, S), Filters(j, u, S), NEW m \in Nat, m <= Len(s), m <= Len(u),
           \A n \in 1..m : s[n] = u[n]
    PROVE  \A n \in 0..m : k[n] = j[n]
<1> DEFINE A == {n \in Nat : n <= m => k[n] = j[n]}
<1>1. 0 \in A
  BY DEF Filters, Upon
<1>2. ASSUME NEW n \in Nat, n \in A
      PROVE  n + 1 \in A
  <2>1. SUFFICES ASSUME n + 1 <= m
                 PROVE  k[n + 1] = j[n + 1]
    OBVIOUS
  <2>2. k[n] = j[n] /\ s[n + 1] = u[n + 1] /\ n + 1 \in 0..Len(s) /\ n + 1 \in 0..Len(u)
    BY <1>2, <2>1
  <2>3. k[n + 1] = Upon(k, s, S, n + 1) /\ j[n + 1] = Upon(j, u, S, n + 1)
    BY <2>2 DEF Filters
  <2>4. (n + 1) - 1 = n /\ n + 1 # 0
    OBVIOUS
  <2> QED BY <2>2, <2>3, <2>4 DEF Upon
<1>3. \A n \in Nat : n \in A
  <2> HIDE DEF A
  <2> QED BY <1>1, <1>2, InductiveSet
<1> QED BY <1>3

\* There is such a function.
LEMMA FiltersExist ==
    ASSUME NEW T, NEW S
    PROVE  \A s \in Seq(T) : \E k : Filters(k, s, S)
<1> DEFINE A == {s \in Seq(T) : \E k : Filters(k, s, S)}
<1>1. <<>> \in A
  <2>1. Filters([n \in 0..0 |-> <<>>], <<>>, S)
    BY DEF Filters, Upon
  <2> QED BY <2>1
<1>2. ASSUME NEW s \in Seq(T), NEW e \in T, s \in A
      PROVE  Append(s, e) \in A
  <2>1. PICK k : Filters(k, s, S)
    BY <1>2
  <2> DEFINE u == Append(s, e)
             l == Len(s) + 1
             j == [n \in 0..l |-> IF n = l THEN Upon(k, u, S, l) ELSE k[n]]
  <2>2. u \in Seq(T) /\ Len(u) = l /\ \A n \in 1..Len(s) : u[n] = s[n]
    BY AppendProperties
  <2>3. \A n \in 0..l : j[n] = Upon(j, u, S, n)
    <3>1. TAKE n \in 0..l
    <3>2. CASE n = l
      <4>1. l - 1 \in 0..l /\ l - 1 # l /\ l # 0
        BY LenProperties
      <4>2. j[l - 1] = k[l - 1] /\ j[l] = Upon(k, u, S, l)
        BY <4>1
      <4> HIDE DEF j, u, l
      <4> QED BY <3>2, <4>2 DEF Upon
    <3>3. CASE n # l
      <4>1. n \in 0..Len(s) /\ j[n] = k[n]
        BY <3>3
      <4>2. k[n] = Upon(k, s, S, n)
        BY <2>1, <4>1 DEF Filters
      <4>3. CASE n = 0
        BY <4>1, <4>2, <4>3 DEF Upon
      <4>4. CASE n # 0
        <5>1. n \in 1..Len(s) /\ n - 1 \in 0..l /\ n - 1 # l
          BY <4>1, <4>4
        <5>2. j[n - 1] = k[n - 1] /\ u[n] = s[n]
          BY <2>2, <5>1
        <5> HIDE DEF j, u, l
        <5> QED BY <4>1, <4>2, <4>4, <5>2 DEF Upon
      <4> QED BY <4>3, <4>4
    <3> QED BY <3>2, <3>3
  <2>4. Filters(j, u, S)
    <3>1. j = [n \in 0..l |-> j[n]]
      OBVIOUS
    <3> HIDE DEF j, u, l
    <3> QED BY <2>2, <2>3, <3>1 DEF Filters
  <2> QED BY <2>2, <2>4
<1>3. \A s \in Seq(T) : s \in A
  <2> HIDE DEF A
  <2> QED BY <1>1, <1>2, InductiveSeqs
<1> QED BY <1>3

\* Only is the last value of one.
LEMMA OnlyFilters ==
    ASSUME NEW T, NEW S, NEW s \in Seq(T)
    PROVE  \E k : Filters(k, s, S) /\ Only(s, S) = k[Len(s)]
<1> DEFINE Is(k) == k = [n \in 0..Len(s) |->
                    IF n = 0 THEN <<>>
                    ELSE IF s[n] \in S THEN Append(k[n - 1], s[n]) ELSE k[n - 1]]
           f == CHOOSE k : Is(k)
<1>1. Only(s, S) = f[Len(s)]
  BY DEF Only
<1>2. \E k : Is(k)
  <2>1. PICK k : Filters(k, s, S)
    BY FiltersExist
  <2>2. Is(k)
    BY <2>1 DEF Filters, Upon
  <2> QED BY <2>2
<1>3. Is(f)
  <2> HIDE DEF Is
  <2> QED BY <1>2
<1>4. Filters(f, s, S)
  BY <1>3 DEF Filters, Upon
<1> HIDE DEF f
<1> QED BY <1>1, <1>4

\* The two facts that all others follow from
LEMMA OnlyEmpty ==
    ASSUME NEW S
    PROVE  Only(<<>>, S) = <<>>
<1>1. PICK k : Filters(k, <<>>, S) /\ Only(<<>>, S) = k[Len(<<>>)]
  <2>1. <<>> \in Seq({})
    BY EmptySeq
  <2> QED BY <2>1, OnlyFilters
<1> QED BY <1>1 DEF Filters, Upon

\* Filtering an extension: the new element is kept if it is in the set.
LEMMA OnlyAppend ==
    ASSUME NEW T, NEW s \in Seq(T), NEW e \in T, NEW S
    PROVE  Only(Append(s, e), S) = IF e \in S THEN Append(Only(s, S), e) ELSE Only(s, S)
<1> DEFINE u == Append(s, e)
           l == Len(s) + 1
<1>1. u \in Seq(T) /\ Len(u) = l /\ u[l] = e /\ \A n \in 1..Len(s) : u[n] = s[n]
  BY AppendProperties
<1>2. Len(s) \in Nat /\ l - 1 = Len(s) /\ l # 0 /\ l \in 0..l
  BY LenProperties
<1> HIDE DEF u, l
<1>3. PICK k : Filters(k, s, S) /\ Only(s, S) = k[Len(s)]
  BY OnlyFilters
<1>4. PICK j : Filters(j, u, S) /\ Only(u, S) = j[l]
  BY <1>1, OnlyFilters
<1>5. j[Len(s)] = k[Len(s)]
  <2>1. \A n \in 0..Len(s) : k[n] = j[n]
    BY <1>1, <1>2, <1>3, <1>4, FiltersAgree DEF l
  <2> QED BY <1>2, <2>1
<1>6. j[l] = Upon(j, u, S, l)
  BY <1>1, <1>2, <1>4 DEF Filters
<1>7. j[l] = IF e \in S THEN Append(j[Len(s)], e) ELSE j[Len(s)]
  BY <1>1, <1>2, <1>6 DEF Upon
<1> QED BY <1>3, <1>4, <1>5, <1>7 DEF u

-----------------------------------------------------------------------------
\* Filtering drops elements, and adds none.
LEMMA OnlyTyped ==
    ASSUME NEW T, NEW S
    PROVE  \A s \in Seq(T) : Only(s, S) \in Seq(T \cap S) /\ Len(Only(s, S)) <= Len(s)
<1> DEFINE A == {s \in Seq(T) : Only(s, S) \in Seq(T \cap S) /\ Len(Only(s, S)) <= Len(s)}
<1>1. <<>> \in A
  <2>1. Only(<<>>, S) = <<>> /\ <<>> \in Seq(T \cap S) /\ <<>> \in Seq(T)
    BY OnlyEmpty, EmptySeq
  <2>2. Len(Only(<<>>, S)) <= Len(<<>>)
    BY <2>1, EmptySeq
  <2>3. Only(<<>>, S) \in Seq(T \cap S)
    BY <2>1
  <2> QED BY <2>1, <2>2, <2>3
<1>2. ASSUME NEW s \in Seq(T), NEW e \in T, s \in A
      PROVE  Append(s, e) \in A
  <2>1. Append(s, e) \in Seq(T) /\ Len(Append(s, e)) = Len(s) + 1 /\ Len(s) \in Nat
    BY AppendProperties, LenProperties
  <2>2. Only(Append(s, e), S) = IF e \in S THEN Append(Only(s, S), e) ELSE Only(s, S)
    BY OnlyAppend
  <2> DEFINE o == Only(s, S)
  <2>3. o \in Seq(T \cap S) /\ Len(o) <= Len(s) /\ Len(o) \in Nat
    BY <1>2, LenProperties
  <2> HIDE DEF o
  <2>4. CASE e \in S
    <3>1. Append(o, e) \in Seq(T \cap S) /\ Len(Append(o, e)) = Len(o) + 1
      BY <2>3, <2>4, AppendProperties
    <3> QED BY <2>1, <2>2, <2>3, <2>4, <3>1 DEF o
  <2>5. CASE e \notin S
    BY <2>1, <2>2, <2>3, <2>5 DEF o
  <2> QED BY <2>4, <2>5
<1>3. \A s \in Seq(T) : s \in A
  <2> HIDE DEF A
  <2> QED BY <1>1, <1>2, InductiveSeqs
<1> QED BY <1>3

\* Filtering distributes over concatenation.
LEMMA OnlyConcat ==
    ASSUME NEW T, NEW S, NEW s \in Seq(T)
    PROVE  \A u \in Seq(T) : Only(s \o u, S) = Only(s, S) \o Only(u, S)
<1> DEFINE A == {u \in Seq(T) : Only(s \o u, S) = Only(s, S) \o Only(u, S)}
<1>1. <<>> \in A
  <2>1. Only(s, S) \in Seq(T \cap S)
    BY OnlyTyped
  <2> QED BY <2>1, OnlyEmpty, EmptySeq, ConcatEmptySeq
<1>2. ASSUME NEW u \in Seq(T), NEW e \in T, u \in A
      PROVE  Append(u, e) \in A
  <2>1. Append(u, e) \in Seq(T) /\ s \o u \in Seq(T)
    BY AppendProperties, ConcatProperties
  <2>2. s \o Append(u, e) = Append(s \o u, e)
    <3>1. <<e>> \in Seq(T)
      OBVIOUS
    <3> QED BY <2>1, <3>1, AppendIsConcat, ConcatAssociative
  <2> DEFINE os == Only(s, S)
             ou == Only(u, S)
  <2>3. os \in Seq(T \cap S) /\ ou \in Seq(T \cap S) /\ Only(s \o u, S) = os \o ou
    BY <1>2, OnlyTyped
  <2>4. /\ Only(Append(u, e), S) = IF e \in S THEN Append(ou, e) ELSE ou
        /\ Only(s \o Append(u, e), S) = IF e \in S THEN Append(os \o ou, e) ELSE os \o ou
    <3>1. Only(Append(u, e), S) = IF e \in S THEN Append(Only(u, S), e) ELSE Only(u, S)
      BY OnlyAppend
    <3>2. Only(Append(s \o u, e), S)
            = IF e \in S THEN Append(Only(s \o u, S), e) ELSE Only(s \o u, S)
      BY <2>1, OnlyAppend
    <3> QED BY <2>2, <2>3, <3>1, <3>2
  <2> HIDE DEF os, ou
  <2>5. CASE e \in S
    <3>1. <<e>> \in Seq(T \cap S) /\ e \in T \cap S /\ os \o ou \in Seq(T \cap S)
      BY <2>3, <2>5, ConcatProperties
    <3>2. Append(os \o ou, e) = os \o Append(ou, e)
      <4>1. Append(os \o ou, e) = (os \o ou) \o <<e>> /\ Append(ou, e) = ou \o <<e>>
        BY <2>3, <3>1, AppendIsConcat
      <4>2. (os \o ou) \o <<e>> = os \o (ou \o <<e>>)
        BY <2>3, <3>1, ConcatAssociative
      <4> QED BY <4>1, <4>2
    <3> QED BY <2>1, <2>4, <2>5, <3>2 DEF os
  <2>6. CASE e \notin S
    BY <2>1, <2>4, <2>6 DEF os
  <2> QED BY <2>5, <2>6
<1>3. \A u \in Seq(T) : u \in A
  <2> HIDE DEF A
  <2> QED BY <1>1, <1>2, InductiveSeqs
<1> QED BY <1>3

\* A sequence over S is not changed.
LEMMA OnlyAll ==
    ASSUME NEW S
    PROVE  \A s \in Seq(S) : Only(s, S) = s
<1> DEFINE A == {s \in Seq(S) : Only(s, S) = s}
<1>1. <<>> \in A
  BY OnlyEmpty, EmptySeq
<1>2. ASSUME NEW s \in Seq(S), NEW e \in S, s \in A
      PROVE  Append(s, e) \in A
  BY <1>2, OnlyAppend, AppendProperties
<1>3. \A s \in Seq(S) : s \in A
  <2> HIDE DEF A
  <2> QED BY <1>1, <1>2, InductiveSeqs
<1> QED BY <1>3

\* Of a sequence with no element in S nothing is left.
LEMMA OnlyNone ==
    ASSUME NEW T, NEW S, T \cap S = {}
    PROVE  \A s \in Seq(T) : Only(s, S) = <<>>
<1>1. TAKE s \in Seq(T)
<1>2. Only(s, S) \in Seq({})
  BY OnlyTyped
<1> QED BY <1>2

\* Two filters that share the elements out share the length out.
LEMMA OnlySplit ==
    ASSUME NEW T, NEW S, NEW R, T \subseteq S \cup R, S \cap R = {}
    PROVE  \A s \in Seq(T) : Len(Only(s, S)) + Len(Only(s, R)) = Len(s)
<1> DEFINE A == {s \in Seq(T) : Len(Only(s, S)) + Len(Only(s, R)) = Len(s)}
<1>1. <<>> \in A
  BY OnlyEmpty, EmptySeq
<1>2. ASSUME NEW s \in Seq(T), NEW e \in T, s \in A
      PROVE  Append(s, e) \in A
  <2> DEFINE a == Only(s, S)
             b == Only(s, R)
  <2>1. /\ a \in Seq(T \cap S) /\ b \in Seq(T \cap R) /\ Len(a) + Len(b) = Len(s)
        /\ Len(a) \in Nat /\ Len(b) \in Nat
    BY <1>2, OnlyTyped, LenProperties
  <2>2. /\ Only(Append(s, e), S) = IF e \in S THEN Append(a, e) ELSE a
        /\ Only(Append(s, e), R) = IF e \in R THEN Append(b, e) ELSE b
    BY OnlyAppend
  <2>3. Append(s, e) \in Seq(T) /\ Len(Append(s, e)) = Len(s) + 1
    BY AppendProperties
  <2> HIDE DEF a, b
  <2>4. CASE e \in S
    BY <2>1, <2>2, <2>3, <2>4, AppendProperties
  <2>5. CASE e \in R
    BY <2>1, <2>2, <2>3, <2>5, AppendProperties
  <2> QED BY <2>4, <2>5
<1>3. \A s \in Seq(T) : s \in A
  <2> HIDE DEF A
  <2> QED BY <1>1, <1>2, InductiveSeqs
<1> QED BY <1>3

-----------------------------------------------------------------------------
\* What the recursive function of TotalSize(s) satisfies
Adding(k, s, n) == IF n = 0 THEN 0 ELSE k[n - 1] + s[n].size
Adds(k, s) == k = [n \in 0..Len(s) |-> Adding(k, s, n)]

\* Two such functions agree as far as their sequences do.
LEMMA AddsAgree ==
    ASSUME NEW T, NEW s \in Seq(T), NEW u \in Seq(T), NEW k, NEW j, Adds(k, s), Adds(j, u),
           NEW m \in Nat, m <= Len(s), m <= Len(u), \A n \in 1..m : s[n] = u[n]
    PROVE  \A n \in 0..m : k[n] = j[n]
<1> DEFINE A == {n \in Nat : n <= m => k[n] = j[n]}
<1>1. 0 \in A
  BY DEF Adds, Adding
<1>2. ASSUME NEW n \in Nat, n \in A
      PROVE  n + 1 \in A
  <2>1. SUFFICES ASSUME n + 1 <= m
                 PROVE  k[n + 1] = j[n + 1]
    OBVIOUS
  <2>2. k[n] = j[n] /\ s[n + 1] = u[n + 1] /\ n + 1 \in 0..Len(s) /\ n + 1 \in 0..Len(u)
    BY <1>2, <2>1
  <2>3. k[n + 1] = Adding(k, s, n + 1) /\ j[n + 1] = Adding(j, u, n + 1)
    BY <2>2 DEF Adds
  <2>4. (n + 1) - 1 = n /\ n + 1 # 0
    OBVIOUS
  <2> QED BY <2>2, <2>3, <2>4 DEF Adding
<1>3. \A n \in Nat : n \in A
  <2> HIDE DEF A
  <2> QED BY <1>1, <1>2, InductiveSet
<1> QED BY <1>3

\* There is such a function.
LEMMA AddsExist ==
    ASSUME NEW T
    PROVE  \A s \in Seq(T) : \E k : Adds(k, s)
<1> DEFINE A == {s \in Seq(T) : \E k : Adds(k, s)}
<1>1. <<>> \in A
  <2>1. Adds([n \in 0..0 |-> 0], <<>>)
    BY DEF Adds, Adding
  <2> QED BY <2>1
<1>2. ASSUME NEW s \in Seq(T), NEW e \in T, s \in A
      PROVE  Append(s, e) \in A
  <2>1. PICK k : Adds(k, s)
    BY <1>2
  <2> DEFINE u == Append(s, e)
             l == Len(s) + 1
             j == [n \in 0..l |-> IF n = l THEN Adding(k, u, l) ELSE k[n]]
  <2>2. u \in Seq(T) /\ Len(u) = l /\ \A n \in 1..Len(s) : u[n] = s[n]
    BY AppendProperties
  <2>3. \A n \in 0..l : j[n] = Adding(j, u, n)
    <3>1. TAKE n \in 0..l
    <3>2. CASE n = l
      <4>1. l - 1 \in 0..l /\ l - 1 # l /\ l # 0
        BY LenProperties
      <4>2. j[l - 1] = k[l - 1] /\ j[l] = Adding(k, u, l)
        BY <4>1
      <4> HIDE DEF j, u, l
      <4> QED BY <3>2, <4>2 DEF Adding
    <3>3. CASE n # l
      <4>1. n \in 0..Len(s) /\ j[n] = k[n]
        BY <3>3
      <4>2. k[n] = Adding(k, s, n)
        BY <2>1, <4>1 DEF Adds
      <4>3. CASE n = 0
        BY <4>1, <4>2, <4>3 DEF Adding
      <4>4. CASE n # 0
        <5>1. n \in 1..Len(s) /\ n - 1 \in 0..l /\ n - 1 # l
          BY <4>1, <4>4
        <5>2. j[n - 1] = k[n - 1] /\ u[n] = s[n]
          BY <2>2, <5>1
        <5> HIDE DEF j, u, l
        <5> QED BY <4>1, <4>2, <4>4, <5>2 DEF Adding
      <4> QED BY <4>3, <4>4
    <3> QED BY <3>2, <3>3
  <2>4. Adds(j, u)
    <3>1. j = [n \in 0..l |-> j[n]]
      OBVIOUS
    <3> HIDE DEF j, u, l
    <3> QED BY <2>2, <2>3, <3>1 DEF Adds
  <2> QED BY <2>2, <2>4
<1>3. \A s \in Seq(T) : s \in A
  <2> HIDE DEF A
  <2> QED BY <1>1, <1>2, InductiveSeqs
<1> QED BY <1>3

\* TotalSize is the last value of one.
LEMMA TotalAdds ==
    ASSUME NEW T, NEW s \in Seq(T)
    PROVE  \E k : Adds(k, s) /\ TotalSize(s) = k[Len(s)]
<1> DEFINE Is(k) == k = [n \in 0..Len(s) |-> IF n = 0 THEN 0 ELSE k[n - 1] + s[n].size]
           f == CHOOSE k : Is(k)
<1>1. TotalSize(s) = f[Len(s)]
  BY DEF TotalSize
<1>2. \E k : Is(k)
  <2>1. PICK k : Adds(k, s)
    BY AddsExist
  <2>2. Is(k)
    BY <2>1 DEF Adds, Adding
  <2> QED BY <2>2
<1>3. Is(f)
  <2> HIDE DEF Is
  <2> QED BY <1>2
<1>4. Adds(f, s)
  BY <1>3 DEF Adds, Adding
<1> HIDE DEF f
<1> QED BY <1>1, <1>4

\* Nothing has no size.
LEMMA TotalEmpty == TotalSize(<<>>) = 0
<1>1. PICK k : Adds(k, <<>>) /\ TotalSize(<<>>) = k[Len(<<>>)]
  <2>1. <<>> \in Seq({})
    BY EmptySeq
  <2> QED BY <2>1, TotalAdds
<1> QED BY <1>1 DEF Adds, Adding

\* An element adds its size.
LEMMA TotalAppend ==
    ASSUME NEW T, NEW s \in Seq(T), NEW e \in T
    PROVE  TotalSize(Append(s, e)) = TotalSize(s) + e.size
<1> DEFINE u == Append(s, e)
           l == Len(s) + 1
<1>1. u \in Seq(T) /\ Len(u) = l /\ u[l] = e /\ \A n \in 1..Len(s) : u[n] = s[n]
  BY AppendProperties
<1>2. Len(s) \in Nat /\ l - 1 = Len(s) /\ l # 0 /\ l \in 0..l
  BY LenProperties
<1> HIDE DEF u, l
<1>3. PICK k : Adds(k, s) /\ TotalSize(s) = k[Len(s)]
  BY TotalAdds
<1>4. PICK j : Adds(j, u) /\ TotalSize(u) = j[l]
  BY <1>1, TotalAdds
<1>5. j[Len(s)] = k[Len(s)]
  <2>1. \A n \in 0..Len(s) : k[n] = j[n]
    BY <1>1, <1>2, <1>3, <1>4, AddsAgree DEF l
  <2> QED BY <1>2, <2>1
<1>6. j[l] = Adding(j, u, l)
  BY <1>1, <1>2, <1>4 DEF Adds
<1>7. j[l] = j[Len(s)] + e.size
  BY <1>1, <1>2, <1>6 DEF Adding
<1> QED BY <1>3, <1>4, <1>5, <1>7 DEF u

\* Sizes that are numbers add up to one, and to no less than their number when
\* none is zero.
LEMMA TotalTyped ==
    ASSUME NEW T, \A e \in T : e.size \in Nat \ {0}
    PROVE  \A s \in Seq(T) : TotalSize(s) \in Nat /\ TotalSize(s) >= Len(s)
<1> DEFINE A == {s \in Seq(T) : TotalSize(s) \in Nat /\ TotalSize(s) >= Len(s)}
<1>1. <<>> \in A
  BY TotalEmpty, EmptySeq
<1>2. ASSUME NEW s \in Seq(T), NEW e \in T, s \in A
      PROVE  Append(s, e) \in A
  <2>1. Append(s, e) \in Seq(T) /\ Len(Append(s, e)) = Len(s) + 1 /\ Len(s) \in Nat
    BY AppendProperties, LenProperties
  <2>2. TotalSize(Append(s, e)) = TotalSize(s) + e.size
    BY TotalAppend
  <2>3. e.size \in Nat \ {0} /\ TotalSize(s) \in Nat /\ TotalSize(s) >= Len(s)
    BY <1>2
  <2> QED BY <2>1, <2>2, <2>3
<1>3. \A s \in Seq(T) : s \in A
  <2> HIDE DEF A
  <2> QED BY <1>1, <1>2, InductiveSeqs
<1> QED BY <1>3

\* The size of a concatenation is the sum of the two.
LEMMA TotalConcat ==
    ASSUME NEW T, \A e \in T : e.size \in Nat \ {0}, NEW s \in Seq(T)
    PROVE  \A u \in Seq(T) : TotalSize(s \o u) = TotalSize(s) + TotalSize(u)
<1> DEFINE A == {u \in Seq(T) : TotalSize(s \o u) = TotalSize(s) + TotalSize(u)}
<1>1. <<>> \in A
  <2>1. TotalSize(s) \in Nat
    BY TotalTyped
  <2> QED BY <2>1, TotalEmpty, EmptySeq, ConcatEmptySeq
<1>2. ASSUME NEW u \in Seq(T), NEW e \in T, u \in A
      PROVE  Append(u, e) \in A
  <2>1. Append(u, e) \in Seq(T) /\ s \o u \in Seq(T)
    BY AppendProperties, ConcatProperties
  <2>2. s \o Append(u, e) = Append(s \o u, e)
    <3>1. <<e>> \in Seq(T)
      OBVIOUS
    <3> QED BY <2>1, <3>1, AppendIsConcat, ConcatAssociative
  <2>3. TotalSize(Append(u, e)) = TotalSize(u) + e.size
    BY TotalAppend
  <2>4. TotalSize(Append(s \o u, e)) = TotalSize(s \o u) + e.size
    BY <2>1, TotalAppend
  <2>5. TotalSize(s) \in Nat /\ TotalSize(u) \in Nat /\ e.size \in Nat
    BY TotalTyped
  <2>6. TotalSize(s \o u) = TotalSize(s) + TotalSize(u)
    BY <1>2
  <2>7. TotalSize(s \o Append(u, e)) = TotalSize(s) + TotalSize(Append(u, e))
    <3> DEFINE a == TotalSize(s)
               b == TotalSize(u)
    <3>1. a \in Nat /\ b \in Nat /\ e.size \in Nat /\ TotalSize(s \o u) = a + b
      BY <2>5, <2>6
    <3>2. TotalSize(Append(u, e)) = b + e.size /\ TotalSize(s \o Append(u, e)) = (a + b) + e.size
      BY <2>2, <2>3, <2>4, <3>1
    <3> HIDE DEF a, b
    <3>3. (a + b) + e.size = a + (b + e.size)
      BY <3>1
    <3> QED BY <3>2, <3>3 DEF a
  <2> QED BY <2>1, <2>7
<1>3. \A u \in Seq(T) : u \in A
  <2> HIDE DEF A
  <2> QED BY <1>1, <1>2, InductiveSeqs
<1> QED BY <1>3

\* Filtering by R first changes nothing for a filter within R.
LEMMA OnlyWithin ==
    ASSUME NEW T, NEW R, NEW S, T \cap S \subseteq R
    PROVE  \A s \in Seq(T) : Only(Only(s, R), S) = Only(s, S)
<1> DEFINE A == {s \in Seq(T) : Only(Only(s, R), S) = Only(s, S)}
<1>1. <<>> \in A
  BY OnlyEmpty, EmptySeq
<1>2. ASSUME NEW s \in Seq(T), NEW e \in T, s \in A
      PROVE  Append(s, e) \in A
  <2>1. Append(s, e) \in Seq(T)
    BY AppendProperties
  <2> DEFINE o == Only(s, R)
  <2>2. o \in Seq(T \cap R)
    BY OnlyTyped
  <2>3. Only(o, S) = Only(s, S)
    BY <1>2
  <2>4. /\ Only(Append(s, e), R) = IF e \in R THEN Append(o, e) ELSE o
        /\ Only(Append(s, e), S) = IF e \in S THEN Append(Only(s, S), e) ELSE Only(s, S)
    BY OnlyAppend
  <2> HIDE DEF o
  <2>5. CASE e \in R
    <3>1. Only(Append(o, e), S) = IF e \in S THEN Append(Only(o, S), e) ELSE Only(o, S)
      <4> DEFINE U == T \cap R
      <4>1. e \in U /\ o \in Seq(U)
        BY <2>2, <2>5
      <4> HIDE DEF U
      <4> QED BY <4>1, OnlyAppend
    <3> QED BY <2>1, <2>3, <2>4, <2>5, <3>1
  <2>6. CASE e \notin R
    <3>1. e \notin S
      BY <2>6
    <3> QED BY <2>1, <2>3, <2>4, <2>6, <3>1
  <2> QED BY <2>5, <2>6
<1>3. \A s \in Seq(T) : s \in A
  <2> HIDE DEF A
  <2> QED BY <1>1, <1>2, InductiveSeqs
<1> QED BY <1>3

-----------------------------------------------------------------------------
(* Who is in a sequence, and whether anybody is in it twice *)

Has(s, e) == \E i \in 1..Len(s) : s[i] = e
Distinct(s) == \A i \in 1..Len(s) : \A j \in 1..Len(s) : s[i] = s[j] => i = j

\* One more
LEMMA HasAppend ==
    ASSUME NEW T, NEW s \in Seq(T), NEW e \in T
    PROVE  /\ \A x : Has(Append(s, e), x) <=> Has(s, x) \/ x = e
           /\ Distinct(Append(s, e)) <=> Distinct(s) /\ ~Has(s, e)
<1>1. PICK l \in Nat : l = Len(s)
  BY LenProperties
<1>2. PICK u : u = Append(s, e)
  OBVIOUS
<1>3. Len(u) = l + 1 /\ u[l + 1] = e /\ \A i \in 1..l : u[i] = s[i]
  BY <1>1, <1>2, AppendProperties
<1>4. \A i \in 1..l + 1 : i \in 1..l \/ i = l + 1
  OBVIOUS
<1>5. 1..l \subseteq 1..l + 1 /\ l + 1 \in 1..l + 1 /\ l + 1 \notin 1..l
  OBVIOUS
<1>6. \A x : Has(u, x) <=> Has(s, x) \/ x = e
  BY <1>1, <1>3, <1>4, <1>5 DEF Has
<1>7. Distinct(u) <=> Distinct(s) /\ ~Has(s, e)
  <2>1. ASSUME Distinct(u) PROVE Distinct(s) /\ ~Has(s, e)
    BY <1>1, <1>3, <1>5, <2>1 DEF Has, Distinct
  <2>2. ASSUME Distinct(s), ~Has(s, e) PROVE Distinct(u)
    BY <1>1, <1>3, <1>4, <2>2 DEF Has, Distinct
  <2> QED BY <2>1, <2>2
<1> QED BY <1>2, <1>6, <1>7

\* A filter keeps the members it is for, and repeats nobody.
LEMMA OnlyMembers ==
    ASSUME NEW T, NEW S
    PROVE  \A s \in Seq(T) : /\ \A x : Has(Only(s, S), x) <=> Has(s, x) /\ x \in S
                             /\ Distinct(s) => Distinct(Only(s, S))
<1> DEFINE A == {s \in Seq(T) : /\ \A x : Has(Only(s, S), x) <=> Has(s, x) /\ x \in S
                                /\ Distinct(s) => Distinct(Only(s, S))}
<1>1. <<>> \in A
  BY OnlyEmpty, EmptySeq DEF Has, Distinct
<1>2. ASSUME NEW s \in Seq(T), NEW e \in T, s \in A
      PROVE  Append(s, e) \in A
  <2>1. PICK u, a, b : u = Append(s, e) /\ a = Only(s, S) /\ b = Only(u, S)
    OBVIOUS
  <2>2. /\ u \in Seq(T) /\ a \in Seq(T \cap S)
        /\ b = IF e \in S THEN Append(a, e) ELSE a
    BY <2>1, AppendProperties, OnlyTyped, OnlyAppend
  <2>3. /\ \A x : Has(a, x) <=> Has(s, x) /\ x \in S
        /\ Distinct(s) => Distinct(a)
    BY <1>2, <2>1
  <2>4. /\ \A x : Has(u, x) <=> Has(s, x) \/ x = e
        /\ Distinct(u) <=> Distinct(s) /\ ~Has(s, e)
    BY <2>1, HasAppend
  <2>5. CASE e \in S
    <3>1. /\ \A x : Has(b, x) <=> Has(a, x) \/ x = e
          /\ Distinct(b) <=> Distinct(a) /\ ~Has(a, e)
      BY <2>2, <2>5, HasAppend
    <3>2. \A x : Has(b, x) <=> Has(u, x) /\ x \in S
      BY <2>3, <2>4, <2>5, <3>1
    <3>3. Distinct(u) => Distinct(b)
      BY <2>3, <2>4, <3>1
    <3> QED BY <2>1, <2>2, <3>2, <3>3
  <2>6. CASE e \notin S
    <3>1. \A x : Has(b, x) <=> Has(u, x) /\ x \in S
      BY <2>2, <2>3, <2>4, <2>6
    <3>2. Distinct(u) => Distinct(b)
      BY <2>2, <2>3, <2>4, <2>6
    <3> QED BY <2>1, <2>2, <3>1, <3>2
  <2> QED BY <2>5, <2>6
<1>3. \A s \in Seq(T) : s \in A
  <2> HIDE DEF A
  <2> QED BY <1>1, <1>2, InductiveSeqs
<1> QED BY <1>3

\* What stays of a sequence behind its head
LEMMA HasTail ==
    ASSUME NEW T, NEW l \in Seq(T), l # <<>>, Distinct(l)
    PROVE  /\ Tail(l) \in Seq(T) /\ Distinct(Tail(l)) /\ Head(l) \in T /\ Has(l, Head(l))
           /\ \A x : Has(Tail(l), x) <=> Has(l, x) /\ x # Head(l)
<1>1. PICK n \in Nat : n = Len(l) /\ n > 0
  BY LenProperties, EmptySeq
<1>2. PICK u : u = Tail(l)
  OBVIOUS
<1>3. u \in Seq(T) /\ Len(u) = n - 1 /\ Head(l) = l[1] /\ \A i \in 1..n - 1 : u[i] = l[i + 1]
  BY <1>1, <1>2
<1>4. Head(l) \in T /\ Has(l, Head(l))
  BY <1>1, <1>3 DEF Has
<1>5. Distinct(u)
  BY <1>1, <1>3 DEF Distinct
<1>6. ASSUME NEW x PROVE Has(u, x) <=> Has(l, x) /\ x # Head(l)
  <2>1. ASSUME Has(u, x) PROVE Has(l, x) /\ x # Head(l)
    <3>1. PICK i \in 1..n - 1 : u[i] = x
      BY <1>1, <1>3, <2>1 DEF Has
    <3>2. i + 1 \in 1..n /\ 1 \in 1..n /\ l[i + 1] = x /\ i + 1 # 1
      BY <1>1, <1>3, <3>1
    <3> QED BY <1>1, <1>3, <3>2 DEF Has, Distinct
  <2>2. ASSUME Has(l, x), x # Head(l) PROVE Has(u, x)
    <3>1. PICK i \in 1..n : l[i] = x
      BY <1>1, <2>2 DEF Has
    <3>2. i # 1
      BY <1>3, <2>2, <3>1
    <3>3. i - 1 \in 1..n - 1 /\ u[i - 1] = x
      BY <1>1, <1>3, <3>1, <3>2
    <3> QED BY <1>3, <3>3 DEF Has
  <2> QED BY <2>1, <2>2
<1> QED BY <1>2, <1>3, <1>4, <1>5, <1>6

\* The head of a filtered sequence
LEMMA OnlyHead ==
    ASSUME NEW T, NEW l \in Seq(T), l # <<>>, NEW S
    PROVE  /\ Head(l) \in S => Only(l, S) = <<Head(l)>> \o Only(Tail(l), S)
           /\ Head(l) \notin S => Only(l, S) = Only(Tail(l), S)
<1>1. /\ Head(l) \in T /\ Tail(l) \in Seq(T) /\ <<Head(l)>> \in Seq(T)
      /\ l = <<Head(l)>> \o Tail(l)
  OBVIOUS
<1>2. Only(l, S) = Only(<<Head(l)>>, S) \o Only(Tail(l), S)
  BY <1>1, OnlyConcat
<1>3. PICK h \in T : h = Head(l)
  BY <1>1
<1>4. Only(<<h>>, S) = IF h \in S THEN <<h>> ELSE <<>>
  <2>1. <<>> \in Seq(T) /\ Only(<<>>, S) = <<>>
    BY OnlyEmpty, EmptySeq
  <2>2. Only(Append(<<>>, h), S) = IF h \in S THEN Append(Only(<<>>, S), h) ELSE Only(<<>>, S)
    BY <2>1, OnlyAppend
  <2>3. Append(<<>>, h) = <<h>>
    OBVIOUS
  <2> QED BY <2>1, <2>2, <2>3
<1>5. Only(Tail(l), S) \in Seq(T \cap S)
  BY <1>1, OnlyTyped
<1>6. <<>> \o Only(Tail(l), S) = Only(Tail(l), S)
  BY <1>5
<1> QED BY <1>2, <1>3, <1>4, <1>6

=============================================================================
