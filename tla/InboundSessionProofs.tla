------------------------ MODULE InboundSessionProofs ------------------------
(***************************************************************************)
(* The books of the inbound session for any packet identifiers, messages   *)
(* and limits, SessionExact, and what is on its way to the application,    *)
(* DeliveryExact.                                                          *)
(*                                                                         *)
(* Good(s, m) says of a session object s, in a process whose manual_ack is *)
(* m, what every method of it may rely on and leaves behind: the counts    *)
(* and bytes are those of the rows and no identifier has two (Ledger), the *)
(* order of manual acknowledgement is that of the WAIT_PUBACK rows         *)
(* (OrderInv) and nothing at its head is due (HeadInv), the receive slots  *)
(* belong to stored exchanges or to acknowledgements in the batch          *)
(* (SlotInv), and a completion that waits for a delivery mark waits for a  *)
(* row in the state it will complete from (WaitInv).  HeadInv is what      *)
(* _drain_manual_qos1_acks restores; between the two the methods keep      *)
(* Core and OrderInv.                                                      *)
(*                                                                         *)
(* There is one lemma per method (...Good: from a good session to a good   *)
(* one, with an error that is never "internal"), and one per step of the   *)
(* runtime (...Inbound), which keeps InboundInv: Good, that the lane ends  *)
(* with the end of its lot (LaneInv), that a reader that has not failed    *)
(* was refused nothing (ReaderInv), and that between two lots the batch    *)
(* holds no acknowledgement, but for a PUBCOMP the rest of the lane will   *)
(* flush (BatchInv).                                                       *)
(*                                                                         *)
(* Deliveries are on their way in two places, the effects of the open lot  *)
(* and the lane of the runtime.  The second half of the module reads them  *)
(* as one queue, Onward.  RoadInv says that every stored message which the *)
(* application does not own has a delivery in it or a replay page to come, *)
(* and a QoS 2 message at most one (Road); that a replay under way has     *)
(* announced its next page (Replaying); and that in the lot that starts a  *)
(* replay no new exchange takes an identifier that is to be replayed       *)
(* (Held).  There is one lemma per method here too (...Road).              *)
(***************************************************************************)
EXTENDS InboundSession, SeqFoldsProofs, FiniteSetTheorems

-----------------------------------------------------------------------------
(* The rows.                                                               *)

\* At most one row of an identifier.
Keyed(rows) ==
    \A i \in 1..Len(rows) : \A j \in 1..Len(rows) : rows[i].mid = rows[j].mid => i = j
\* Some row of this identifier
Owns(rows, mid) == \E i \in 1..Len(rows) : rows[i].mid = mid
\* The identifiers of the WAIT_PUBACK rows
PubackMids(rows) == {r.mid : r \in {q \in Range(rows) : q.state = "WAIT_PUBACK"}}
\* Their sizes
SizesOf(rows) == [i \in DOMAIN rows |-> [size |-> SizeOf[rows[i].msg]]]

\* The identifiers of the rows
LEMMA MidsOwned ==
    ASSUME NEW rows \in Seq(Row)
    PROVE  /\ \A mid : mid \in Mids(rows) <=> Owns(rows, mid)
           /\ Mids(rows) \subseteq Mid
           /\ MidSeq(rows) \in Seq(Mid) /\ Len(MidSeq(rows)) = Len(rows)
           /\ \A i \in 1..Len(rows) : MidSeq(rows)[i] = rows[i].mid /\ rows[i] \in Row
           /\ \A r : r \in Range(rows) <=> Has(rows, r)
           /\ \A mid : mid \in PubackMids(rows) <=>
                \E i \in 1..Len(rows) : rows[i].mid = mid /\ rows[i].state = "WAIT_PUBACK"
           /\ \A mid : Has(MidSeq(rows), mid) <=> Owns(rows, mid)
           /\ Keyed(rows) <=> Distinct(MidSeq(rows))
<1>1. DOMAIN rows = 1..Len(rows) /\ Len(rows) \in Nat /\ \A i \in 1..Len(rows) : rows[i] \in Row
  OBVIOUS
<1>2. \A i \in 1..Len(rows) : rows[i].mid \in Mid
  BY <1>1 DEF Row
<1>3. MidSeq(rows) \in Seq(Mid) /\ Len(MidSeq(rows)) = Len(rows)
  BY <1>1, <1>2 DEF MidSeq
<1>4. \A i \in 1..Len(rows) : MidSeq(rows)[i] = rows[i].mid
  BY <1>1 DEF MidSeq
<1>5. /\ \A mid : mid \in Mids(rows) <=> Owns(rows, mid)
      /\ Mids(rows) \subseteq Mid
  BY <1>1, <1>2 DEF Mids, Owns
<1>6. \A r : r \in Range(rows) <=> Has(rows, r)
  BY <1>1 DEF Range, Has
<1>7. \A mid : mid \in PubackMids(rows) <=>
        \E i \in 1..Len(rows) : rows[i].mid = mid /\ rows[i].state = "WAIT_PUBACK"
  BY <1>1 DEF PubackMids, Range
<1>8. \A mid : Has(MidSeq(rows), mid) <=> Owns(rows, mid)
  BY <1>3, <1>4 DEF Has, Owns
<1>9. Keyed(rows) <=> Distinct(MidSeq(rows))
  BY <1>3, <1>4 DEF Keyed, Distinct
<1> QED BY <1>1, <1>3, <1>4, <1>5, <1>6, <1>7, <1>8, <1>9

\* The row of an identifier is the one that was stored for it.
LEMMA RowFound ==
    ASSUME NEW s, NEW rows \in Seq(Row), s.rows = rows, Keyed(rows), NEW i \in 1..Len(rows)
    PROVE  RowOf(s, rows[i].mid) = rows[i]
<1>1. \A r : r \in Range(rows) <=> Has(rows, r)
  BY MidsOwned
<1>2. rows[i] \in Range(rows)
  BY <1>1 DEF Has
<1>3. \A r \in Range(rows) : r.mid = rows[i].mid => r = rows[i]
  BY <1>1 DEF Keyed, Has
<1> QED BY <1>2, <1>3 DEF RowOf

\* A new row
LEMMA RowsAppend ==
    ASSUME NEW rows \in Seq(Row), NEW r \in Row
    PROVE  /\ Append(rows, r) \in Seq(Row) /\ Len(Append(rows, r)) = Len(rows) + 1
           /\ MidSeq(Append(rows, r)) = Append(MidSeq(rows), r.mid)
           /\ SizesOf(Append(rows, r)) = Append(SizesOf(rows), [size |-> SizeOf[r.msg]])
           /\ Sizes(Append(rows, r)) = Sizes(rows) + SizeOf[r.msg]
           /\ SizesOf(rows) \in Seq([size : Nat \ {0}])
           /\ \A mid : Owns(Append(rows, r), mid) <=> Owns(rows, mid) \/ mid = r.mid
           /\ Keyed(rows) /\ ~Owns(rows, r.mid) => Keyed(Append(rows, r))
<1>1. PICK u : u = Append(rows, r)
  OBVIOUS
<1>2. /\ u \in Seq(Row) /\ Len(u) = Len(rows) + 1 /\ Len(rows) \in Nat /\ u[Len(rows) + 1] = r
      /\ \A i \in 1..Len(rows) : u[i] = rows[i]
      /\ DOMAIN u = 1..Len(rows) + 1 /\ DOMAIN rows = 1..Len(rows)
  BY <1>1
<1>3. SizesOf(rows) \in Seq([size : Nat \ {0}]) /\ Len(SizesOf(rows)) = Len(rows)
  <2>1. \A i \in 1..Len(rows) : rows[i] \in Row
    BY <1>2
  <2>2. \A i \in 1..Len(rows) : SizeOf[rows[i].msg] \in Nat \ {0}
    BY <2>1, InboundAssumptions DEF Row
  <2>3. \A i \in 1..Len(rows) : [size |-> SizeOf[rows[i].msg]] \in [size : Nat \ {0}]
    BY <2>2
  <2> QED BY <1>2, <2>3 DEF SizesOf
<1>4. MidSeq(u) = Append(MidSeq(rows), r.mid)
  <2>1. MidSeq(rows) \in Seq(Mid) /\ Len(MidSeq(rows)) = Len(rows)
    BY MidsOwned
  <2>2. MidSeq(u) = [i \in 1..Len(rows) + 1 |-> u[i].mid]
    BY <1>2 DEF MidSeq
  <2>3. Append(MidSeq(rows), r.mid) =
          [i \in 1..Len(rows) + 1 |-> IF i = Len(rows) + 1 THEN r.mid ELSE MidSeq(rows)[i]]
    BY <2>1
  <2>4. \A i \in 1..Len(rows) : MidSeq(rows)[i] = rows[i].mid
    BY MidsOwned
  <2> QED BY <1>2, <2>2, <2>3, <2>4
<1>5. SizesOf(u) = Append(SizesOf(rows), [size |-> SizeOf[r.msg]])
  <2>2. SizesOf(u) = [i \in 1..Len(rows) + 1 |-> [size |-> SizeOf[u[i].msg]]]
    BY <1>2 DEF SizesOf
  <2>3. Append(SizesOf(rows), [size |-> SizeOf[r.msg]]) =
          [i \in 1..Len(rows) + 1 |-> IF i = Len(rows) + 1 THEN [size |-> SizeOf[r.msg]] ELSE SizesOf(rows)[i]]
    BY <1>3
  <2>4. \A i \in 1..Len(rows) : SizesOf(rows)[i] = [size |-> SizeOf[rows[i].msg]]
    BY <1>2 DEF SizesOf
  <2> QED BY <1>2, <2>2, <2>3, <2>4
<1>6. Sizes(u) = Sizes(rows) + SizeOf[r.msg]
  <2>1. SizeOf[r.msg] \in Nat \ {0}
    BY InboundAssumptions DEF Row
  <2>2. PICK e \in [size : Nat \ {0}] : e = [size |-> SizeOf[r.msg]]
    BY <2>1
  <2>3. TotalSize(Append(SizesOf(rows), e)) = TotalSize(SizesOf(rows)) + e.size
    BY <1>3, TotalAppend
  <2>4. Sizes(rows) = TotalSize(SizesOf(rows)) /\ Sizes(u) = TotalSize(SizesOf(u))
    BY DEF Sizes, SizesOf
  <2> QED BY <1>5, <2>2, <2>3, <2>4
<1>7. \A mid : Owns(u, mid) <=> Owns(rows, mid) \/ mid = r.mid
  <2>1. \A i \in 1..Len(u) : i \in 1..Len(rows) \/ i = Len(rows) + 1
    BY <1>2
  <2>2. 1..Len(rows) \subseteq 1..Len(u) /\ Len(rows) + 1 \in 1..Len(u)
    BY <1>2
  <2> QED BY <1>2, <2>1, <2>2 DEF Owns
<1>8. Keyed(rows) /\ ~Owns(rows, r.mid) => Keyed(u)
  <2>1. \A i \in 1..Len(u) : i \in 1..Len(rows) \/ i = Len(rows) + 1
    BY <1>2
  <2> QED BY <1>2, <2>1 DEF Owns, Keyed
<1> QED BY <1>1, <1>2, <1>3, <1>4, <1>5, <1>6, <1>7, <1>8

\* No rows
LEMMA RowsEmpty ==
    /\ <<>> \in Seq(Row) /\ Len(<<>>) = 0 /\ MidSeq(<<>>) = <<>> /\ Sizes(<<>>) = 0
    /\ Keyed(<<>>) /\ PubackOrder(<<>>) = <<>> /\ Mids(<<>>) = {}
<1>1. MidSeq(<<>>) = <<>>
  BY DEF MidSeq
<1>2. Sizes(<<>>) = 0
  <2>1. [i \in DOMAIN <<>> |-> [size |-> SizeOf[<<>>[i].msg]]] = <<>>
    OBVIOUS
  <2> QED BY <2>1, TotalEmpty DEF Sizes
<1>3. PubackOrder(<<>>) = <<>>
  BY <1>1, OnlyEmpty DEF PubackOrder
<1> QED BY <1>1, <1>2, <1>3 DEF Keyed, Mids

\* The bytes of rows are a number.
LEMMA SizesTyped ==
    ASSUME NEW rows \in Seq(Row)
    PROVE  Sizes(rows) \in Nat /\ Sizes(rows) >= Len(rows)
<1>1. SizesOf(rows) \in Seq([size : Nat \ {0}]) /\ Len(SizesOf(rows)) = Len(rows)
  <2>1. DOMAIN rows = 1..Len(rows) /\ Len(rows) \in Nat /\ \A i \in 1..Len(rows) : rows[i] \in Row
    OBVIOUS
  <2>2. \A i \in 1..Len(rows) : SizeOf[rows[i].msg] \in Nat \ {0}
    BY <2>1, InboundAssumptions DEF Row
  <2>3. \A i \in 1..Len(rows) : [size |-> SizeOf[rows[i].msg]] \in [size : Nat \ {0}]
    BY <2>2
  <2> QED BY <2>1, <2>3 DEF SizesOf
<1>2. \A e \in [size : Nat \ {0}] : e.size \in Nat \ {0}
  OBVIOUS
<1>3. TotalSize(SizesOf(rows)) \in Nat /\ TotalSize(SizesOf(rows)) >= Len(SizesOf(rows))
  BY <1>1, <1>2, TotalTyped
<1> QED BY <1>1, <1>3 DEF Sizes, SizesOf

\* The rows of other identifiers
Others(M) == {r \in Row : r.mid \notin M}

\* Dropping rows: what an identifier's rows leave of the others
IsDrop(rows, mid, u) ==
    /\ u \in Seq(Row)
    /\ MidSeq(u) = Only(MidSeq(rows), Mid \ {mid})
    /\ \A r : Has(u, r) <=> Has(rows, r) /\ r.mid # mid
    /\ ~Owns(rows, mid) => u = rows
    /\ Keyed(rows) =>
         \A i \in 1..Len(rows) : rows[i].mid = mid =>
             Len(u) + 1 = Len(rows) /\ Sizes(u) + SizeOf[rows[i].msg] = Sizes(rows)

\* Drop is such a step.
LEMMA RowsDrop ==
    ASSUME NEW mid
    PROVE  \A rows \in Seq(Row) : IsDrop(rows, mid, Drop(rows, {mid}))
<1>0. DEFINE Left(rows) == Only(rows, Others({mid}))
             P(rows) ==
                /\ MidSeq(Left(rows)) = Only(MidSeq(rows), Mid \ {mid})
                /\ ~Owns(rows, mid) => Left(rows) = rows
                /\ Keyed(rows) =>
                    \A i \in 1..Len(rows) : rows[i].mid = mid =>
                        Len(Left(rows)) + 1 = Len(rows) /\ Sizes(Left(rows)) + SizeOf[rows[i].msg] = Sizes(rows)
             A == {rows \in Seq(Row) : P(rows)}
<1>1. \A rows \in Seq(Row) : Left(rows) \in Seq(Row)
  <2> SUFFICES ASSUME NEW rows \in Seq(Row) PROVE Left(rows) \in Seq(Row)
    OBVIOUS
  <2>1. Left(rows) \in Seq(Row \cap Others({mid})) /\ Row \cap Others({mid}) \subseteq Row
    BY OnlyTyped
  <2> HIDE DEF Left
  <2> QED BY <2>1
<1>2. <<>> \in A
  <2>1. Left(<<>>) = <<>> /\ Only(<<>>, Mid \ {mid}) = <<>>
    BY OnlyEmpty
  <2> HIDE DEF Left
  <2> QED BY <2>1, RowsEmpty
<1>3. ASSUME NEW rows \in Seq(Row), NEW e \in Row, rows \in A
      PROVE  Append(rows, e) \in A
  <2>1. PICK u, w, v : u = Append(rows, e) /\ w = Left(rows) /\ v = Left(u)
    OBVIOUS
  <2>2. /\ w \in Seq(Row) /\ MidSeq(w) = Only(MidSeq(rows), Mid \ {mid})
        /\ ~Owns(rows, mid) => w = rows
        /\ Keyed(rows) =>
            \A i \in 1..Len(rows) : rows[i].mid = mid =>
                Len(w) + 1 = Len(rows) /\ Sizes(w) + SizeOf[rows[i].msg] = Sizes(rows)
    BY <1>1, <1>3, <2>1
  <2>3. v = IF e.mid # mid THEN Append(w, e) ELSE w
    <3>1. v = IF e \in Others({mid}) THEN Append(w, e) ELSE w
      BY <2>1, OnlyAppend
    <3> QED BY <3>1 DEF Others
  <2>4. /\ u \in Seq(Row) /\ Len(u) = Len(rows) + 1 /\ MidSeq(u) = Append(MidSeq(rows), e.mid)
        /\ Sizes(u) = Sizes(rows) + SizeOf[e.msg]
        /\ \A m : Owns(u, m) <=> Owns(rows, m) \/ m = e.mid
        /\ \A i \in 1..Len(rows) : u[i] = rows[i]
        /\ u[Len(rows) + 1] = e /\ Len(rows) \in Nat
    <3>1. /\ u \in Seq(Row) /\ Len(u) = Len(rows) + 1 /\ MidSeq(u) = Append(MidSeq(rows), e.mid)
          /\ Sizes(u) = Sizes(rows) + SizeOf[e.msg]
          /\ \A m : Owns(u, m) <=> Owns(rows, m) \/ m = e.mid
      BY <2>1, RowsAppend
    <3>2. /\ \A i \in 1..Len(rows) : u[i] = rows[i]
          /\ u[Len(rows) + 1] = e /\ Len(rows) \in Nat
      BY <2>1
    <3> QED BY <3>1, <3>2
  <2>5. /\ Append(w, e) \in Seq(Row) /\ Len(Append(w, e)) = Len(w) + 1
        /\ MidSeq(Append(w, e)) = Append(MidSeq(w), e.mid)
        /\ Sizes(Append(w, e)) = Sizes(w) + SizeOf[e.msg]
    BY <2>2, RowsAppend
  <2>6. e.mid \in Mid /\ MidSeq(rows) \in Seq(Mid)
    BY MidsOwned DEF Row
  <2>7. MidSeq(v) = Only(MidSeq(u), Mid \ {mid})
    <3>1. Only(MidSeq(u), Mid \ {mid}) =
            IF e.mid \in Mid \ {mid} THEN Append(Only(MidSeq(rows), Mid \ {mid}), e.mid)
            ELSE Only(MidSeq(rows), Mid \ {mid})
      <4>1. PICK k \in Seq(Mid), x \in Mid : k = MidSeq(rows) /\ x = e.mid
        BY <2>6
      <4>2. Only(Append(k, x), Mid \ {mid}) =
              IF x \in Mid \ {mid} THEN Append(Only(k, Mid \ {mid}), x) ELSE Only(k, Mid \ {mid})
        BY OnlyAppend
      <4> QED BY <2>4, <4>1, <4>2
    <3>2. CASE e.mid = mid
      BY <2>2, <2>3, <3>1, <3>2
    <3>3. CASE e.mid # mid
      <4>1. v = Append(w, e) /\ Only(MidSeq(u), Mid \ {mid}) = Append(Only(MidSeq(rows), Mid \ {mid}), e.mid)
        BY <2>3, <2>6, <3>1, <3>3
      <4> QED BY <2>2, <2>5, <4>1
    <3> QED BY <3>2, <3>3
  <2>8. ~Owns(u, mid) => v = u
    BY <2>1, <2>2, <2>3, <2>4
  <2>9. ASSUME Keyed(u), NEW i \in 1..Len(u), u[i].mid = mid
        PROVE  Len(v) + 1 = Len(u) /\ Sizes(v) + SizeOf[u[i].msg] = Sizes(u)
    <3>1. Keyed(rows)
      <4>1. 1..Len(rows) \subseteq 1..Len(u)
        BY <2>4
      <4> QED BY <2>4, <2>9, <4>1 DEF Keyed
    <3>2. Len(w) \in Nat /\ Sizes(w) \in Nat /\ Sizes(rows) \in Nat
      BY <2>2, SizesTyped
    <3>3. SizeOf[e.msg] \in Nat /\ SizeOf[u[i].msg] \in Nat
      <4>1. e \in Row /\ u[i] \in Row
        BY <2>4, <2>9
      <4> QED BY <4>1, InboundAssumptions DEF Row
    <3>4. CASE i = Len(rows) + 1
      <4>1. ~Owns(rows, mid)
        <5> SUFFICES ASSUME NEW k \in 1..Len(rows), rows[k].mid = mid PROVE FALSE
          BY DEF Owns
        <5>1. k \in 1..Len(u) /\ u[k].mid = u[i].mid /\ k # i
          BY <2>4, <2>9, <3>4
        <5> QED BY <2>9, <5>1 DEF Keyed
      <4>2. v = rows
        BY <2>2, <2>3, <2>4, <2>9, <3>4, <4>1
      <4> QED BY <2>4, <3>2, <3>3, <3>4, <4>2
    <3>5. CASE i # Len(rows) + 1
      <4>1. i \in 1..Len(rows) /\ rows[i].mid = mid /\ rows[i] = u[i]
        BY <2>4, <2>9, <3>5
      <4>2. e.mid # mid
        <5>1. Len(rows) + 1 \in 1..Len(u)
          BY <2>4
        <5> QED BY <2>4, <2>9, <3>5, <5>1 DEF Keyed
      <4>3. Len(w) + 1 = Len(rows) /\ Sizes(w) + SizeOf[rows[i].msg] = Sizes(rows)
        BY <2>2, <3>1, <4>1
      <4>4. Len(v) = Len(w) + 1 /\ Sizes(v) = Sizes(w) + SizeOf[e.msg]
        BY <2>3, <2>5, <4>2
      <4>5. PICK x, y, z, k \in Nat : x = Sizes(w) /\ y = SizeOf[e.msg] /\ z = SizeOf[rows[i].msg] /\ k = Sizes(rows)
        BY <3>2, <3>3, <4>1
      <4>6. Sizes(v) = x + y /\ x + z = k /\ Sizes(u) = k + y /\ SizeOf[u[i].msg] = z
        BY <2>4, <4>1, <4>3, <4>4, <4>5
      <4>7. Len(v) + 1 = Len(u)
        BY <2>4, <3>2, <4>3, <4>4
      <4>8. (x + y) + z = k + y
        BY <4>5, <4>6, SMTT(30)
      <4> QED BY <4>6, <4>7, <4>8
    <3> QED BY <3>4, <3>5
  <2>10. P(u)
    <3> HIDE DEF Left
    <3> QED BY <2>1, <2>7, <2>8, <2>9
  <2> HIDE DEF P, Left
  <2> QED BY <2>1, <2>4, <2>10
<1>4. \A rows \in Seq(Row) : rows \in A
  <2> HIDE DEF A
  <2> QED BY <1>2, <1>3, InductiveSeqs
<1>5. \A rows : Drop(rows, {mid}) = Left(rows)
  BY DEF Drop, Others
<1>6. \A rows \in Seq(Row) : \A r : Has(Left(rows), r) <=> Has(rows, r) /\ r.mid # mid
  <2> SUFFICES ASSUME NEW rows \in Seq(Row), NEW r
               PROVE  Has(Left(rows), r) <=> Has(rows, r) /\ r.mid # mid
    OBVIOUS
  <2>1. Has(Left(rows), r) <=> Has(rows, r) /\ r \in Others({mid})
    BY OnlyMembers
  <2>2. Has(rows, r) => r \in Row
    BY DEF Has
  <2> HIDE DEF Left
  <2> QED BY <2>1, <2>2 DEF Others
<1>7. ASSUME NEW rows \in Seq(Row) PROVE IsDrop(rows, mid, Left(rows))
  <2>1. P(rows)
    BY <1>4
  <2> HIDE DEF Left
  <2> QED BY <1>1, <1>6, <2>1 DEF IsDrop
<1> HIDE DEF Left
<1> QED BY <1>5, <1>7

\* What is left is still keyed.
LEMMA DropKeyed ==
    ASSUME NEW rows \in Seq(Row), NEW mid, Keyed(rows)
    PROVE  /\ Keyed(Drop(rows, {mid}))
           /\ \A m : Owns(Drop(rows, {mid}), m) <=> Owns(rows, m) /\ m # mid
           /\ \A m : m \in PubackMids(Drop(rows, {mid})) <=> m \in PubackMids(rows) /\ m # mid
<1>1. PICK u : u = Drop(rows, {mid})
  OBVIOUS
<1>2. u \in Seq(Row) /\ MidSeq(u) = Only(MidSeq(rows), Mid \ {mid})
      /\ \A r : Has(u, r) <=> Has(rows, r) /\ r.mid # mid
  BY <1>1, RowsDrop DEF IsDrop
<1>3. Distinct(MidSeq(rows)) /\ MidSeq(rows) \in Seq(Mid)
  BY MidsOwned
<1>4. Distinct(MidSeq(u))
  BY <1>2, <1>3, OnlyMembers
<1>5. Keyed(u)
  BY <1>2, <1>4, MidsOwned
<1>6. \A m : Owns(u, m) <=> Owns(rows, m) /\ m # mid
  <2>1. \A m : Owns(u, m) <=> \E r : Has(u, r) /\ r.mid = m
    BY DEF Owns, Has
  <2>2. \A m : Owns(rows, m) <=> \E r : Has(rows, r) /\ r.mid = m
    BY DEF Owns, Has
  <2> QED BY <1>2, <2>1, <2>2
<1>7. \A m : m \in PubackMids(u) <=> m \in PubackMids(rows) /\ m # mid
  <2>1. \A m : m \in PubackMids(u) <=> \E r : Has(u, r) /\ r.mid = m /\ r.state = "WAIT_PUBACK"
    BY <1>2, MidsOwned DEF Has
  <2>2. \A m : m \in PubackMids(rows) <=> \E r : Has(rows, r) /\ r.mid = m /\ r.state = "WAIT_PUBACK"
    BY MidsOwned DEF Has
  <2> QED BY <1>2, <2>1, <2>2
<1> QED BY <1>1, <1>5, <1>6, <1>7

\* Two sets that agree on the elements of a sequence filter it alike.
LEMMA OnlySame ==
    ASSUME NEW T, NEW k \in Seq(T), NEW S, NEW R, \A x : Has(k, x) => (x \in S <=> x \in R)
    PROVE  Only(k, S) = Only(k, R)
<1>1. PICK V : V = {x \in T : Has(k, x)}
  OBVIOUS
<1>2. k \in Seq(V)
  <2>1. \A i \in 1..Len(k) : k[i] \in V
    BY <1>1 DEF Has
  <2> QED BY <2>1
<1>3. V \cap S \subseteq R /\ V \cap R \subseteq S
  BY <1>1
<1>4. Only(Only(k, R), S) = Only(k, S)
  BY <1>2, <1>3, OnlyWithin
<1>5. Only(k, R) \in Seq(V \cap R)
  BY <1>2, OnlyTyped
<1>6. Only(k, R) \in Seq(S)
  <2>1. PICK u \in Seq(V \cap R) : u = Only(k, R)
    BY <1>5
  <2>2. u \in Seq(S)
    BY <1>3
  <2> QED BY <2>1, <2>2
<1> QED BY <1>4, <1>6, OnlyAll

\* The order of acknowledgement, as a filter
LEMMA OrderIs ==
    ASSUME NEW rows \in Seq(Row)
    PROVE  /\ PubackOrder(rows) = Only(MidSeq(rows), PubackMids(rows))
           /\ PubackOrder(rows) \in Seq(PubackMids(rows)) /\ PubackOrder(rows) \in Seq(Mid)
           /\ \A m : Has(PubackOrder(rows), m) <=> m \in PubackMids(rows)
           /\ \A m : m \in Range(PubackOrder(rows)) <=> m \in PubackMids(rows)
           /\ Keyed(rows) => Distinct(PubackOrder(rows))
<1>1. PubackOrder(rows) = Only(MidSeq(rows), PubackMids(rows))
  BY DEF PubackOrder, PubackMids
<1>2. PICK k \in Seq(Mid) : k = MidSeq(rows)
  BY MidsOwned
<1>3. PICK o : o = PubackOrder(rows) /\ o = Only(k, PubackMids(rows))
  BY <1>1, <1>2
<1>4. o \in Seq(Mid \cap PubackMids(rows))
  BY <1>3, OnlyTyped
<1>5. o \in Seq(PubackMids(rows)) /\ o \in Seq(Mid)
  BY <1>4
<1>6. \A m : Has(o, m) <=> Has(k, m) /\ m \in PubackMids(rows)
  BY <1>3, OnlyMembers
<1>7. \A m \in PubackMids(rows) : Has(k, m)
  BY <1>2, MidsOwned DEF Owns
<1>8. Keyed(rows) => Distinct(o)
  BY <1>2, <1>3, OnlyMembers, MidsOwned
<1>9. \A m : m \in Range(o) <=> Has(o, m)
  BY <1>5 DEF Range, Has
<1> QED BY <1>1, <1>3, <1>5, <1>6, <1>7, <1>8, <1>9

\* A new row goes to the end of it, if it waits for a PUBACK.
LEMMA OrderAppend ==
    ASSUME NEW rows \in Seq(Row), NEW r \in Row, ~Owns(rows, r.mid)
    PROVE  PubackOrder(Append(rows, r)) =
             IF r.state = "WAIT_PUBACK" THEN Append(PubackOrder(rows), r.mid) ELSE PubackOrder(rows)
<1>1. PICK u : u = Append(rows, r)
  OBVIOUS
<1>2. /\ u \in Seq(Row) /\ Len(u) = Len(rows) + 1 /\ MidSeq(u) = Append(MidSeq(rows), r.mid)
      /\ \A i \in 1..Len(rows) : u[i] = rows[i]
      /\ u[Len(rows) + 1] = r /\ Len(rows) \in Nat
  <2>1. u \in Seq(Row) /\ Len(u) = Len(rows) + 1 /\ MidSeq(u) = Append(MidSeq(rows), r.mid)
    BY <1>1, RowsAppend
  <2>2. (\A i \in 1..Len(rows) : u[i] = rows[i]) /\ u[Len(rows) + 1] = r /\ Len(rows) \in Nat
    BY <1>1
  <2> QED BY <2>1, <2>2
<1>a. PICK k \in Seq(Mid), x \in Mid : k = MidSeq(rows) /\ x = r.mid
  BY MidsOwned DEF Row
<1>b. PICK P, Q : P = PubackMids(rows) /\ Q = PubackMids(u)
  OBVIOUS
<1>3. k = MidSeq(rows) /\ x = r.mid /\ P = PubackMids(rows) /\ Q = PubackMids(u)
  BY <1>a, <1>b
<1>4. \A m : m \in Q <=> m \in P \/ (m = x /\ r.state = "WAIT_PUBACK")
  <2>1. \A m : m \in Q <=> \E i \in 1..Len(u) : u[i].mid = m /\ u[i].state = "WAIT_PUBACK"
    BY <1>2, <1>3, MidsOwned
  <2>2. \A m : m \in P <=> \E i \in 1..Len(rows) : rows[i].mid = m /\ rows[i].state = "WAIT_PUBACK"
    BY <1>3, MidsOwned
  <2>3. \A i : i \in 1..Len(u) <=> i \in 1..Len(rows) \/ i = Len(rows) + 1
    BY <1>2
  <2>4. ASSUME NEW m, m \in Q PROVE m \in P \/ (m = x /\ r.state = "WAIT_PUBACK")
    <3>1. PICK i \in 1..Len(u) : u[i].mid = m /\ u[i].state = "WAIT_PUBACK"
      BY <2>1, <2>4
    <3>2. CASE i \in 1..Len(rows)
      BY <1>2, <2>2, <3>1, <3>2
    <3>3. CASE i = Len(rows) + 1
      BY <1>2, <1>3, <3>1, <3>3
    <3> QED BY <2>3, <3>2, <3>3
  <2>5. ASSUME NEW m, m \in P PROVE m \in Q
    <3>1. PICK i \in 1..Len(rows) : rows[i].mid = m /\ rows[i].state = "WAIT_PUBACK"
      BY <2>2, <2>5
    <3>2. i \in 1..Len(u) /\ u[i] = rows[i]
      BY <1>2, <2>3, <3>1
    <3> QED BY <2>1, <3>1, <3>2
  <2>6. r.state = "WAIT_PUBACK" => x \in Q
    <3>1. Len(rows) + 1 \in 1..Len(u) /\ u[Len(rows) + 1] = r
      BY <1>2, <2>3
    <3> QED BY <1>3, <2>1, <3>1
  <2> QED BY <2>4, <2>5, <2>6
<1>5. ~Has(k, x) /\ x \notin P
  <2>1. ~Has(k, x)
    BY <1>3, MidsOwned
  <2>2. x \notin P
    BY <1>3, MidsOwned DEF Owns
  <2> QED BY <2>1, <2>2
<1>6. Only(k, Q) = Only(k, P)
  BY <1>4, <1>5, OnlySame
<1>7. Only(Append(k, x), Q) = IF x \in Q THEN Append(Only(k, Q), x) ELSE Only(k, Q)
  BY OnlyAppend
<1>8. PubackOrder(u) = Only(Append(k, x), Q) /\ PubackOrder(rows) = Only(k, P)
  BY <1>2, <1>3, OrderIs
<1>9. x \in Q <=> r.state = "WAIT_PUBACK"
  BY <1>4, <1>5
<1> QED BY <1>1, <1>3, <1>6, <1>7, <1>8, <1>9

\* A dropped row leaves it.
LEMMA OrderDrop ==
    ASSUME NEW rows \in Seq(Row), Keyed(rows), NEW mid
    PROVE  /\ mid \notin PubackMids(rows) => PubackOrder(Drop(rows, {mid})) = PubackOrder(rows)
           /\ PubackOrder(rows) # <<>> /\ Head(PubackOrder(rows)) = mid =>
                PubackOrder(Drop(rows, {mid})) = Tail(PubackOrder(rows))
<1>1. PICK u \in Seq(Row) : u = Drop(rows, {mid}) /\ MidSeq(u) = Only(MidSeq(rows), Mid \ {mid})
  BY RowsDrop DEF IsDrop
<1>a. PICK k \in Seq(Mid) : k = MidSeq(rows)
  BY MidsOwned
<1>b. PICK P, Q, o : P = PubackMids(rows) /\ Q = PubackMids(u) /\ o = PubackOrder(rows)
  OBVIOUS
<1>2. k = MidSeq(rows) /\ P = PubackMids(rows) /\ Q = PubackMids(u) /\ o = PubackOrder(rows)
  BY <1>a, <1>b
<1>3. Q = P \ {mid}
  BY <1>1, <1>2, DropKeyed
<1>4. PubackOrder(u) = Only(Only(k, Mid \ {mid}), Q)
  BY <1>1, <1>2, OrderIs
<1>5. Only(Only(k, Mid \ {mid}), Q) = Only(k, Q)
  <2>1. Mid \cap Q \subseteq Mid \ {mid}
    BY <1>3
  <2> QED BY <2>1, OnlyWithin
<1>6. o = Only(k, P) /\ o \in Seq(P) /\ Distinct(o)
  BY <1>2, OrderIs
<1>7. Only(o, Q) = Only(k, Q)
  <2>1. Mid \cap Q \subseteq P
    BY <1>3
  <2> QED BY <1>6, <2>1, OnlyWithin
<1>8. ASSUME mid \notin P PROVE PubackOrder(u) = o
  <2>1. Q = P
    BY <1>3, <1>8
  <2> QED BY <1>4, <1>5, <1>6, <2>1
<1>9. ASSUME o # <<>>, Head(o) = mid PROVE PubackOrder(u) = Tail(o)
  <2>1. /\ Tail(o) \in Seq(P)
        /\ \A x : Has(Tail(o), x) <=> Has(o, x) /\ x # mid
    BY <1>6, <1>9, HasTail
  <2>2. Only(o, Q) = Only(Tail(o), Q)
    BY <1>3, <1>6, <1>9, OnlyHead
  <2>3. PICK t \in Seq(P) : t = Tail(o)
    BY <2>1
  <2>4. t \in Seq(Q)
    <3>1. \A i \in 1..Len(t) : t[i] \in Q
      <4> SUFFICES ASSUME NEW i \in 1..Len(t) PROVE t[i] \in Q
        OBVIOUS
      <4>1. Has(t, t[i]) /\ t[i] \in P
        BY <2>3 DEF Has
      <4> QED BY <1>3, <2>1, <2>3, <4>1
    <3> QED BY <3>1
  <2> QED BY <1>4, <1>5, <1>7, <2>2, <2>3, <2>4, OnlyAll
<1> QED BY <1>1, <1>2, <1>8, <1>9

\* The table after UPDATE of one row
Changed(rows, mid, row) == [i \in DOMAIN rows |-> IF rows[i].mid = mid THEN row ELSE rows[i]]

\* A changed row keeps its place, its identifier and its bytes; the order, when it
\* waits for a PUBACK after the change as before.
LEMMA RowsChanged ==
    ASSUME NEW rows \in Seq(Row), NEW row \in Row,
           \A i \in 1..Len(rows) : rows[i].mid = row.mid =>
               /\ rows[i].msg = row.msg
               /\ rows[i].state = "WAIT_PUBACK" <=> row.state = "WAIT_PUBACK"
    PROVE  LET u == Changed(rows, row.mid, row) IN
           /\ u \in Seq(Row) /\ Len(u) = Len(rows)
           /\ \A i \in 1..Len(rows) : u[i] = IF rows[i].mid = row.mid THEN row ELSE rows[i]
           /\ MidSeq(u) = MidSeq(rows) /\ Sizes(u) = Sizes(rows) /\ PubackOrder(u) = PubackOrder(rows)
           /\ \A m : Owns(u, m) <=> Owns(rows, m)
           /\ Mids(u) = Mids(rows) /\ PubackMids(u) = PubackMids(rows)
           /\ Keyed(rows) => Keyed(u)
<1>1. PICK u : u = Changed(rows, row.mid, row)
  OBVIOUS
<1>2. DOMAIN rows = 1..Len(rows) /\ Len(rows) \in Nat /\ \A i \in 1..Len(rows) : rows[i] \in Row
  OBVIOUS
<1>3. u = [i \in 1..Len(rows) |-> IF rows[i].mid = row.mid THEN row ELSE rows[i]]
  BY <1>1, <1>2 DEF Changed
<1>4. u \in Seq(Row) /\ Len(u) = Len(rows) /\ DOMAIN u = 1..Len(rows)
  BY <1>2, <1>3
<1>5. \A i \in 1..Len(rows) : u[i] = IF rows[i].mid = row.mid THEN row ELSE rows[i]
  BY <1>3
<1>6. \A i \in 1..Len(rows) : /\ u[i].mid = rows[i].mid /\ u[i].msg = rows[i].msg
                              /\ u[i].state = "WAIT_PUBACK" <=> rows[i].state = "WAIT_PUBACK"
  BY <1>5
<1>7. MidSeq(u) = MidSeq(rows)
  BY <1>2, <1>4, <1>6 DEF MidSeq
<1>8. Sizes(u) = Sizes(rows)
  <2>1. [i \in DOMAIN u |-> [size |-> SizeOf[u[i].msg]]] = [i \in DOMAIN rows |-> [size |-> SizeOf[rows[i].msg]]]
    BY <1>2, <1>4, <1>6
  <2> QED BY <2>1 DEF Sizes
<1>9. \A m : Owns(u, m) <=> Owns(rows, m)
  BY <1>4, <1>6 DEF Owns
<1>10. Mids(u) = Mids(rows)
  BY <1>4, <1>9, MidsOwned
<1>11. PubackMids(u) = PubackMids(rows)
  <2>1. \A m : m \in PubackMids(u) <=> m \in PubackMids(rows)
    BY <1>4, <1>6, MidsOwned, SMTT(30)
  <2>2. \A A, B : (\A m : m \in A <=> m \in B) => A = B
    OBVIOUS
  <2> QED BY <2>1, <2>2
<1>12. PubackOrder(u) = PubackOrder(rows)
  BY <1>4, <1>7, <1>11, OrderIs
<1>13. Keyed(rows) => Keyed(u)
  BY <1>4, <1>7, MidsOwned
<1> QED BY <1>1, <1>4, <1>5, <1>7, <1>8, <1>9, <1>10, <1>11, <1>12, <1>13

-----------------------------------------------------------------------------
(* The session, and what makes it a good one.                              *)

\* What an attribute may be
Reasons == {"none", "0x82", "0x82*", "0x93", "0x97", "internal"}
Packets == [type : {"PUBREC", "PUBACK", "PUBCOMP"}, mid : Mid]
Marks == [kind : {"MESSAGE"}, mid : Mid, msg : Message, token : Nat, mark : {TRUE}]
Messages ==
    Marks \cup [kind : {"MESSAGE"}, mid : Mid \cup {0}, msg : Message, token : Nat, mark : {FALSE}]
Effects == Messages \cup {ContinueReplay, LotEnd}
Replays == [mids : Seq(Mid), remaining : Int]
Sessions ==
    [rows : Seq(Row), stored : Nat, bytes : Nat, recovered : SUBSET Mid, current : SUBSET Mid,
     autoAcks : SUBSET Mid, pubcomps : SUBSET Mid, pubcompSlots : Nat, handoff : BOOLEAN,
     waiting : [Mid -> RowState \cup {"none"}], acks : SUBSET Mid, order : Seq(Mid),
     tokens : [Mid -> Nat], replay : Replays, refused : Reasons,
     sends : Seq(Packets), emits : Seq(Effects)]

\* The count that lets the store be skipped, the bytes and the keys
Ledger(s) ==
    s.stored = Len(s.rows) /\ s.bytes = Sizes(s.rows) /\ Keyed(s.rows)
\* Manual acknowledgements go out in the order of arrival
OrderInv(s, m) == m =>
    /\ s.order = PubackOrder(s.rows)
    /\ s.acks \subseteq PubackMids(s.rows)
\* and none that is due is left at the head.
HeadInv(s, m) == m /\ s.order # <<>> => Head(s.order) \notin s.acks \cap s.current
\* A slot belongs to a stored exchange of this connection or to the batch.
SlotInv(s, m) ==
    /\ Inflight(s) <= ReceiveMaximum
    /\ s.current \subseteq Mids(s.rows)
    /\ (s.autoAcks \cup s.pubcomps) \cap Mids(s.rows) = {}
    /\ s.autoAcks \cap s.pubcomps = {}
    /\ s.pubcompSlots <= Cardinality(s.pubcomps)
    /\ s.handoff => s.autoAcks \cup s.pubcomps # {}
    /\ m => s.autoAcks = {}
\* A completion waits for the delivery mark of a row that has none.  Without
\* manual acknowledgement every current QoS 1 row is one that waits.
WaitInv(s, m) ==
    /\ \A mid \in Mid : s.waiting[mid] # "none" =>
        /\ ~m
        /\ \E row \in Row : /\ Has(s.rows, row) /\ row.mid = mid
                             /\ row.state = s.waiting[mid] /\ ~row.delivered
    /\ ~m => \A row \in Row :
            Has(s.rows, row) /\ row.state = "WAIT_PUBACK" /\ row.mid \in s.current =>
                s.waiting[row.mid] # "none"
\* A session whose books are right; and with nothing left to acknowledge.
Core(s, m) == s \in Sessions /\ Ledger(s) /\ SlotInv(s, m) /\ WaitInv(s, m)
Good(s, m) == Core(s, m) /\ OrderInv(s, m) /\ HeadInv(s, m)

\* What Good speaks of
SameBooks(s, t) ==
    /\ t.rows = s.rows /\ t.stored = s.stored /\ t.bytes = s.bytes /\ t.current = s.current
    /\ t.autoAcks = s.autoAcks /\ t.pubcomps = s.pubcomps /\ t.pubcompSlots = s.pubcompSlots
    /\ t.handoff = s.handoff /\ t.waiting = s.waiting /\ t.acks = s.acks /\ t.order = s.order

\* Nothing else matters to it.
LEMMA SameGood ==
    ASSUME NEW s, NEW t \in Sessions, NEW m, Good(s, m), SameBooks(s, t)
    PROVE  Good(t, m)
<1>1. Ledger(t)
  BY DEF Good, Core, SameBooks, Ledger
<1>2. OrderInv(t, m) /\ HeadInv(t, m)
  BY DEF Good, Core, SameBooks, OrderInv, HeadInv
<1>3. SlotInv(t, m)
  BY DEF Good, Core, SameBooks, SlotInv, Inflight
<1>4. WaitInv(t, m)
  BY DEF Good, Core, SameBooks, WaitInv
<1> QED BY <1>1, <1>2, <1>3, <1>4 DEF Good, Core

\* What a session is made of
LEMMA SessionTyped ==
    ASSUME NEW s \in Sessions
    PROVE  /\ s.rows \in Seq(Row) /\ s.stored \in Nat /\ s.bytes \in Nat /\ s.recovered \subseteq Mid
           /\ s.current \subseteq Mid /\ s.autoAcks \subseteq Mid /\ s.pubcomps \subseteq Mid
           /\ s.pubcompSlots \in Nat /\ s.handoff \in BOOLEAN
           /\ s.waiting \in [Mid -> RowState \cup {"none"}] /\ s.acks \subseteq Mid /\ s.order \in Seq(Mid)
           /\ s.tokens \in [Mid -> Nat] /\ s.replay \in Replays /\ s.refused \in Reasons
           /\ s.sends \in Seq(Packets) /\ s.emits \in Seq(Effects)
  BY DEF Sessions

\* The rest of the runtime that an identity must differ from
Around == IsFiniteSet(handles) /\ lane \in Seq(Effects)

\* The image of a finite set
LEMMA ImageFinite ==
    ASSUME NEW S, IsFiniteSet(S), NEW f
    PROVE  IsFiniteSet({f[x] : x \in S})
<1>1. PICK g, T : g = [x \in S |-> f[x]] /\ T = {f[x] : x \in S}
  OBVIOUS
<1>2. g \in Surjection(S, T)
  BY <1>1 DEF Surjection
<1> QED BY <1>1, <1>2, FS_Surjection

\* object() is an identity that nothing alive has.
LEMMA FreshTokenIs ==
    ASSUME NEW s \in Sessions, Around
    PROVE  /\ FreshToken(s) \in Nat \ {0}
           /\ FreshToken(s) \notin TokensAlive(s)
<1>1. IsFiniteSet(TokensAlive(s))
  <2>1. IsFiniteSet({s.tokens[mid] : mid \in Mid})
    <3>1. DOMAIN s.tokens = Mid
      BY SessionTyped
    <3> QED BY <3>1, InboundAssumptions, ImageFinite
  <2>2. IsFiniteSet({h.token : h \in handles})
    <3>1. IsFiniteSet(handles) /\ DOMAIN [h \in handles |-> h.token] = handles
      BY DEF Around
    <3>2. IsFiniteSet({[h \in handles |-> h.token][x] : x \in handles})
      BY <3>1, ImageFinite
    <3>3. {[h \in handles |-> h.token][x] : x \in handles} = {h.token : h \in handles}
      OBVIOUS
    <3> QED BY <3>2, <3>3
  <2>3. ASSUME NEW q \in Seq(Effects) PROVE IsFiniteSet({q[i].token : i \in DOMAIN q})
    <3>1. PICK g : g = [i \in 1..Len(q) |-> q[i].token]
      OBVIOUS
    <3>2. IsFiniteSet(1..Len(q)) /\ DOMAIN g = 1..Len(q)
      BY <3>1, FS_Interval
    <3>3. IsFiniteSet({g[x] : x \in 1..Len(q)})
      BY <3>2, ImageFinite
    <3>4. {g[x] : x \in 1..Len(q)} = {q[i].token : i \in DOMAIN q}
      BY <3>1
    <3> QED BY <3>3, <3>4
  <2>4. IsFiniteSet({lane[i].token : i \in DOMAIN lane}) /\ IsFiniteSet({s.emits[i].token : i \in DOMAIN s.emits})
    BY <2>3, SessionTyped DEF Around
  <2> QED BY <2>1, <2>2, <2>4, FS_Union DEF TokensAlive
<1>a. PICK n \in Nat : n = Cardinality(TokensAlive(s))
  BY <1>1, FS_CardinalityType
<1>b. PICK A : A = TokensAlive(s)
  OBVIOUS
<1>2. n = Cardinality(TokensAlive(s)) /\ A = TokensAlive(s)
  BY <1>a, <1>b
<1>3. PICK B : B = (1..n + 1) \ A
  OBVIOUS
<1>4. B # {}
  <2> SUFFICES ASSUME B = {} PROVE FALSE
    OBVIOUS
  <2>1. 1..n + 1 \subseteq A
    BY <1>3
  <2>2. IsFiniteSet(A) /\ Cardinality(A) = n
    BY <1>1, <1>2
  <2>3. Cardinality(1..n + 1) <= Cardinality(A)
    BY <2>1, <2>2, FS_Subset
  <2>4. Cardinality(1..n + 1) = n + 1
    BY FS_Interval
  <2> QED BY <2>2, <2>3, <2>4
<1>5. \E x \in B : \A y \in B : x <= y
  <2>1. B \in SUBSET Nat
    BY <1>3
  <2> QED BY <1>4, <2>1, LeastExists
<1>6. FreshToken(s) = Min(B)
  BY <1>2, <1>3 DEF FreshToken
<1>7. Min(B) \in B
  BY <1>5 DEF Min
<1> QED BY <1>2, <1>3, <1>6, <1>7

-----------------------------------------------------------------------------
(* Answers, deliveries and slots.                                          *)

\* What the application will hear, and the outcome
SameTalk(s, t) ==
    /\ t.tokens = s.tokens /\ t.replay = s.replay /\ t.recovered = s.recovered
    /\ t.emits = s.emits

\* The slots are a number.
LEMMA InflightTyped ==
    ASSUME NEW s \in Sessions
    PROVE  /\ IsFiniteSet(s.current) /\ Cardinality(s.current) \in Nat
           /\ IsFiniteSet(s.autoAcks) /\ Cardinality(s.autoAcks) \in Nat
           /\ IsFiniteSet(s.pubcomps) /\ Cardinality(s.pubcomps) \in Nat
           /\ Inflight(s) \in Nat
<1>1. ASSUME NEW S \in SUBSET Mid PROVE IsFiniteSet(S) /\ Cardinality(S) \in Nat
  BY InboundAssumptions, FS_Subset, FS_CardinalityType
<1>2. s.current \in SUBSET Mid /\ s.autoAcks \in SUBSET Mid /\ s.pubcomps \in SUBSET Mid /\ s.pubcompSlots \in Nat
  BY SessionTyped
<1>3. /\ IsFiniteSet(s.current) /\ Cardinality(s.current) \in Nat
      /\ IsFiniteSet(s.autoAcks) /\ Cardinality(s.autoAcks) \in Nat
      /\ IsFiniteSet(s.pubcomps) /\ Cardinality(s.pubcomps) \in Nat
  BY <1>1, <1>2
<1> QED BY <1>2, <1>3 DEF Inflight

\* An error changes nothing else.
LEMMA RefuseIs ==
    ASSUME NEW s \in Sessions, NEW why \in Reasons
    PROVE  /\ Refuse(s, why) \in Sessions /\ SameBooks(s, Refuse(s, why)) /\ SameTalk(s, Refuse(s, why))
           /\ Refuse(s, why).refused = why /\ Refuse(s, why).sends = s.sends
  BY DEF Refuse, Sessions, SameBooks, SameTalk

\* Nor does a packet in the batch.
LEMMA SendIs ==
    ASSUME NEW s \in Sessions, NEW type \in {"PUBREC", "PUBACK", "PUBCOMP"}, NEW mid \in Mid
    PROVE  /\ Send(s, type, mid) \in Sessions /\ SameBooks(s, Send(s, type, mid))
           /\ SameTalk(s, Send(s, type, mid)) /\ Send(s, type, mid).refused = s.refused
<1>1. PICK p \in Packets : p = [type |-> type, mid |-> mid]
  BY DEF Packets
<1>2. PICK q : q = Append(s.sends, p)
  OBVIOUS
<1>3. q \in Seq(Packets)
  BY <1>2, SessionTyped
<1>4. Send(s, type, mid) = [s EXCEPT !.sends = q]
  BY <1>1, <1>2 DEF Send
<1> QED BY <1>3, <1>4 DEF Sessions, SameBooks, SameTalk

\* A delivery of the row under its identity, which is given now if it has none.
IsEmit(s, row, t) ==
    /\ t \in Sessions /\ SameBooks(s, t) /\ t.refused = s.refused
    /\ t.replay = s.replay /\ t.recovered = s.recovered /\ t.sends = s.sends
    /\ \A mid \in Mid : mid # row.mid \/ s.tokens[mid] # NoToken => t.tokens[mid] = s.tokens[mid]
    /\ s.tokens[row.mid] = NoToken => t.tokens[row.mid] \notin TokensAlive(s)
    /\ t.tokens[row.mid] # NoToken
    /\ t.emits = Append(s.emits, Delivery(row.mid, row.msg, t.tokens[row.mid], TRUE))
    /\ Delivery(row.mid, row.msg, t.tokens[row.mid], TRUE) \in Marks

\* _emit_message
LEMMA EmitIs ==
    ASSUME NEW s \in Sessions, NEW row \in Row, Around
    PROVE  IsEmit(s, row, Emit(s, row))
<1>1. row.mid \in Mid /\ row.msg \in Message /\ s.tokens \in [Mid -> Nat] /\ s.emits \in Seq(Effects)
  BY SessionTyped DEF Row
<1>2. PICK k \in Nat \ {0} : k = FreshToken(s) /\ k \notin TokensAlive(s)
  BY FreshTokenIs
<1>3. PICK tk : tk = IF s.tokens[row.mid] = NoToken THEN [s.tokens EXCEPT ![row.mid] = k] ELSE s.tokens
  OBVIOUS
<1>4. /\ tk \in [Mid -> Nat]
      /\ \A mid \in Mid : mid # row.mid \/ s.tokens[mid] # NoToken => tk[mid] = s.tokens[mid]
      /\ s.tokens[row.mid] = NoToken => tk[row.mid] \notin TokensAlive(s)
      /\ tk[row.mid] # NoToken
  BY <1>1, <1>2, <1>3 DEF NoToken
<1>5. WithToken(s, row.mid) = [s EXCEPT !.tokens = tk]
  BY <1>1, <1>2, <1>3 DEF WithToken, Sessions
<1>6. PICK w : w = WithToken(s, row.mid)
  OBVIOUS
<1>7. w = [s EXCEPT !.tokens = tk] /\ w \in Sessions /\ w.tokens = tk /\ w.emits = s.emits
  BY <1>4, <1>5, <1>6 DEF Sessions
<1>8. PICK d : d = Delivery(row.mid, row.msg, tk[row.mid], TRUE)
  OBVIOUS
<1>9. d \in Marks /\ d \in Effects
  BY <1>1, <1>4, <1>8 DEF Delivery, Marks, Messages, Effects
<1>10. PICK q : q = Append(s.emits, d)
  OBVIOUS
<1>11. q \in Seq(Effects)
  BY <1>1, <1>9, <1>10
<1>12. PICK t : t = Emit(s, row)
  OBVIOUS
<1>13. t = [w EXCEPT !.emits = q]
  BY <1>6, <1>7, <1>8, <1>10, <1>12 DEF Emit
<1>14. /\ t \in Sessions /\ SameBooks(s, t) /\ t.refused = s.refused
       /\ t.replay = s.replay /\ t.recovered = s.recovered /\ t.sends = s.sends
       /\ t.tokens = tk /\ t.emits = q
  BY <1>7, <1>11, <1>13 DEF Sessions, SameBooks
<1> QED BY <1>4, <1>8, <1>9, <1>10, <1>12, <1>14 DEF IsEmit

\* A delivery that needs no mark
IsEmitUnmarked(s, mid, m, t) ==
    /\ t \in Sessions /\ SameBooks(s, t) /\ t.refused = s.refused
    /\ t.replay = s.replay /\ t.recovered = s.recovered /\ t.tokens = s.tokens
    /\ t.emits = Append(s.emits, Delivery(mid, m, NoToken, FALSE))
    /\ Delivery(mid, m, NoToken, FALSE) \in Messages

\* Such a delivery changes nothing else.
LEMMA EmitUnmarkedIs ==
    ASSUME NEW s \in Sessions, NEW mid \in Mid \cup {0}, NEW m \in Message
    PROVE  IsEmitUnmarked(s, mid, m, EmitUnmarked(s, mid, m))
<1>1. PICK d : d = Delivery(mid, m, NoToken, FALSE)
  OBVIOUS
<1>2. d \in Messages /\ d \in Effects
  BY <1>1 DEF Delivery, Messages, Effects, NoToken
<1>3. PICK q : q = Append(s.emits, d)
  OBVIOUS
<1>4. q \in Seq(Effects)
  BY <1>2, <1>3, SessionTyped
<1>5. EmitUnmarked(s, mid, m) = [s EXCEPT !.emits = q]
  BY <1>1, <1>3 DEF EmitUnmarked
<1>6. PICK t : t = EmitUnmarked(s, mid, m)
  OBVIOUS
<1>7. /\ t \in Sessions /\ SameBooks(s, t) /\ t.refused = s.refused
      /\ t.replay = s.replay /\ t.recovered = s.recovered /\ t.tokens = s.tokens /\ t.emits = q
  BY <1>4, <1>5, <1>6 DEF Sessions, SameBooks
<1> QED BY <1>1, <1>2, <1>3, <1>6, <1>7 DEF IsEmitUnmarked

\* What Acquire leaves alone
SameButBytes(s, t) ==
    /\ t.rows = s.rows /\ t.stored = s.stored
    /\ t.autoAcks = s.autoAcks /\ t.pubcomps = s.pubcomps /\ t.pubcompSlots = s.pubcompSlots
    /\ t.waiting = s.waiting /\ t.acks = s.acks /\ t.order = s.order
    /\ t.handoff => s.handoff \/ s.autoAcks \cup s.pubcomps # {}
    /\ t.sends = s.sends

\* A slot and bytes, or an error
IsAcquire(s, size, t) ==
    /\ t \in Sessions /\ SameTalk(s, t)
    /\ Refused(t) => SameBooks(s, t) /\ t.refused \in {"0x93", "0x97"}
    /\ ~Refused(t) => /\ SameButBytes(s, t) /\ t.current = s.current /\ t.refused = "none"
                      /\ t.bytes = s.bytes + size /\ Inflight(s) < ReceiveMaximum

\* _acquire_slot
LEMMA AcquireIs ==
    ASSUME NEW s \in Sessions, NEW size \in Nat, s.refused = "none"
    PROVE  IsAcquire(s, size, Acquire(s, size))
<1>1. /\ Refuse(s, "0x93") \in Sessions /\ SameTalk(s, Refuse(s, "0x93"))
      /\ SameBooks(s, Refuse(s, "0x93")) /\ Refuse(s, "0x93").refused = "0x93"
  BY RefuseIs DEF Reasons
<1>2. /\ Refuse(s, "0x97") \in Sessions /\ SameTalk(s, Refuse(s, "0x97"))
      /\ SameBooks(s, Refuse(s, "0x97")) /\ Refuse(s, "0x97").refused = "0x97"
  BY RefuseIs DEF Reasons
<1>3. Inflight(s) \in Nat /\ ReceiveMaximum \in Nat /\ s.bytes \in Nat
  BY InflightTyped, SessionTyped, InboundAssumptions
<1>4. PICK h \in BOOLEAN : h = (s.handoff \/ (/\ Inflight(s) + 1 >= ReceiveMaximum
                                             /\ s.autoAcks \cup s.pubcomps # {}))
  OBVIOUS
<1>5. PICK b \in Nat : b = s.bytes + size
  BY <1>3
<1>6. PICK u : u = [s EXCEPT !.bytes = b, !.handoff = h]
  OBVIOUS
<1>7. /\ u \in Sessions /\ SameTalk(s, u) /\ SameButBytes(s, u) /\ u.current = s.current
      /\ u.refused = "none" /\ u.bytes = b
  BY <1>4, <1>6 DEF Sessions, SameTalk, SameButBytes
<1>8. PICK t : t = Acquire(s, size)
  OBVIOUS
<1>9. t = IF Inflight(s) >= ReceiveMaximum THEN Refuse(s, "0x93")
          ELSE IF size > 0 /\ s.bytes + size > MaxInboundBytes THEN Refuse(s, "0x97") ELSE u
  BY <1>4, <1>5, <1>6, <1>8 DEF Acquire
<1>10. CASE t = u /\ ~(Inflight(s) >= ReceiveMaximum)
  BY <1>3, <1>5, <1>7, <1>8, <1>10 DEF Refused, IsAcquire
<1>11. CASE t = Refuse(s, "0x93")
  BY <1>1, <1>8, <1>11 DEF Refused, IsAcquire
<1>12. CASE t = Refuse(s, "0x97")
  BY <1>2, <1>8, <1>12 DEF Refused, IsAcquire
<1> QED BY <1>9, <1>10, <1>11, <1>12

\* One more identifier holds a slot.
LEMMA SlotAdded ==
    ASSUME NEW S \in SUBSET Mid, NEW mid \in Mid
    PROVE  /\ S \cup {mid} \in SUBSET Mid
           /\ Cardinality(S \cup {mid}) = (IF mid \in S THEN Cardinality(S) ELSE Cardinality(S) + 1)
           /\ Cardinality(S \ {mid}) = (IF mid \in S THEN Cardinality(S) - 1 ELSE Cardinality(S))
           /\ Cardinality(S) \in Nat /\ Cardinality(S \ {mid}) \in Nat
<1>1. IsFiniteSet(S) /\ Cardinality(S) \in Nat
  BY InboundAssumptions, FS_Subset, FS_CardinalityType
<1>2. IsFiniteSet(S \ {mid}) /\ Cardinality(S \ {mid}) \in Nat
  BY <1>1, FS_Subset, FS_CardinalityType
<1>3. S \cup {mid} \in SUBSET Mid
  OBVIOUS
<1>4. Cardinality(S \cup {mid}) = (IF mid \in S THEN Cardinality(S) ELSE Cardinality(S) + 1)
  BY <1>1, FS_AddElement
<1>5. Cardinality(S \ {mid}) = (IF mid \in S THEN Cardinality(S) - 1 ELSE Cardinality(S))
  BY <1>1, FS_RemoveElement
<1> QED BY <1>1, <1>2, <1>3, <1>4, <1>5

\* The slot of a stored exchange
IsAcquireCurrent(s, mid, t) ==
    /\ t \in Sessions /\ SameTalk(s, t)
    /\ Refused(t) => SameBooks(s, t) /\ t.refused \in {"0x93", "0x97"}
    /\ ~Refused(t) => /\ SameButBytes(s, t) /\ t.current = s.current \cup {mid}
                      /\ t.refused = "none" /\ t.bytes = s.bytes
                      /\ Inflight(t) <= ReceiveMaximum

\* It is taken once.
LEMMA AcquireCurrentIs ==
    ASSUME NEW s \in Sessions, NEW mid \in Mid, s.refused = "none", Inflight(s) <= ReceiveMaximum
    PROVE  IsAcquireCurrent(s, mid, AcquireCurrent(s, mid))
<1>1. PICK a, t : a = Acquire(s, 0) /\ t = AcquireCurrent(s, mid)
  OBVIOUS
<1>2. /\ a \in Sessions /\ SameTalk(s, a)
      /\ Refused(a) => SameBooks(s, a) /\ a.refused \in {"0x93", "0x97"}
      /\ ~Refused(a) => /\ SameButBytes(s, a) /\ a.current = s.current /\ a.refused = "none"
                        /\ a.bytes = s.bytes + 0 /\ Inflight(s) < ReceiveMaximum
  BY <1>1, AcquireIs DEF IsAcquire
<1>3. t = IF mid \in s.current THEN s
          ELSE IF Refused(a) THEN a ELSE [a EXCEPT !.current = @ \cup {mid}]
  BY <1>1 DEF AcquireCurrent
<1>4. CASE mid \in s.current
  <2>1. t = s /\ s.current = s.current \cup {mid}
    BY <1>3, <1>4
  <2> QED BY <1>1, <2>1 DEF SameTalk, SameButBytes, Refused, IsAcquireCurrent
<1>5. CASE mid \notin s.current /\ Refused(a)
  BY <1>1, <1>2, <1>3, <1>5 DEF IsAcquireCurrent
<1>6. CASE mid \notin s.current /\ ~Refused(a)
  <2>1. PICK c : c = a.current \cup {mid}
    OBVIOUS
  <2>2. t = [a EXCEPT !.current = c] /\ c \in SUBSET Mid /\ c = s.current \cup {mid}
    BY <1>2, <1>3, <1>6, <2>1, SessionTyped
  <2>3. /\ t \in Sessions /\ SameTalk(a, t) /\ SameButBytes(a, t)
        /\ t.current = c /\ t.refused = a.refused /\ t.bytes = a.bytes
    BY <1>2, <2>2 DEF Sessions, SameTalk, SameButBytes
  <2>4. SameTalk(s, t) /\ SameButBytes(s, t) /\ t.bytes = s.bytes /\ t.refused = "none"
    <3>1. s.bytes \in Nat
      BY SessionTyped
    <3> QED BY <1>2, <1>6, <2>3, <3>1 DEF SameTalk, SameButBytes
  <2>5. Inflight(t) <= ReceiveMaximum
    <3>1. Cardinality(c) = Cardinality(s.current) + 1
      BY <1>6, <2>2, SlotAdded, SessionTyped
    <3>2. Inflight(t) = Inflight(s) + 1
      <4>1. Inflight(t) = Cardinality(c) + Cardinality(s.autoAcks) + s.pubcompSlots
        BY <2>3, <2>4 DEF Inflight, SameButBytes
      <4>2. PICK x, y, z \in Nat : x = Cardinality(s.current) /\ y = Cardinality(s.autoAcks) /\ z = s.pubcompSlots
        BY InflightTyped, SessionTyped
      <4>3. Inflight(s) = x + y + z /\ Inflight(t) = (x + 1) + y + z
        BY <3>1, <4>1, <4>2 DEF Inflight
      <4> QED BY <4>3
    <3>3. Inflight(s) \in Nat /\ ReceiveMaximum \in Nat
      BY InflightTyped, InboundAssumptions
    <3> QED BY <1>2, <1>6, <3>2, <3>3
  <2> QED BY <1>1, <2>2, <2>3, <2>4, <2>5 DEF Refused, IsAcquireCurrent
<1> QED BY <1>4, <1>5, <1>6

\* Stored() is the question whether there is a row.
LEMMA StoredIs ==
    ASSUME NEW s \in Sessions, Ledger(s), NEW mid, NEW S
    PROVE  /\ Stored(s, mid) <=> Owns(s.rows, mid)
           /\ \A i \in 1..Len(s.rows) : s.rows[i].mid = mid =>
                /\ RowOf(s, mid) = s.rows[i] /\ Stored(s, mid)
                /\ StoredAs(s, mid, S) <=> s.rows[i].state \in S
           /\ StoredAs(s, mid, S) => \E i \in 1..Len(s.rows) : s.rows[i].mid = mid /\ s.rows[i].state \in S
<1>1. s.rows \in Seq(Row) /\ s.stored = Len(s.rows) /\ Keyed(s.rows) /\ Len(s.rows) \in Nat
  BY SessionTyped DEF Ledger
<1>2. Stored(s, mid) <=> Owns(s.rows, mid)
  <2>1. mid \in Mids(s.rows) <=> Owns(s.rows, mid)
    BY <1>1, MidsOwned
  <2>2. Owns(s.rows, mid) => s.stored > 0
    BY <1>1 DEF Owns
  <2> QED BY <2>1, <2>2 DEF Stored
<1>3. ASSUME NEW i \in 1..Len(s.rows), s.rows[i].mid = mid
      PROVE  RowOf(s, mid) = s.rows[i] /\ Stored(s, mid) /\ (StoredAs(s, mid, S) <=> s.rows[i].state \in S)
  <2>1. RowOf(s, mid) = s.rows[i]
    BY <1>1, <1>3, RowFound
  <2>2. Stored(s, mid)
    BY <1>2, <1>3 DEF Owns
  <2> QED BY <2>1, <2>2 DEF StoredAs
<1>4. StoredAs(s, mid, S) => \E i \in 1..Len(s.rows) : s.rows[i].mid = mid /\ s.rows[i].state \in S
  <2> SUFFICES ASSUME StoredAs(s, mid, S)
               PROVE  \E i \in 1..Len(s.rows) : s.rows[i].mid = mid /\ s.rows[i].state \in S
    OBVIOUS
  <2>1. Stored(s, mid)
    BY DEF StoredAs
  <2>2. PICK i \in 1..Len(s.rows) : s.rows[i].mid = mid
    BY <1>2, <2>1 DEF Owns
  <2> QED BY <1>3, <2>2
<1> QED BY <1>2, <1>3, <1>4

\* What Retired leaves alone
SameButRow(s, t) ==
    /\ t.current = s.current /\ t.autoAcks = s.autoAcks /\ t.pubcomps = s.pubcomps
    /\ t.pubcompSlots = s.pubcompSlots /\ t.handoff = s.handoff /\ t.acks = s.acks
    /\ t.order = s.order /\ t.refused = s.refused /\ t.replay = s.replay
    /\ t.recovered = s.recovered /\ t.sends = s.sends /\ t.emits = s.emits

\* The row that an identifier owns
LEMMA StoredRow ==
    ASSUME NEW s \in Sessions, Ledger(s), NEW mid
    PROVE  /\ Stored(s, mid) => /\ Has(s.rows, RowOf(s, mid)) /\ RowOf(s, mid).mid = mid
                                /\ RowOf(s, mid) \in Row /\ mid \in Mid /\ mid \in Mids(s.rows)
           /\ ~Stored(s, mid) => ~Owns(s.rows, mid) /\ mid \notin Mids(s.rows)
           /\ \A row : Has(s.rows, row) /\ row.mid = mid =>
                Stored(s, mid) /\ RowOf(s, mid) = row /\ row \in Row /\ mid \in Mid /\ mid \in Mids(s.rows)
<1>1. PICK rows \in Seq(Row) : rows = s.rows
  BY SessionTyped
<1>2. /\ \A k : k \in Mids(rows) <=> Owns(rows, k)
      /\ \A i \in 1..Len(rows) : rows[i] \in Row /\ rows[i].mid \in Mid
  BY MidsOwned DEF Row
<1>3. Stored(s, mid) <=> Owns(rows, mid)
  BY <1>1, StoredIs
<1>4. \A i \in 1..Len(rows) : rows[i].mid = mid => RowOf(s, mid) = rows[i] /\ Stored(s, mid)
  BY <1>1, StoredIs
<1>5. Stored(s, mid) => \E i \in 1..Len(rows) : rows[i].mid = mid
  BY <1>3 DEF Owns
<1>6. \A row : Has(rows, row) => \E i \in 1..Len(rows) : rows[i] = row
  BY DEF Has
<1>7. \A i \in 1..Len(rows) : Has(rows, rows[i])
  BY DEF Has
<1>8. \A row : Has(rows, row) /\ row.mid = mid =>
                Stored(s, mid) /\ RowOf(s, mid) = row /\ row \in Row /\ mid \in Mid
  BY <1>2, <1>4, <1>6
<1>9. Stored(s, mid) => Has(rows, RowOf(s, mid)) /\ RowOf(s, mid).mid = mid
                          /\ RowOf(s, mid) \in Row /\ mid \in Mid
  BY <1>2, <1>4, <1>5, <1>7
<1> QED BY <1>1, <1>2, <1>3, <1>8, <1>9

\* A finished exchange takes its row, its bytes, its identity and its wait along.
IsRetired(s, mid, t) ==
    /\ t \in Sessions /\ Ledger(t) /\ SameButRow(s, t)
    /\ t.rows = Drop(s.rows, {mid})
    /\ t.tokens = [s.tokens EXCEPT ![mid] = NoToken]
    /\ t.waiting = [s.waiting EXCEPT ![mid] = "none"]

\* _complete_stored_inbound, _forget_inbound
LEMMA RetiredIs ==
    ASSUME NEW s \in Sessions, Ledger(s), NEW row, Has(s.rows, row),
           NEW mid, row.mid = mid, NEW expected, row.state = expected
    PROVE  IsRetired(s, mid, Retired(s, mid, expected))
<1>0. PICK i \in 1..Len(s.rows) : s.rows[i] = row
  BY DEF Has
<1>1. /\ s.rows \in Seq(Row) /\ s.stored = Len(s.rows) /\ s.bytes = Sizes(s.rows) /\ Keyed(s.rows)
      /\ s.bytes \in Nat /\ s.stored \in Nat /\ s.tokens \in [Mid -> Nat]
      /\ s.waiting \in [Mid -> RowState \cup {"none"}]
  BY SessionTyped DEF Ledger
<1>2. PICK u : u = Drop(s.rows, {mid})
  OBVIOUS
<1>3. /\ u \in Seq(Row) /\ Keyed(u)
      /\ Len(u) + 1 = Len(s.rows) /\ Sizes(u) + SizeOf[s.rows[i].msg] = Sizes(s.rows)
  <2>1. PICK rows \in Seq(Row) : rows = s.rows
    BY <1>1
  <2>2. /\ u \in Seq(Row)
        /\ Keyed(rows) =>
             \A k \in 1..Len(rows) : rows[k].mid = mid =>
                Len(u) + 1 = Len(rows) /\ Sizes(u) + SizeOf[rows[k].msg] = Sizes(rows)
    <3>1. IsDrop(rows, mid, u)
      BY <1>2, <2>1, RowsDrop
    <3> QED BY <3>1 DEF IsDrop
  <2>3. Keyed(u)
    BY <1>1, <1>2, <2>1, DropKeyed
  <2> QED BY <1>0, <1>1, <2>1, <2>2, <2>3
<1>4. s.rows[i] \in Row /\ SizeOf[s.rows[i].msg] \in Nat /\ mid \in Mid
  <2>1. s.rows[i] \in Row
    BY <1>1
  <2> QED BY <1>0, <2>1, InboundAssumptions DEF Row
<1>5. Sizes(u) \in Nat /\ Len(u) \in Nat
  BY <1>3, SizesTyped
<1>6. StoredAs(s, mid, {expected}) /\ RowOf(s, mid) = s.rows[i]
  BY <1>0, StoredRow DEF StoredAs
<1>7. PICK size \in Nat : size = SizeOf[s.rows[i].msg]
  BY <1>4
<1>8. ~(size > s.bytes) /\ s.bytes - size = Sizes(u) /\ s.stored - 1 = Len(u)
  BY <1>1, <1>3, <1>5, <1>7
<1>9. ReleaseBytes(s, size) = [s EXCEPT !.bytes = Sizes(u)]
  BY <1>8 DEF ReleaseBytes
<1>10. PICK r : r = [s EXCEPT !.bytes = Sizes(u)]
  OBVIOUS
<1>11. r \in Sessions /\ r.rows = s.rows /\ r.stored = s.stored /\ r.tokens = s.tokens /\ r.waiting = s.waiting
       /\ r.bytes = Sizes(u) /\ SameButRow(s, r)
  BY <1>5, <1>10 DEF Sessions, SameButRow
<1>12. PICK tk, wt : tk = [s.tokens EXCEPT ![mid] = NoToken] /\ wt = [s.waiting EXCEPT ![mid] = "none"]
  OBVIOUS
<1>13. tk \in [Mid -> Nat] /\ wt \in [Mid -> RowState \cup {"none"}]
  BY <1>1, <1>12 DEF NoToken
<1>14. PICK t : t = Retired(s, mid, expected)
  OBVIOUS
<1>15. t = [r EXCEPT !.rows = u, !.stored = Len(u), !.tokens = tk, !.waiting = wt]
  <2>1. t = [r EXCEPT !.rows = Drop(@, {mid}), !.stored = @ - 1,
                      !.tokens[mid] = NoToken, !.waiting[mid] = "none"]
    BY <1>6, <1>7, <1>9, <1>10, <1>14 DEF Retired
  <2> QED BY <1>2, <1>8, <1>11, <1>12, <2>1
<1>16. /\ t \in Sessions /\ t.rows = u /\ t.stored = Len(u) /\ t.tokens = tk /\ t.waiting = wt
       /\ t.bytes = r.bytes /\ SameButRow(r, t)
  BY <1>3, <1>5, <1>11, <1>13, <1>15 DEF Sessions, SameButRow
<1>17. Ledger(t) /\ SameButRow(s, t)
  BY <1>3, <1>11, <1>16 DEF Ledger, SameButRow
<1> QED BY <1>2, <1>12, <1>14, <1>16, <1>17 DEF IsRetired

-----------------------------------------------------------------------------
(* Changed rows and finished exchanges.                                    *)

\* A row is changed in place.
IsUpdate(s, row, m, t) ==
    /\ Good(t, m) /\ SameButRow(s, t) /\ t.tokens = s.tokens /\ t.waiting = s.waiting
    /\ t.rows = Changed(s.rows, row.mid, row)

\* A row that keeps its place, its message and its queue keeps the books.
LEMMA UpdateGood ==
    ASSUME NEW s, NEW m \in BOOLEAN, Good(s, m), NEW old, Has(s.rows, old), NEW row \in Row,
           old.mid = row.mid, old.msg = row.msg,
           old.state = "WAIT_PUBACK" <=> row.state = "WAIT_PUBACK",
           s.waiting[row.mid] = "none"
    PROVE  IsUpdate(s, row, m, Update(s, row.mid, row))
<1>1. s \in Sessions /\ Ledger(s) /\ s.rows \in Seq(Row) /\ Keyed(s.rows)
  BY SessionTyped DEF Good, Core, Ledger
<1>2. PICK mid, rows, u : mid = row.mid /\ rows = s.rows /\ u = Changed(rows, mid, row)
  OBVIOUS
<1>0. PICK i \in 1..Len(rows) : rows[i] = old
  BY <1>2 DEF Has
<1>3. \A j \in 1..Len(rows) : rows[j].mid = mid => j = i
  BY <1>0, <1>1, <1>2 DEF Keyed
<1>4. /\ u \in Seq(Row) /\ Len(u) = Len(rows)
      /\ \A j \in 1..Len(rows) : u[j] = IF rows[j].mid = mid THEN row ELSE rows[j]
      /\ Sizes(u) = Sizes(rows) /\ PubackOrder(u) = PubackOrder(rows)
      /\ Mids(u) = Mids(rows) /\ PubackMids(u) = PubackMids(rows) /\ Keyed(u)
  <2>1. \A j \in 1..Len(rows) : rows[j].mid = row.mid =>
           rows[j].msg = row.msg /\ (rows[j].state = "WAIT_PUBACK" <=> row.state = "WAIT_PUBACK")
    BY <1>0, <1>2, <1>3
  <2> QED BY <1>1, <1>2, <2>1, RowsChanged, SMTT(30)
<1>5. PICK t : t = Update(s, mid, row)
  OBVIOUS
<1>6. t = [s EXCEPT !.rows = u]
  BY <1>2, <1>5 DEF Update, Changed
<1>7. /\ t \in Sessions /\ t.rows = u /\ t.stored = s.stored /\ t.bytes = s.bytes
      /\ t.tokens = s.tokens /\ t.waiting = s.waiting /\ SameButRow(s, t)
  BY <1>1, <1>4, <1>6 DEF Sessions, SameButRow
<1>8. Ledger(t)
  BY <1>1, <1>2, <1>4, <1>7 DEF Ledger
<1>9. OrderInv(t, m) /\ HeadInv(t, m)
  BY <1>2, <1>4, <1>7 DEF Good, OrderInv, HeadInv, SameButRow
<1>10. SlotInv(t, m)
  BY <1>2, <1>4, <1>7 DEF Good, Core, SlotInv, SameButRow, Inflight
<1>11. WaitInv(t, m)
  <2>0. WaitInv(s, m)
    BY DEF Good, Core
  <2>1. ASSUME NEW k \in Mid, t.waiting[k] # "none"
        PROVE  ~m /\ \E r \in Row : Has(u, r) /\ r.mid = k /\ r.state = t.waiting[k] /\ ~r.delivered
    <3>1. k # mid /\ ~m
      BY <1>2, <1>7, <2>0, <2>1 DEF WaitInv
    <3>2. PICK r \in Row : Has(rows, r) /\ r.mid = k /\ r.state = s.waiting[k] /\ ~r.delivered
      BY <1>2, <1>7, <2>0, <2>1 DEF WaitInv
    <3>3. PICK j \in 1..Len(rows) : rows[j] = r
      BY <3>2 DEF Has
    <3>4. j \in 1..Len(u) /\ u[j] = r
      BY <1>4, <3>1, <3>2, <3>3
    <3>5. Has(u, r)
      BY <3>4 DEF Has
    <3> QED BY <1>7, <3>1, <3>2, <3>5
  <2>2. ASSUME ~m, NEW r \in Row, Has(u, r), r.state = "WAIT_PUBACK", r.mid \in t.current
        PROVE  t.waiting[r.mid] # "none"
    <3>1. PICK j \in 1..Len(rows) : u[j] = r
      BY <1>4, <2>2 DEF Has
    <3>2. rows[j].state = "WAIT_PUBACK" /\ rows[j].mid = r.mid
      <4>1. CASE rows[j].mid = mid
        BY <1>0, <1>2, <1>3, <1>4, <2>2, <3>1, <4>1
      <4>2. CASE rows[j].mid # mid
        BY <1>4, <2>2, <3>1, <4>2
      <4> QED BY <4>1, <4>2
    <3>3. t.current = s.current /\ Has(rows, rows[j]) /\ rows[j] \in Row
      BY <1>1, <1>2, <1>7 DEF SameButRow, Has
    <3> QED BY <1>2, <1>7, <2>0, <2>2, <3>2, <3>3 DEF WaitInv
  <2> QED BY <1>7, <2>1, <2>2 DEF WaitInv
<1> QED BY <1>2, <1>5, <1>7, <1>8, <1>9, <1>10, <1>11 DEF Good, Core, IsUpdate

\* The rows without one of them, for the waits: they lose none of the others.
LEMMA DropWait ==
    ASSUME NEW s \in Sessions, NEW m \in BOOLEAN, WaitInv(s, m), NEW t, NEW mid \in Mid,
           t.rows = Drop(s.rows, {mid}), t.waiting = [s.waiting EXCEPT ![mid] = "none"],
           t.current \subseteq s.current
    PROVE  WaitInv(t, m)
<1>1. s.rows \in Seq(Row) /\ s.waiting \in [Mid -> RowState \cup {"none"}]
  BY SessionTyped
<1>a. PICK rows \in Seq(Row) : rows = s.rows
  BY <1>1
<1>b. PICK u : u = t.rows /\ u = Drop(rows, {mid})
  BY <1>a
<1>3. u \in Seq(Row) /\ \A r : Has(u, r) <=> Has(rows, r) /\ r.mid # mid
  <2>1. IsDrop(rows, mid, u)
    BY <1>b, RowsDrop
  <2> QED BY <2>1 DEF IsDrop
<1>c. \A k \in Mid : t.waiting[k] = IF k = mid THEN "none" ELSE s.waiting[k]
  BY <1>1
<1>4. ASSUME NEW k \in Mid, t.waiting[k] # "none"
      PROVE  ~m /\ \E r \in Row : Has(u, r) /\ r.mid = k /\ r.state = t.waiting[k] /\ ~r.delivered
  <2>1. k # mid /\ t.waiting[k] = s.waiting[k]
    BY <1>c, <1>4
  <2>2. ~m /\ \E r \in Row : Has(rows, r) /\ r.mid = k /\ r.state = s.waiting[k] /\ ~r.delivered
    BY <1>a, <1>4, <2>1 DEF WaitInv
  <2> QED BY <1>3, <2>1, <2>2
<1>5. ASSUME ~m, NEW r \in Row, Has(u, r), r.state = "WAIT_PUBACK", r.mid \in t.current
      PROVE  t.waiting[r.mid] # "none"
  <2>1. Has(rows, r) /\ r.mid # mid /\ r.mid \in Mid
    BY <1>3, <1>5 DEF Row
  <2>2. s.waiting[r.mid] # "none"
    BY <1>a, <1>5, <2>1 DEF WaitInv
  <2> QED BY <1>c, <2>1, <2>2
<1> QED BY <1>b, <1>4, <1>5 DEF WaitInv

\* What a finished exchange leaves of the rows
RowGone(s, mid, t) ==
    /\ \A x : x \in Mids(t.rows) <=> x \in Mids(s.rows) /\ x # mid
    /\ \A x : x \in PubackMids(t.rows) <=> x \in PubackMids(s.rows) /\ x # mid
    /\ \A r : Has(t.rows, r) <=> Has(s.rows, r) /\ r.mid # mid
    /\ mid \notin PubackMids(s.rows) => PubackOrder(t.rows) = PubackOrder(s.rows)
    /\ PubackOrder(s.rows) # <<>> /\ Head(PubackOrder(s.rows)) = mid =>
         PubackOrder(t.rows) = Tail(PubackOrder(s.rows))
\* Drop leaves that.
LEMMA RowGoes ==
    ASSUME NEW s \in Sessions, Ledger(s), NEW mid, NEW t, t.rows = Drop(s.rows, {mid})
    PROVE  RowGone(s, mid, t) /\ t.rows \in Seq(Row)
<1>1. PICK rows \in Seq(Row) : rows = s.rows
  BY SessionTyped
<1>2. Keyed(rows)
  BY <1>1 DEF Ledger
<1>3. PICK u : u = Drop(rows, {mid})
  OBVIOUS
<1>4. u = t.rows
  BY <1>1, <1>3
<1>5. u \in Seq(Row) /\ \A r : Has(u, r) <=> Has(rows, r) /\ r.mid # mid
  <2>1. IsDrop(rows, mid, u)
    BY <1>3, RowsDrop
  <2> QED BY <2>1 DEF IsDrop
<1>6. /\ \A m : Owns(u, m) <=> Owns(rows, m) /\ m # mid
      /\ \A m : m \in PubackMids(u) <=> m \in PubackMids(rows) /\ m # mid
  BY <1>2, <1>3, DropKeyed
<1>7. (\A m : m \in Mids(rows) <=> Owns(rows, m)) /\ (\A m : m \in Mids(u) <=> Owns(u, m))
  BY <1>5, MidsOwned
<1>8. /\ mid \notin PubackMids(rows) => PubackOrder(u) = PubackOrder(rows)
      /\ PubackOrder(rows) # <<>> /\ Head(PubackOrder(rows)) = mid =>
           PubackOrder(u) = Tail(PubackOrder(rows))
  BY <1>2, <1>3, OrderDrop
<1> QED BY <1>1, <1>4, <1>5, <1>6, <1>7, <1>8 DEF RowGone

\* A finished exchange: its row is gone, and it is no longer current.
IsCompleted(s, mid, m, t) ==
    /\ Core(t, m) /\ RowGone(s, mid, t) /\ t.refused = s.refused /\ t.replay = s.replay
    /\ t.recovered = s.recovered /\ t.emits = s.emits /\ t.rows = Drop(s.rows, {mid})
    /\ t.tokens = [s.tokens EXCEPT ![mid] = NoToken]
    /\ t.waiting = [s.waiting EXCEPT ![mid] = "none"]
    /\ t.autoAcks = s.autoAcks /\ t.acks = s.acks /\ t.order = s.order
    /\ t.current = s.current \ {mid}

\* The slots that such a step leaves
LEMMA CompletedSlots ==
    ASSUME NEW s \in Sessions, NEW t \in Sessions, NEW m, NEW mid \in Mid, SlotInv(s, m), RowGone(s, mid, t),
           mid \in Mids(s.rows), t.autoAcks = s.autoAcks, t.current = s.current \ {mid},
           \/ t.pubcomps = s.pubcomps /\ t.pubcompSlots = s.pubcompSlots /\ t.handoff = s.handoff
           \/ /\ t.pubcomps = s.pubcomps \cup {mid}
              /\ t.pubcompSlots = IF mid \in s.current THEN s.pubcompSlots + 1 ELSE s.pubcompSlots
    PROVE  SlotInv(t, m)
<1>1. mid \notin s.pubcomps /\ mid \notin s.autoAcks
  BY DEF SlotInv
<1>2. PICK c \in SUBSET Mid, p \in SUBSET Mid, a \in SUBSET Mid :
        c = s.current /\ p = s.pubcomps /\ a = s.autoAcks
  BY SessionTyped
<1>3. PICK x \in Nat, y \in Nat, z \in Nat, n \in Nat :
        x = Cardinality(c) /\ y = Cardinality(a) /\ z = s.pubcompSlots /\ n = Cardinality(p)
  BY <1>2, InflightTyped, SessionTyped
<1>4. x + y + z <= ReceiveMaximum /\ z <= n /\ ReceiveMaximum \in Nat
  BY <1>2, <1>3, InboundAssumptions DEF SlotInv, Inflight
<1>5. /\ Cardinality(p \cup {mid}) = (IF mid \in p THEN Cardinality(p) ELSE Cardinality(p) + 1)
      /\ Cardinality(c \ {mid}) = (IF mid \in c THEN Cardinality(c) - 1 ELSE Cardinality(c))
      /\ Cardinality(c \ {mid}) \in Nat
  BY SlotAdded
<1>6. PICK w \in Nat : w = Cardinality(c \ {mid})
  BY <1>5
<1>7. Cardinality(p \cup {mid}) = n + 1 /\ w = (IF mid \in c THEN x - 1 ELSE x)
  BY <1>1, <1>2, <1>3, <1>5, <1>6
<1>8. Inflight(t) = w + y + t.pubcompSlots
  BY <1>2, <1>3, <1>6 DEF Inflight
<1>9. Inflight(t) <= ReceiveMaximum /\ t.pubcompSlots <= Cardinality(t.pubcomps)
  <2>1. CASE t.pubcomps = s.pubcomps /\ t.pubcompSlots = s.pubcompSlots /\ t.handoff = s.handoff
    <3>1. Inflight(t) = w + y + z /\ w <= x /\ t.pubcompSlots = z /\ Cardinality(t.pubcomps) = n
      BY <1>2, <1>3, <1>7, <1>8, <2>1
    <3> QED BY <1>4, <3>1
  <2>2. CASE /\ t.pubcomps = s.pubcomps \cup {mid}
             /\ t.pubcompSlots = IF mid \in s.current THEN s.pubcompSlots + 1 ELSE s.pubcompSlots
    <3>1. Inflight(t) = x + y + z /\ t.pubcompSlots <= z + 1 /\ Cardinality(t.pubcomps) = n + 1
      BY <1>2, <1>3, <1>7, <1>8, <2>2
    <3>2. t.pubcompSlots \in Nat
      BY SessionTyped
    <3> QED BY <1>4, <3>1, <3>2
  <2> QED BY <2>1, <2>2
<1>10. /\ t.current \subseteq Mids(t.rows) /\ (t.autoAcks \cup t.pubcomps) \cap Mids(t.rows) = {}
       /\ t.autoAcks \cap t.pubcomps = {}
  BY <1>1 DEF SlotInv, RowGone
<1>11. t.handoff => t.autoAcks \cup t.pubcomps # {}
  BY DEF SlotInv
<1>12. m => t.autoAcks = {}
  BY DEF SlotInv
<1> QED BY <1>9, <1>10, <1>11, <1>12 DEF SlotInv

\* A finished QoS 1 exchange
LEMMA CompleteQos1Is ==
    ASSUME NEW s, NEW m \in BOOLEAN, Core(s, m), NEW row, Has(s.rows, row),
           NEW mid, row.mid = mid, row.state = "WAIT_PUBACK"
    PROVE  /\ IsCompleted(s, mid, m, CompleteQos1(s, mid))
           /\ CompleteQos1(s, mid).pubcomps = s.pubcomps
<1>1. s \in Sessions /\ Ledger(s) /\ SlotInv(s, m) /\ WaitInv(s, m)
  BY DEF Core
<1>2. mid \in Mid /\ mid \in Mids(s.rows)
  BY <1>1, StoredRow
<1>3. PICK r : r = Retired(s, mid, "WAIT_PUBACK")
  OBVIOUS
<1>4. IsRetired(s, mid, r)
  BY <1>1, <1>3, RetiredIs
<1>5. PICK c : c = s.current \ {mid}
  OBVIOUS
<1>6. PICK n : n = [r EXCEPT !.current = c]
  OBVIOUS
<1>7. /\ n \in Sessions /\ n.current = c
      /\ n.rows = r.rows /\ n.stored = r.stored /\ n.bytes = r.bytes /\ n.autoAcks = r.autoAcks
      /\ n.pubcomps = r.pubcomps /\ n.pubcompSlots = r.pubcompSlots /\ n.handoff = r.handoff
      /\ n.waiting = r.waiting /\ n.acks = r.acks /\ n.order = r.order
      /\ n.refused = r.refused /\ SameTalk(r, n)
  <2>1. r \in Sessions /\ c \in SUBSET Mid
    BY <1>1, <1>4, <1>5, SessionTyped DEF IsRetired
  <2> QED BY <1>6, <2>1 DEF Sessions, SameTalk
<1>8. PICK t : t = Send(n, "PUBACK", mid)
  OBVIOUS
<1>9. t \in Sessions /\ SameBooks(n, t) /\ SameTalk(n, t) /\ t.refused = n.refused
  BY <1>2, <1>7, <1>8, SendIs
<1>10. t = CompleteQos1(s, mid)
  <2>1. r.current = s.current
    BY <1>4 DEF IsRetired, SameButRow
  <2> QED BY <1>3, <1>5, <1>6, <1>8, <2>1 DEF CompleteQos1
<1>11. /\ t.rows = Drop(s.rows, {mid}) /\ t.stored = r.stored /\ t.bytes = r.bytes
       /\ t.pubcomps = s.pubcomps /\ t.current = s.current \ {mid}
       /\ t.pubcompSlots = s.pubcompSlots /\ t.handoff = s.handoff
       /\ t.autoAcks = s.autoAcks /\ t.acks = s.acks /\ t.order = s.order
       /\ t.waiting = [s.waiting EXCEPT ![mid] = "none"] /\ t.tokens = [s.tokens EXCEPT ![mid] = NoToken]
       /\ t.refused = s.refused /\ t.replay = s.replay /\ t.recovered = s.recovered /\ t.emits = s.emits
  BY <1>4, <1>5, <1>7, <1>9 DEF IsRetired, SameButRow, SameBooks, SameTalk
<1>12. Ledger(t)
  BY <1>4, <1>11 DEF Ledger, IsRetired
<1>13. RowGone(s, mid, t)
  BY <1>1, <1>11, RowGoes
<1>14. WaitInv(t, m)
  <2>1. t.current \subseteq s.current
    BY <1>11
  <2> QED BY <1>1, <1>2, <1>11, <2>1, DropWait
<1>15. SlotInv(t, m)
  BY <1>1, <1>2, <1>9, <1>11, <1>13, CompletedSlots
<1> QED BY <1>9, <1>10, <1>11, <1>12, <1>13, <1>14, <1>15 DEF Core, IsCompleted

\* A finished QoS 2 exchange holds its slot until its PUBCOMP is handed over.
LEMMA CompleteQos2Is ==
    ASSUME NEW s, NEW m \in BOOLEAN, Core(s, m), NEW row, Has(s.rows, row),
           NEW mid, row.mid = mid, NEW expected, row.state = expected
    PROVE  /\ IsCompleted(s, mid, m, CompleteQos2(s, mid, expected))
           /\ CompleteQos2(s, mid, expected).pubcomps = s.pubcomps \cup {mid}
<1>1. s \in Sessions /\ Ledger(s) /\ SlotInv(s, m) /\ WaitInv(s, m)
  BY DEF Core
<1>2. mid \in Mid /\ mid \in Mids(s.rows)
  BY <1>1, StoredRow
<1>3. PICK r, n : r = Retired(s, mid, expected) /\ n = Send(r, "PUBCOMP", mid)
  OBVIOUS
<1>4. IsRetired(s, mid, r)
  BY <1>1, <1>3, RetiredIs
<1>a. r \in Sessions
  BY <1>4 DEF IsRetired
<1>5. n \in Sessions /\ SameBooks(r, n) /\ SameTalk(r, n) /\ n.refused = r.refused
  BY <1>2, <1>3, <1>a, SendIs
<1>6. PICK p, c, k :
        /\ p = n.pubcomps \cup {mid} /\ c = n.current \ {mid}
        /\ k = IF mid \in n.current THEN n.pubcompSlots + 1 ELSE n.pubcompSlots
  OBVIOUS
<1>7. p \in SUBSET Mid /\ c \in SUBSET Mid /\ k \in Nat
  BY <1>2, <1>5, <1>6, SessionTyped
<1>8. PICK held : held = [n EXCEPT !.pubcomps = p, !.current = c, !.pubcompSlots = k]
  OBVIOUS
<1>c. PICK h \in BOOLEAN : h = (held.handoff \/ (mid \in n.current /\ Inflight(held) >= ReceiveMaximum))
  OBVIOUS
<1>9. PICK t : t = [held EXCEPT !.handoff = h]
  OBVIOUS
<1>10. /\ held \in Sessions /\ held.handoff = n.handoff /\ SameTalk(n, held)
       /\ held.pubcomps = p /\ held.current = c /\ held.pubcompSlots = k
       /\ held.rows = n.rows /\ held.stored = n.stored /\ held.bytes = n.bytes
       /\ held.autoAcks = n.autoAcks /\ held.waiting = n.waiting /\ held.acks = n.acks /\ held.order = n.order
       /\ held.refused = n.refused
  BY <1>5, <1>7, <1>8 DEF Sessions, SameTalk
<1>11. /\ t \in Sessions /\ t.handoff = h /\ SameTalk(held, t)
       /\ t.pubcomps = p /\ t.current = c /\ t.pubcompSlots = k
       /\ t.rows = held.rows /\ t.stored = held.stored /\ t.bytes = held.bytes
       /\ t.autoAcks = held.autoAcks /\ t.waiting = held.waiting /\ t.acks = held.acks /\ t.order = held.order
       /\ t.refused = held.refused
  BY <1>9, <1>10 DEF Sessions, SameTalk
<1>12. t = CompleteQos2(s, mid, expected)
  <2>1. held = [n EXCEPT !.pubcomps = @ \cup {mid}, !.current = @ \ {mid},
                         !.pubcompSlots = IF mid \in n.current THEN @ + 1 ELSE @]
    BY <1>5, <1>6, <1>8 DEF Sessions
  <2>2. t = [held EXCEPT !.handoff = @ \/ (mid \in n.current /\ Inflight(held) >= ReceiveMaximum)]
    BY <1>c, <1>9
  <2>3. t = HoldUntilHandoff(n, mid)
    BY <2>1, <2>2 DEF HoldUntilHandoff
  <2> QED BY <1>3, <2>3 DEF CompleteQos2
<1>13. /\ t.rows = Drop(s.rows, {mid}) /\ t.stored = r.stored /\ t.bytes = r.bytes
       /\ t.pubcomps = s.pubcomps \cup {mid} /\ t.current = s.current \ {mid}
       /\ t.autoAcks = s.autoAcks /\ t.acks = s.acks /\ t.order = s.order
       /\ t.waiting = [s.waiting EXCEPT ![mid] = "none"] /\ t.tokens = [s.tokens EXCEPT ![mid] = NoToken]
       /\ t.refused = s.refused /\ t.replay = s.replay /\ t.recovered = s.recovered /\ t.emits = s.emits
       /\ t.pubcompSlots = (IF mid \in s.current THEN s.pubcompSlots + 1 ELSE s.pubcompSlots)
  <2>1. /\ t.rows = r.rows /\ t.stored = r.stored /\ t.bytes = r.bytes
        /\ t.pubcomps = r.pubcomps \cup {mid} /\ t.current = r.current \ {mid}
        /\ t.autoAcks = r.autoAcks /\ t.acks = r.acks /\ t.order = r.order
        /\ t.waiting = r.waiting /\ t.tokens = r.tokens
        /\ t.refused = r.refused /\ t.replay = r.replay /\ t.recovered = r.recovered /\ t.emits = r.emits
    BY <1>5, <1>6, <1>10, <1>11 DEF SameBooks, SameTalk
  <2>2. t.pubcompSlots = (IF mid \in r.current THEN r.pubcompSlots + 1 ELSE r.pubcompSlots)
    BY <1>5, <1>6, <1>11 DEF SameBooks
  <2> QED BY <1>4, <2>1, <2>2 DEF IsRetired, SameButRow
<1>14. Ledger(t)
  BY <1>4, <1>13 DEF Ledger, IsRetired
<1>15. RowGone(s, mid, t)
  BY <1>1, <1>13, RowGoes
<1>16. WaitInv(t, m)
  <2>1. t.current \subseteq s.current
    BY <1>13
  <2> QED BY <1>1, <1>2, <1>13, <2>1, DropWait
<1>17. SlotInv(t, m)
  BY <1>1, <1>2, <1>11, <1>13, <1>15, CompletedSlots
<1> QED BY <1>11, <1>12, <1>13, <1>14, <1>15, <1>16, <1>17 DEF Core, IsCompleted

\* The order of acknowledgement does not see an exchange that was not in it.
LEMMA CompletedGood ==
    ASSUME NEW s, NEW m \in BOOLEAN, Good(s, m), NEW mid, NEW t, IsCompleted(s, mid, m, t),
           m => mid \notin PubackMids(s.rows)
    PROVE  Good(t, m)
<1>1. OrderInv(t, m)
  <2> SUFFICES ASSUME m PROVE t.order = PubackOrder(t.rows) /\ t.acks \subseteq PubackMids(t.rows)
    BY DEF OrderInv
  <2>1. s.order = PubackOrder(s.rows) /\ s.acks \subseteq PubackMids(s.rows)
    BY DEF Good, OrderInv
  <2>2. PubackOrder(t.rows) = PubackOrder(s.rows) /\ t.order = s.order /\ t.acks = s.acks
    BY DEF IsCompleted, RowGone
  <2>3. \A x : x \in PubackMids(t.rows) <=> x \in PubackMids(s.rows) /\ x # mid
    BY DEF IsCompleted, RowGone
  <2> QED BY <2>1, <2>2, <2>3
<1>2. HeadInv(t, m)
  BY DEF HeadInv, Good, IsCompleted
<1> QED BY <1>1, <1>2 DEF Good, IsCompleted

-----------------------------------------------------------------------------
(* PUBLISH and PUBREL.                                                     *)

\* A packet is answered, and the books are right.
Answered(m, t) == Good(t, m) /\ t.refused # "internal"

\* An error keeps the books.
LEMMA RefuseGood ==
    ASSUME NEW s, NEW m, Good(s, m), NEW why \in Reasons
    PROVE  Good(Refuse(s, why), m) /\ Refuse(s, why).refused = why
<1>1. s \in Sessions
  BY DEF Good, Core
<1>2. Refuse(s, why) \in Sessions /\ SameBooks(s, Refuse(s, why)) /\ Refuse(s, why).refused = why
  BY <1>1, RefuseIs
<1> QED BY <1>2, SameGood

\* So does a packet,
LEMMA SendGood ==
    ASSUME NEW s, NEW m, Good(s, m), NEW type \in {"PUBREC", "PUBACK", "PUBCOMP"}, NEW mid \in Mid
    PROVE  Good(Send(s, type, mid), m) /\ Send(s, type, mid).refused = s.refused
<1>1. s \in Sessions
  BY DEF Good, Core
<1>2. /\ Send(s, type, mid) \in Sessions /\ SameBooks(s, Send(s, type, mid))
      /\ Send(s, type, mid).refused = s.refused
  BY <1>1, SendIs
<1> QED BY <1>2, SameGood

\* and a delivery.
LEMMA EmitGood ==
    ASSUME NEW s, NEW m, Good(s, m), NEW row \in Row, Around
    PROVE  Good(Emit(s, row), m) /\ Emit(s, row).refused = s.refused
<1>1. s \in Sessions
  BY DEF Good, Core
<1>2. IsEmit(s, row, Emit(s, row))
  BY <1>1, EmitIs
<1>3. Emit(s, row) \in Sessions /\ SameBooks(s, Emit(s, row)) /\ Emit(s, row).refused = s.refused
  BY <1>2 DEF IsEmit
<1> QED BY <1>3, SameGood

\* The identifiers in the order of acknowledgement are those of WAIT_PUBACK rows.
LEMMA OrderOwned ==
    ASSUME NEW s, NEW m \in BOOLEAN, m, s \in Sessions, OrderInv(s, m)
    PROVE  /\ s.order \in Seq(Mid) /\ \A x : Has(s.order, x) <=> x \in PubackMids(s.rows)
           /\ s.order # <<>> => Head(s.order) \in PubackMids(s.rows)
<1>1. PICK rows \in Seq(Row) : rows = s.rows
  BY SessionTyped
<1>2. PICK o : o = PubackOrder(rows)
  OBVIOUS
<1>3. o \in Seq(Mid) /\ \A x : Has(o, x) <=> x \in PubackMids(rows)
  BY <1>2, OrderIs
<1>4. o # <<>> => Has(o, Head(o))
  <2> SUFFICES ASSUME o # <<>> PROVE Has(o, Head(o))
    OBVIOUS
  <2>1. 1 \in 1..Len(o) /\ Head(o) = o[1]
    BY <1>3
  <2> QED BY <2>1 DEF Has
<1>5. s.order = o
  BY <1>1, <1>2 DEF OrderInv
<1> QED BY <1>1, <1>3, <1>4, <1>5

\* The WAIT_PUBACK rows
LEMMA PubackRows ==
    ASSUME NEW s \in Sessions, Ledger(s)
    PROVE  /\ \A x : x \in PubackMids(s.rows) <=>
                \E r : Has(s.rows, r) /\ r.mid = x /\ r.state = "WAIT_PUBACK"
           /\ \A r : Has(s.rows, r) /\ r.state # "WAIT_PUBACK" => r.mid \notin PubackMids(s.rows)
           /\ PubackMids(s.rows) \subseteq Mids(s.rows)
<1>1. PICK rows \in Seq(Row) : rows = s.rows
  BY SessionTyped
<1>2. Keyed(rows)
  BY <1>1 DEF Ledger
<1>3. /\ \A x : x \in PubackMids(rows) <=>
            \E i \in 1..Len(rows) : rows[i].mid = x /\ rows[i].state = "WAIT_PUBACK"
      /\ \A x : x \in Mids(rows) <=> Owns(rows, x)
  BY MidsOwned
<1>4. \A x : x \in PubackMids(rows) <=>
                \E r : Has(rows, r) /\ r.mid = x /\ r.state = "WAIT_PUBACK"
  BY <1>3 DEF Has
<1>5. \A r : Has(rows, r) /\ r.state # "WAIT_PUBACK" => r.mid \notin PubackMids(rows)
  BY <1>2, <1>4 DEF Has, Keyed
<1>6. PubackMids(rows) \subseteq Mids(rows)
  BY <1>3 DEF Owns
<1> QED BY <1>1, <1>4, <1>5, <1>6

\* A stored exchange is counted on this connection.
LEMMA CountedSlots ==
    ASSUME NEW s, NEW m, Core(s, m), s.refused = "none", NEW mid, mid \in Mids(s.rows), NEW t,
           IsAcquireCurrent(s, mid, t), ~Refused(t)
    PROVE  t \in Sessions /\ Ledger(t) /\ SlotInv(t, m)
<1>1. s \in Sessions /\ Ledger(s) /\ SlotInv(s, m)
  BY DEF Core
<1>2. t \in Sessions /\ SameButBytes(s, t) /\ t.current = s.current \cup {mid} /\ t.bytes = s.bytes
      /\ Inflight(t) <= ReceiveMaximum
  BY DEF IsAcquireCurrent
<1>3. Ledger(t)
  BY <1>1, <1>2 DEF Ledger, SameButBytes
<1>4. t.current \subseteq Mids(t.rows)
  BY <1>1, <1>2 DEF SlotInv, SameButBytes
<1>5. SlotInv(t, m)
  BY <1>1, <1>2, <1>4 DEF SlotInv, SameButBytes
<1> QED BY <1>2, <1>3, <1>5

\* A QoS 2 PUBLISH for an identifier that owns a row
LEMMA RepeatedQos2Good ==
    ASSUME NEW s, NEW m \in BOOLEAN, Good(s, m), s.refused = "none", NEW mid, Stored(s, mid)
    PROVE  Answered(m, RepeatedQos2(s, mid))
<1>1. s \in Sessions /\ Ledger(s) /\ SlotInv(s, m) /\ WaitInv(s, m) /\ Core(s, m) /\ OrderInv(s, m) /\ HeadInv(s, m)
  BY DEF Good, Core
<1>2. PICK row : row = RowOf(s, mid)
  OBVIOUS
<1>3. Has(s.rows, row) /\ row.mid = mid /\ row \in Row /\ mid \in Mid /\ mid \in Mids(s.rows)
  BY <1>1, <1>2, StoredRow
<1>4. PICK a : a = AcquireCurrent(s, mid)
  OBVIOUS
<1>5. IsAcquireCurrent(s, mid, a)
  <2>1. Inflight(s) <= ReceiveMaximum
    BY <1>1 DEF SlotInv
  <2> QED BY <1>1, <1>3, <1>4, <2>1, AcquireCurrentIs
<1>6. PICK t : t = RepeatedQos2(s, mid)
  OBVIOUS
<1>7. t = IF StoredAs(s, mid, {"WAIT_PUBACK", "WAIT_USER_ACK"}) \/ s.waiting[mid] # "none"
          THEN Refuse(s, "0x82") ELSE IF Refused(a) THEN a ELSE Send(a, "PUBREC", mid)
  BY <1>4, <1>6 DEF RepeatedQos2
<1>8. CASE t = Refuse(s, "0x82")
  BY <1>6, <1>8, RefuseGood DEF Answered, Reasons
<1>9. CASE t = a /\ Refused(a)
  <2>1. a \in Sessions /\ SameBooks(s, a) /\ a.refused \in {"0x93", "0x97"}
    BY <1>5, <1>9 DEF IsAcquireCurrent
  <2> QED BY <1>6, <1>9, <2>1, SameGood DEF Answered
<1>10. CASE t = Send(a, "PUBREC", mid) /\ ~Refused(a) /\ ~StoredAs(s, mid, {"WAIT_PUBACK", "WAIT_USER_ACK"})
  <2>1. a \in Sessions /\ Ledger(a) /\ SlotInv(a, m)
    BY <1>1, <1>3, <1>5, <1>10, CountedSlots
  <2>2. SameButBytes(s, a) /\ a.current = s.current \cup {mid} /\ a.refused = "none"
    BY <1>5, <1>10 DEF IsAcquireCurrent
  <2>3. row.state # "WAIT_PUBACK"
    BY <1>2, <1>10 DEF StoredAs
  <2>4. mid \notin PubackMids(s.rows)
    BY <1>1, <1>3, <2>3, PubackRows
  <2>5. WaitInv(a, m)
    <3>1. \A r \in Row : Has(s.rows, r) /\ r.state = "WAIT_PUBACK" => r.mid # mid
      BY <1>1, <2>4, PubackRows
    <3>2. a.rows = s.rows /\ a.waiting = s.waiting
      BY <2>2 DEF SameButBytes
    <3> QED BY <1>1, <2>2, <3>1, <3>2 DEF WaitInv
  <2>6. OrderInv(a, m)
    BY <1>1, <2>2 DEF OrderInv, SameButBytes
  <2>7. HeadInv(a, m)
    <3> SUFFICES ASSUME m, s.order # <<>> PROVE Head(s.order) \notin s.acks \cap a.current
      BY <2>2 DEF HeadInv, SameButBytes
    <3>1. Head(s.order) # mid
      BY <1>1, <2>4, OrderOwned
    <3> QED BY <1>1, <2>2, <3>1 DEF HeadInv
  <2>8. Good(a, m)
    BY <2>1, <2>5, <2>6, <2>7 DEF Good, Core
  <2>9. Good(Send(a, "PUBREC", mid), m) /\ Send(a, "PUBREC", mid).refused = "none"
    BY <1>3, <2>2, <2>8, SendGood
  <2> QED BY <1>6, <1>10, <2>9 DEF Answered
<1> QED BY <1>7, <1>8, <1>9, <1>10

\* A new exchange: its row, its bytes and its slot
IsNew(s, row, t) ==
    /\ t \in Sessions
    /\ t.rows = Append(s.rows, row) /\ t.stored = s.stored + 1 /\ t.bytes = s.bytes + SizeOf[row.msg]
    /\ t.current = s.current \cup {row.mid} /\ Inflight(s) < ReceiveMaximum
    /\ t.autoAcks = s.autoAcks /\ t.pubcomps = s.pubcomps /\ t.pubcompSlots = s.pubcompSlots
    /\ t.handoff => s.handoff \/ s.autoAcks \cup s.pubcomps # {}
    /\ t.waiting = s.waiting /\ t.acks = s.acks /\ t.refused = "none"
    /\ t.order = IF row.state = "WAIT_PUBACK" THEN Append(s.order, row.mid) ELSE s.order

\* The books with a new exchange
LEMMA NewGood ==
    ASSUME NEW s, NEW m \in BOOLEAN, Good(s, m), NEW row \in Row, NEW t, IsNew(s, row, t),
           ~Stored(s, row.mid), row.mid \notin s.autoAcks \cup s.pubcomps,
           row.state = "WAIT_PUBACK" => m
    PROVE  Good(t, m)
<1>1. s \in Sessions /\ Ledger(s) /\ SlotInv(s, m) /\ WaitInv(s, m) /\ OrderInv(s, m) /\ HeadInv(s, m)
  BY DEF Good, Core
<1>2. PICK rows \in Seq(Row) : rows = s.rows
  BY <1>1, SessionTyped
<1>3. PICK mid, u : mid = row.mid /\ u = Append(rows, row)
  OBVIOUS
<1>4. mid \in Mid /\ ~Owns(rows, mid) /\ mid \notin Mids(rows) /\ Keyed(rows)
  BY <1>1, <1>2, <1>3, StoredRow DEF Row, Ledger
<1>5. t.rows = u /\ t \in Sessions
  BY <1>2, <1>3 DEF IsNew
<1>6. /\ u \in Seq(Row) /\ Len(u) = Len(rows) + 1
      /\ Sizes(u) = Sizes(rows) + SizeOf[row.msg]
      /\ \A k : Owns(u, k) <=> Owns(rows, k) \/ k = mid
      /\ Keyed(u)
  BY <1>3, <1>4, RowsAppend
<1>7. PubackOrder(u) = IF row.state = "WAIT_PUBACK" THEN Append(PubackOrder(rows), mid) ELSE PubackOrder(rows)
  BY <1>3, <1>4, OrderAppend
<1>8. \A r : Has(u, r) <=> Has(rows, r) \/ r = row
  BY <1>3, HasAppend
<1>9. Ledger(t)
  BY <1>1, <1>2, <1>5, <1>6 DEF Ledger, IsNew
<1>10. \A k : k \in Mids(u) <=> k \in Mids(rows) \/ k = mid
  BY <1>6, MidsOwned
<1>11. PubackMids(rows) \subseteq PubackMids(u) /\ (\A k \in PubackMids(u) : k \in PubackMids(rows) \/ k = mid)
       /\ mid \notin PubackMids(rows)
  <2>1. \A k : k \in PubackMids(rows) <=> \E r : Has(rows, r) /\ r.mid = k /\ r.state = "WAIT_PUBACK"
    BY <1>1, <1>2, PubackRows
  <2>2. \A k : k \in PubackMids(u) <=> \E r : Has(u, r) /\ r.mid = k /\ r.state = "WAIT_PUBACK"
    BY <1>5, <1>9, PubackRows
  <2>3. mid \notin PubackMids(rows)
    BY <1>1, <1>2, <1>4, PubackRows
  <2> QED BY <1>3, <1>8, <2>1, <2>2, <2>3
<1>12. OrderInv(t, m)
  <2> SUFFICES ASSUME m PROVE t.order = PubackOrder(u) /\ t.acks \subseteq PubackMids(u)
    BY <1>5 DEF OrderInv
  <2>1. s.order = PubackOrder(rows) /\ s.acks \subseteq PubackMids(rows)
    BY <1>1, <1>2 DEF OrderInv
  <2> QED BY <1>3, <1>7, <1>11, <2>1 DEF IsNew
<1>13. HeadInv(t, m)
  <2> SUFFICES ASSUME m, t.order # <<>> PROVE Head(t.order) \notin t.acks \cap t.current
    BY DEF HeadInv
  <2>1. s.acks \subseteq PubackMids(rows) /\ s.order \in Seq(Mid) /\ t.acks = s.acks /\ t.current = s.current \cup {mid}
    BY <1>1, <1>2, <1>3, OrderOwned DEF OrderInv, IsNew
  <2>2. CASE s.order = <<>> /\ t.order # s.order
    <3>1. t.order = Append(s.order, mid)
      BY <1>3, <2>2 DEF IsNew
    <3>2. Head(t.order) = mid
      BY <2>2, <3>1
    <3> QED BY <1>11, <2>1, <3>2
  <2>3. CASE s.order # <<>>
    <3>1. Head(s.order) \in PubackMids(rows)
      BY <1>1, <1>2, <2>3, OrderOwned
    <3>2. Head(t.order) = Head(s.order)
      <4>1. Head(Append(s.order, mid)) = Head(s.order)
        BY <1>4, <2>1, <2>3
      <4> QED BY <1>3, <4>1 DEF IsNew
    <3>3. Head(s.order) \notin s.acks \cap s.current
      BY <1>1, <2>3 DEF HeadInv
    <3> QED BY <1>11, <2>1, <3>1, <3>2, <3>3
  <2> QED BY <2>2, <2>3
<1>14. WaitInv(t, m)
  <2>1. ASSUME NEW k \in Mid, t.waiting[k] # "none"
        PROVE  ~m /\ \E r \in Row : Has(u, r) /\ r.mid = k /\ r.state = t.waiting[k] /\ ~r.delivered
    <3>1. t.waiting = s.waiting
      BY DEF IsNew
    <3> QED BY <1>1, <1>2, <1>8, <2>1, <3>1 DEF WaitInv
  <2>2. ASSUME ~m, NEW r \in Row, Has(u, r), r.state = "WAIT_PUBACK", r.mid \in t.current
        PROVE  t.waiting[r.mid] # "none"
    <3>1. r # row
      BY <2>2
    <3>2. Has(rows, r)
      BY <1>8, <2>2, <3>1
    <3>3. r.mid # mid
      BY <1>4, <3>2 DEF Has, Owns
    <3>4. r.mid \in s.current /\ t.waiting = s.waiting
      BY <1>3, <2>2, <3>3 DEF IsNew
    <3> QED BY <1>1, <1>2, <2>2, <3>2, <3>4 DEF WaitInv
  <2> QED BY <1>5, <2>1, <2>2 DEF WaitInv
<1>15. SlotInv(t, m)
  <2>1. PICK c \in SUBSET Mid : c = s.current
    BY <1>1, SessionTyped
  <2>2. mid \notin c
    BY <1>1, <1>2, <1>4, <2>1 DEF SlotInv
  <2>3. PICK x \in Nat, y \in Nat, z \in Nat : x = Cardinality(c) /\ y = Cardinality(s.autoAcks) /\ z = s.pubcompSlots
    BY <1>1, <2>1, InflightTyped, SessionTyped
  <2>4. Cardinality(c \cup {mid}) = x + 1
    BY <1>4, <2>2, <2>3, SlotAdded
  <2>5. x + y + z < ReceiveMaximum
    BY <2>1, <2>3 DEF Inflight, IsNew
  <2>6. Inflight(t) = (x + 1) + y + z
    BY <1>3, <2>1, <2>3, <2>4 DEF Inflight, IsNew
  <2>7. Inflight(t) <= ReceiveMaximum
    BY <2>5, <2>6, InboundAssumptions
  <2>8. t.current \subseteq Mids(u) /\ (t.autoAcks \cup t.pubcomps) \cap Mids(u) = {}
    BY <1>1, <1>2, <1>3, <1>10 DEF SlotInv, IsNew
  <2> QED BY <1>1, <1>5, <2>7, <2>8 DEF SlotInv, IsNew
<1> QED BY <1>5, <1>9, <1>12, <1>13, <1>14, <1>15 DEF Good, Core

\* The first PUBLISH of a persisted exchange
LEMMA BegunGood ==
    ASSUME NEW s, NEW m \in BOOLEAN, Good(s, m), s.refused = "none", Around,
           NEW mid \in Mid, NEW msg \in Message, NEW state \in {"WAIT_PUBREL", "WAIT_PUBACK"},
           ~Stored(s, mid), mid \notin s.autoAcks \cup s.pubcomps, state = "WAIT_PUBACK" => m
    PROVE  Answered(m, Begun(s, mid, msg, state))
<1>1. s \in Sessions
  BY DEF Good, Core
<1>2. PICK row : row = [mid |-> mid, msg |-> msg, state |-> state, delivered |-> FALSE, acked |-> FALSE]
  OBVIOUS
<1>3. row \in Row /\ row.mid = mid /\ row.msg = msg /\ row.state = state
  BY <1>2 DEF Row, RowState
<1>4. PICK size \in Nat : size = SizeOf[msg]
  BY InboundAssumptions
<1>5. PICK a, t : a = Acquire(s, size) /\ t = Begun(s, mid, msg, state)
  OBVIOUS
<1>6. IsAcquire(s, size, a)
  BY <1>1, <1>5, AcquireIs
<1>7. PICK tok \in Nat : tok = FreshToken(s)
  BY <1>1, FreshTokenIs
<1>8. CASE Refused(a)
  <2>1. t = a
    BY <1>4, <1>5, <1>8 DEF Begun
  <2>2. a \in Sessions /\ SameBooks(s, a) /\ a.refused \in {"0x93", "0x97"}
    BY <1>6, <1>8 DEF IsAcquire
  <2> QED BY <1>5, <2>1, <2>2, SameGood DEF Answered
<1>9. CASE ~Refused(a)
  <2>1. /\ a \in Sessions /\ SameTalk(s, a) /\ SameButBytes(s, a) /\ a.current = s.current /\ a.refused = "none"
        /\ a.bytes = s.bytes + size /\ Inflight(s) < ReceiveMaximum
    BY <1>6, <1>9 DEF IsAcquire
  <2>2. PICK b : b = [a EXCEPT !.rows = Append(@, row), !.stored = @ + 1,
                       !.current = @ \cup {mid}, !.tokens[mid] = tok]
    OBVIOUS
  <2>3. PICK u, c, tk : u = Append(s.rows, row) /\ c = s.current \cup {mid} /\ tk = [s.tokens EXCEPT ![mid] = tok]
    OBVIOUS
  <2>4. u \in Seq(Row) /\ c \in SUBSET Mid /\ tk \in [Mid -> Nat] /\ s.stored + 1 \in Nat
    BY <1>1, <1>3, <2>3, SessionTyped
  <2>5. b = [a EXCEPT !.rows = u, !.stored = s.stored + 1, !.current = c, !.tokens = tk]
    BY <2>1, <2>2, <2>3 DEF SameTalk, SameButBytes
  <2>6. /\ b \in Sessions /\ b.rows = u /\ b.stored = s.stored + 1 /\ b.current = c
        /\ b.bytes = a.bytes /\ b.autoAcks = a.autoAcks /\ b.pubcomps = a.pubcomps
        /\ b.pubcompSlots = a.pubcompSlots /\ b.handoff = a.handoff /\ b.waiting = a.waiting
        /\ b.acks = a.acks /\ b.order = a.order /\ b.refused = a.refused
    BY <2>1, <2>4, <2>5 DEF Sessions
  <2>7. PICK d : d = IF state = "WAIT_PUBREL" THEN b ELSE [b EXCEPT !.order = Append(@, mid)]
    OBVIOUS
  <2>8. IsNew(s, row, d)
    <3>1. CASE state = "WAIT_PUBREL"
      BY <1>3, <1>4, <2>1, <2>3, <2>6, <2>7, <3>1 DEF IsNew, SameButBytes
    <3>2. CASE state = "WAIT_PUBACK"
      <4>1. PICK o : o = Append(s.order, mid)
        OBVIOUS
      <4>2. o \in Seq(Mid)
        BY <1>1, <4>1, SessionTyped
      <4>3. d = [b EXCEPT !.order = o]
        BY <2>1, <2>6, <2>7, <3>2, <4>1 DEF SameButBytes
      <4>4. /\ d \in Sessions /\ d.rows = u /\ d.stored = s.stored + 1 /\ d.current = c
            /\ d.bytes = a.bytes /\ d.autoAcks = a.autoAcks /\ d.pubcomps = a.pubcomps
            /\ d.pubcompSlots = a.pubcompSlots /\ d.handoff = a.handoff /\ d.waiting = a.waiting
            /\ d.acks = a.acks /\ d.order = o /\ d.refused = a.refused
        BY <2>6, <4>2, <4>3 DEF Sessions
      <4> QED BY <1>3, <1>4, <2>1, <2>3, <3>2, <4>1, <4>4 DEF IsNew, SameButBytes
    <3> QED BY <3>1, <3>2
  <2>9. Good(d, m) /\ d.refused = "none"
    <3>1. Good(d, m)
      BY <1>3, <2>8, NewGood
    <3> QED BY <2>8, <3>1 DEF IsNew
  <2>10. PICK e : e = IF state = "WAIT_PUBREL" THEN Send(d, "PUBREC", mid) ELSE d
    OBVIOUS
  <2>11. Good(e, m) /\ e.refused = "none"
    <3>1. Good(Send(d, "PUBREC", mid), m) /\ Send(d, "PUBREC", mid).refused = "none"
      BY <2>9, SendGood
    <3> QED BY <2>9, <2>10, <3>1
  <2>12. t = Emit(e, row)
    BY <1>2, <1>4, <1>5, <1>7, <1>9, <2>2, <2>7, <2>10 DEF Begun
  <2>13. Good(Emit(e, row), m) /\ Emit(e, row).refused = "none"
    BY <1>3, <2>11, EmitGood
  <2> QED BY <1>5, <2>12, <2>13 DEF Answered
<1> QED BY <1>8, <1>9

\* A QoS 2 PUBLISH
LEMMA OnQos2Good ==
    ASSUME NEW s, NEW m \in BOOLEAN, Good(s, m), s.refused = "none", Around,
           NEW mid \in Mid, NEW msg \in Message
    PROVE  Answered(m, OnQos2(s, mid, msg))
<1>1. CASE Stored(s, mid)
  <2>1. Answered(m, RepeatedQos2(s, mid))
    BY <1>1, RepeatedQos2Good
  <2> QED BY <1>1, <2>1 DEF OnQos2
<1>2. CASE ~Stored(s, mid) /\ mid \in s.pubcomps \cup s.autoAcks
  <2>1. Good(Refuse(s, "0x82"), m) /\ Refuse(s, "0x82").refused = "0x82"
    BY RefuseGood DEF Reasons
  <2> QED BY <1>2, <2>1 DEF OnQos2, Answered
<1>3. CASE ~Stored(s, mid) /\ mid \notin s.pubcomps \cup s.autoAcks
  <2>1. Answered(m, Begun(s, mid, msg, "WAIT_PUBREL"))
    BY <1>3, BegunGood
  <2> QED BY <1>3, <2>1 DEF OnQos2
<1> QED BY <1>1, <1>2, <1>3

\* An acknowledgement in the engine batch holds the slot.
LEMMA AutoSlots ==
    ASSUME NEW s \in Sessions, NEW t \in Sessions, SlotInv(s, FALSE), NEW mid \in Mid,
           t.current = s.current, t.autoAcks = s.autoAcks \cup {mid}, t.pubcomps = s.pubcomps,
           t.pubcompSlots = s.pubcompSlots, mid \in s.autoAcks \/ Inflight(s) < ReceiveMaximum,
           mid \notin s.pubcomps, mid \notin Mids(t.rows),
           \A k : k \in Mids(t.rows) => k \in Mids(s.rows), s.current \subseteq Mids(t.rows)
    PROVE  SlotInv(t, FALSE)
<1>1. PICK a \in SUBSET Mid : a = s.autoAcks
  BY SessionTyped
<1>2. PICK x \in Nat, y \in Nat, z \in Nat : x = Cardinality(s.current) /\ y = Cardinality(a) /\ z = s.pubcompSlots
  BY <1>1, InflightTyped, SessionTyped
<1>3. Cardinality(a \cup {mid}) = IF mid \in a THEN y ELSE y + 1
  BY <1>2, SlotAdded
<1>4. Inflight(s) = x + y + z /\ Inflight(t) = x + Cardinality(a \cup {mid}) + z
  BY <1>1, <1>2 DEF Inflight
<1>5. Inflight(s) <= ReceiveMaximum /\ ReceiveMaximum \in Nat
  BY InboundAssumptions DEF SlotInv
<1>6. Inflight(t) <= ReceiveMaximum
  <2>1. CASE mid \in a
    BY <1>3, <1>4, <1>5, <2>1
  <2>2. CASE mid \notin a
    <3>1. x + y + z < ReceiveMaximum
      BY <1>1, <1>4, <2>2
    <3>2. Inflight(t) = x + (y + 1) + z
      BY <1>3, <1>4, <2>2
    <3> QED BY <1>5, <3>1, <3>2
  <2> QED BY <2>1, <2>2
<1>7. (t.autoAcks \cup t.pubcomps) \cap Mids(t.rows) = {} /\ t.autoAcks \cap t.pubcomps = {}
  BY DEF SlotInv
<1>8. t.current \subseteq Mids(t.rows) /\ t.pubcompSlots <= Cardinality(t.pubcomps)
      /\ t.autoAcks \cup t.pubcomps # {}
  BY DEF SlotInv
<1> QED BY <1>6, <1>7, <1>8 DEF SlotInv

\* Without manual acknowledgement only the ledger, the slots and the waits are kept.
LEMMA AutoGood ==
    ASSUME NEW s, Core(s, FALSE)
    PROVE  Good(s, FALSE)
  BY DEF Good, OrderInv, HeadInv

\* A QoS 1 PUBLISH that no row is kept for
LEMMA AutoAckedGood ==
    ASSUME NEW s, Good(s, FALSE), s.refused = "none", NEW mid \in Mid, NEW msg \in Message,
           ~Stored(s, mid), mid \notin s.pubcomps
    PROVE  Answered(FALSE, AutoAcked(s, mid, msg))
<1>1. s \in Sessions /\ Ledger(s) /\ SlotInv(s, FALSE) /\ WaitInv(s, FALSE)
  BY DEF Good, Core
<1>2. PICK b, t : b = Acquire(s, 0) /\ t = AutoAcked(s, mid, msg)
  OBVIOUS
<1>3. IsAcquire(s, 0, b)
  BY <1>1, <1>2, AcquireIs
<1>4. PICK a : a = IF mid \in s.autoAcks THEN s ELSE b
  OBVIOUS
<1>5. CASE Refused(a)
  <2>1. mid \notin s.autoAcks /\ a = b
    BY <1>4, <1>5 DEF Refused
  <2>2. t = b
    BY <1>2, <1>4, <1>5, <2>1 DEF AutoAcked
  <2>3. b \in Sessions /\ SameBooks(s, b) /\ b.refused \in {"0x93", "0x97"}
    BY <1>3, <1>5, <2>1 DEF IsAcquire
  <2> QED BY <1>2, <2>2, <2>3, SameGood DEF Answered
<1>6. CASE ~Refused(a)
  <2>1. /\ a \in Sessions /\ SameButBytes(s, a) /\ a.current = s.current /\ a.refused = "none"
        /\ a.bytes = s.bytes /\ (mid \in s.autoAcks \/ Inflight(s) < ReceiveMaximum)
    <3>1. CASE mid \in s.autoAcks
      BY <1>1, <1>4, <3>1 DEF SameButBytes
    <3>2. CASE mid \notin s.autoAcks
      <4>1. s.bytes + 0 = s.bytes
        BY <1>1, SessionTyped
      <4> QED BY <1>3, <1>4, <1>6, <3>2, <4>1 DEF IsAcquire
    <3> QED BY <3>1, <3>2
  <2>2. PICK n : n = Send(a, "PUBACK", mid)
    OBVIOUS
  <2>3. n \in Sessions /\ SameBooks(a, n) /\ n.refused = a.refused
    BY <2>1, <2>2, SendIs
  <2>4. PICK e : e = EmitUnmarked(n, mid, msg)
    OBVIOUS
  <2>5. IsEmitUnmarked(n, mid, msg, e)
    BY <2>3, <2>4, EmitUnmarkedIs
  <2>6. e \in Sessions /\ SameBooks(n, e) /\ e.refused = "none"
    BY <2>1, <2>3, <2>5 DEF IsEmitUnmarked
  <2>7. PICK c : c = s.autoAcks \cup {mid}
    OBVIOUS
  <2>8. PICK h \in BOOLEAN :
            h = (e.handoff \/ (mid \notin s.autoAcks /\ Inflight(s) + 1 >= ReceiveMaximum))
    OBVIOUS
  <2>9. t = [e EXCEPT !.autoAcks = c, !.handoff = h]
    <3>1. e.autoAcks = s.autoAcks
      BY <2>1, <2>3, <2>6 DEF SameBooks, SameButBytes
    <3> QED BY <1>2, <1>4, <1>6, <2>2, <2>4, <2>7, <2>8, <3>1 DEF AutoAcked
  <2>10. /\ t \in Sessions /\ t.autoAcks = c /\ t.rows = e.rows /\ t.stored = e.stored /\ t.bytes = e.bytes
         /\ t.current = e.current /\ t.pubcomps = e.pubcomps /\ t.pubcompSlots = e.pubcompSlots
         /\ t.waiting = e.waiting /\ t.refused = e.refused
    <3>1. c \in SUBSET Mid
      BY <1>1, <2>7, SessionTyped
    <3> QED BY <2>6, <2>8, <2>9, <3>1 DEF Sessions
  <2>11. /\ t.autoAcks = s.autoAcks \cup {mid} /\ t.rows = s.rows /\ t.stored = s.stored /\ t.bytes = s.bytes
         /\ t.current = s.current /\ t.pubcomps = s.pubcomps /\ t.pubcompSlots = s.pubcompSlots
         /\ t.waiting = s.waiting /\ t.refused = "none"
    BY <2>1, <2>3, <2>6, <2>7, <2>10 DEF SameBooks, SameButBytes
  <2>12. Ledger(t) /\ WaitInv(t, FALSE)
    BY <1>1, <2>11 DEF Ledger, WaitInv
  <2>13. SlotInv(t, FALSE)
    <3>1. mid \notin Mids(s.rows) /\ s.current \subseteq Mids(s.rows)
      BY <1>1, StoredRow DEF SlotInv
    <3> QED BY <1>1, <2>1, <2>10, <2>11, <3>1, AutoSlots
  <2>14. Good(t, FALSE)
    BY <2>10, <2>12, <2>13, AutoGood DEF Core
  <2> QED BY <1>2, <2>11, <2>14 DEF Answered
<1> QED BY <1>5, <1>6

\* A QoS 1 PUBLISH of an exchange that an earlier process left in the store
LEMMA RecoveredQos1Good ==
    ASSUME NEW s, Good(s, FALSE), s.refused = "none", NEW mid, StoredAs(s, mid, {"WAIT_PUBACK"})
    PROVE  Answered(FALSE, RecoveredQos1(s, mid))
<1>1. s \in Sessions /\ Ledger(s) /\ SlotInv(s, FALSE) /\ WaitInv(s, FALSE) /\ Core(s, FALSE)
  BY DEF Good, Core
<1>2. PICK row, t : row = RowOf(s, mid) /\ t = RecoveredQos1(s, mid)
  OBVIOUS
<1>3. /\ Has(s.rows, row) /\ row.mid = mid /\ row \in Row /\ mid \in Mid /\ mid \in Mids(s.rows)
      /\ row.state = "WAIT_PUBACK"
  BY <1>1, <1>2, StoredRow DEF StoredAs
<1>4. CASE s.waiting[mid] # "none"
  <2>1. t = s
    BY <1>2, <1>4 DEF RecoveredQos1
  <2> QED BY <1>2, <2>1 DEF Answered
<1>5. CASE s.waiting[mid] = "none" /\ ~row.delivered
  <2>1. PICK a : a = AcquireCurrent(s, mid)
    OBVIOUS
  <2>2. IsAcquireCurrent(s, mid, a)
    <3>1. Inflight(s) <= ReceiveMaximum
      BY <1>1 DEF SlotInv
    <3> QED BY <1>1, <1>3, <2>1, <3>1, AcquireCurrentIs
  <2>3. t = IF Refused(a) THEN a ELSE [a EXCEPT !.waiting[mid] = "WAIT_PUBACK"]
    BY <1>2, <1>5, <2>1 DEF RecoveredQos1
  <2>4. CASE Refused(a)
    <3>1. a \in Sessions /\ SameBooks(s, a) /\ a.refused \in {"0x93", "0x97"} /\ t = a
      BY <2>2, <2>3, <2>4 DEF IsAcquireCurrent
    <3> QED BY <1>2, <3>1, SameGood DEF Answered
  <2>5. CASE ~Refused(a)
    <3>1. a \in Sessions /\ Ledger(a) /\ SlotInv(a, FALSE)
      BY <1>1, <1>3, <2>2, <2>5, CountedSlots
    <3>2. SameButBytes(s, a) /\ a.current = s.current \cup {mid} /\ a.refused = "none"
      BY <2>2, <2>5 DEF IsAcquireCurrent
    <3>3. PICK w : w = [s.waiting EXCEPT ![mid] = "WAIT_PUBACK"]
      OBVIOUS
    <3>4. w \in [Mid -> RowState \cup {"none"}] /\ \A k \in Mid : w[k] = IF k = mid THEN "WAIT_PUBACK" ELSE s.waiting[k]
      BY <1>1, <1>3, <3>3, SessionTyped DEF RowState
    <3>5. t = [a EXCEPT !.waiting = w]
      BY <2>3, <2>5, <3>2, <3>3 DEF SameButBytes
    <3>6. /\ t \in Sessions /\ t.waiting = w /\ t.rows = a.rows /\ t.stored = a.stored /\ t.bytes = a.bytes
          /\ t.current = a.current /\ t.autoAcks = a.autoAcks /\ t.pubcomps = a.pubcomps
          /\ t.pubcompSlots = a.pubcompSlots /\ t.handoff = a.handoff /\ t.refused = a.refused
      BY <3>1, <3>4, <3>5 DEF Sessions
    <3>7. Ledger(t)
      BY <3>1, <3>6 DEF Ledger
    <3>8. SlotInv(t, FALSE)
      BY <3>1, <3>6 DEF SlotInv, Inflight
    <3>9. WaitInv(t, FALSE)
      <4>1. t.rows = s.rows /\ t.waiting = w /\ t.current = s.current \cup {mid}
        BY <3>2, <3>6 DEF SameButBytes
      <4>2. \A k \in Mid : w[k] # "none" =>
              \E r \in Row : Has(s.rows, r) /\ r.mid = k /\ r.state = w[k] /\ ~r.delivered
        BY <1>1, <1>3, <1>5, <3>4 DEF WaitInv
      <4>3. \A r \in Row : Has(s.rows, r) /\ r.state = "WAIT_PUBACK" /\ r.mid \in s.current \cup {mid} => w[r.mid] # "none"
        <5> SUFFICES ASSUME NEW r \in Row, Has(s.rows, r), r.state = "WAIT_PUBACK", r.mid \in s.current \cup {mid}
                     PROVE  w[r.mid] # "none"
          OBVIOUS
        <5>1. r.mid \in Mid
          BY DEF Row
        <5>2. r.mid # mid => s.waiting[r.mid] # "none"
          BY <1>1 DEF WaitInv
        <5> QED BY <3>4, <5>1, <5>2
      <4> QED BY <4>1, <4>2, <4>3 DEF WaitInv
    <3>10. Good(t, FALSE) /\ t.refused = "none"
      BY <3>2, <3>6, <3>7, <3>8, <3>9, AutoGood DEF Core
    <3> QED BY <1>2, <3>10 DEF Answered
  <2> QED BY <2>4, <2>5
<1>6. CASE s.waiting[mid] = "none" /\ row.delivered
  <2>1. PICK a : a = Acquire(s, 0)
    OBVIOUS
  <2>2. IsAcquire(s, 0, a)
    BY <1>1, <2>1, AcquireIs
  <2>3. PICK r, n : r = Retired(a, mid, "WAIT_PUBACK") /\ n = Send(r, "PUBACK", mid)
    OBVIOUS
  <2>4. t = IF Refused(a) THEN a
            ELSE [n EXCEPT !.autoAcks = @ \cup {mid}, !.handoff = @ \/ (Inflight(s) + 1 >= ReceiveMaximum)]
    BY <1>2, <1>6, <2>1, <2>3 DEF RecoveredQos1
  <2>5. CASE Refused(a)
    <3>1. a \in Sessions /\ SameBooks(s, a) /\ a.refused \in {"0x93", "0x97"} /\ t = a
      BY <2>2, <2>4, <2>5 DEF IsAcquire
    <3> QED BY <1>2, <3>1, SameGood DEF Answered
  <2>6. CASE ~Refused(a)
    <3>1. /\ a \in Sessions /\ SameButBytes(s, a) /\ a.current = s.current /\ a.refused = "none"
          /\ a.bytes = s.bytes + 0 /\ Inflight(s) < ReceiveMaximum
      BY <2>2, <2>6 DEF IsAcquire
    <3>2. Ledger(a) /\ Has(a.rows, row) /\ a.rows = s.rows /\ a.waiting = s.waiting
      <4>1. s.bytes + 0 = s.bytes
        BY <1>1, SessionTyped
      <4> QED BY <1>1, <1>3, <3>1, <4>1 DEF Ledger, SameButBytes
    <3>3. IsRetired(a, mid, r)
      BY <1>3, <2>3, <3>1, <3>2, RetiredIs
    <3>4. r \in Sessions
      BY <3>3 DEF IsRetired
    <3>5. n \in Sessions /\ SameBooks(r, n) /\ n.refused = r.refused
      BY <1>3, <2>3, <3>4, SendIs
    <3>6. PICK c : c = s.autoAcks \cup {mid}
      OBVIOUS
    <3>7. PICK h \in BOOLEAN : h = (n.handoff \/ (Inflight(s) + 1 >= ReceiveMaximum))
      OBVIOUS
    <3>8. t = [n EXCEPT !.autoAcks = c, !.handoff = h]
      <4>1. n.autoAcks = s.autoAcks
        BY <3>1, <3>3, <3>5 DEF SameBooks, IsRetired, SameButRow, SameButBytes
      <4> QED BY <2>4, <2>6, <3>6, <3>7, <4>1
    <3>9. /\ t \in Sessions /\ t.autoAcks = c /\ t.rows = n.rows /\ t.stored = n.stored /\ t.bytes = n.bytes
          /\ t.current = n.current /\ t.pubcomps = n.pubcomps /\ t.pubcompSlots = n.pubcompSlots
          /\ t.waiting = n.waiting /\ t.refused = n.refused
      <4>1. c \in SUBSET Mid
        BY <1>1, <1>3, <3>6, SessionTyped
      <4> QED BY <3>5, <3>7, <3>8, <4>1 DEF Sessions
    <3>10. /\ t.rows = r.rows /\ t.stored = r.stored /\ t.bytes = r.bytes
           /\ t.current = r.current /\ t.pubcomps = r.pubcomps /\ t.pubcompSlots = r.pubcompSlots
           /\ t.waiting = r.waiting /\ t.refused = r.refused
      BY <3>5, <3>9 DEF SameBooks
    <3>11. /\ t.rows = Drop(s.rows, {mid}) /\ t.waiting = [s.waiting EXCEPT ![mid] = "none"]
           /\ t.current = s.current /\ t.pubcomps = s.pubcomps /\ t.pubcompSlots = s.pubcompSlots
           /\ t.refused = "none"
      BY <3>1, <3>2, <3>3, <3>10 DEF IsRetired, SameButRow, SameButBytes
    <3>12. Ledger(t)
      BY <3>3, <3>10 DEF Ledger, IsRetired
    <3>13. RowGone(s, mid, t)
      BY <1>1, <3>11, RowGoes
    <3>14. WaitInv(t, FALSE)
      <4>1. t.current \subseteq s.current
        BY <3>11
      <4> QED BY <1>1, <1>3, <3>11, <4>1, DropWait
    <3>15. mid \notin s.current
      BY <1>1, <1>3, <1>6 DEF WaitInv
    <3>16. SlotInv(t, FALSE)
      <4>1. mid \notin s.pubcomps /\ mid \notin Mids(t.rows) /\ s.current \subseteq Mids(t.rows)
            /\ \A k : k \in Mids(t.rows) => k \in Mids(s.rows)
        BY <1>1, <1>3, <3>13, <3>15 DEF SlotInv, RowGone
      <4> QED BY <1>1, <1>3, <3>1, <3>6, <3>9, <3>11, <4>1, AutoSlots
    <3>17. Good(t, FALSE)
      BY <3>9, <3>12, <3>14, <3>16, AutoGood DEF Core
    <3> QED BY <1>2, <3>11, <3>17 DEF Answered
  <2> QED BY <2>5, <2>6
<1> QED BY <1>4, <1>5, <1>6

\* A QoS 1 PUBLISH without manual acknowledgement
LEMMA OnQos1AutoGood ==
    ASSUME NEW s, Good(s, FALSE), s.refused = "none", NEW mid \in Mid, NEW msg \in Message
    PROVE  Answered(FALSE, OnQos1Auto(s, mid, msg))
<1>1. CASE StoredAs(s, mid, {"WAIT_PUBACK"})
  <2>1. Answered(FALSE, RecoveredQos1(s, mid))
    BY <1>1, RecoveredQos1Good
  <2> QED BY <1>1, <2>1 DEF OnQos1Auto
<1>2. CASE ~StoredAs(s, mid, {"WAIT_PUBACK"}) /\ (Stored(s, mid) \/ mid \in s.pubcomps)
  <2>1. Good(Refuse(s, "0x82"), FALSE) /\ Refuse(s, "0x82").refused = "0x82"
    BY RefuseGood DEF Reasons
  <2> QED BY <1>2, <2>1 DEF OnQos1Auto, Answered
<1>3. CASE ~StoredAs(s, mid, {"WAIT_PUBACK"}) /\ ~(Stored(s, mid) \/ mid \in s.pubcomps)
  <2>1. Answered(FALSE, AutoAcked(s, mid, msg))
    BY <1>3, AutoAckedGood
  <2> QED BY <1>3, <2>1 DEF OnQos1Auto
<1> QED BY <1>1, <1>2, <1>3

-----------------------------------------------------------------------------
(* Manual acknowledgement: the drain.                                      *)

\* A recursive function over a sequence exists.
IsIteration(f, A, G, a, q) ==
    /\ f \in [0..Len(q) -> A] /\ f[0] = a
    /\ \A n \in 1..Len(q) : f[n] = G[f[n - 1]][q[n]]
\* By induction over the sequence
LEMMA Iterates ==
    ASSUME NEW A, NEW E, NEW G \in [A -> [E -> A]], NEW a \in A
    PROVE  \A q \in Seq(E) : \E f : IsIteration(f, A, G, a, q)
<1> DEFINE Steps(f, q) == f[0] = a /\ \A n \in 1..Len(q) : f[n] = G[f[n - 1]][q[n]]
           B == {q \in Seq(E) : \E f \in [0..Len(q) -> A] : Steps(f, q)}
<1>1. <<>> \in B
  <2>1. PICK f : f = [n \in 0..0 |-> a]
    OBVIOUS
  <2>2. f \in [0..Len(<<>>) -> A] /\ f[0] = a /\ 1..Len(<<>>) = {}
    BY <2>1
  <2> QED BY <2>2, EmptySeq
<1>2. ASSUME NEW q \in Seq(E), NEW e \in E, q \in B
      PROVE  Append(q, e) \in B
  <2>1. PICK f \in [0..Len(q) -> A] : Steps(f, q)
    BY <1>2
  <2>2. PICK u, l : u = Append(q, e) /\ l = Len(q)
    OBVIOUS
  <2>3. l \in Nat /\ u \in Seq(E) /\ Len(u) = l + 1 /\ u[l + 1] = e /\ \A n \in 1..l : u[n] = q[n]
    BY <2>2
  <2>4. f \in [0..l -> A] /\ f[0] = a /\ (\A n \in 1..l : f[n] = G[f[n - 1]][q[n]]) /\ f[l] \in A
    BY <2>1, <2>2, <2>3
  <2>5. PICK z \in A : z = G[f[l]][e]
    BY <2>4
  <2>6. PICK g : g = [n \in 0..l + 1 |-> IF n = l + 1 THEN z ELSE f[n]]
    OBVIOUS
  <2>7. g \in [0..l + 1 -> A] /\ g[l + 1] = z /\ \A n \in 0..l : g[n] = f[n]
    BY <2>3, <2>4, <2>6
  <2>8. g[0] = a
    BY <2>3, <2>4, <2>7
  <2>9. ASSUME NEW n \in 1..l + 1 PROVE g[n] = G[g[n - 1]][u[n]]
    <3>1. CASE n = l + 1
      <4>1. n - 1 = l /\ g[l] = f[l] /\ u[n] = e /\ g[n] = z
        BY <2>3, <2>7, <3>1
      <4> QED BY <2>5, <4>1
    <3>2. CASE n # l + 1
      <4>1. n \in 1..l /\ n - 1 \in 0..l /\ n \in 0..l
        BY <2>3, <3>2
      <4>2. g[n] = f[n] /\ g[n - 1] = f[n - 1] /\ u[n] = q[n]
        BY <2>3, <2>7, <4>1
      <4> QED BY <2>4, <4>1, <4>2
    <3> QED BY <3>1, <3>2
  <2>10. Steps(g, u) /\ g \in [0..Len(u) -> A]
    BY <2>3, <2>7, <2>8, <2>9
  <2> QED BY <2>2, <2>3, <2>10
<1>3. \A q \in Seq(E) : q \in B
  <2> HIDE DEF B
  <2> QED BY <1>1, <1>2, InductiveSeqs
<1> QED BY <1>3 DEF IsIteration

\* What may be acknowledged now: a prefix of the order, and the longest such.
IsReady(s, n) ==
    /\ n \in 0..Len(s.order) /\ ReadyPrefix(s) = SubSeq(s.order, 1, n)
    /\ \A i \in 1..n : s.order[i] \in s.acks \cap s.current
    /\ n < Len(s.order) => s.order[n + 1] \notin s.acks \cap s.current
\* ReadyPrefix is such a prefix.
LEMMA ReadyIs ==
    ASSUME NEW s, s.order \in Seq(Mid)
    PROVE  \E n \in Nat : IsReady(s, n)
<1>1. PICK l \in Nat : l = Len(s.order)
  OBVIOUS
<1>2. PICK o, R : o = s.order /\ R = {n \in 0..Len(s.order) :
                    \A i \in 1..n : s.order[i] \in s.acks \cap s.current}
  OBVIOUS
<1>3. PICK B : B = {k \in Nat : k <= l /\ l - k \in R}
  OBVIOUS
<1>4. 0 \in R
  BY <1>1, <1>2
<1>5. l \in B /\ B \in SUBSET Nat
  BY <1>1, <1>3, <1>4
<1>6. PICK k \in B : \A j \in B : k <= j
  BY <1>5, LeastExists
<1>7. l - k \in R /\ k \in Nat /\ k <= l
  BY <1>3, <1>6
<1>8. \A y \in R : l - k >= y
  <2> SUFFICES ASSUME NEW y \in R PROVE l - k >= y
    OBVIOUS
  <2>1. y \in 0..l
    BY <1>1, <1>2
  <2>2. l - y \in Nat /\ l - y <= l /\ l - (l - y) = y
    BY <2>1
  <2>3. l - y \in B
    BY <1>3, <2>2
  <2> QED BY <1>6, <1>7, <2>1, <2>3
<1>9. PICK n : n = Max(R)
  OBVIOUS
<1>10. n \in R /\ \A y \in R : n >= y
  BY <1>7, <1>8, <1>9 DEF Max
<1>11. n \in Nat /\ n \in 0..l /\ \A i \in 1..n : o[i] \in s.acks \cap s.current
  BY <1>1, <1>2, <1>10
<1>12. ASSUME n < l PROVE o[n + 1] \notin s.acks \cap s.current
  <2> SUFFICES ASSUME o[n + 1] \in s.acks \cap s.current PROVE FALSE
    OBVIOUS
  <2>1. n + 1 \in 0..l
    BY <1>11, <1>12
  <2>2. \A i \in 1..n + 1 : i \in 1..n \/ i = n + 1
    BY <1>11
  <2>3. \A i \in 1..n + 1 : o[i] \in s.acks \cap s.current
    BY <1>11, <2>2
  <2>4. n + 1 \in R
    BY <1>1, <1>2, <2>1, <2>3
  <2> QED BY <1>10, <1>11, <2>4
<1>13. ReadyPrefix(s) = SubSeq(o, 1, n)
  BY <1>2, <1>9 DEF ReadyPrefix
<1> QED BY <1>1, <1>2, <1>11, <1>12, <1>13 DEF IsReady

\* Retired and CompleteQos1 give sessions, whatever they are applied to.
LEMMA RetiredTyped ==
    ASSUME NEW s \in Sessions, NEW mid \in Mid, NEW expected
    PROVE  Retired(s, mid, expected) \in Sessions
<1>1. CASE ~StoredAs(s, mid, {expected})
  <2>1. Refuse(s, "internal") \in Sessions
    BY RefuseIs DEF Reasons
  <2> QED BY <1>1, <2>1 DEF Retired
<1>2. CASE StoredAs(s, mid, {expected})
  <2>1. PICK rows \in Seq(Row) : rows = s.rows
    BY SessionTyped
  <2>2. s.stored - 1 \in Nat /\ mid \in Mids(rows)
    BY <1>2, <2>1, SessionTyped DEF StoredAs, Stored
  <2>3. PICK row : row = RowOf(s, mid)
    OBVIOUS
  <2>4. row \in Row
    <3>1. \E r \in Range(rows) : r.mid = mid
      BY <2>2 DEF Mids, Range
    <3>2. row \in Range(rows)
      BY <2>1, <2>3, <3>1 DEF RowOf
    <3> QED BY <3>2 DEF Range
  <2>5. PICK size \in Nat : size = SizeOf[row.msg]
    BY <2>4, InboundAssumptions DEF Row
  <2>6. PICK r : r = ReleaseBytes(s, size)
    OBVIOUS
  <2>7. r \in Sessions /\ r.rows = rows /\ r.stored = s.stored /\ r.tokens = s.tokens /\ r.waiting = s.waiting
    <3>1. CASE size > s.bytes
      <4>1. r = Refuse(s, "internal")
        BY <2>6, <3>1 DEF ReleaseBytes
      <4>2. Refuse(s, "internal") \in Sessions /\ SameBooks(s, Refuse(s, "internal")) /\ SameTalk(s, Refuse(s, "internal"))
        BY RefuseIs DEF Reasons
      <4> QED BY <2>1, <4>1, <4>2 DEF SameBooks, SameTalk
    <3>2. CASE ~(size > s.bytes)
      <4>1. PICK b \in Nat : b = s.bytes - size
        BY <3>2, SessionTyped
      <4>2. r = [s EXCEPT !.bytes = b]
        BY <2>6, <3>2, <4>1 DEF ReleaseBytes
      <4> QED BY <2>1, <4>2 DEF Sessions
    <3> QED BY <3>1, <3>2
  <2>8. PICK u, tk, wt, k : /\ u = Drop(rows, {mid}) /\ tk = [s.tokens EXCEPT ![mid] = NoToken]
                            /\ wt = [s.waiting EXCEPT ![mid] = "none"] /\ k = s.stored - 1
    OBVIOUS
  <2>9. u \in Seq(Row) /\ tk \in [Mid -> Nat] /\ wt \in [Mid -> RowState \cup {"none"}] /\ k \in Nat
    <3>1. IsDrop(rows, mid, u)
      BY <2>8, RowsDrop
    <3> QED BY <2>2, <2>8, <3>1, SessionTyped DEF IsDrop, NoToken
  <2>10. Retired(s, mid, expected) = [r EXCEPT !.rows = u, !.stored = k, !.tokens = tk, !.waiting = wt]
    <3>1. Retired(s, mid, expected) =
            [r EXCEPT !.rows = Drop(@, {mid}), !.stored = @ - 1, !.tokens[mid] = NoToken, !.waiting[mid] = "none"]
      BY <1>2, <2>3, <2>5, <2>6 DEF Retired
    <3> QED BY <2>7, <2>8, <3>1
  <2> QED BY <2>7, <2>9, <2>10, ZenonT(60) DEF Sessions
<1> QED BY <1>1, <1>2

\* The same of CompleteQos1
LEMMA CompleteQos1Typed ==
    ASSUME NEW s \in Sessions, NEW mid \in Mid
    PROVE  CompleteQos1(s, mid) \in Sessions
<1>1. PICK r \in Sessions : r = Retired(s, mid, "WAIT_PUBACK")
  BY RetiredTyped
<1>2. PICK c : c = r.current \ {mid}
  OBVIOUS
<1>3. PICK n : n = [r EXCEPT !.current = c]
  OBVIOUS
<1>4. n \in Sessions
  <2>1. c \in SUBSET Mid
    BY <1>2, SessionTyped
  <2> QED BY <1>3, <2>1 DEF Sessions
<1>5. CompleteQos1(s, mid) = Send(n, "PUBACK", mid)
  BY <1>1, <1>2, <1>3 DEF CompleteQos1
<1> QED BY <1>4, <1>5, SendIs

\* The session after each of the acknowledgements that are sent
IsDone(d, s, p) ==
    /\ d \in [0..Len(p) -> Sessions] /\ d[0] = s
    /\ \A n \in 1..Len(p) : d[n] = CompleteQos1(d[n - 1], p[n])

\* DrainAcks goes through them.
LEMMA DrainDone ==
    ASSUME NEW s \in Sessions, NEW p \in Seq(Mid), p = ReadyPrefix(s),
           ~ \E mid \in Range(p) : ~StoredAs(s, mid, {"WAIT_PUBACK"})
    PROVE  \E d : /\ IsDone(d, s, p)
                  /\ DrainAcks(s) = [d[Len(p)] EXCEPT !.order = SubSeq(@, Len(p) + 1, Len(@)),
                                                      !.acks = @ \ Range(p)]
<1> DEFINE Is(d) == d = [n \in 0..Len(ReadyPrefix(s)) |->
                    IF n = 0 THEN s ELSE CompleteQos1(d[n - 1], ReadyPrefix(s)[n])]
           f == CHOOSE d : Is(d)
<1>1. DrainAcks(s) = [f[Len(p)] EXCEPT !.order = SubSeq(@, Len(p) + 1, Len(@)), !.acks = @ \ Range(p)]
  BY DEF DrainAcks
<1>2. PICK G : G = [x \in Sessions |-> [mid \in Mid |-> CompleteQos1(x, mid)]]
  OBVIOUS
<1>3. G \in [Sessions -> [Mid -> Sessions]]
  BY <1>2, CompleteQos1Typed
<1>a. PICK g : IsIteration(g, Sessions, G, s, p)
  BY <1>3, Iterates
<1>4. g \in [0..Len(p) -> Sessions] /\ g[0] = s /\ \A n \in 1..Len(p) : g[n] = G[g[n - 1]][p[n]]
  BY <1>a DEF IsIteration
<1>5. \A n \in 1..Len(p) : g[n] = CompleteQos1(g[n - 1], p[n])
  <2> SUFFICES ASSUME NEW n \in 1..Len(p) PROVE g[n] = CompleteQos1(g[n - 1], p[n])
    OBVIOUS
  <2>1. g[n - 1] \in Sessions /\ p[n] \in Mid
    BY <1>4
  <2> QED BY <1>2, <1>4, <2>1
<1>6. Is(g)
  <2>1. g = [n \in 0..Len(p) |-> IF n = 0 THEN s ELSE CompleteQos1(g[n - 1], p[n])]
    <3>1. \A n \in 0..Len(p) : g[n] = IF n = 0 THEN s ELSE CompleteQos1(g[n - 1], p[n])
      BY <1>4, <1>5
    <3>2. g = [n \in 0..Len(p) |-> g[n]]
      BY <1>4
    <3> QED BY <3>1, <3>2
  <2> QED BY <2>1
<1>7. Is(f)
  <2> HIDE DEF Is
  <2> QED BY <1>6
<1> HIDE DEF f
<1>8. f = [n \in 0..Len(p) |-> IF n = 0 THEN s ELSE CompleteQos1(f[n - 1], p[n])]
  BY <1>7
<1>9. f[0] = s /\ \A n \in 1..Len(p) : f[n] = CompleteQos1(f[n - 1], p[n])
  BY <1>8
<1>10. \A n \in 0..Len(p) : f[n] \in Sessions
  <2> DEFINE B == {n \in Nat : n <= Len(p) => f[n] \in Sessions}
  <2>1. 0 \in B
    BY <1>9
  <2>2. ASSUME NEW n \in Nat, n \in B PROVE n + 1 \in B
    <3> SUFFICES ASSUME n + 1 <= Len(p) PROVE f[n + 1] \in Sessions
      OBVIOUS
    <3>1. f[n] \in Sessions /\ n + 1 \in 1..Len(p) /\ (n + 1) - 1 = n /\ p[n + 1] \in Mid
      BY <2>2
    <3>2. f[n + 1] = CompleteQos1(f[n], p[n + 1])
      BY <1>9, <3>1
    <3> QED BY <3>1, <3>2, CompleteQos1Typed
  <2>3. \A n \in Nat : n \in B
    <3> HIDE DEF B
    <3> QED BY <2>1, <2>2, InductiveSet
  <2> QED BY <2>3
<1>11. f \in [0..Len(p) -> Sessions]
  BY <1>8, <1>10
<1> QED BY <1>1, <1>9, <1>11 DEF IsDone

\* A suffix of a sequence, one element shorter
LEMMA Suffix ==
    ASSUME NEW T, NEW o \in Seq(T), NEW k \in Nat, k < Len(o)
    PROVE  LET u == SubSeq(o, k + 1, Len(o)) IN
           /\ u \in Seq(T) /\ u # <<>> /\ Head(u) = o[k + 1]
           /\ Tail(u) = SubSeq(o, k + 2, Len(o))
<1>1. PICK u, l : u = SubSeq(o, k + 1, Len(o)) /\ l = Len(o)
  OBVIOUS
<1>2. l \in Nat /\ u \in Seq(T) /\ Len(u) = l - k /\ \A i \in 1..l - k : u[i] = o[k + i]
  BY <1>1
<1>3. u # <<>> /\ Head(u) = o[k + 1]
  <2>1. l - k \in Nat /\ l - k # 0 /\ 1 \in 1..l - k
    BY <1>1, <1>2
  <2>2. u[1] = o[k + 1] /\ Len(u) # 0
    BY <1>2, <2>1
  <2> QED BY <1>2, <2>2
<1>4. PICK v, w : v = Tail(u) /\ w = SubSeq(o, k + 2, Len(o))
  OBVIOUS
<1>5. v \in Seq(T) /\ Len(v) = l - k - 1 /\ \A i \in 1..l - k - 1 : v[i] = o[k + i + 1]
  <2>1. v \in Seq(T) /\ Len(v) = Len(u) - 1 /\ \A i \in 1..Len(u) - 1 : v[i] = u[i + 1]
    BY <1>2, <1>3, <1>4
  <2> QED BY <1>1, <1>2, <2>1
<1>6. w \in Seq(T) /\ Len(w) = l - k - 1 /\ \A i \in 1..l - k - 1 : w[i] = o[k + i + 1]
  BY <1>1, <1>4
<1>7. v = w
  BY <1>1, <1>2, <1>5, <1>6, SeqEqual
<1> QED BY <1>1, <1>2, <1>3, <1>4, <1>7

\* Every row of t is one of s, with the same identity and as much delivered.
Lessens(s, t) ==
    \A r : Has(t.rows, r) =>
        /\ t.tokens[r.mid] = s.tokens[r.mid]
        /\ \E o : /\ Has(s.rows, o) /\ o.mid = r.mid /\ o.msg = r.msg /\ o.delivered = r.delivered
                  /\ r.state = "WAIT_PUBACK" => o.state = "WAIT_PUBACK"

\* The same rows and identities
LEMMA LessensSame ==
    ASSUME NEW s, NEW t, t.rows = s.rows, t.tokens = s.tokens
    PROVE  Lessens(s, t)
  BY DEF Lessens

\* One such step after another
LEMMA LessensOn ==
    ASSUME NEW s, NEW t, NEW u, Lessens(s, t), Lessens(t, u)
    PROVE  Lessens(s, u)
<1> SUFFICES ASSUME NEW r, Has(u.rows, r)
             PROVE  /\ u.tokens[r.mid] = s.tokens[r.mid]
                    /\ \E o : /\ Has(s.rows, o) /\ o.mid = r.mid /\ o.msg = r.msg /\ o.delivered = r.delivered
                              /\ r.state = "WAIT_PUBACK" => o.state = "WAIT_PUBACK"
  BY DEF Lessens
<1>1. PICK o : /\ Has(t.rows, o) /\ o.mid = r.mid /\ o.msg = r.msg /\ o.delivered = r.delivered
               /\ r.state = "WAIT_PUBACK" => o.state = "WAIT_PUBACK"
  BY DEF Lessens
<1>2. PICK p : /\ Has(s.rows, p) /\ p.mid = o.mid /\ p.msg = o.msg /\ p.delivered = o.delivered
               /\ o.state = "WAIT_PUBACK" => p.state = "WAIT_PUBACK"
  BY <1>1 DEF Lessens
<1>3. u.tokens[r.mid] = t.tokens[r.mid] /\ t.tokens[r.mid] = s.tokens[r.mid]
  BY <1>1 DEF Lessens
<1> QED BY <1>1, <1>2, <1>3

\* A finished exchange
LEMMA LessensDrop ==
    ASSUME NEW s \in Sessions, NEW mid, NEW t, RowGone(s, mid, t), t.tokens = [s.tokens EXCEPT ![mid] = NoToken]
    PROVE  Lessens(s, t)
<1> SUFFICES ASSUME NEW r, Has(t.rows, r)
             PROVE  t.tokens[r.mid] = s.tokens[r.mid] /\ Has(s.rows, r)
  BY DEF Lessens
<1>1. Has(s.rows, r) /\ r.mid # mid
  BY DEF RowGone
<1>2. PICK rows \in Seq(Row) : rows = s.rows
  BY SessionTyped
<1>3. r.mid \in Mid
  <2>1. r \in Row
    BY <1>1, <1>2 DEF Has
  <2> QED BY <2>1 DEF Row
<1>4. s.tokens \in [Mid -> Nat]
  BY SessionTyped
<1> QED BY <1>1, <1>3, <1>4

\* _drain_manual_qos1_acks leaves nothing that may be acknowledged at the head.
IsDrained(x, s, k) ==
    /\ Core(x, TRUE) /\ PubackOrder(x.rows) = SubSeq(s.order, k + 1, Len(s.order)) /\ x.order = s.order
    /\ x.acks = s.acks /\ x.refused = s.refused /\ x.current \subseteq s.current
    /\ Lessens(s, x) /\ x.emits = s.emits /\ x.replay = s.replay
\* By induction over the prefix that is sent
LEMMA DrainGood ==
    ASSUME NEW s, Core(s, TRUE), OrderInv(s, TRUE)
    PROVE  /\ Good(DrainAcks(s), TRUE) /\ DrainAcks(s).refused = s.refused
           /\ Lessens(s, DrainAcks(s)) /\ DrainAcks(s).emits = s.emits /\ DrainAcks(s).replay = s.replay
           /\ DrainAcks(s).acks \subseteq s.acks
<1>1. s \in Sessions /\ Ledger(s)
  BY DEF Core
<1>2. PICK o \in Seq(Mid) : o = s.order
  BY <1>1, SessionTyped
<1>3. o = PubackOrder(s.rows) /\ s.acks \subseteq PubackMids(s.rows) /\ \A x : Has(o, x) <=> x \in PubackMids(s.rows)
  BY <1>1, <1>2, OrderOwned DEF OrderInv
<1>4. PICK n \in Nat : IsReady(s, n)
  BY <1>2, ReadyIs
<1>5. PICK p, l : p = ReadyPrefix(s) /\ l = Len(o)
  OBVIOUS
<1>6. /\ n <= l /\ l \in Nat /\ p = SubSeq(o, 1, n) /\ (\A i \in 1..n : o[i] \in s.acks \cap s.current)
      /\ n < l => o[n + 1] \notin s.acks \cap s.current
  BY <1>2, <1>4, <1>5 DEF IsReady
<1>7. p \in Seq(Mid) /\ Len(p) = n /\ \A i \in 1..n : p[i] = o[i]
  BY <1>2, <1>5, <1>6
<1>8. \A x : x \in Range(p) <=> \E i \in 1..n : o[i] = x
  <2>1. DOMAIN p = 1..n
    BY <1>7
  <2> QED BY <1>7, <2>1 DEF Range
<1>9. ASSUME NEW mid \in Range(p) PROVE StoredAs(s, mid, {"WAIT_PUBACK"})
  <2>1. Has(o, mid)
    BY <1>5, <1>6, <1>8, <1>9 DEF Has
  <2>2. PICK r : Has(s.rows, r) /\ r.mid = mid /\ r.state = "WAIT_PUBACK"
    BY <1>1, <1>3, <2>1, PubackRows
  <2> QED BY <1>1, <2>2, StoredRow DEF StoredAs
<1>10. PICK d : /\ IsDone(d, s, p)
                /\ DrainAcks(s) = [d[Len(p)] EXCEPT !.order = SubSeq(@, Len(p) + 1, Len(@)), !.acks = @ \ Range(p)]
  BY <1>1, <1>5, <1>7, <1>9, DrainDone
<1> DEFINE B == {k \in Nat : k <= n => IsDrained(d[k], s, k)}
<1>11. 0 \in B
  <2>1. d[0] = s
    BY <1>10 DEF IsDone
  <2>2. SubSeq(o, 1, l) = o
    BY <1>5
  <2>3. IsDrained(s, s, 0)
    <3>1. SubSeq(s.order, 0 + 1, Len(s.order)) = s.order
      BY <1>2, <1>5, <2>2
    <3>2. PubackOrder(s.rows) = s.order
      BY <1>2, <1>3
    <3>3. Lessens(s, s)
      BY LessensSame
    <3> QED BY <3>1, <3>2, <3>3 DEF IsDrained
  <2> QED BY <2>1, <2>3
<1>12. ASSUME NEW k \in Nat, k \in B PROVE k + 1 \in B
  <2> SUFFICES ASSUME k + 1 <= n PROVE IsDrained(d[k + 1], s, k + 1)
    OBVIOUS
  <2>1. PICK x, mid : x = d[k] /\ mid = o[k + 1]
    OBVIOUS
  <2>2. IsDrained(x, s, k)
    BY <1>12, <2>1
  <2>3. k < l /\ k + 1 \in 1..n /\ p[k + 1] = mid /\ (k + 1) - 1 = k
    BY <1>6, <1>7, <2>1
  <2>4. PICK y : y = d[k + 1]
    OBVIOUS
  <2>5. y = CompleteQos1(x, mid)
    <3>1. \A j \in 1..n : d[j] = CompleteQos1(d[j - 1], p[j])
      BY <1>7, <1>10 DEF IsDone
    <3> QED BY <2>1, <2>3, <2>4, <3>1
  <2>6. PICK u : u = SubSeq(o, k + 1, l)
    OBVIOUS
  <2>7. u \in Seq(Mid) /\ u # <<>> /\ Head(u) = mid /\ Tail(u) = SubSeq(o, k + 2, l)
    BY <1>5, <2>1, <2>3, <2>6, Suffix
  <2>8. x \in Sessions /\ Ledger(x) /\ PubackOrder(x.rows) = u
    BY <1>2, <1>5, <2>2, <2>6 DEF Core, IsDrained
  <2>9. PICK rows \in Seq(Row) : rows = x.rows
    BY <2>8, SessionTyped
  <2>10. mid \in PubackMids(rows)
    <3>1. Has(u, mid)
      <4>1. 1 \in 1..Len(u) /\ u[1] = mid
        BY <2>7
      <4> QED BY <4>1 DEF Has
    <3>2. \A z : Has(PubackOrder(rows), z) <=> z \in PubackMids(rows)
      BY OrderIs
    <3> QED BY <2>8, <2>9, <3>1, <3>2
  <2>11. PICK r : Has(x.rows, r) /\ r.mid = mid /\ r.state = "WAIT_PUBACK"
    BY <2>8, <2>9, <2>10, PubackRows
  <2>12. IsCompleted(x, mid, TRUE, y)
    BY <2>2, <2>5, <2>11, CompleteQos1Is DEF IsDrained
  <2>13. PubackOrder(y.rows) = SubSeq(o, k + 2, l)
    BY <2>7, <2>8, <2>12 DEF IsCompleted, RowGone
  <2>14. (k + 1) + 1 = k + 2
    OBVIOUS
  <2>15. Lessens(s, y)
    <3>1. Lessens(x, y)
      BY <2>8, <2>12, LessensDrop DEF IsCompleted
    <3>2. Lessens(s, x)
      BY <2>2 DEF IsDrained
    <3> QED BY <3>1, <3>2, LessensOn
  <2>16. IsDrained(y, s, k + 1)
    BY <1>2, <1>5, <2>2, <2>12, <2>13, <2>14, <2>15 DEF IsCompleted, IsDrained
  <2> QED BY <2>4, <2>16
<1>13. IsDrained(d[n], s, n)
  <2>1. \A k \in Nat : k \in B
    <3> HIDE DEF B
    <3> QED BY <1>11, <1>12, InductiveSet
  <2> QED BY <2>1
<1>14. PICK x, t, v, c : x = d[n] /\ t = DrainAcks(s) /\ v = SubSeq(o, n + 1, l) /\ c = s.acks \ Range(p)
  OBVIOUS
<1>15. /\ Core(x, TRUE) /\ PubackOrder(x.rows) = v /\ x.order = o
       /\ x.acks = s.acks /\ x.refused = s.refused /\ x.current \subseteq s.current
       /\ Lessens(s, x) /\ x.emits = s.emits /\ x.replay = s.replay
  BY <1>2, <1>5, <1>13, <1>14 DEF IsDrained
<1>16. t = [x EXCEPT !.order = v, !.acks = c]
  BY <1>5, <1>7, <1>10, <1>14, <1>15
<1>17. v \in Seq(Mid) /\ c \in SUBSET Mid
  BY <1>1, <1>5, <1>6, <1>14, SessionTyped
<1>18. /\ t \in Sessions /\ t.rows = x.rows /\ t.stored = x.stored /\ t.bytes = x.bytes /\ t.current = x.current
       /\ t.autoAcks = x.autoAcks /\ t.pubcomps = x.pubcomps /\ t.pubcompSlots = x.pubcompSlots
       /\ t.handoff = x.handoff /\ t.waiting = x.waiting /\ t.order = v /\ t.acks = c /\ t.refused = x.refused
       /\ t.emits = x.emits /\ t.replay = x.replay /\ t.tokens = x.tokens
  <2>1. x \in Sessions
    BY <1>15 DEF Core
  <2> QED BY <1>16, <1>17, <2>1 DEF Sessions
<1>19. Core(t, TRUE)
  <2>1. Ledger(t)
    BY <1>15, <1>18 DEF Core, Ledger
  <2>2. SlotInv(t, TRUE)
    BY <1>15, <1>18 DEF Core, SlotInv, Inflight
  <2>3. WaitInv(t, TRUE)
    BY <1>15, <1>18 DEF Core, WaitInv
  <2> QED BY <1>18, <2>1, <2>2, <2>3 DEF Core
<1>20. c \subseteq PubackMids(x.rows)
  <2> SUFFICES ASSUME NEW k \in c PROVE k \in PubackMids(x.rows)
    OBVIOUS
  <2>1. PICK i \in 1..l : o[i] = k
    BY <1>3, <1>5, <1>14 DEF Has
  <2>2. ~(i <= n)
    BY <1>8, <1>14, <2>1
  <2>3. Len(v) = l - n /\ i - n \in 1..l - n /\ v[i - n] = o[i]
    BY <1>5, <1>6, <1>14, <2>2
  <2>4. Has(v, k)
    BY <2>1, <2>3 DEF Has
  <2>5. PICK rows \in Seq(Row) : rows = x.rows
    BY <1>15, SessionTyped DEF Core
  <2>6. \A z : Has(PubackOrder(rows), z) <=> z \in PubackMids(rows)
    BY OrderIs
  <2> QED BY <1>15, <2>4, <2>5, <2>6
<1>21. OrderInv(t, TRUE)
  BY <1>15, <1>18, <1>20 DEF OrderInv
<1>22. HeadInv(t, TRUE)
  <2> SUFFICES ASSUME v # <<>> PROVE Head(v) \notin c \cap x.current
    BY <1>18 DEF HeadInv
  <2>1. n < l
    BY <1>5, <1>6, <1>14
  <2>2. Head(v) = o[n + 1]
    BY <1>5, <1>14, <2>1, Suffix
  <2> QED BY <1>6, <1>14, <1>15, <2>1, <2>2
<1>23. Lessens(s, t)
  BY <1>15, <1>18, LessensOn, LessensSame
<1>24. c \subseteq s.acks
  BY <1>14
<1> QED BY <1>14, <1>15, <1>18, <1>19, <1>21, <1>22, <1>23, <1>24 DEF Good

-----------------------------------------------------------------------------
(* Repeated PUBLISH, PUBREL, marks and acknowledgements.                   *)

\* A QoS 1 PUBLISH for an identifier that owns a row, in manual mode
LEMMA RepeatedQos1Good ==
    ASSUME NEW s, Good(s, TRUE), s.refused = "none", Around, NEW mid, StoredAs(s, mid, {"WAIT_PUBACK"})
    PROVE  Answered(TRUE, RepeatedQos1(s, mid))
<1>1. s \in Sessions /\ Ledger(s) /\ SlotInv(s, TRUE) /\ WaitInv(s, TRUE) /\ Core(s, TRUE)
      /\ OrderInv(s, TRUE) /\ HeadInv(s, TRUE)
  BY DEF Good, Core
<1>2. PICK row : row = RowOf(s, mid)
  OBVIOUS
<1>3. Has(s.rows, row) /\ row.mid = mid /\ row \in Row /\ mid \in Mid /\ mid \in Mids(s.rows)
  BY <1>1, <1>2, StoredRow DEF StoredAs
<1>4. PICK a, t : a = AcquireCurrent(s, mid) /\ t = RepeatedQos1(s, mid)
  OBVIOUS
<1>5. IsAcquireCurrent(s, mid, a)
  <2>1. Inflight(s) <= ReceiveMaximum
    BY <1>1 DEF SlotInv
  <2> QED BY <1>1, <1>3, <1>4, <2>1, AcquireCurrentIs
<1>6. t = IF Refused(a) THEN a ELSE IF mid \in s.acks THEN DrainAcks(a) ELSE Emit(a, row)
  BY <1>2, <1>4 DEF RepeatedQos1
<1>7. CASE Refused(a)
  <2>1. a \in Sessions /\ SameBooks(s, a) /\ a.refused \in {"0x93", "0x97"} /\ t = a
    BY <1>5, <1>6, <1>7 DEF IsAcquireCurrent
  <2> QED BY <1>4, <2>1, SameGood DEF Answered
<1>8. CASE ~Refused(a)
  <2>1. a \in Sessions /\ Ledger(a) /\ SlotInv(a, TRUE)
    BY <1>1, <1>3, <1>5, <1>8, CountedSlots
  <2>2. SameButBytes(s, a) /\ a.current = s.current \cup {mid} /\ a.refused = "none"
    BY <1>5, <1>8 DEF IsAcquireCurrent
  <2>3. Core(a, TRUE)
    <3>1. WaitInv(a, TRUE)
      BY <1>1, <2>2 DEF WaitInv, SameButBytes
    <3> QED BY <2>1, <3>1 DEF Core
  <2>4. OrderInv(a, TRUE)
    BY <1>1, <2>2 DEF OrderInv, SameButBytes
  <2>5. CASE mid \in s.acks
    <3>1. Good(DrainAcks(a), TRUE) /\ DrainAcks(a).refused = "none" /\ t = DrainAcks(a)
      BY <1>6, <1>8, <2>2, <2>3, <2>4, <2>5, DrainGood
    <3> QED BY <1>4, <3>1 DEF Answered
  <2>6. CASE mid \notin s.acks
    <3>1. HeadInv(a, TRUE)
      BY <1>1, <2>2, <2>6 DEF HeadInv, SameButBytes
    <3>2. Good(a, TRUE)
      BY <2>3, <2>4, <3>1 DEF Good
    <3>3. Good(Emit(a, row), TRUE) /\ Emit(a, row).refused = "none" /\ t = Emit(a, row)
      BY <1>3, <1>6, <1>8, <2>2, <2>6, <3>2, EmitGood
    <3> QED BY <1>4, <3>3 DEF Answered
  <2> QED BY <2>5, <2>6
<1> QED BY <1>7, <1>8

\* A QoS 1 PUBLISH with manual acknowledgement
LEMMA OnQos1ManualGood ==
    ASSUME NEW s, Good(s, TRUE), s.refused = "none", Around, NEW mid \in Mid, NEW msg \in Message
    PROVE  Answered(TRUE, OnQos1Manual(s, mid, msg))
<1>1. CASE StoredAs(s, mid, {"WAIT_PUBACK"})
  <2>1. Answered(TRUE, RepeatedQos1(s, mid))
    BY <1>1, RepeatedQos1Good
  <2> QED BY <1>1, <2>1 DEF OnQos1Manual
<1>2. CASE ~StoredAs(s, mid, {"WAIT_PUBACK"}) /\ (Stored(s, mid) \/ mid \in s.pubcomps)
  <2>1. Good(Refuse(s, "0x82"), TRUE) /\ Refuse(s, "0x82").refused = "0x82"
    BY RefuseGood DEF Reasons
  <2> QED BY <1>2, <2>1 DEF OnQos1Manual, Answered
<1>3. CASE ~StoredAs(s, mid, {"WAIT_PUBACK"}) /\ ~(Stored(s, mid) \/ mid \in s.pubcomps)
  <2>0. mid \notin s.autoAcks \cup s.pubcomps
    BY <1>3 DEF Good, Core, SlotInv
  <2>1. Answered(TRUE, Begun(s, mid, msg, "WAIT_PUBACK"))
    BY <1>3, <2>0, BegunGood
  <2> QED BY <1>3, <2>1 DEF OnQos1Manual
<1> QED BY <1>1, <1>2, <1>3

\* The exchange waits for its delivery before it completes.
LEMMA WaitGood ==
    ASSUME NEW s, Good(s, FALSE), NEW row \in Row, Has(s.rows, row), ~row.delivered
    PROVE  LET t == [s EXCEPT !.waiting[row.mid] = row.state] IN
           Good(t, FALSE) /\ t.refused = s.refused
<1>1. s \in Sessions /\ Ledger(s) /\ SlotInv(s, FALSE) /\ WaitInv(s, FALSE)
  BY DEF Good, Core
<1>2. PICK mid \in Mid, state \in RowState : mid = row.mid /\ state = row.state
  BY DEF Row
<1>3. PICK w, t : w = [s.waiting EXCEPT ![mid] = state] /\ t = [s EXCEPT !.waiting = w]
  OBVIOUS
<1>4. /\ w \in [Mid -> RowState \cup {"none"}]
      /\ \A k \in Mid : w[k] = IF k = mid THEN state ELSE s.waiting[k]
  BY <1>1, <1>3, SessionTyped
<1>5. /\ t \in Sessions /\ t.waiting = w /\ t.rows = s.rows /\ t.stored = s.stored /\ t.bytes = s.bytes
      /\ t.current = s.current /\ t.autoAcks = s.autoAcks /\ t.pubcomps = s.pubcomps
      /\ t.pubcompSlots = s.pubcompSlots /\ t.handoff = s.handoff /\ t.refused = s.refused
  BY <1>1, <1>3, <1>4 DEF Sessions
<1>6. Ledger(t) /\ SlotInv(t, FALSE)
  BY <1>1, <1>5 DEF Ledger, SlotInv, Inflight
<1>7. WaitInv(t, FALSE)
  <2>1. \A k \in Mid : w[k] # "none" =>
              \E r \in Row : Has(s.rows, r) /\ r.mid = k /\ r.state = w[k] /\ ~r.delivered
    BY <1>1, <1>2, <1>4 DEF WaitInv
  <2>2. ASSUME NEW r \in Row, Has(s.rows, r), r.state = "WAIT_PUBACK", r.mid \in s.current
        PROVE  w[r.mid] # "none"
    <3>1. r.mid \in Mid /\ s.waiting[r.mid] # "none"
      BY <1>1, <2>2 DEF WaitInv, Row
    <3>2. state # "none"
      BY DEF RowState
    <3> QED BY <1>4, <3>1, <3>2
  <2> QED BY <1>5, <2>1, <2>2 DEF WaitInv
<1>8. Good(t, FALSE)
  BY <1>5, <1>6, <1>7, AutoGood DEF Core
<1>9. t = [s EXCEPT !.waiting[row.mid] = row.state]
  BY <1>1, <1>2, <1>3
<1> QED BY <1>5, <1>8, <1>9

\* A row whose flag or state changes
Revises(old, row) ==
    /\ row \in Row /\ row.mid = old.mid /\ row.msg = old.msg
    /\ old.state = "WAIT_PUBACK" <=> row.state = "WAIT_PUBACK"
\* UpdateGood, for a row that is named first
LEMMA ChangeGood ==
    ASSUME NEW s, NEW m \in BOOLEAN, Good(s, m), NEW mid, NEW old, Has(s.rows, old), old.mid = mid,
           NEW row, Revises(old, row), s.waiting[mid] = "none"
    PROVE  IsUpdate(s, row, m, Update(s, mid, row))
  BY UpdateGood DEF Revises

\* on_pubrel
LEMMA OnPubrelledGood ==
    ASSUME NEW s, manual \in BOOLEAN, Good(s, manual), s.refused = "none", NEW mid \in Mid
    PROVE  Answered(manual, OnPubrelled(s, mid))
<1>1. s \in Sessions /\ Ledger(s) /\ WaitInv(s, manual) /\ Core(s, manual)
  BY DEF Good, Core
<1>2. CASE ~Stored(s, mid)
  <2>1. Good(Send(s, "PUBCOMP", mid), manual) /\ Send(s, "PUBCOMP", mid).refused = "none"
    BY SendGood
  <2> QED BY <1>2, <2>1 DEF OnPubrelled, Answered
<1>3. CASE Stored(s, mid)
  <2>1. PICK row, t : row = RowOf(s, mid) /\ t = Released(s, mid)
    OBVIOUS
  <2>2. Has(s.rows, row) /\ row.mid = mid /\ row \in Row
    BY <1>1, <1>3, <2>1, StoredRow
  <2>3. t = IF row.state = "WAIT_PUBACK" THEN Refuse(s, "0x82*")
            ELSE IF row.state = "WAIT_USER_ACK" /\ manual THEN s
            ELSE IF row.state = "WAIT_PUBREL" /\ manual /\ ~row.acked
            THEN Update(s, mid, [row EXCEPT !.state = "WAIT_USER_ACK"])
            ELSE IF ~row.delivered /\ ~row.acked
            THEN [s EXCEPT !.waiting[mid] = row.state]
            ELSE CompleteQos2(s, mid, row.state)
    BY <2>1 DEF Released
  <2>4. row.state \in RowState /\ row.acked \in BOOLEAN /\ row.delivered \in BOOLEAN
    BY <2>2 DEF Row
  <2>5. CASE row.state = "WAIT_PUBACK"
    <3>1. Good(Refuse(s, "0x82*"), manual) /\ Refuse(s, "0x82*").refused = "0x82*"
      BY RefuseGood DEF Reasons
    <3>2. t = Refuse(s, "0x82*")
      BY <2>3, <2>5
    <3> QED BY <1>3, <2>1, <3>1, <3>2 DEF OnPubrelled, Answered
  <2>6. CASE t = s
    BY <1>3, <2>1, <2>6 DEF OnPubrelled, Answered
  <2>7. CASE row.state = "WAIT_PUBREL" /\ manual /\ t = Update(s, mid, [row EXCEPT !.state = "WAIT_USER_ACK"])
    <3>1. PICK new : new = [row EXCEPT !.state = "WAIT_USER_ACK"]
      OBVIOUS
    <3>2. new \in Row /\ new.mid = mid /\ new.msg = row.msg /\ new.state = "WAIT_USER_ACK"
      BY <2>2, <3>1 DEF Row, RowState
    <3>3. s.waiting[mid] = "none"
      BY <1>1, <2>7 DEF WaitInv
    <3>4. Good(t, manual) /\ t.refused = "none"
      <4>1. Revises(row, new)
        BY <2>2, <2>7, <3>2 DEF Revises
      <4>2. IsUpdate(s, new, manual, t)
        BY <2>2, <2>7, <3>1, <3>3, <4>1, ChangeGood
      <4> QED BY <4>2 DEF IsUpdate, SameButRow
    <3> QED BY <1>3, <2>1, <3>4 DEF OnPubrelled, Answered
  <2>8. CASE ~manual /\ ~row.delivered /\ t = [s EXCEPT !.waiting[mid] = row.state]
    <3>1. Good(s, FALSE) /\ manual = FALSE
      BY <2>8
    <3>2. Good(t, FALSE) /\ t.refused = "none"
      BY <2>2, <2>8, <3>1, WaitGood
    <3> QED BY <1>3, <2>1, <3>1, <3>2 DEF OnPubrelled, Answered
  <2>9. CASE row.state # "WAIT_PUBACK" /\ t = CompleteQos2(s, mid, row.state)
    <3>1. IsCompleted(s, mid, manual, t)
      BY <1>1, <2>2, <2>9, CompleteQos2Is
    <3>2. mid \notin PubackMids(s.rows)
      BY <1>1, <2>2, <2>9, PubackRows
    <3>3. Good(t, manual)
      BY <3>1, <3>2, CompletedGood
    <3>4. t.refused = "none"
      BY <3>1 DEF IsCompleted
    <3> QED BY <1>3, <2>1, <3>3, <3>4 DEF OnPubrelled, Answered
  <2> QED BY <2>3, <2>4, <2>5, <2>6, <2>7, <2>8, <2>9 DEF RowState
<1> QED BY <1>2, <1>3

\* mark_delivered
LEMMA MarkedGood ==
    ASSUME NEW s, NEW m \in BOOLEAN, Good(s, m), NEW mid \in Mid, NEW token
    PROVE  Good(Marked(s, mid, token), m) /\ Marked(s, mid, token).refused = s.refused
           /\ Marked(s, mid, token).autoAcks = s.autoAcks
<1>1. s \in Sessions /\ Ledger(s) /\ WaitInv(s, m) /\ Core(s, m)
  BY DEF Good, Core
<1>2. PICK t : t = Marked(s, mid, token)
  OBVIOUS
<1>3. t = IF s.tokens[mid] # token THEN s
          ELSE IF s.waiting[mid] = "WAIT_PUBACK" THEN CompleteQos1(s, mid)
          ELSE IF s.waiting[mid] # "none" THEN CompleteQos2(s, mid, s.waiting[mid])
          ELSE IF Stored(s, mid)
          THEN Update(s, mid, [RowOf(s, mid) EXCEPT !.delivered = TRUE]) ELSE s
  BY <1>2 DEF Marked
<1>4. CASE t = s
  BY <1>2, <1>4
<1>5. CASE s.waiting[mid] # "none" /\ t \in {CompleteQos1(s, mid), CompleteQos2(s, mid, s.waiting[mid])}
           /\ (t = CompleteQos1(s, mid) \/ s.waiting[mid] # "WAIT_PUBACK")
           /\ (t = CompleteQos2(s, mid, s.waiting[mid]) \/ s.waiting[mid] = "WAIT_PUBACK")
  <2>1. ~m /\ \E r \in Row : Has(s.rows, r) /\ r.mid = mid /\ r.state = s.waiting[mid]
    BY <1>1, <1>5 DEF WaitInv
  <2>2. PICK r : Has(s.rows, r) /\ r.mid = mid /\ r.state = s.waiting[mid]
    BY <2>1
  <2>3. IsCompleted(s, mid, m, t)
    <3>1. CASE s.waiting[mid] = "WAIT_PUBACK"
      BY <1>1, <1>5, <2>2, <3>1, CompleteQos1Is
    <3>2. CASE s.waiting[mid] # "WAIT_PUBACK"
      BY <1>1, <1>5, <2>2, <3>2, CompleteQos2Is
    <3> QED BY <3>1, <3>2
  <2>4. Good(t, m)
    BY <2>1, <2>3, CompletedGood
  <2> QED BY <1>2, <2>3, <2>4 DEF IsCompleted
<1>6. CASE s.waiting[mid] = "none" /\ Stored(s, mid) /\ t = Update(s, mid, [RowOf(s, mid) EXCEPT !.delivered = TRUE])
  <2>1. PICK row, new : row = RowOf(s, mid) /\ new = [row EXCEPT !.delivered = TRUE]
    OBVIOUS
  <2>2. Has(s.rows, row) /\ row.mid = mid /\ row \in Row
    BY <1>1, <1>6, <2>1, StoredRow
  <2>3. new \in Row /\ new.mid = mid /\ new.msg = row.msg /\ new.state = row.state
    BY <2>1, <2>2 DEF Row
  <2>4. Revises(row, new)
    BY <2>2, <2>3 DEF Revises
  <2>5. IsUpdate(s, new, m, t)
    BY <1>6, <2>1, <2>2, <2>4, ChangeGood
  <2> QED BY <1>2, <2>5 DEF IsUpdate, SameButRow
<1> QED BY <1>3, <1>4, <1>5, <1>6

\* ack()
LEMMA AckedGood ==
    ASSUME NEW s, Good(s, TRUE), NEW mid, Stored(s, mid)
    PROVE  Good(Acked(s, mid), TRUE) /\ Acked(s, mid).refused = s.refused
<1>1. s \in Sessions /\ Ledger(s) /\ WaitInv(s, TRUE) /\ Core(s, TRUE) /\ OrderInv(s, TRUE)
  BY DEF Good, Core
<1>2. PICK row, t : row = RowOf(s, mid) /\ t = Acked(s, mid)
  OBVIOUS
<1>3. Has(s.rows, row) /\ row.mid = mid /\ row \in Row /\ mid \in Mid
  BY <1>1, <1>2, StoredRow
<1>4. PICK s1 : s1 = [s EXCEPT !.acks = @ \cup {mid}]
  OBVIOUS
<1>5. t = IF row.state = "WAIT_PUBREL" THEN Update(s, mid, [row EXCEPT !.acked = TRUE])
          ELSE IF row.state = "WAIT_PUBACK" THEN DrainAcks(s1) ELSE CompleteQos2(s, mid, row.state)
  BY <1>2, <1>4 DEF Acked
<1>6. CASE row.state = "WAIT_PUBREL"
  <2>1. PICK new : new = [row EXCEPT !.acked = TRUE]
    OBVIOUS
  <2>2. new \in Row /\ new.mid = mid /\ new.msg = row.msg /\ new.state = row.state
    BY <1>3, <2>1 DEF Row
  <2>3. s.waiting[mid] = "none" /\ t = Update(s, mid, new)
    BY <1>1, <1>3, <1>5, <1>6, <2>1 DEF WaitInv
  <2>4. Revises(row, new)
    BY <1>3, <2>2 DEF Revises
  <2>5. IsUpdate(s, new, TRUE, t)
    BY <1>3, <2>3, <2>4, ChangeGood
  <2> QED BY <1>2, <2>5 DEF IsUpdate, SameButRow
<1>7. CASE row.state = "WAIT_PUBACK"
  <2>1. mid \in PubackMids(s.rows)
    BY <1>1, <1>3, <1>7, PubackRows
  <2>2. PICK c : c = s.acks \cup {mid}
    OBVIOUS
  <2>3. s1 = [s EXCEPT !.acks = c] /\ c \in SUBSET Mid
    BY <1>1, <1>3, <1>4, <2>2, SessionTyped
  <2>4. /\ s1 \in Sessions /\ s1.acks = c /\ s1.rows = s.rows /\ s1.stored = s.stored /\ s1.bytes = s.bytes
        /\ s1.current = s.current /\ s1.autoAcks = s.autoAcks /\ s1.pubcomps = s.pubcomps
        /\ s1.pubcompSlots = s.pubcompSlots /\ s1.handoff = s.handoff /\ s1.refused = s.refused
        /\ s1.waiting = s.waiting /\ s1.order = s.order
    BY <1>1, <2>3 DEF Sessions
  <2>5. Core(s1, TRUE)
    <3>1. Ledger(s1) /\ SlotInv(s1, TRUE) /\ WaitInv(s1, TRUE)
      BY <1>1, <2>4 DEF Core, Ledger, SlotInv, WaitInv, Inflight
    <3> QED BY <2>4, <3>1 DEF Core
  <2>6. OrderInv(s1, TRUE)
    BY <1>1, <2>1, <2>2, <2>4 DEF OrderInv
  <2>7. Good(DrainAcks(s1), TRUE) /\ DrainAcks(s1).refused = s.refused
    BY <2>4, <2>5, <2>6, DrainGood
  <2>8. t = DrainAcks(s1)
    BY <1>5, <1>7
  <2> QED BY <1>2, <2>7, <2>8
<1>8. CASE row.state \notin {"WAIT_PUBREL", "WAIT_PUBACK"}
  <2>1. t = CompleteQos2(s, mid, row.state)
    BY <1>5, <1>8
  <2>2. IsCompleted(s, mid, TRUE, t)
    BY <1>1, <1>3, <2>1, CompleteQos2Is
  <2>3. mid \notin PubackMids(s.rows)
    BY <1>1, <1>3, <1>8, PubackRows
  <2>4. Good(t, TRUE)
    BY <2>2, <2>3, CompletedGood
  <2> QED BY <1>2, <2>2, <2>4 DEF IsCompleted
<1> QED BY <1>6, <1>7, <1>8

-----------------------------------------------------------------------------
(* Replay.                                                                 *)

\* Deliveries change the books in nothing.
Tells(s, t) == t \in Sessions /\ SameBooks(s, t) /\ t.refused = s.refused

\* The session after each delivery of a page
IsTold(f, s, q) ==
    /\ f[0] = s /\ EmitAll(s, q) = f[Len(q)]
    /\ \A n \in 1..Len(q) : f[n] = Emit(f[n - 1], q[n])

\* EmitAll goes through them.
LEMMA EmitAllTold ==
    ASSUME NEW s \in Sessions, Around, NEW q \in Seq(Row)
    PROVE  \E f : IsTold(f, s, q)
<1> DEFINE Is(d) == d = [n \in 0..Len(q) |-> IF n = 0 THEN s ELSE Emit(d[n - 1], q[n])]
           f == CHOOSE d : Is(d)
<1>1. EmitAll(s, q) = f[Len(q)]
  BY DEF EmitAll
<1>2. PICK G : G = [x \in Sessions |-> [row \in Row |-> Emit(x, row)]]
  OBVIOUS
<1>3. G \in [Sessions -> [Row -> Sessions]]
  <2>1. ASSUME NEW x \in Sessions, NEW row \in Row PROVE Emit(x, row) \in Sessions
    <3>1. IsEmit(x, row, Emit(x, row))
      BY EmitIs
    <3> QED BY <3>1 DEF IsEmit
  <2> QED BY <1>2, <2>1
<1>4. PICK g : IsIteration(g, Sessions, G, s, q)
  BY <1>3, Iterates
<1>5. g \in [0..Len(q) -> Sessions] /\ g[0] = s /\ \A n \in 1..Len(q) : g[n] = G[g[n - 1]][q[n]]
  BY <1>4 DEF IsIteration
<1>6. \A n \in 1..Len(q) : g[n] = Emit(g[n - 1], q[n])
  <2> SUFFICES ASSUME NEW n \in 1..Len(q) PROVE g[n] = Emit(g[n - 1], q[n])
    OBVIOUS
  <2>1. g[n - 1] \in Sessions /\ q[n] \in Row
    BY <1>5
  <2> QED BY <1>2, <1>5, <2>1
<1>7. Is(g)
  <2>1. \A n \in 0..Len(q) : g[n] = IF n = 0 THEN s ELSE Emit(g[n - 1], q[n])
    BY <1>5, <1>6
  <2>2. g = [n \in 0..Len(q) |-> g[n]]
    BY <1>5
  <2> QED BY <2>1, <2>2
<1>8. Is(f)
  <2> HIDE DEF Is
  <2> QED BY <1>7
<1> HIDE DEF f
<1>9. f[0] = s /\ \A n \in 1..Len(q) : f[n] = Emit(f[n - 1], q[n])
  BY <1>8
<1> QED BY <1>1, <1>9 DEF IsTold

\* The deliveries of a page
LEMMA EmitAllIs ==
    ASSUME NEW s \in Sessions, Around, NEW q \in Seq(Row)
    PROVE  Tells(s, EmitAll(s, q)) /\ EmitAll(s, q).replay = s.replay
<1>1. PICK f : IsTold(f, s, q)
  BY EmitAllTold
<1>2. f[0] = s /\ EmitAll(s, q) = f[Len(q)] /\ \A n \in 1..Len(q) : f[n] = Emit(f[n - 1], q[n])
  BY <1>1 DEF IsTold
<1> DEFINE P(x) == Tells(s, x) /\ x.replay = s.replay
           B == {n \in Nat : n <= Len(q) => P(f[n])}
<1>3. 0 \in B
  BY <1>2 DEF Tells, SameBooks
<1>4. ASSUME NEW n \in Nat, n \in B PROVE n + 1 \in B
  <2> SUFFICES ASSUME n + 1 <= Len(q) PROVE P(f[n + 1])
    OBVIOUS
  <2>1. PICK x, y, row : x = f[n] /\ y = f[n + 1] /\ row = q[n + 1]
    OBVIOUS
  <2>2. P(x) /\ n + 1 \in 1..Len(q) /\ (n + 1) - 1 = n /\ row \in Row
    BY <1>4, <2>1
  <2>3. y = Emit(x, row) /\ x \in Sessions
    BY <1>2, <2>1, <2>2 DEF Tells
  <2>4. IsEmit(x, row, y)
    BY <2>2, <2>3, EmitIs
  <2>5. P(y)
    BY <2>2, <2>4 DEF IsEmit, Tells, SameBooks
  <2> HIDE DEF P
  <2> QED BY <2>1, <2>5
<1>5. P(f[Len(q)])
  <2>1. \A n \in Nat : n \in B
    <3> HIDE DEF B
    <3> QED BY <1>3, <1>4, InductiveSet
  <2> QED BY <2>1
<1> QED BY <1>2, <1>5

\* A replay page is made of rows.
LEMMA PageTyped ==
    ASSUME NEW s \in Sessions, Ledger(s), NEW i \in Nat, i <= Len(s.replay.mids)
    PROVE  Page(s, i) \in Seq(Row)
<1>1. PICK q \in Seq(Mid) : q = s.replay.mids
  BY SessionTyped DEF Replays
<1>2. PICK n : n = Min({i + ReplayBatch, Len(q)})
  OBVIOUS
<1>3. n \in Nat /\ n <= Len(q)
  <2>1. i + ReplayBatch \in Nat /\ Len(q) \in Nat
    BY InboundAssumptions
  <2>2. PICK a \in Nat, b \in Nat : a = i + ReplayBatch /\ b = Len(q)
    BY <2>1
  <2>3. \E x \in {a, b} : \A y \in {a, b} : x <= y
    <3>1. a <= b \/ b <= a
      BY <2>2
    <3> QED BY <3>1
  <2>4. Min({a, b}) \in {a, b} /\ \A y \in {a, b} : Min({a, b}) <= y
    BY <2>3 DEF Min
  <2> QED BY <1>2, <2>2, <2>4
<1>4. PICK mids : mids = SubSeq(q, i + 1, n)
  OBVIOUS
<1>5. mids \in Seq(Mid)
  BY <1>1, <1>3, <1>4
<1>6. PICK S : S = Mids(s.rows)
  OBVIOUS
<1>7. PICK live : live = Only(mids, S)
  OBVIOUS
<1>8. live \in Seq(Mid \cap S)
  BY <1>5, <1>7, OnlyTyped
<1>9. \A j \in 1..Len(live) : RowOf(s, live[j]) \in Row
  <2> SUFFICES ASSUME NEW j \in 1..Len(live) PROVE RowOf(s, live[j]) \in Row
    OBVIOUS
  <2>1. PICK k : k = live[j]
    OBVIOUS
  <2>2. k \in Mids(s.rows)
    BY <1>6, <1>8, <2>1
  <2>3. Stored(s, k)
    BY <2>2, StoredRow
  <2> QED BY <2>1, <2>3, StoredRow
<1>10. Page(s, i) = [j \in DOMAIN live |-> RowOf(s, live[j])]
  BY <1>1, <1>2, <1>4, <1>6, <1>7 DEF Page
<1>11. DOMAIN live = 1..Len(live) /\ Len(live) \in Nat
  BY <1>8
<1> QED BY <1>9, <1>10, <1>11

\* drain_replay
LEMMA DrainReplayIs ==
    ASSUME NEW s \in Sessions, Ledger(s), Around
    PROVE  Tells(s, DrainReplay(s))
<1>1. CASE s.replay = NoReplay
  <2>1. DrainReplay(s) = s
    BY <1>1 DEF DrainReplay
  <2> QED BY <2>1 DEF Tells, SameBooks
<1>2. ASSUME NEW x \in Sessions PROVE Tells(x, ReplayEnded(x))
  <2>1. NoReplay \in Replays /\ {} \in SUBSET Mid
    <3>1. <<>> \in Seq(Mid) /\ -1 \in Int
      OBVIOUS
    <3> QED BY <3>1 DEF NoReplay, Replays
  <2> QED BY <2>1 DEF ReplayEnded, Sessions, Tells, SameBooks
<1>3. CASE s.replay # NoReplay /\ NextPages(s) = {}
  <2>1. DrainReplay(s) = ReplayEnded(s)
    BY <1>3 DEF DrainReplay
  <2> QED BY <1>2, <2>1
<1>4. CASE s.replay # NoReplay /\ NextPages(s) # {}
  <2>1. PICK N : N = NextPages(s)
    OBVIOUS
  <2>2. PICK q \in Seq(Mid) : q = s.replay.mids
    BY SessionTyped DEF Replays
  <2>3. N \in SUBSET Nat /\ \A x \in N : x <= Len(q)
    BY <2>1, <2>2 DEF NextPages
  <2>4. PICK i : i = Min(N)
    OBVIOUS
  <2>5. i \in N
    <3>1. \E x \in N : \A y \in N : x <= y
      BY <1>4, <2>1, <2>3, LeastExists
    <3> QED BY <2>4, <3>1 DEF Min
  <2>6. PICK page : page = Page(s, i)
    OBVIOUS
  <2>7. page \in Seq(Row)
    BY <2>2, <2>3, <2>5, <2>6, PageTyped
  <2>8. PICK S : S = {row \in Range(page) : ShouldRedeliver(s, row)}
    OBVIOUS
  <2>9. PICK rows : rows = Only(page, S)
    OBVIOUS
  <2>10. rows \in Seq(Row)
    <3>1. rows \in Seq(Row \cap S)
      BY <2>7, <2>9, OnlyTyped
    <3> QED BY <3>1
  <2>11. PICK told : told = EmitAll(s, rows)
    OBVIOUS
  <2>12. Tells(s, told) /\ told.replay = s.replay
    BY <2>10, <2>11, EmitAllIs
  <2>13. PICK left : left = s.replay.remaining - Len(page)
    OBVIOUS
  <2>14. PICK rest : rest = [mids |-> SubSeq(told.replay.mids, i + ReplayBatch + 1, Len(told.replay.mids)),
                             remaining |-> left]
    OBVIOUS
  <2>15. PICK on : on = [told EXCEPT !.replay = rest, !.emits = Append(@, ContinueReplay)]
    OBVIOUS
  <2>16. DrainReplay(s) = IF left = 0 THEN ReplayEnded(told) ELSE on
    <3>1. on = [told EXCEPT
                    !.replay = [mids |-> SubSeq(@.mids, i + ReplayBatch + 1, Len(@.mids)), remaining |-> left],
                    !.emits = Append(@, ContinueReplay)]
      BY <2>14, <2>15
    <3> QED BY <1>4, <2>1, <2>4, <2>6, <2>8, <2>9, <2>11, <2>13, <3>1 DEF DrainReplay
  <2>17. told \in Sessions
    BY <2>12 DEF Tells
  <2>18. rest \in Replays
    <3>1. left \in Int
      BY <2>7, <2>13, SessionTyped DEF Replays
    <3>2. PICK k \in Nat : k = i + ReplayBatch + 1 /\ k >= 1
      BY <2>3, <2>5, InboundAssumptions
    <3>3. SubSeq(q, k, Len(q)) \in Seq(Mid)
      BY <3>2
    <3> QED BY <2>2, <2>12, <2>14, <3>1, <3>2, <3>3 DEF Replays
  <2>19. Tells(told, on)
    <3>1. PICK e : e = Append(told.emits, ContinueReplay)
      OBVIOUS
    <3>2. e \in Seq(Effects)
      <4>1. told.emits \in Seq(Effects) /\ ContinueReplay \in Effects
        BY <2>17, SessionTyped DEF Effects
      <4> QED BY <3>1, <4>1
    <3>3. on = [told EXCEPT !.replay = rest, !.emits = e]
      BY <2>15, <3>1
    <3> QED BY <2>17, <2>18, <3>2, <3>3 DEF Sessions, Tells, SameBooks
  <2>20. Tells(told, DrainReplay(s))
    BY <1>2, <2>16, <2>17, <2>19
  <2> QED BY <2>12, <2>20 DEF Tells, SameBooks
<1> QED BY <1>1, <1>3, <1>4

\* The books are not touched by them.
LEMMA TellsGood ==
    ASSUME NEW s, NEW m, Good(s, m), NEW t, Tells(s, t)
    PROVE  Good(t, m) /\ t.refused = s.refused /\ t.autoAcks = s.autoAcks /\ t.pubcomps = s.pubcomps
<1>1. t \in Sessions /\ SameBooks(s, t) /\ t.refused = s.refused
  BY DEF Tells
<1> QED BY <1>1, SameGood DEF SameBooks

\* No slots
LEMMA NothingHeld ==
    Cardinality({}) = 0
  BY FS_EmptySet

\* The exchanges are no longer current; what the batch held is kept or gone.
LEMMA FreshGood ==
    ASSUME NEW s, NEW m \in BOOLEAN, Good(s, m), NEW t \in Sessions,
           t.rows = s.rows, t.stored = s.stored, t.bytes = s.bytes, t.order = s.order,
           t.current = {}, t.acks \subseteq s.acks,
           \/ t.autoAcks = s.autoAcks /\ t.pubcomps = s.pubcomps /\ t.pubcompSlots = s.pubcompSlots
                /\ t.handoff = s.handoff
           \/ t.autoAcks = {} /\ t.pubcomps = {} /\ t.pubcompSlots = 0 /\ t.handoff = FALSE,
           t.waiting = s.waiting \/ t.waiting = [mid \in Mid |-> "none"]
    PROVE  Good(t, m)
<1>1. s \in Sessions /\ Ledger(s) /\ SlotInv(s, m) /\ WaitInv(s, m) /\ OrderInv(s, m)
  BY DEF Good, Core
<1>2. Ledger(t) /\ OrderInv(t, m) /\ HeadInv(t, m)
  BY <1>1 DEF Ledger, OrderInv, HeadInv
<1>3. WaitInv(t, m)
  <2>1. \A k \in Mid : t.waiting[k] # "none" => t.waiting = s.waiting
    OBVIOUS
  <2> QED BY <1>1, <2>1 DEF WaitInv
<1>4. SlotInv(t, m)
  <2>1. PICK x \in Nat, y \in Nat, z \in Nat : x = Cardinality(s.current) /\ y = Cardinality(s.autoAcks) /\ z = s.pubcompSlots
    BY <1>1, InflightTyped, SessionTyped
  <2>2. x + y + z <= ReceiveMaximum /\ ReceiveMaximum \in Nat
    BY <1>1, <2>1, InboundAssumptions DEF SlotInv, Inflight
  <2>3. CASE t.autoAcks = s.autoAcks /\ t.pubcomps = s.pubcomps /\ t.pubcompSlots = s.pubcompSlots
                /\ t.handoff = s.handoff
    <3>1. Inflight(t) = 0 + y + z
      BY <2>1, <2>3, NothingHeld DEF Inflight
    <3>2. Inflight(t) <= ReceiveMaximum
      BY <2>1, <2>2, <3>1
    <3> QED BY <1>1, <2>3, <3>2 DEF SlotInv
  <2>4. CASE t.autoAcks = {} /\ t.pubcomps = {} /\ t.pubcompSlots = 0 /\ t.handoff = FALSE
    <3>1. Inflight(t) = 0 /\ Cardinality(t.pubcomps) = 0
      BY <2>4, NothingHeld DEF Inflight
    <3> QED BY <2>2, <2>4, <3>1 DEF SlotInv
  <2> QED BY <2>3, <2>4
<1> QED BY <1>2, <1>3, <1>4 DEF Good, Core

-----------------------------------------------------------------------------
(* Processes and connections.                                              *)

\* What a process finds in the store is a session in order.
LEMMA HydrateGood ==
    ASSUME NEW rows \in Seq(Row), Keyed(rows), NEW m \in BOOLEAN
    PROVE  /\ Good(Hydrate(rows, m), m) /\ Hydrate(rows, m).refused = "none"
           /\ Hydrate(rows, m).current = {} /\ Hydrate(rows, m).autoAcks = {}
           /\ Hydrate(rows, m).pubcomps = {} /\ Hydrate(rows, m).rows = rows
<1>1. PICK t : t = Hydrate(rows, m)
  OBVIOUS
<1>2. PICK o : o = PubackOrder(rows)
  OBVIOUS
<1>3. o \in Seq(Mid)
  BY <1>2, OrderIs
<1>4. Sizes(rows) \in Nat /\ Len(rows) \in Nat /\ Mids(rows) \subseteq Mid
  BY SizesTyped, MidsOwned
<1>5. PICK w, k, n : w = [mid \in Mid |-> "none"] /\ k = [mid \in Mid |-> NoToken] /\ n = NoReplay
  OBVIOUS
<1>6. w \in [Mid -> RowState \cup {"none"}] /\ k \in [Mid -> Nat] /\ n \in Replays
  <2>1. NoReplay \in Replays
    <3>1. <<>> \in Seq(Mid) /\ -1 \in Int
      OBVIOUS
    <3> QED BY <3>1 DEF NoReplay, Replays
  <2> QED BY <1>5, <2>1 DEF NoToken
<1>7. PICK p : p = IF m THEN o ELSE <<>>
  OBVIOUS
<1>8. p \in Seq(Mid)
  BY <1>3, <1>7, EmptySeq
<1>9. t = [rows |-> rows, stored |-> Len(rows), bytes |-> Sizes(rows), recovered |-> Mids(rows),
           current |-> {}, autoAcks |-> {}, pubcomps |-> {}, pubcompSlots |-> 0, handoff |-> FALSE,
           waiting |-> w, acks |-> {}, order |-> p, tokens |-> k, replay |-> n, refused |-> "none",
           sends |-> <<>>, emits |-> <<>>]
  BY <1>1, <1>2, <1>5, <1>7 DEF Hydrate
<1>10. t \in Sessions
  <2>1. <<>> \in Seq(Packets) /\ <<>> \in Seq(Effects) /\ "none" \in Reasons
    BY EmptySeq DEF Reasons
  <2> QED BY <1>4, <1>6, <1>8, <1>9, <2>1 DEF Sessions
<1>11. /\ t.rows = rows /\ t.stored = Len(rows) /\ t.bytes = Sizes(rows) /\ t.current = {} /\ t.autoAcks = {}
       /\ t.pubcomps = {} /\ t.pubcompSlots = 0 /\ t.handoff = FALSE /\ t.waiting = w /\ t.acks = {}
       /\ t.order = p /\ t.refused = "none"
  BY <1>9
<1>12. Ledger(t)
  BY <1>11 DEF Ledger
<1>13. OrderInv(t, m) /\ HeadInv(t, m)
  BY <1>2, <1>7, <1>11 DEF OrderInv, HeadInv
<1>14. WaitInv(t, m)
  BY <1>5, <1>11 DEF WaitInv
<1>15. SlotInv(t, m)
  <2>1. Inflight(t) = 0 /\ Cardinality(t.pubcomps) = 0
    BY <1>11, NothingHeld DEF Inflight
  <2>2. 0 <= ReceiveMaximum
    BY InboundAssumptions
  <2> QED BY <1>11, <2>1, <2>2 DEF SlotInv
<1> QED BY <1>1, <1>10, <1>11, <1>12, <1>13, <1>14, <1>15 DEF Good, Core

\* discard_session
LEMMA DiscardGood ==
    ASSUME NEW s \in Sessions, manual \in BOOLEAN
    PROVE  Good(DiscardSession(s), manual) /\ DiscardSession(s).refused = "none"
<1>1. PICK h : h = Hydrate(<<>>, manual)
  OBVIOUS
<1>2. Good(h, manual) /\ h.refused = "none"
  BY <1>1, RowsEmpty, HydrateGood
<1>3. PICK t, a, b : t = DiscardSession(s) /\ a = s.sends /\ b = s.emits
  OBVIOUS
<1>4. t = [h EXCEPT !.sends = a, !.emits = b]
  BY <1>1, <1>3 DEF DiscardSession
<1>5. h \in Sessions /\ a \in Seq(Packets) /\ b \in Seq(Effects)
  BY <1>2, <1>3, SessionTyped DEF Good, Core
<1>6. t \in Sessions /\ SameBooks(h, t) /\ t.refused = h.refused
  BY <1>4, <1>5 DEF Sessions, SameBooks
<1> QED BY <1>2, <1>3, <1>6, SameGood

\* start_connection
LEMMA StartGood ==
    ASSUME NEW s, NEW m \in BOOLEAN, Good(s, m)
    PROVE  LET t == StartConnection(s) IN
           Good(t, m) /\ t.refused = s.refused /\ t.autoAcks = {} /\ t.pubcomps = {}
<1>1. s \in Sessions
  BY DEF Good, Core
<1>2. PICK t, n : t = StartConnection(s) /\ n = NoReplay
  OBVIOUS
<1>3. n \in Replays /\ {} \in SUBSET Mid
  <2>1. <<>> \in Seq(Mid) /\ -1 \in Int
    OBVIOUS
  <2> QED BY <1>2, <2>1 DEF NoReplay, Replays
<1>4. t = [s EXCEPT !.current = {}, !.autoAcks = {}, !.pubcomps = {}, !.pubcompSlots = 0,
              !.handoff = FALSE, !.acks = {}, !.replay = n]
  BY <1>2 DEF StartConnection
<1>5. /\ t \in Sessions /\ t.rows = s.rows /\ t.stored = s.stored /\ t.bytes = s.bytes /\ t.order = s.order
      /\ t.current = {} /\ t.acks = {} /\ t.autoAcks = {} /\ t.pubcomps = {} /\ t.pubcompSlots = 0
      /\ t.handoff = FALSE /\ t.waiting = s.waiting /\ t.refused = s.refused
  BY <1>1, <1>3, <1>4 DEF Sessions
<1>6. Good(t, m)
  <2>1. t.acks \subseteq s.acks
    BY <1>5
  <2> QED BY <1>5, <2>1, FreshGood
<1> QED BY <1>2, <1>5, <1>6

\* transport_closed
LEMMA ClosedGood ==
    ASSUME NEW s, NEW m \in BOOLEAN, Good(s, m)
    PROVE  LET t == Closed(s) IN
           Good(t, m) /\ t.refused = "none" /\ t.current = {} /\ t.autoAcks = {} /\ t.pubcomps = {}
<1>1. s \in Sessions
  BY DEF Good, Core
<1>2. PICK t, n, w : t = Closed(s) /\ n = NoReplay /\ w = [mid \in Mid |-> "none"]
  OBVIOUS
<1>3. /\ n \in Replays /\ w \in [Mid -> RowState \cup {"none"}] /\ "none" \in Reasons
      /\ <<>> \in Seq(Packets) /\ <<>> \in Seq(Effects)
  <2>1. <<>> \in Seq(Mid) /\ -1 \in Int
    OBVIOUS
  <2> QED BY <1>2, <2>1 DEF NoReplay, Replays, Reasons
<1>4. t = [s EXCEPT !.current = {}, !.waiting = w, !.acks = {},
              !.autoAcks = {}, !.pubcomps = {}, !.pubcompSlots = 0,
              !.handoff = FALSE, !.replay = n, !.refused = "none",
              !.sends = <<>>, !.emits = <<>>]
  BY <1>2 DEF Closed
<1>5. /\ t \in Sessions /\ t.rows = s.rows /\ t.stored = s.stored /\ t.bytes = s.bytes /\ t.order = s.order
      /\ t.current = {} /\ t.acks = {} /\ t.autoAcks = {} /\ t.pubcomps = {} /\ t.pubcompSlots = 0
      /\ t.handoff = FALSE /\ t.waiting = w /\ t.refused = "none"
  BY <1>1, <1>3, <1>4 DEF Sessions
<1>6. Good(t, m)
  <2>1. t.acks \subseteq s.acks
    BY <1>5
  <2> QED BY <1>2, <1>5, <2>1, FreshGood, ZenonT(60)
<1> QED BY <1>2, <1>5, <1>6

\* replay_session
LEMMA ReplayGood ==
    ASSUME NEW s, NEW m \in BOOLEAN, Good(s, m), Around
    PROVE  Good(ReplaySession(s), m) /\ ReplaySession(s).refused = s.refused
<1>1. s \in Sessions
  BY DEF Good, Core
<1>2. PICK rows \in Seq(Row) : rows = s.rows
  BY <1>1, SessionTyped
<1>3. CASE rows = <<>>
  <2>1. PICK t : t = [s EXCEPT !.current = {}, !.recovered = {}]
    OBVIOUS
  <2>2. ReplaySession(s) = t
    BY <1>2, <1>3, <2>1 DEF ReplaySession
  <2>3. /\ t \in Sessions /\ t.rows = s.rows /\ t.stored = s.stored /\ t.bytes = s.bytes /\ t.order = s.order
        /\ t.current = {} /\ t.acks = s.acks /\ t.autoAcks = s.autoAcks /\ t.pubcomps = s.pubcomps
        /\ t.pubcompSlots = s.pubcompSlots /\ t.handoff = s.handoff /\ t.waiting = s.waiting /\ t.refused = s.refused
    BY <1>1, <2>1 DEF Sessions
  <2>4. Good(t, m)
    <3>1. t.acks \subseteq s.acks
      BY <2>3
    <3> QED BY <2>3, <3>1, FreshGood
  <2> QED BY <2>2, <2>3, <2>4
<1>4. CASE rows # <<>>
  <2>1. PICK n, t : n = [mids |-> MidSeq(rows), remaining |-> Len(rows)] /\ t = [s EXCEPT !.current = {}, !.replay = n]
    OBVIOUS
  <2>2. ReplaySession(s) = DrainReplay(t)
    BY <1>2, <1>4, <2>1 DEF ReplaySession
  <2>3. n \in Replays
    <3>1. MidSeq(rows) \in Seq(Mid) /\ Len(rows) \in Int
      BY MidsOwned
    <3> QED BY <2>1, <3>1 DEF Replays
  <2>4. /\ t \in Sessions /\ t.rows = s.rows /\ t.stored = s.stored /\ t.bytes = s.bytes /\ t.order = s.order
        /\ t.current = {} /\ t.acks = s.acks /\ t.autoAcks = s.autoAcks /\ t.pubcomps = s.pubcomps
        /\ t.pubcompSlots = s.pubcompSlots /\ t.handoff = s.handoff /\ t.waiting = s.waiting /\ t.refused = s.refused
    BY <1>1, <2>1, <2>3 DEF Sessions
  <2>5. Good(t, m)
    <3>1. t.acks \subseteq s.acks
      BY <2>4
    <3> QED BY <2>4, <3>1, FreshGood
  <2>6. Tells(t, DrainReplay(t))
    BY <2>5, DrainReplayIs DEF Good, Core
  <2>7. PICK u : u = DrainReplay(t)
    OBVIOUS
  <2>8. Good(u, m) /\ u.refused = t.refused
    BY <2>5, <2>6, <2>7, TellsGood
  <2> QED BY <2>2, <2>4, <2>7, <2>8
<1> QED BY <1>3, <1>4

\* take_effects with release_pending_acks
LEMMA TakenGood ==
    ASSUME NEW s, NEW m \in BOOLEAN, Good(s, m)
    PROVE  LET t == Taken(s) IN
           /\ Good(t, m) /\ t.refused = s.refused /\ t.current = s.current
           /\ t.autoAcks = {} /\ t.pubcomps = {}
<1>1. s \in Sessions /\ Ledger(s) /\ SlotInv(s, m) /\ WaitInv(s, m) /\ OrderInv(s, m) /\ HeadInv(s, m)
  BY DEF Good, Core
<1>2. PICK t, n, h : /\ t = Taken(s) /\ n = (IF s.pubcomps # {} THEN 0 ELSE s.pubcompSlots)
                     /\ h = (IF s.autoAcks \cup s.pubcomps # {} THEN FALSE ELSE s.handoff)
  OBVIOUS
<1>3. t = [s EXCEPT !.sends = <<>>, !.emits = <<>>, !.autoAcks = {}, !.pubcomps = {},
              !.pubcompSlots = n, !.handoff = h]
  BY <1>2 DEF Taken
<1>4. n = 0
  <2>1. s.pubcomps = {} => s.pubcompSlots <= 0 /\ s.pubcompSlots \in Nat
    BY <1>1, NothingHeld, SessionTyped DEF SlotInv
  <2> QED BY <1>2, <2>1
<1>5. h = FALSE
  BY <1>1, <1>2, SessionTyped DEF SlotInv
<1>6. <<>> \in Seq(Packets) /\ <<>> \in Seq(Effects)
  OBVIOUS
<1>7. /\ t \in Sessions /\ t.rows = s.rows /\ t.stored = s.stored /\ t.bytes = s.bytes /\ t.order = s.order
      /\ t.current = s.current /\ t.acks = s.acks /\ t.autoAcks = {} /\ t.pubcomps = {} /\ t.pubcompSlots = 0
      /\ t.handoff = FALSE /\ t.waiting = s.waiting /\ t.refused = s.refused
  BY <1>1, <1>3, <1>4, <1>5, <1>6 DEF Sessions
<1>8. Ledger(t) /\ OrderInv(t, m) /\ HeadInv(t, m) /\ WaitInv(t, m)
  BY <1>1, <1>7 DEF Ledger, OrderInv, HeadInv, WaitInv
<1>9. SlotInv(t, m)
  <2>1. PICK x \in Nat, y \in Nat, z \in Nat : x = Cardinality(s.current) /\ y = Cardinality(s.autoAcks) /\ z = s.pubcompSlots
    BY <1>1, InflightTyped, SessionTyped
  <2>2. x + y + z <= ReceiveMaximum /\ ReceiveMaximum \in Nat
    BY <1>1, <2>1, InboundAssumptions DEF SlotInv, Inflight
  <2>3. Inflight(t) = x + 0 + 0 /\ Cardinality(t.pubcomps) = 0
    BY <1>7, <2>1, NothingHeld DEF Inflight
  <2>4. Inflight(t) <= ReceiveMaximum
    BY <2>1, <2>2, <2>3
  <2> QED BY <1>1, <1>7, <2>3, <2>4 DEF SlotInv
<1> QED BY <1>2, <1>7, <1>8, <1>9 DEF Good, Core

-----------------------------------------------------------------------------
(* The runtime.                                                            *)

\* The runtime around the session
RunTyped ==
    /\ Around /\ manual \in BOOLEAN /\ lot \in 0..LotPackets
    /\ conn \in {"DISCONNECTED", "CONNECTING", "CONNECTED"}
    /\ reader \in {"none", "reading", "failed"}
\* The lane ends with the end of its lot, and the next lot waits for it.
LaneInv == lane # <<>> => lot = 0 /\ lane[Len(lane)].kind = "LOT_END"
\* A reader that has not failed was refused nothing; without one, nothing is
\* held.
ReaderInv ==
    /\ ib.refused # "internal"
    /\ reader # "failed" => ib.refused = "none"
    /\ reader = "none" => /\ conn = "DISCONNECTED" /\ lot = 0 /\ lane = <<>>
                          /\ ib.current = {} /\ ib.autoAcks = {} /\ ib.pubcomps = {}
\* Between two lots no acknowledgement is in the batch, but for the PUBCOMPs
\* that the rest of the lane will flush.
BatchInv == lot = 0 => ib.autoAcks = {} /\ (ib.pubcomps # {} => lane # <<>>)
\* The inductive invariant
InboundInv == Good(ib, manual) /\ RunTyped /\ LaneInv /\ ReaderInv /\ BatchInv

\* It holds of a new process.
LEMMA InitInbound ==
    ASSUME Init
    PROVE  InboundInv
<1>1. manual \in BOOLEAN /\ ib = Hydrate(<<>>, manual) /\ lane = <<>> /\ handles = {} /\ lot = 0
      /\ conn = "DISCONNECTED" /\ reader = "none"
  BY InboundAssumptions DEF Init
<1>2. /\ Good(ib, manual) /\ ib.refused = "none" /\ ib.current = {} /\ ib.autoAcks = {} /\ ib.pubcomps = {}
  BY <1>1, RowsEmpty, HydrateGood
<1>3. RunTyped
  <2>1. IsFiniteSet({}) /\ <<>> \in Seq(Effects) /\ 0 \in 0..LotPackets
    BY FS_EmptySet, InboundAssumptions
  <2> QED BY <1>1, <2>1 DEF RunTyped, Around
<1> QED BY <1>1, <1>2, <1>3 DEF InboundInv, LaneInv, ReaderInv, BatchInv

\* One packet of the lot
LEMMA HandledInbound ==
    ASSUME InboundInv, NEW s, Answered(manual, s), Handled(s),
           conn' \in {"DISCONNECTED", "CONNECTING", "CONNECTED"}
    PROVE  InboundInv'
<1>1. Good(s, manual) /\ s.refused # "internal"
  BY DEF Answered
<1>2. /\ ib' = s /\ lot' = lot + 1 /\ lane = <<>> /\ lane' = <<>> /\ handles' = handles /\ manual' = manual
      /\ reader' = (IF s.refused # "none" THEN "failed" ELSE reader) /\ reader = "reading" /\ lot < LotPackets
  BY DEF Handled, Reading, Refused
<1>3. lot \in Nat /\ LotPackets \in Nat /\ IsFiniteSet(handles) /\ manual \in BOOLEAN
  BY InboundAssumptions DEF InboundInv, RunTyped, Around
<1>4. lot' \in 0..LotPackets /\ lot' # 0
  BY <1>2, <1>3
<1>5. RunTyped'
  BY <1>2, <1>3, <1>4 DEF RunTyped, Around
<1>6. LaneInv' /\ BatchInv'
  BY <1>2, <1>4 DEF LaneInv, BatchInv
<1>7. ReaderInv'
  BY <1>1, <1>2 DEF ReaderInv
<1> QED BY <1>1, <1>2, <1>5, <1>6, <1>7 DEF InboundInv

\* The states a refused packet leaves
LEMMA HandledConn ==
    ASSUME InboundInv, NEW s
    PROVE  StillConnected(s) \in {"DISCONNECTED", "CONNECTING", "CONNECTED"}
  BY DEF InboundInv, RunTyped, StillConnected

\* While the reader reads, nothing has been refused.
LEMMA ReadingGood ==
    ASSUME InboundInv, Reading
    PROVE  Good(ib, manual) /\ ib.refused = "none" /\ Around /\ manual \in BOOLEAN
  BY DEF InboundInv, Reading, ReaderInv, RunTyped

\* A QoS 0 PUBLISH
LEMMA Qos0Inbound ==
    ASSUME InboundInv, NEW m \in Message, OnPublishQos0(m)
    PROVE  InboundInv'
<1>1. PICK s : s = EmitUnmarked(ib, 0, m)
  OBVIOUS
<1>2. Handled(s) /\ conn' = conn /\ Reading
  BY <1>1 DEF OnPublishQos0, EmitUnmarked, Handled
<1>3. Good(ib, manual) /\ ib.refused = "none"
  BY <1>2, ReadingGood
<1>4. IsEmitUnmarked(ib, 0, m, s)
  BY <1>1, <1>3, EmitUnmarkedIs DEF Good, Core
<1>5. Answered(manual, s)
  <2>1. s \in Sessions /\ SameBooks(ib, s) /\ s.refused = "none"
    BY <1>3, <1>4 DEF IsEmitUnmarked
  <2> QED BY <1>3, <2>1, SameGood DEF Answered
<1>6. conn' \in {"DISCONNECTED", "CONNECTING", "CONNECTED"}
  BY <1>2 DEF InboundInv, RunTyped
<1> QED BY <1>2, <1>5, <1>6, HandledInbound

\* A QoS 1 PUBLISH
LEMMA Qos1Inbound ==
    ASSUME InboundInv, NEW mid \in Mid, NEW m \in Message, OnPublishQos1(mid, m)
    PROVE  InboundInv'
<1>1. PICK s : s = IF manual THEN OnQos1Manual(ib, mid, m) ELSE OnQos1Auto(ib, mid, m)
  OBVIOUS
<1>2. Handled(s) /\ conn' = StillConnected(s) /\ Reading
  BY <1>1 DEF OnPublishQos1, Handled
<1>3. Good(ib, manual) /\ ib.refused = "none" /\ Around /\ manual \in BOOLEAN
  BY <1>2, ReadingGood
<1>4. Answered(manual, s)
  <2>1. CASE manual = TRUE
    BY <1>1, <1>3, <2>1, OnQos1ManualGood
  <2>2. CASE manual = FALSE
    BY <1>1, <1>3, <2>2, OnQos1AutoGood
  <2> QED BY <1>3, <2>1, <2>2
<1> QED BY <1>2, <1>4, HandledConn, HandledInbound

\* A QoS 2 PUBLISH
LEMMA Qos2Inbound ==
    ASSUME InboundInv, NEW mid \in Mid, NEW m \in Message, OnPublishQos2(mid, m)
    PROVE  InboundInv'
<1>1. PICK s : s = OnQos2(ib, mid, m)
  OBVIOUS
<1>2. Handled(s) /\ conn' = StillConnected(s) /\ Reading
  BY <1>1 DEF OnPublishQos2, Handled
<1>3. Answered(manual, s)
  BY <1>1, <1>2, ReadingGood, OnQos2Good
<1> QED BY <1>2, <1>3, HandledConn, HandledInbound

\* A PUBREL
LEMMA PubrelInbound ==
    ASSUME InboundInv, NEW mid \in Mid, OnPubrel(mid)
    PROVE  InboundInv'
<1>1. PICK s : s = OnPubrelled(ib, mid)
  OBVIOUS
<1>2. Handled(s) /\ conn' = StillConnected(s) /\ Reading
  BY <1>1 DEF OnPubrel, Handled
<1>3. Answered(manual, s)
  BY <1>1, <1>2, ReadingGood, OnPubrelledGood
<1> QED BY <1>2, <1>3, HandledConn, HandledInbound

\* CONNACK replays the session or discards it.
LEMMA ConnackInbound ==
    ASSUME InboundInv, NEW sessionPresent \in BOOLEAN, OnConnack(sessionPresent)
    PROVE  InboundInv'
<1>1. PICK s : s = IF sessionPresent THEN ReplaySession(ib) ELSE DiscardSession(ib)
  OBVIOUS
<1>2. Handled(s) /\ conn' = "CONNECTED" /\ Reading
  BY <1>1 DEF OnConnack, Handled
<1>3. Good(ib, manual) /\ ib.refused = "none" /\ Around /\ manual \in BOOLEAN
  BY <1>2, ReadingGood
<1>4. Answered(manual, s)
  <2>1. CASE sessionPresent
    BY <1>1, <1>3, <2>1, ReplayGood DEF Answered
  <2>2. CASE ~sessionPresent
    <3>1. ib \in Sessions
      BY <1>3 DEF Good, Core
    <3> QED BY <1>1, <1>3, <2>2, <3>1, DiscardGood DEF Answered
  <2> QED BY <2>1, <2>2
<1> QED BY <1>2, <1>4, HandledInbound

\* What a batch hands to the lane
LEMMA HandedOver ==
    ASSUME NEW s \in Sessions, NEW u, u = IF s.emits = <<>> THEN <<>> ELSE Append(s.emits, LotEnd)
    PROVE  /\ u \in Seq(Effects) /\ Len(u) \in Nat
           /\ u # <<>> => Len(u) > 0 /\ u[Len(u)].kind = "LOT_END"
<1>1. PICK e \in Seq(Effects) : e = s.emits
  BY SessionTyped
<1>2. LotEnd \in Effects /\ LotEnd.kind = "LOT_END"
  BY DEF Effects, LotEnd
<1>3. PICK x : x = LotEnd
  OBVIOUS
<1>4. /\ Append(e, x) \in Seq(Effects) /\ Len(Append(e, x)) = Len(e) + 1 /\ Append(e, x)[Len(e) + 1] = x
      /\ Len(e) \in Nat
  BY <1>2, <1>3
<1>5. CASE e = <<>>
  BY <1>1, <1>5
<1>6. CASE e # <<>>
  BY <1>1, <1>2, <1>3, <1>4, <1>6
<1> QED BY <1>5, <1>6

\* The end of the lot
LEMMA CollectInbound ==
    ASSUME InboundInv, Collect
    PROVE  InboundInv'
<1>1. PICK t, u : t = Taken(ib) /\ u = IF ib.emits = <<>> THEN <<>> ELSE Append(ib.emits, LotEnd)
  OBVIOUS
<1>2. /\ ib' = t /\ lane' = u /\ lot' = 0 /\ conn' = conn /\ reader' = reader
      /\ handles' = handles /\ manual' = manual /\ lot # 0
  BY <1>1 DEF Collect
<1>3. Good(ib, manual) /\ ib \in Sessions /\ manual \in BOOLEAN
  BY DEF InboundInv, RunTyped, Good, Core
<1>4. Good(t, manual) /\ t.refused = ib.refused /\ t.autoAcks = {} /\ t.pubcomps = {}
  BY <1>1, <1>3, TakenGood
<1>5. u \in Seq(Effects) /\ (u # <<>> => u[Len(u)].kind = "LOT_END")
  BY <1>1, <1>3, HandedOver
<1>6. RunTyped'
  <2>1. 0 \in 0..LotPackets
    BY InboundAssumptions
  <2> QED BY <1>2, <1>5, <2>1 DEF InboundInv, RunTyped, Around
<1>7. LaneInv' /\ BatchInv'
  BY <1>2, <1>4, <1>5 DEF LaneInv, BatchInv
<1>8. ReaderInv'
  BY <1>2, <1>4 DEF InboundInv, ReaderInv
<1> QED BY <1>2, <1>4, <1>6, <1>7, <1>8 DEF InboundInv

\* The lane without its head: it ends as it did
LEMMA LaneTail ==
    ASSUME InboundInv, Draining
    PROVE  /\ Head(lane) \in Effects /\ Tail(lane) \in Seq(Effects)
           /\ Tail(lane) # <<>> => Tail(lane)[Len(Tail(lane))].kind = "LOT_END"
           /\ Head(lane).kind # "LOT_END" => Tail(lane) # <<>>
<1>1. PICK l \in Seq(Effects) : l = lane
  BY DEF InboundInv, RunTyped, Around
<1>2. l # <<>> /\ l[Len(l)].kind = "LOT_END"
  BY <1>1 DEF Draining, InboundInv, LaneInv
<1>3. PICK n \in Nat : n = Len(l)
  OBVIOUS
<1>4. n > 0 /\ Head(l) = l[1] /\ Head(l) \in Effects /\ Tail(l) \in Seq(Effects) /\ Len(Tail(l)) = n - 1
      /\ \A i \in 1..n - 1 : Tail(l)[i] = l[i + 1]
  BY <1>2, <1>3
<1>5. PICK u : u = Tail(l)
  OBVIOUS
<1>6. ASSUME u # <<>> PROVE u[Len(u)].kind = "LOT_END"
  <2>1. n - 1 > 0
    BY <1>4, <1>5, <1>6
  <2>2. n - 1 \in 1..n - 1 /\ (n - 1) + 1 = n
    BY <2>1
  <2>3. u[n - 1] = l[n]
    BY <1>4, <1>5, <2>2
  <2> QED BY <1>2, <1>3, <1>4, <1>5, <2>3
<1>7. ASSUME Head(l).kind # "LOT_END" PROVE u # <<>>
  <2>1. n # 1
    BY <1>2, <1>3, <1>4, <1>7
  <2>2. Len(u) # 0
    BY <1>4, <1>5, <2>1
  <2> QED BY <2>2
<1> QED BY <1>1, <1>4, <1>5, <1>6, <1>7

\* The application keeps finitely many handles.
LEMMA KeepsFinite ==
    ASSUME InboundInv, NEW h, Keeps({h})
    PROVE  IsFiniteSet(handles')
<1>1. IsFiniteSet(handles) /\ IsFiniteSet({h})
  BY FS_Singleton DEF InboundInv, RunTyped, Around
<1>2. PICK kept \in SUBSET {x \in handles : Stale(x)} :
          handles' = {x \in handles : ~ Stale(x)} \cup kept \cup {h}
  BY DEF Keeps
<1>3. handles' \subseteq handles \cup {h}
  BY <1>2
<1>4. IsFiniteSet(handles \cup {h})
  BY <1>1, FS_Union
<1> QED BY <1>3, <1>4, FS_Subset

\* A delivery with its mark: a PUBCOMP it sends is flushed behind it.
LEMMA DeliverMarkedInbound ==
    ASSUME InboundInv, DeliverMarked
    PROVE  InboundInv'
<1>1. PICK d, u : d = Head(lane) /\ u = Tail(lane)
  OBVIOUS
<1>2. /\ Draining /\ d.kind = "MESSAGE" /\ d.mark /\ ib' = Marked(ib, d.mid, d.token) /\ lane' = u
      /\ conn' = conn /\ reader' = reader /\ lot' = lot /\ manual' = manual
      /\ (handles' = handles \/ Keeps({[mid |-> d.mid, token |-> d.token, msg |-> d.msg]}))
  BY <1>1 DEF DeliverMarked
<1>3. d \in Effects /\ u \in Seq(Effects) /\ u # <<>> /\ u[Len(u)].kind = "LOT_END"
  BY <1>1, <1>2, LaneTail
<1>4. d.mid \in Mid
  <2>1. CASE d \in Marks
    BY <2>1 DEF Marks
  <2>2. CASE d \in Messages \ Marks
    <3>1. d.mark = FALSE
      BY <2>2 DEF Messages
    <3> QED BY <1>2, <3>1
  <2>3. CASE d \in {ContinueReplay, LotEnd}
    <3>1. d.kind # "MESSAGE"
      BY <2>3 DEF ContinueReplay, LotEnd
    <3> QED BY <1>2, <3>1
  <2> QED BY <1>3, <2>1, <2>2, <2>3 DEF Effects
<1>5. PICK t : t = Marked(ib, d.mid, d.token)
  OBVIOUS
<1>6. Good(t, manual) /\ t.refused = ib.refused /\ t.autoAcks = ib.autoAcks
  BY <1>4, <1>5, MarkedGood DEF InboundInv, RunTyped
<1>7. IsFiniteSet(handles')
  BY <1>2, KeepsFinite DEF InboundInv, RunTyped, Around
<1>8. RunTyped'
  BY <1>2, <1>3, <1>7 DEF InboundInv, RunTyped, Around
<1>9. lot = 0 /\ reader # "none"
  BY <1>2 DEF Draining
<1>10. LaneInv' /\ BatchInv'
  BY <1>2, <1>3, <1>5, <1>6, <1>9 DEF InboundInv, LaneInv, BatchInv
<1>11. ReaderInv'
  BY <1>2, <1>5, <1>6, <1>9 DEF InboundInv, ReaderInv
<1> QED BY <1>2, <1>5, <1>6, <1>8, <1>10, <1>11 DEF InboundInv

\* A delivery without one
LEMMA DeliverUnmarkedInbound ==
    ASSUME InboundInv, DeliverUnmarked
    PROVE  InboundInv'
<1>1. PICK d, u : d = Head(lane) /\ u = Tail(lane)
  OBVIOUS
<1>2. /\ Draining /\ d.kind = "MESSAGE" /\ ib' = ib /\ lane' = u /\ handles' = handles
      /\ conn' = conn /\ reader' = reader /\ lot' = lot /\ manual' = manual
  BY <1>1 DEF DeliverUnmarked
<1>3. u \in Seq(Effects) /\ u # <<>> /\ u[Len(u)].kind = "LOT_END"
  BY <1>1, <1>2, LaneTail
<1>4. RunTyped'
  BY <1>2, <1>3 DEF InboundInv, RunTyped, Around
<1>5. lot = 0 /\ reader # "none"
  BY <1>2 DEF Draining
<1>6. LaneInv' /\ BatchInv' /\ ReaderInv'
  BY <1>2, <1>3, <1>5 DEF InboundInv, LaneInv, BatchInv, ReaderInv
<1> QED BY <1>2, <1>4, <1>6 DEF InboundInv

\* A batch taken in a step of the lane, or of an acknowledgement
LEMMA TakenInbound ==
    ASSUME InboundInv, NEW s, Good(s, manual), s.refused = ib.refused, ib' = Taken(s),
           lot = 0, lot' = 0, reader # "none", reader' = reader, conn' = conn, handles' = handles,
           manual' = manual, lane' \in Seq(Effects),
           lane' # <<>> => lane'[Len(lane')].kind = "LOT_END"
    PROVE  InboundInv'
<1>1. PICK t : t = Taken(s)
  OBVIOUS
<1>2. manual \in BOOLEAN
  BY DEF InboundInv, RunTyped
<1>3. Good(t, manual) /\ t.refused = ib.refused /\ t.autoAcks = {} /\ t.pubcomps = {}
  BY <1>1, <1>2, TakenGood
<1>4. RunTyped'
  BY DEF InboundInv, RunTyped, Around
<1>5. LaneInv' /\ BatchInv' /\ ReaderInv'
  BY <1>1, <1>3 DEF InboundInv, LaneInv, BatchInv, ReaderInv
<1> QED BY <1>1, <1>3, <1>4, <1>5 DEF InboundInv

\* The next page of the replay
LEMMA ContinueInbound ==
    ASSUME InboundInv, Continue
    PROVE  InboundInv'
<1>1. PICK s, l, u : s = DrainReplay(ib) /\ l = Tail(lane) /\ u = IF s.emits = <<>> THEN <<>> ELSE Append(s.emits, LotEnd)
  OBVIOUS
<1>2. /\ Draining /\ Head(lane) = ContinueReplay /\ ib' = Taken(s) /\ lane' = l \o u /\ handles' = handles
      /\ conn' = conn /\ reader' = reader /\ lot' = lot /\ manual' = manual
  BY <1>1 DEF Continue
<1>3. Good(ib, manual) /\ Around /\ ib \in Sessions /\ Ledger(ib)
  BY DEF InboundInv, RunTyped, Good, Core
<1>4. Tells(ib, s)
  BY <1>1, <1>3, DrainReplayIs
<1>5. Good(s, manual) /\ s.refused = ib.refused /\ s \in Sessions
  BY <1>3, <1>4, TellsGood DEF Tells
<1>6. /\ u \in Seq(Effects) /\ Len(u) \in Nat
      /\ u # <<>> => Len(u) > 0 /\ u[Len(u)].kind = "LOT_END"
  BY <1>1, <1>5, HandedOver
<1>7. l \in Seq(Effects) /\ (l # <<>> => l[Len(l)].kind = "LOT_END")
  BY <1>1, <1>2, LaneTail
<1>8. PICK v : v = l \o u
  OBVIOUS
<1>9. v \in Seq(Effects) /\ (v # <<>> => v[Len(v)].kind = "LOT_END")
  <2>1. CASE u = <<>>
    <3>1. v = l
      BY <1>7, <1>8, <2>1
    <3> QED BY <1>7, <3>1
  <2>2. CASE u # <<>>
    <3>1. PICK a \in Nat, b \in Nat : a = Len(l) /\ b = Len(u) /\ b > 0
      BY <1>6, <1>7, <2>2
    <3>2. v \in Seq(Effects) /\ Len(v) = a + b
      BY <1>6, <1>7, <1>8, <3>1
    <3>3. v[a + b] = u[b]
      BY <1>6, <1>7, <1>8, <3>1
    <3> QED BY <1>6, <2>2, <3>1, <3>2, <3>3
  <2> QED BY <2>1, <2>2
<1>10. lot = 0 /\ lot' = 0 /\ reader # "none"
  BY <1>2 DEF Draining
<1> QED BY <1>2, <1>5, <1>8, <1>9, <1>10, TakenInbound

\* The end of the lane
LEMMA FlushInbound ==
    ASSUME InboundInv, FlushCompletions
    PROVE  InboundInv'
<1>1. /\ Draining /\ ib' = Taken(ib) /\ lane' = Tail(lane) /\ handles' = handles
      /\ conn' = conn /\ reader' = reader /\ lot' = lot /\ manual' = manual
  BY DEF FlushCompletions
<1>2. lane' \in Seq(Effects) /\ (lane' # <<>> => lane'[Len(lane')].kind = "LOT_END")
  BY <1>1, LaneTail
<1>3. lot = 0 /\ lot' = 0 /\ reader # "none" /\ Good(ib, manual)
  BY <1>1 DEF Draining, InboundInv
<1> QED BY <1>1, <1>2, <1>3, TakenInbound

\* An acknowledgement of the application
LEMMA AckInbound ==
    ASSUME InboundInv, NEW h \in handles, Ack(h)
    PROVE  InboundInv'
<1>1. PICK s : s = Acked(ib, h.mid)
  OBVIOUS
<1>2. /\ conn = "CONNECTED" /\ manual /\ lot = 0 /\ Stored(ib, h.mid) /\ ib' = Taken(s) /\ lane' = lane /\ handles' = handles
      /\ conn' = conn /\ reader' = reader /\ lot' = lot /\ manual' = manual
  BY <1>1 DEF Ack
<1>3. Good(ib, TRUE) /\ manual = TRUE
  BY <1>2 DEF InboundInv, RunTyped
<1>4. Good(s, manual) /\ s.refused = ib.refused
  BY <1>1, <1>2, <1>3, AckedGood
<1>5. lane' \in Seq(Effects) /\ (lane' # <<>> => lane'[Len(lane')].kind = "LOT_END")
  BY <1>2 DEF InboundInv, RunTyped, Around, LaneInv
<1>6. reader # "none" /\ lot' = 0
  BY <1>2 DEF InboundInv, ReaderInv
<1> QED BY <1>2, <1>4, <1>5, <1>6, TakenInbound

\* A new connection
LEMMA BeginInbound ==
    ASSUME InboundInv, BeginConnect
    PROVE  InboundInv'
<1>1. PICK t : t = StartConnection(ib)
  OBVIOUS
<1>2. /\ reader = "none" /\ reader' = "reading" /\ conn' = "CONNECTING" /\ ib' = t /\ lane' = lane
      /\ handles' = handles /\ lot' = lot /\ manual' = manual
  BY <1>1 DEF BeginConnect
<1>3. Good(t, manual) /\ t.refused = ib.refused /\ t.autoAcks = {} /\ t.pubcomps = {}
  BY <1>1, StartGood DEF InboundInv, RunTyped
<1>4. ib.refused = "none"
  BY <1>2 DEF InboundInv, ReaderInv
<1>5. RunTyped' /\ LaneInv'
  BY <1>2 DEF InboundInv, RunTyped, Around, LaneInv
<1>6. BatchInv' /\ ReaderInv'
  BY <1>2, <1>3, <1>4 DEF BatchInv, ReaderInv
<1> QED BY <1>2, <1>3, <1>5, <1>6 DEF InboundInv

\* The end of one
LEMMA RetireInbound ==
    ASSUME InboundInv, Retire
    PROVE  InboundInv'
<1>1. PICK t : t = Closed(ib)
  OBVIOUS
<1>2. /\ reader' = "none" /\ conn' = "DISCONNECTED" /\ ib' = t /\ lane' = <<>>
      /\ handles' = handles /\ lot = 0 /\ lot' = lot /\ manual' = manual
  BY <1>1 DEF Retire
<1>3. Good(t, manual) /\ t.refused = "none" /\ t.current = {} /\ t.autoAcks = {} /\ t.pubcomps = {}
  BY <1>1, ClosedGood DEF InboundInv, RunTyped
<1>4. RunTyped' /\ LaneInv'
  BY <1>2 DEF InboundInv, RunTyped, Around, LaneInv
<1>5. BatchInv' /\ ReaderInv'
  BY <1>2, <1>3 DEF BatchInv, ReaderInv
<1> QED BY <1>2, <1>3, <1>4, <1>5 DEF InboundInv

\* A new process on the same store
LEMMA RestartInbound ==
    ASSUME InboundInv, Restart
    PROVE  InboundInv'
<1>1. PICK t, m, rows : t = Hydrate(ib.rows, manual') /\ m = manual' /\ rows = ib.rows
  OBVIOUS
<1>2. /\ reader' = "none" /\ conn' = "DISCONNECTED" /\ ib' = t /\ lane' = <<>>
      /\ handles' = {} /\ lot = 0 /\ lot' = lot /\ m \in BOOLEAN
  BY <1>1, InboundAssumptions DEF Restart
<1>3. rows \in Seq(Row) /\ Keyed(rows)
  BY <1>1, SessionTyped DEF InboundInv, Good, Core, Ledger
<1>4. t = Hydrate(rows, m)
  BY <1>1
<1>5. Good(t, m) /\ t.refused = "none" /\ t.current = {} /\ t.autoAcks = {} /\ t.pubcomps = {}
  BY <1>2, <1>3, <1>4, HydrateGood
<1>6. RunTyped' /\ LaneInv'
  <2>1. IsFiniteSet({})
    BY FS_EmptySet
  <2> QED BY <1>1, <1>2, <2>1 DEF InboundInv, RunTyped, Around, LaneInv
<1>7. BatchInv' /\ ReaderInv'
  BY <1>2, <1>5 DEF BatchInv, ReaderInv
<1> QED BY <1>1, <1>2, <1>5, <1>6, <1>7 DEF InboundInv

\* Every step
LEMMA NextInbound ==
    ASSUME InboundInv, [Next]_vars
    PROVE  InboundInv'
<1>1. CASE UNCHANGED vars
  BY <1>1 DEF vars, InboundInv, RunTyped, Around, LaneInv, ReaderInv, BatchInv
<1>2. CASE Next
  BY <1>2, Qos0Inbound, Qos1Inbound, Qos2Inbound, PubrelInbound, ConnackInbound, CollectInbound,
     DeliverMarkedInbound, DeliverUnmarkedInbound, ContinueInbound, FlushInbound, AckInbound,
     BeginInbound, RetireInbound, RestartInbound
     DEF Next
<1> QED BY <1>1, <1>2

\* As many identifiers as rows
LEMMA KeyedCount ==
    ASSUME NEW rows \in Seq(Row), Keyed(rows)
    PROVE  Cardinality(Mids(rows)) = Len(rows)
<1>1. PICK n \in Nat : n = Len(rows)
  OBVIOUS
<1>2. PICK f, M : f = [i \in 1..n |-> rows[i].mid] /\ M = Mids(rows)
  OBVIOUS
<1>3. \A k : k \in M <=> \E i \in 1..n : rows[i].mid = k
  BY <1>1, <1>2, MidsOwned DEF Owns
<1>4. f \in [1..n -> M] /\ \A i \in 1..n : f[i] = rows[i].mid
  BY <1>2, <1>3
<1>5. \A i, j \in 1..n : f[i] = f[j] => i = j
  BY <1>1, <1>4 DEF Keyed
<1>6. \A k \in M : \E i \in 1..n : f[i] = k
  BY <1>3, <1>4
<1>7. f \in Bijection(1..n, M)
  BY <1>4, <1>5, <1>6 DEF Bijection, Injection, Surjection, IsInjective
<1>8. IsFiniteSet(1..n) /\ Cardinality(1..n) = n
  <2>1. PICK a \in Int, b \in Int : a = 1 /\ b = n
    OBVIOUS
  <2>2. IsFiniteSet(a..b) /\ Cardinality(a..b) = IF a > b THEN 0 ELSE b - a + 1
    BY FS_Interval
  <2> QED BY <2>1, <2>2
<1>9. Cardinality(M) = Cardinality(1..n)
  <2>1. ExistsBijection(1..n, M)
    BY <1>7 DEF ExistsBijection
  <2> QED BY <1>8, <2>1, FS_Bijection
<1> QED BY <1>1, <1>2, <1>8, <1>9

\* The invariant says what SessionExact says.
LEMMA InboundExact ==
    ASSUME InboundInv
    PROVE  SessionExact
<1>1. /\ ib \in Sessions /\ Ledger(ib) /\ SlotInv(ib, manual) /\ OrderInv(ib, manual)
      /\ HeadInv(ib, manual) /\ RunTyped
  BY DEF InboundInv, Good, Core
<1>2. TypeOK
  BY <1>1, SessionTyped DEF TypeOK, RunTyped, Reasons
<1>3. PICK rows \in Seq(Row) : rows = ib.rows
  BY <1>1, SessionTyped
<1>4. LedgerExact
  <2>1. Cardinality(Mids(rows)) = Len(rows)
    BY <1>1, <1>3, KeyedCount DEF Ledger
  <2> QED BY <1>1, <1>3, <2>1 DEF LedgerExact, Ledger, InboundInv, ReaderInv
<1>5. AckOrderExact
  <2> SUFFICES ASSUME manual
               PROVE  /\ ib.order = PubackOrder(rows) /\ ib.acks \subseteq Range(ib.order)
                      /\ ReadyPrefix(ib) = <<>>
    BY <1>3 DEF AckOrderExact
  <2>1. ib.order = PubackOrder(rows) /\ ib.acks \subseteq PubackMids(rows)
    BY <1>1, <1>3 DEF OrderInv
  <2>2. \A m : m \in Range(PubackOrder(rows)) <=> m \in PubackMids(rows)
    BY OrderIs
  <2>3. PICK o \in Seq(Mid) : o = ib.order
    BY <1>1, SessionTyped
  <2>4. PICK n \in Nat : IsReady(ib, n)
    BY <2>3, ReadyIs
  <2>5. n <= Len(o) /\ ReadyPrefix(ib) = SubSeq(o, 1, n) /\ \A i \in 1..n : o[i] \in ib.acks \cap ib.current
    BY <2>3, <2>4 DEF IsReady
  <2>6. n = 0
    <3> SUFFICES ASSUME n # 0 PROVE FALSE
      OBVIOUS
    <3>1. o # <<>> /\ Head(o) = o[1] /\ 1 \in 1..n
      BY <2>5
    <3> QED BY <1>1, <2>3, <2>5, <3>1 DEF HeadInv
  <2>7. SubSeq(o, 1, 0) = <<>>
    OBVIOUS
  <2> QED BY <2>1, <2>2, <2>5, <2>6, <2>7
<1>6. SlotsOwned
  <2>1. ASSUME conn = "CONNECTED", lot = 0, lane = <<>> PROVE ib.autoAcks \cup ib.pubcomps = {}
    BY <2>1 DEF InboundInv, BatchInv
  <2>2. ASSUME reader = "none" PROVE Inflight(ib) = 0
    <3>1. ib.current = {} /\ ib.autoAcks = {} /\ ib.pubcomps = {}
      BY <2>2 DEF InboundInv, ReaderInv
    <3>2. ib.pubcompSlots \in Nat /\ ib.pubcompSlots <= 0
      BY <1>1, <3>1, NothingHeld, SessionTyped DEF SlotInv
    <3> QED BY <3>1, <3>2, NothingHeld DEF Inflight
  <2> QED BY <1>1, <2>1, <2>2 DEF SlotsOwned, SlotInv
<1> QED BY <1>2, <1>4, <1>5, <1>6 DEF SessionExact

(***************************************************************************)
(* Every method of the inbound session leaves a good session behind, in    *)
(* every order of packets, deliveries, acknowledgements, losses and        *)
(* restarts.                                                               *)
(***************************************************************************)
THEOREM InboundInvariant == Spec => []InboundInv
<1>1. Init => InboundInv
  BY InitInbound
<1>2. InboundInv /\ [Next]_vars => InboundInv'
  BY NextInbound
<1> QED BY <1>1, <1>2, PTL DEF Spec

(***************************************************************************)
(* The count that lets inbound.py skip the store, the byte reservation,    *)
(* the order of manual acknowledgement and the Receive Maximum slots agree *)
(* with the durable rows, so none of its internal errors is ever raised,   *)
(* nothing due is left unacknowledged, and no slot outlives its batch or   *)
(* its connection: for every set of identifiers and messages, every limit, *)
(* lot and page size.                                                      *)
(***************************************************************************)
THEOREM InboundSessionExact == Spec => []SessionExact
<1>1. InboundInv => SessionExact
  BY InboundExact
<1> QED BY <1>1, InboundInvariant, PTL

-----------------------------------------------------------------------------
(* What is on its way to the application.                                  *)

\* A delivery of the exchange that owns the identifier now
Current(s, d, mid) == d \in Marks /\ d.mid = mid /\ d.token = s.tokens[mid]
\* There is none among q; there is at most one.
None(s, q, mid) == \A i \in 1..Len(q) : ~Current(s, q[i], mid)
Once(s, q, mid) ==
    \A i \in 1..Len(q) : \A j \in 1..Len(q) :
        Current(s, q[i], mid) /\ Current(s, q[j], mid) => i = j
\* A WAIT_PUBACK row holds no QoS 2 message.
Kinds(s) == \A r : Has(s.rows, r) /\ r.state = "WAIT_PUBACK" => QosOf[r.msg] # 2
\* Every row that is not delivered has a delivery among q or is to be replayed (M);
\* a QoS 2 row has at most one, and none once it is delivered or while it is
\* to be replayed.
Road(s, q, m, M) ==
    /\ \A i \in 1..Len(q) : q[i] \in Marks => q[i].token # NoToken
    /\ \A r : Has(s.rows, r) /\ ~r.delivered => r.mid \in M \/ ~None(s, q, r.mid)
    /\ \A r : Has(s.rows, r) /\ QosOf[r.msg] = 2 =>
        /\ Once(s, q, r.mid)
        /\ (r.delivered /\ ~m) \/ r.mid \in M => None(s, q, r.mid)

\* Such a session has the same deliveries before it.
LEMMA RoadLessens ==
    ASSUME NEW s, NEW t, Lessens(s, t), NEW q, NEW m, NEW M
    PROVE  /\ Road(s, q, m, M) => Road(t, q, m, M)
           /\ Kinds(s) => Kinds(t)
<1>1. ASSUME NEW r, Has(t.rows, r)
      PROVE  /\ None(t, q, r.mid) <=> None(s, q, r.mid)
             /\ Once(t, q, r.mid) <=> Once(s, q, r.mid)
  <2>1. t.tokens[r.mid] = s.tokens[r.mid]
    BY <1>1 DEF Lessens
  <2>2. \A d : Current(t, d, r.mid) <=> Current(s, d, r.mid)
    BY <2>1 DEF Current
  <2> QED BY <2>2 DEF None, Once
<1>2. ASSUME Road(s, q, m, M) PROVE Road(t, q, m, M)
  <2>1. ASSUME NEW r, Has(t.rows, r), ~r.delivered PROVE r.mid \in M \/ ~None(t, q, r.mid)
    <3>1. PICK o : Has(s.rows, o) /\ o.mid = r.mid /\ o.delivered = r.delivered
      BY <2>1 DEF Lessens
    <3>2. r.mid \in M \/ ~None(s, q, r.mid)
      BY <1>2, <2>1, <3>1 DEF Road
    <3> QED BY <1>1, <2>1, <3>2
  <2>2. ASSUME NEW r, Has(t.rows, r), QosOf[r.msg] = 2
        PROVE  /\ Once(t, q, r.mid)
               /\ (r.delivered /\ ~m) \/ r.mid \in M => None(t, q, r.mid)
    <3>1. PICK o : Has(s.rows, o) /\ o.mid = r.mid /\ o.msg = r.msg /\ o.delivered = r.delivered
      BY <2>2 DEF Lessens
    <3>2. /\ Once(s, q, r.mid)
          /\ (r.delivered /\ ~m) \/ r.mid \in M => None(s, q, r.mid)
      BY <1>2, <2>2, <3>1 DEF Road
    <3> QED BY <1>1, <2>2, <3>2
  <2> QED BY <1>2, <2>1, <2>2 DEF Road
<1>3. ASSUME Kinds(s) PROVE Kinds(t)
  BY <1>3 DEF Kinds, Lessens
<1> QED BY <1>2, <1>3

\* What q says after one more effect
LEMMA RoadAppends ==
    ASSUME NEW s, NEW q \in Seq(Effects), NEW e \in Effects, NEW mid, NEW u, u = Append(q, e)
    PROVE  /\ None(s, u, mid) <=> None(s, q, mid) /\ ~Current(s, e, mid)
           /\ ~Current(s, e, mid) => (Once(s, u, mid) <=> Once(s, q, mid))
           /\ None(s, q, mid) => Once(s, u, mid)
<1>1. PICK n \in Nat : n = Len(q)
  OBVIOUS
<1>2. u \in Seq(Effects) /\ Len(u) = n + 1 /\ u[n + 1] = e /\ \A i \in 1..n : u[i] = q[i]
  BY <1>1
<1>3. 1..n + 1 = 1..n \cup {n + 1} /\ n + 1 \notin 1..n
  BY <1>1
<1>4. None(s, u, mid) <=> None(s, q, mid) /\ ~Current(s, e, mid)
  BY <1>1, <1>2, <1>3 DEF None
<1>5. ~Current(s, e, mid) => (Once(s, u, mid) <=> Once(s, q, mid))
  BY <1>1, <1>2, <1>3 DEF Once
<1>6. None(s, q, mid) => Once(s, u, mid)
  BY <1>1, <1>2, <1>3 DEF Once, None
<1> QED BY <1>4, <1>5, <1>6

\* An effect that is no marked delivery
LEMMA RoadPlain ==
    ASSUME NEW s, NEW q \in Seq(Effects), NEW m, NEW M, Road(s, q, m, M), NEW e \in Effects, e \notin Marks
    PROVE  Road(s, Append(q, e), m, M)
<1>1. PICK u : u = Append(q, e)
  OBVIOUS
<1>2. \A mid : (None(s, u, mid) <=> None(s, q, mid)) /\ (Once(s, u, mid) <=> Once(s, q, mid))
  BY <1>1, RoadAppends DEF Current
<1>3. \A i \in 1..Len(u) : u[i] \in Marks => u[i].token # NoToken
  <2>1. PICK n \in Nat : n = Len(q)
    OBVIOUS
  <2>2. Len(u) = n + 1 /\ u[n + 1] = e /\ \A i \in 1..n : u[i] = q[i]
    BY <1>1, <2>1
  <2> QED BY <2>1, <2>2 DEF Road
<1>4. Road(s, u, m, M)
  BY <1>2, <1>3 DEF Road
<1> QED BY <1>1, <1>4

\* Fewer identifiers are to be replayed, when the others have been delivered.
LEMMA RoadFewer ==
    ASSUME NEW s, NEW q, NEW m, NEW M, Road(s, q, m, M), NEW N, N \subseteq M,
           \A r : Has(s.rows, r) /\ ~r.delivered /\ r.mid \in M => r.mid \in N
    PROVE  Road(s, q, m, N)
  BY DEF Road

\* What q says without its head
LEMMA RoadTails ==
    ASSUME NEW s, NEW q \in Seq(Effects), q # <<>>, NEW mid, NEW u, u = Tail(q)
    PROVE  /\ None(s, q, mid) <=> None(s, u, mid) /\ ~Current(s, Head(q), mid)
           /\ Once(s, q, mid) => Once(s, u, mid)
           /\ Once(s, q, mid) /\ Current(s, Head(q), mid) => None(s, u, mid)
<1>1. PICK n \in Nat : n = Len(q) /\ n > 0
  OBVIOUS
<1>2. Head(q) = q[1] /\ Len(u) = n - 1 /\ \A i \in 1..n - 1 : u[i] = q[i + 1]
  BY <1>1
<1>3. /\ 1 \in 1..n /\ \A i \in 1..n - 1 : i + 1 \in 1..n /\ i + 1 # 1
      /\ \A i \in 1..n : i # 1 => i - 1 \in 1..n - 1 /\ (i - 1) + 1 = i
      /\ \A i \in 1..n - 1 : \A j \in 1..n - 1 : i + 1 = j + 1 => i = j
  BY <1>1
<1>4. None(s, q, mid) <=> None(s, u, mid) /\ ~Current(s, Head(q), mid)
  <2>1. None(s, q, mid) => None(s, u, mid) /\ ~Current(s, Head(q), mid)
    BY <1>1, <1>2, <1>3 DEF None
  <2>2. ASSUME None(s, u, mid), ~Current(s, Head(q), mid), NEW i \in 1..n PROVE ~Current(s, q[i], mid)
    <3>1. CASE i = 1
      BY <1>2, <2>2, <3>1
    <3>2. CASE i # 1
      <4>1. i - 1 \in 1..Len(u) /\ u[i - 1] = q[i]
        BY <1>2, <1>3, <3>2
      <4> QED BY <2>2, <4>1 DEF None
    <3> QED BY <3>1, <3>2
  <2> QED BY <1>1, <2>1, <2>2 DEF None
<1>5. Once(s, q, mid) => Once(s, u, mid)
  <2> SUFFICES ASSUME Once(s, q, mid), NEW i \in 1..n - 1, NEW j \in 1..n - 1,
                      Current(s, u[i], mid), Current(s, u[j], mid)
               PROVE  i = j
    BY <1>2 DEF Once
  <2>1. i + 1 \in 1..Len(q) /\ j + 1 \in 1..Len(q) /\ u[i] = q[i + 1] /\ u[j] = q[j + 1]
    BY <1>1, <1>2, <1>3
  <2>2. i + 1 = j + 1
    BY <2>1 DEF Once
  <2> QED BY <1>3, <2>2
<1>6. Once(s, q, mid) /\ Current(s, Head(q), mid) => None(s, u, mid)
  <2> SUFFICES ASSUME Once(s, q, mid), Current(s, Head(q), mid), NEW i \in 1..n - 1, Current(s, u[i], mid)
               PROVE  FALSE
    BY <1>2 DEF None
  <2>1. i + 1 \in 1..Len(q) /\ 1 \in 1..Len(q) /\ u[i] = q[i + 1] /\ Head(q) = q[1]
    BY <1>1, <1>2, <1>3
  <2>2. i + 1 = 1
    BY <2>1 DEF Once
  <2> QED BY <1>3, <2>2
<1> QED BY <1>4, <1>5, <1>6

\* The other effects of q
LEMMA MarksTail ==
    ASSUME NEW q \in Seq(Effects), q # <<>>, \A i \in 1..Len(q) : q[i] \in Marks => q[i].token # NoToken,
           NEW u, u = Tail(q)
    PROVE  \A i \in 1..Len(u) : u[i] \in Marks => u[i].token # NoToken
<1>1. PICK n \in Nat : n = Len(q) /\ n > 0
  OBVIOUS
<1>2. Len(u) = n - 1 /\ \A i \in 1..n - 1 : u[i] = q[i + 1] /\ i + 1 \in 1..n
  BY <1>1
<1> QED BY <1>1, <1>2

\* An effect that no undelivered row is waiting for has been handed over.
LEMMA RoadTail ==
    ASSUME NEW s, NEW q \in Seq(Effects), q # <<>>, NEW m, NEW M, Road(s, q, m, M),
           \A r : Has(s.rows, r) /\ ~r.delivered => ~Current(s, Head(q), r.mid)
    PROVE  Road(s, Tail(q), m, M)
<1>1. PICK u : u = Tail(q)
  OBVIOUS
<1>2. \A mid : /\ None(s, q, mid) <=> None(s, u, mid) /\ ~Current(s, Head(q), mid)
               /\ Once(s, q, mid) => Once(s, u, mid)
  BY <1>1, RoadTails
<1>3. \A i \in 1..Len(u) : u[i] \in Marks => u[i].token # NoToken
  BY <1>1, MarksTail DEF Road
<1>4. ASSUME NEW r, Has(s.rows, r), ~r.delivered PROVE r.mid \in M \/ ~None(s, u, r.mid)
  BY <1>2, <1>4 DEF Road
<1>5. ASSUME NEW r, Has(s.rows, r), QosOf[r.msg] = 2
      PROVE  /\ Once(s, u, r.mid)
             /\ (r.delivered /\ ~m) \/ r.mid \in M => None(s, u, r.mid)
  BY <1>2, <1>5 DEF Road
<1>6. Road(s, u, m, M)
  BY <1>3, <1>4, <1>5 DEF Road
<1> QED BY <1>1, <1>6

\* The rows when one is replaced
LEMMA ChangedRows ==
    ASSUME NEW rows \in Seq(Row), NEW mid, NEW new
    PROVE  \A r : Has(Changed(rows, mid, new), r) => r = new \/ (Has(rows, r) /\ r.mid # mid)
<1>1. PICK v : v = Changed(rows, mid, new)
  OBVIOUS
<1>2. DOMAIN rows = 1..Len(rows) /\ Len(rows) \in Nat
  OBVIOUS
<1>3. v = [i \in 1..Len(rows) |-> IF rows[i].mid = mid THEN new ELSE rows[i]]
  BY <1>1, <1>2 DEF Changed
<1>4. Len(v) = Len(rows) /\ \A i \in 1..Len(rows) : v[i] = IF rows[i].mid = mid THEN new ELSE rows[i]
  BY <1>2, <1>3
<1> QED BY <1>1, <1>4 DEF Has

\* A row that is marked delivered, and its delivery gone
LEMMA RoadMarked ==
    ASSUME NEW s \in Sessions, NEW q \in Seq(Effects), q # <<>>, NEW m, NEW M, Road(s, q, m, M), Kinds(s),
           NEW row, Has(s.rows, row), NEW mid, row.mid = mid, Current(s, Head(q), mid),
           NEW new, new.mid = mid, new.msg = row.msg, new.delivered = TRUE, new.state = row.state,
           NEW t, t.rows = Changed(s.rows, mid, new), t.tokens = s.tokens
    PROVE  Road(t, Tail(q), m, M) /\ Kinds(t)
<1>1. PICK u, h : u = Tail(q) /\ h = Head(q)
  OBVIOUS
<1>2. \A k : /\ None(s, q, k) <=> None(s, u, k) /\ ~Current(s, h, k)
             /\ Once(s, q, k) => Once(s, u, k)
             /\ Once(s, q, k) /\ Current(s, h, k) => None(s, u, k)
  BY <1>1, RoadTails
<1>3. \A i \in 1..Len(u) : u[i] \in Marks => u[i].token # NoToken
  BY <1>1, MarksTail DEF Road
<1>4. \A r : Has(t.rows, r) => r = new \/ (Has(s.rows, r) /\ r.mid # mid)
  <2>1. PICK rows \in Seq(Row) : rows = s.rows
    BY SessionTyped
  <2> QED BY <2>1, ChangedRows
<1>5. \A k, d : Current(t, d, k) <=> Current(s, d, k)
  BY DEF Current
<1>6. \A k : (None(t, u, k) <=> None(s, u, k)) /\ (Once(t, u, k) <=> Once(s, u, k))
  BY <1>5 DEF None, Once
<1>7. \A k : k # mid => ~Current(s, h, k)
  BY <1>1 DEF Current
<1>8. ASSUME NEW r, Has(t.rows, r), ~r.delivered PROVE r.mid \in M \/ ~None(t, u, r.mid)
  <2>1. Has(s.rows, r) /\ r.mid # mid
    BY <1>4, <1>8
  <2>2. r.mid \in M \/ ~None(s, q, r.mid)
    BY <1>8, <2>1 DEF Road
  <2> QED BY <1>2, <1>6, <1>7, <2>1, <2>2
<1>9. ASSUME NEW r, Has(t.rows, r), QosOf[r.msg] = 2
      PROVE  /\ Once(t, u, r.mid)
             /\ (r.delivered /\ ~m) \/ r.mid \in M => None(t, u, r.mid)
  <2>1. CASE r = new
    <3>1. Once(s, q, mid)
      BY <1>9, <2>1 DEF Road
    <3>2. None(s, u, mid) /\ Once(s, u, mid)
      BY <1>1, <1>2, <3>1
    <3> QED BY <1>6, <2>1, <3>2
  <2>2. CASE Has(s.rows, r) /\ r.mid # mid
    <3>1. /\ Once(s, q, r.mid)
          /\ (r.delivered /\ ~m) \/ r.mid \in M => None(s, q, r.mid)
      BY <1>9, <2>2 DEF Road
    <3> QED BY <1>2, <1>6, <3>1
  <2> QED BY <1>4, <1>9, <2>1, <2>2
<1>10. Road(t, u, m, M)
  BY <1>3, <1>8, <1>9 DEF Road
<1>11. Kinds(t)
  BY <1>4 DEF Kinds
<1> QED BY <1>1, <1>10, <1>11

\* The identities on the way are alive.
Old(s, q) == \A i \in 1..Len(q) : q[i].token \in TokensAlive(s)

\* One more delivery of a row: of QoS 1, or to be replayed and now told
LEMMA RoadEmits ==
    ASSUME NEW s \in Sessions, Ledger(s), NEW q \in Seq(Effects), NEW m, NEW M, Road(s, q, m, M), Old(s, q),
           NEW row, Has(s.rows, row), NEW t, IsEmit(s, row, t), NEW N, N \subseteq M, M \subseteq N \cup {row.mid},
           QosOf[row.msg] = 2 => row.mid \in M /\ row.mid \notin N /\ (row.delivered => m)
    PROVE  Road(t, Append(q, Delivery(row.mid, row.msg, t.tokens[row.mid], TRUE)), m, N)
<1>1. PICK d, u, mid : d = Delivery(row.mid, row.msg, t.tokens[row.mid], TRUE) /\ u = Append(q, d) /\ mid = row.mid
  OBVIOUS
<1>2. /\ d \in Marks /\ d.mid = mid /\ d.token = t.tokens[mid] /\ d.token # NoToken /\ t.rows = s.rows /\ d \in Effects
      /\ \A k \in Mid : k # mid \/ s.tokens[k] # NoToken => t.tokens[k] = s.tokens[k]
      /\ s.tokens[mid] = NoToken => t.tokens[mid] \notin TokensAlive(s)
  BY <1>1 DEF IsEmit, SameBooks, Delivery, Effects, Messages
<1>0. u = Append(q, d) /\ d \in Effects
  BY <1>1, <1>2
<1>3. /\ \A r : Has(s.rows, r) /\ r.mid = mid => r = row
      /\ \A r : Has(s.rows, r) => r.mid \in Mid
  <2>1. \A r : Has(s.rows, r) => RowOf(s, r.mid) = r /\ r.mid \in Mid
    BY StoredRow
  <2>2. row.mid = mid
    BY <1>1
  <2> QED BY <2>1, <2>2
<1>4. \A i \in 1..Len(u) : u[i] \in Marks => u[i].token # NoToken
  <2>1. PICK n \in Nat : n = Len(q)
    OBVIOUS
  <2>2. Len(u) = n + 1 /\ u[n + 1] = d /\ \A i \in 1..n : u[i] = q[i]
    BY <1>0, <2>1
  <2> QED BY <1>2, <2>1, <2>2 DEF Road
<1>5. \A k \in Mid : k # mid => (None(t, u, k) <=> None(s, q, k)) /\ (Once(t, u, k) <=> Once(s, q, k))
  <2> SUFFICES ASSUME NEW k \in Mid, k # mid
               PROVE  (None(t, u, k) <=> None(s, q, k)) /\ (Once(t, u, k) <=> Once(s, q, k))
    OBVIOUS
  <2>1. \A e : Current(t, e, k) <=> Current(s, e, k)
    BY <1>2 DEF Current
  <2>2. ~Current(t, d, k)
    BY <1>2 DEF Current
  <2>3. (None(t, u, k) <=> None(t, q, k)) /\ (Once(t, u, k) <=> Once(t, q, k))
    BY <1>0, <2>2, RoadAppends
  <2> QED BY <2>1, <2>3 DEF None, Once
<1>6. ~None(t, u, mid)
  <2>1. Current(t, d, mid)
    BY <1>2 DEF Current
  <2> QED BY <1>0, <2>1, RoadAppends
<1>7. None(s, q, mid) => Once(t, u, mid)
  <2> SUFFICES ASSUME None(s, q, mid) PROVE None(t, q, mid)
    BY <1>0, RoadAppends
  <2>0. mid \in Mid
    BY <1>1, <1>3
  <2> SUFFICES ASSUME NEW i \in 1..Len(q), Current(t, q[i], mid) PROVE FALSE
    BY DEF None
  <2>1. CASE s.tokens[mid] # NoToken
    <3>1. Current(s, q[i], mid)
      BY <1>2, <2>0, <2>1 DEF Current
    <3> QED BY <3>1 DEF None
  <2>2. CASE s.tokens[mid] = NoToken
    <3>1. q[i].token = t.tokens[mid]
      BY DEF Current
    <3> QED BY <1>2, <2>2, <3>1 DEF Old
  <2> QED BY <2>1, <2>2
<1>8. ASSUME NEW r, Has(t.rows, r), ~r.delivered PROVE r.mid \in N \/ ~None(t, u, r.mid)
  <2>1. CASE r.mid = mid
    BY <1>6, <2>1
  <2>2. CASE r.mid # mid
    <3>1. r.mid \in M \/ ~None(s, q, r.mid)
      BY <1>2, <1>8 DEF Road
    <3>2. r.mid \in Mid
      BY <1>2, <1>3, <1>8
    <3> QED BY <1>1, <1>5, <2>2, <3>1, <3>2
  <2> QED BY <2>1, <2>2
<1>9. ASSUME NEW r, Has(t.rows, r), QosOf[r.msg] = 2
      PROVE  /\ Once(t, u, r.mid)
             /\ (r.delivered /\ ~m) \/ r.mid \in N => None(t, u, r.mid)
  <2>0. /\ Once(s, q, r.mid) /\ r.mid \in Mid
        /\ (r.delivered /\ ~m) \/ r.mid \in M => None(s, q, r.mid)
    BY <1>2, <1>3, <1>9 DEF Road
  <2>1. CASE r.mid = mid
    <3>1. r = row /\ mid \in M /\ mid \notin N /\ (r.delivered => m)
      BY <1>1, <1>2, <1>3, <1>9, <2>1
    <3> QED BY <1>7, <2>0, <2>1, <3>1
  <2>2. CASE r.mid # mid
    BY <1>5, <2>0, <2>2
  <2> QED BY <2>1, <2>2
<1>10. Road(t, u, m, N)
  BY <1>4, <1>8, <1>9 DEF Road
<1> QED BY <1>1, <1>10

\* A new row and its delivery
LEMMA RoadNew ==
    ASSUME NEW s \in Sessions, Ledger(s), NEW q \in Seq(Effects), NEW m, NEW M, Road(s, q, m, M), Old(s, q),
           NEW row \in Row, ~Stored(s, row.mid), row.mid \notin M, ~row.delivered,
           NEW tok, tok \notin TokensAlive(s), tok # NoToken,
           NEW t, t.rows = Append(s.rows, row), t.tokens = [s.tokens EXCEPT ![row.mid] = tok],
           NEW d \in Marks, d.mid = row.mid, d.token = tok
    PROVE  Road(t, Append(q, d), m, M)
<1>1. PICK u, mid : u = Append(q, d) /\ mid = row.mid
  OBVIOUS
<1>2. PICK rows \in Seq(Row) : rows = s.rows
  BY SessionTyped
<1>3. \A r : Has(t.rows, r) <=> Has(s.rows, r) \/ r = row
  BY <1>2, HasAppend
<1>4. /\ \A r : Has(s.rows, r) => r.mid # mid /\ r.mid \in Mid
      /\ mid \in Mid
  BY <1>1, StoredRow DEF Row
<1>5. t.tokens[mid] = tok /\ \A k \in Mid : k # mid => t.tokens[k] = s.tokens[k]
  <2>1. s.tokens \in [Mid -> Nat]
    BY SessionTyped
  <2> QED BY <1>1, <1>4, <2>1
<1>6. d \in Effects
  BY DEF Effects, Messages
<1>7. \A i \in 1..Len(u) : u[i] \in Marks => u[i].token # NoToken
  <2>1. PICK n \in Nat : n = Len(q)
    OBVIOUS
  <2>2. Len(u) = n + 1 /\ u[n + 1] = d /\ \A i \in 1..n : u[i] = q[i]
    BY <1>1, <1>6, <2>1
  <2> QED BY <2>1, <2>2 DEF Road
<1>8. \A k \in Mid : k # mid => (None(t, u, k) <=> None(s, q, k)) /\ (Once(t, u, k) <=> Once(s, q, k))
  <2> SUFFICES ASSUME NEW k \in Mid, k # mid
               PROVE  (None(t, u, k) <=> None(s, q, k)) /\ (Once(t, u, k) <=> Once(s, q, k))
    OBVIOUS
  <2>1. \A e : Current(t, e, k) <=> Current(s, e, k)
    BY <1>5 DEF Current
  <2>2. ~Current(t, d, k)
    BY <1>1 DEF Current
  <2>3. (None(t, u, k) <=> None(t, q, k)) /\ (Once(t, u, k) <=> Once(t, q, k))
    BY <1>1, <1>6, <2>2, RoadAppends
  <2> QED BY <2>1, <2>3 DEF None, Once
<1>9. None(t, q, mid)
  BY <1>5 DEF None, Current, Old
<1>10. Once(t, u, mid) /\ ~None(t, u, mid)
  <2>1. Current(t, d, mid)
    BY <1>1, <1>5 DEF Current
  <2> QED BY <1>1, <1>6, <1>9, <2>1, RoadAppends
<1>11. ASSUME NEW r, Has(t.rows, r), ~r.delivered PROVE r.mid \in M \/ ~None(t, u, r.mid)
  <2>1. CASE r = row
    BY <1>1, <1>10, <2>1
  <2>2. CASE Has(s.rows, r)
    <3>1. r.mid \in M \/ ~None(s, q, r.mid)
      BY <1>11, <2>2 DEF Road
    <3> QED BY <1>4, <1>8, <2>2, <3>1
  <2> QED BY <1>3, <1>11, <2>1, <2>2
<1>12. ASSUME NEW r, Has(t.rows, r), QosOf[r.msg] = 2
       PROVE  /\ Once(t, u, r.mid)
              /\ (r.delivered /\ ~m) \/ r.mid \in M => None(t, u, r.mid)
  <2>1. CASE r = row
    BY <1>1, <1>10, <2>1
  <2>2. CASE Has(s.rows, r)
    <3>1. /\ Once(s, q, r.mid)
          /\ (r.delivered /\ ~m) \/ r.mid \in M => None(s, q, r.mid)
      BY <1>12, <2>2 DEF Road
    <3> QED BY <1>4, <1>8, <2>2, <3>1
  <2> QED BY <1>3, <1>12, <2>1, <2>2
<1>13. Road(t, u, m, M)
  BY <1>7, <1>11, <1>12 DEF Road
<1> QED BY <1>1, <1>13

-----------------------------------------------------------------------------
(* The road of a packet.                                                   *)

\* The identifiers that are still to be replayed
Due(s) == {mid \in Mid : Has(s.replay.mids, mid)}
\* While there are any the next page is announced.
Replaying(s, q) == s.replay # NoReplay =>
    /\ Has(q, ContinueReplay) /\ Distinct(s.replay.mids)
    /\ Len(s.replay.mids) <= s.replay.remaining
\* The identifiers that a new exchange cannot take
Owned(s) == Mids(s.rows) \cup s.autoAcks \cup s.pubcomps
\* In the lot that starts a replay nothing else uses what is to be replayed.
Held(s) == s.replay # NoReplay => s.acks = {} /\ Due(s) \subseteq Owned(s)
\* What holds of the session while a lot is decoded
OnRoad(s, m) == Road(s, s.emits, m, Due(s)) /\ Kinds(s) /\ Replaying(s, s.emits) /\ Held(s)

\* A step that the application hears nothing of
Hush(s, t) ==
    /\ Lessens(s, t) /\ t.emits = s.emits /\ t.replay = s.replay /\ t.acks \subseteq s.acks
    /\ s.replay # NoReplay => Owned(s) \subseteq Owned(t)

\* The same identifiers are to be replayed.
LEMMA DueSame ==
    ASSUME NEW s, NEW t, t.replay = s.replay
    PROVE  Due(t) = Due(s)
  BY DEF Due

\* Such a step keeps what is on its way.
LEMMA HushRoad ==
    ASSUME NEW s, NEW t, NEW m, OnRoad(s, m), Hush(s, t)
    PROVE  OnRoad(t, m)
<1>1. Lessens(s, t) /\ t.emits = s.emits /\ t.replay = s.replay
  BY DEF Hush
<1>2. Due(t) = Due(s)
  BY <1>1, DueSame
<1>3. Road(t, s.emits, m, Due(s)) /\ Kinds(t)
  BY <1>1, RoadLessens DEF OnRoad
<1>4. Replaying(t, t.emits)
  BY <1>1 DEF OnRoad, Replaying
<1>5. Held(t)
  BY <1>2 DEF OnRoad, Held, Hush
<1> QED BY <1>1, <1>2, <1>3, <1>4, <1>5 DEF OnRoad

\* The rows and the deliveries are left alone.
LEMMA HushSame ==
    ASSUME NEW s, NEW t, SameTalk(s, t), t.rows = s.rows, t.acks = s.acks,
           s.autoAcks \subseteq t.autoAcks, s.pubcomps \subseteq t.pubcomps
    PROVE  Hush(s, t)
<1>1. Lessens(s, t)
  BY LessensSame DEF SameTalk
<1>2. Owned(s) \subseteq Owned(t)
  BY DEF Owned
<1> QED BY <1>1, <1>2 DEF Hush, SameTalk

\* A slot, or an error
LEMMA HushAcquire ==
    ASSUME NEW s, NEW t
    PROVE  /\ \A size : IsAcquire(s, size, t) => Hush(s, t)
           /\ \A mid : IsAcquireCurrent(s, mid, t) => Hush(s, t)
<1>1. ASSUME SameTalk(s, t), SameBooks(s, t) \/ SameButBytes(s, t) PROVE Hush(s, t)
  <2>1. t.rows = s.rows /\ t.acks = s.acks /\ t.autoAcks = s.autoAcks /\ t.pubcomps = s.pubcomps
    BY <1>1 DEF SameBooks, SameButBytes
  <2>2. s.autoAcks \subseteq t.autoAcks /\ s.pubcomps \subseteq t.pubcomps
    BY <2>1
  <2> QED BY <1>1, <2>1, <2>2, HushSame
<1> QED BY <1>1 DEF IsAcquire, IsAcquireCurrent

\* An error, an answer
LEMMA HushTalk ==
    ASSUME NEW s, NEW t, SameTalk(s, t), SameBooks(s, t)
    PROVE  Hush(s, t)
<1>1. t.rows = s.rows /\ t.acks = s.acks /\ t.autoAcks = s.autoAcks /\ t.pubcomps = s.pubcomps
  BY DEF SameBooks
<1>2. s.autoAcks \subseteq t.autoAcks /\ s.pubcomps \subseteq t.pubcomps
  BY <1>1
<1> QED BY <1>1, <1>2, HushSame

\* One such step after another
LEMMA HushOn ==
    ASSUME NEW s, NEW t, NEW u, Hush(s, t), Hush(t, u)
    PROVE  Hush(s, u)
<1>1. Lessens(s, u)
  BY LessensOn DEF Hush
<1> QED BY <1>1 DEF Hush

\* _protocol_disconnect and the other errors
LEMMA RefuseRoad ==
    ASSUME NEW s \in Sessions, NEW m, OnRoad(s, m), NEW why \in Reasons
    PROVE  OnRoad(Refuse(s, why), m)
<1>1. PICK t : t = Refuse(s, why)
  OBVIOUS
<1>2. SameTalk(s, t) /\ SameBooks(s, t)
  BY <1>1, RefuseIs
<1>3. OnRoad(t, m)
  BY <1>2, HushTalk, HushRoad
<1> QED BY <1>1, <1>3

\* A QoS 2 PUBLISH for an identifier that owns a row
LEMMA RepeatedQos2Road ==
    ASSUME NEW s, NEW m \in BOOLEAN, Good(s, m), s.refused = "none", NEW mid, Stored(s, mid), OnRoad(s, m)
    PROVE  OnRoad(RepeatedQos2(s, mid), m)
<1>1. s \in Sessions /\ Ledger(s) /\ SlotInv(s, m)
  BY DEF Good, Core
<1>2. mid \in Mid
  BY <1>1, StoredRow
<1>3. PICK a, t : a = AcquireCurrent(s, mid) /\ t = RepeatedQos2(s, mid)
  OBVIOUS
<1>4. IsAcquireCurrent(s, mid, a)
  <2>1. Inflight(s) <= ReceiveMaximum
    BY <1>1 DEF SlotInv
  <2> QED BY <1>1, <1>2, <1>3, <2>1, AcquireCurrentIs
<1>5. a \in Sessions /\ Hush(s, a)
  BY <1>4, HushAcquire DEF IsAcquireCurrent
<1>6. OnRoad(a, m)
  BY <1>5, HushRoad
<1>7. t \in {Refuse(s, "0x82"), a, Send(a, "PUBREC", mid)}
  BY <1>3 DEF RepeatedQos2
<1>8. CASE t = Refuse(s, "0x82")
  BY <1>1, <1>3, <1>8, RefuseRoad DEF Reasons
<1>9. CASE t = Send(a, "PUBREC", mid)
  <2>1. SameTalk(a, t) /\ SameBooks(a, t)
    BY <1>2, <1>5, <1>9, SendIs
  <2>2. OnRoad(t, m)
    BY <1>6, <2>1, HushTalk, HushRoad
  <2> QED BY <1>3, <2>2
<1> QED BY <1>3, <1>6, <1>7, <1>8, <1>9

\* A new exchange and its delivery
IsBegun(s, row, tok, t) ==
    /\ t \in Sessions /\ t.rows = Append(s.rows, row) /\ t.tokens = [s.tokens EXCEPT ![row.mid] = tok]
    /\ t.emits = Append(s.emits, Delivery(row.mid, row.msg, tok, TRUE))
    /\ t.replay = s.replay /\ t.acks = s.acks /\ t.autoAcks = s.autoAcks /\ t.pubcomps = s.pubcomps

\* Begun makes it, or is refused a slot.
LEMMA BegunIs ==
    ASSUME NEW s \in Sessions, s.refused = "none", Around, NEW mid \in Mid, NEW msg \in Message,
           NEW state \in {"WAIT_PUBREL", "WAIT_PUBACK"}, NEW row,
           row = [mid |-> mid, msg |-> msg, state |-> state, delivered |-> FALSE, acked |-> FALSE]
    PROVE  \/ Hush(s, Begun(s, mid, msg, state))
           \/ \E tok \in Nat \ {0} : tok \notin TokensAlive(s) /\ IsBegun(s, row, tok, Begun(s, mid, msg, state))
<1>1. row \in Row /\ row.mid = mid /\ row.msg = msg
  BY DEF Row, RowState
<1>2. PICK size \in Nat : size = SizeOf[msg]
  BY InboundAssumptions
<1>3. PICK a, t : a = Acquire(s, size) /\ t = Begun(s, mid, msg, state)
  OBVIOUS
<1>4. IsAcquire(s, size, a)
  BY <1>3, AcquireIs
<1>5. PICK tok \in Nat \ {0} : tok = FreshToken(s) /\ tok \notin TokensAlive(s)
  BY FreshTokenIs
<1>6. CASE Refused(a)
  <2>1. t = a
    BY <1>2, <1>3, <1>6 DEF Begun
  <2> QED BY <1>3, <1>4, <2>1, HushAcquire
<1>7. CASE ~Refused(a)
  <2>1. a \in Sessions /\ SameTalk(s, a) /\ SameButBytes(s, a) /\ a.current = s.current
    BY <1>4, <1>7 DEF IsAcquire
  <2>2. PICK u, c, tk, o : /\ u = Append(s.rows, row) /\ c = s.current \cup {mid} /\ tk = [s.tokens EXCEPT ![mid] = tok]
                           /\ o = IF state = "WAIT_PUBREL" THEN s.order ELSE Append(s.order, mid)
    OBVIOUS
  <2>3. u \in Seq(Row) /\ c \in SUBSET Mid /\ tk \in [Mid -> Nat] /\ s.stored + 1 \in Nat /\ o \in Seq(Mid)
    BY <1>1, <2>2, SessionTyped
  <2>4. PICK b : b = [a EXCEPT !.rows = u, !.stored = s.stored + 1, !.current = c, !.tokens = tk]
    OBVIOUS
  <2>5. /\ b \in Sessions /\ b.rows = u /\ b.tokens = tk /\ b.emits = s.emits /\ b.replay = s.replay
        /\ b.acks = s.acks /\ b.autoAcks = s.autoAcks /\ b.pubcomps = s.pubcomps /\ b.order = s.order
    BY <2>1, <2>3, <2>4 DEF Sessions, SameTalk, SameButBytes
  <2>6. b = [a EXCEPT !.rows = Append(@, row), !.stored = @ + 1,
                       !.current = @ \cup {mid}, !.tokens[mid] = tok]
    BY <2>1, <2>2, <2>4 DEF SameTalk, SameButBytes
  <2>7. PICK d : d = IF state = "WAIT_PUBREL" THEN Send(b, "PUBREC", mid) ELSE [b EXCEPT !.order = o]
    OBVIOUS
  <2>8. /\ d \in Sessions /\ d.rows = u /\ d.tokens = tk /\ d.emits = s.emits /\ d.replay = s.replay
        /\ d.acks = s.acks /\ d.autoAcks = s.autoAcks /\ d.pubcomps = s.pubcomps
    <3>1. CASE state = "WAIT_PUBREL"
      <4>1. d \in Sessions /\ SameBooks(b, d) /\ SameTalk(b, d)
        BY <2>5, <2>7, <3>1, SendIs
      <4> QED BY <2>5, <4>1 DEF SameBooks, SameTalk
    <3>2. CASE state = "WAIT_PUBACK"
      <4>1. d = [b EXCEPT !.order = o]
        BY <2>7, <3>2
      <4> QED BY <2>3, <2>5, <4>1 DEF Sessions
    <3> QED BY <3>1, <3>2
  <2>9. t = Emit(d, row)
    <3>1. CASE state = "WAIT_PUBREL"
      BY <1>2, <1>3, <1>5, <1>7, <2>6, <2>7, <3>1 DEF Begun
    <3>2. CASE state = "WAIT_PUBACK"
      <4>1. [b EXCEPT !.order = o] = [b EXCEPT !.order = Append(@, mid)]
        BY <2>2, <2>5, <3>2
      <4> QED BY <1>2, <1>3, <1>5, <1>7, <2>6, <2>7, <3>2, <4>1 DEF Begun
    <3> QED BY <3>1, <3>2
  <2>10. IsEmit(d, row, t)
    BY <1>1, <2>8, <2>9, EmitIs
  <2>11. t.tokens = tk /\ tk[mid] = tok
    <3>1. tk[mid] = tok /\ tok # NoToken
      BY <2>2, SessionTyped DEF NoToken
    <3>2. \A k \in Mid : t.tokens[k] = tk[k]
      BY <1>1, <2>8, <2>10, <3>1 DEF IsEmit
    <3>3. t.tokens \in [Mid -> Nat]
      BY <2>10, SessionTyped DEF IsEmit
    <3> QED BY <2>3, <3>1, <3>2, <3>3
  <2>12. IsBegun(s, row, tok, t)
    BY <1>1, <2>2, <2>8, <2>10, <2>11 DEF IsBegun, IsEmit, SameBooks
  <2> QED BY <1>3, <1>5, <2>12
<1> QED BY <1>6, <1>7

\* The deliveries in the batch carry live identities.
LEMMA EmitsOld ==
    ASSUME NEW s \in Sessions
    PROVE  Old(s, s.emits)
<1>1. DOMAIN s.emits = 1..Len(s.emits)
  BY SessionTyped
<1> QED BY <1>1 DEF Old, TokensAlive

\* A longer queue still announces the next page.
LEMMA ReplayingAppend ==
    ASSUME NEW s, NEW t, t.replay = s.replay, NEW q \in Seq(Effects), NEW e \in Effects, Replaying(s, q)
    PROVE  Replaying(t, Append(q, e))
<1>1. Has(q, ContinueReplay) => Has(Append(q, e), ContinueReplay)
  BY HasAppend
<1> QED BY <1>1 DEF Replaying

\* A new exchange
LEMMA BegunRoad ==
    ASSUME NEW s, NEW m \in BOOLEAN, Good(s, m), s.refused = "none", Around, OnRoad(s, m),
           NEW mid \in Mid, NEW msg \in Message, NEW state \in {"WAIT_PUBREL", "WAIT_PUBACK"},
           ~Stored(s, mid), mid \notin s.autoAcks \cup s.pubcomps, state = "WAIT_PUBACK" => QosOf[msg] # 2
    PROVE  OnRoad(Begun(s, mid, msg, state), m)
<1>1. s \in Sessions /\ Ledger(s)
  BY DEF Good, Core
<1>2. PICK row, t : /\ row = [mid |-> mid, msg |-> msg, state |-> state, delivered |-> FALSE, acked |-> FALSE]
                    /\ t = Begun(s, mid, msg, state)
  OBVIOUS
<1>3. /\ row \in Row /\ row.mid = mid /\ row.msg = msg /\ row.state = state /\ ~row.delivered
  BY <1>2 DEF Row, RowState
<1>4. CASE Hush(s, t)
  BY <1>2, <1>4, HushRoad
<1>5. CASE \E tok \in Nat \ {0} : tok \notin TokensAlive(s) /\ IsBegun(s, row, tok, t)
  <2>1. PICK tok \in Nat \ {0} : tok \notin TokensAlive(s) /\ IsBegun(s, row, tok, t)
    BY <1>5
  <2>2. PICK d : d = Delivery(mid, msg, tok, TRUE)
    OBVIOUS
  <2>3. /\ t.rows = Append(s.rows, row) /\ t.tokens = [s.tokens EXCEPT ![mid] = tok]
        /\ t.emits = Append(s.emits, d) /\ t.replay = s.replay /\ t.acks = s.acks
        /\ t.autoAcks = s.autoAcks /\ t.pubcomps = s.pubcomps
    BY <1>3, <2>1, <2>2 DEF IsBegun
  <2>4. d \in Marks /\ d.mid = mid /\ d.token = tok /\ d \in Effects
    BY <2>2 DEF Delivery, Marks, Messages, Effects
  <2>5. mid \notin Due(s)
    <3>1. CASE s.replay = NoReplay
      BY <3>1 DEF Due, NoReplay, Has
    <3>2. CASE s.replay # NoReplay
      <4>1. mid \notin Mids(s.rows)
        BY <1>1, StoredRow
      <4> QED BY <3>2, <4>1 DEF OnRoad, Held, Owned
    <3> QED BY <3>1, <3>2
  <2>6. s.emits \in Seq(Effects) /\ Old(s, s.emits)
    BY <1>1, SessionTyped, EmitsOld
  <2>7. Road(t, Append(s.emits, d), m, Due(s))
    <3>1. Road(s, s.emits, m, Due(s)) /\ tok # NoToken
      BY DEF OnRoad, NoToken
    <3> QED BY <1>1, <1>3, <2>1, <2>3, <2>4, <2>5, <2>6, <3>1, RoadNew
  <2>8. Due(t) = Due(s)
    BY <2>3, DueSame
  <2>9. \A r : Has(t.rows, r) <=> Has(s.rows, r) \/ r = row
    <3>1. PICK rows \in Seq(Row) : rows = s.rows
      BY <1>1, SessionTyped
    <3> QED BY <1>3, <2>3, <3>1, HasAppend
  <2>10. Kinds(t)
    BY <1>3, <2>9 DEF OnRoad, Kinds
  <2>11. Replaying(t, t.emits)
    BY <2>3, <2>4, <2>6, ReplayingAppend DEF OnRoad
  <2>12. Held(t)
    <3>1. Mids(s.rows) \subseteq Mids(t.rows)
      <4>1. PICK rows \in Seq(Row) : rows = s.rows
        BY <1>1, SessionTyped
      <4>2. \A k : Owns(Append(rows, row), k) <=> Owns(rows, k) \/ k = row.mid
        BY <1>3, RowsAppend
      <4>3. Append(rows, row) \in Seq(Row)
        BY <1>3
      <4> QED BY <2>3, <4>1, <4>2, <4>3, MidsOwned
    <3>2. Owned(s) \subseteq Owned(t)
      BY <2>3, <3>1 DEF Owned
    <3> QED BY <2>3, <2>8, <3>2 DEF OnRoad, Held
  <2>13. OnRoad(t, m)
    BY <2>3, <2>7, <2>8, <2>10, <2>11, <2>12 DEF OnRoad
  <2> QED BY <1>2, <2>13
<1> QED BY <1>1, <1>2, <1>4, <1>5, BegunIs

\* A QoS 2 PUBLISH
LEMMA OnQos2Road ==
    ASSUME NEW s, NEW m \in BOOLEAN, Good(s, m), s.refused = "none", Around, OnRoad(s, m),
           NEW mid \in Mid, NEW msg \in Message
    PROVE  OnRoad(OnQos2(s, mid, msg), m)
<1>1. CASE Stored(s, mid)
  <2>1. OnRoad(RepeatedQos2(s, mid), m)
    BY <1>1, RepeatedQos2Road
  <2> QED BY <1>1, <2>1 DEF OnQos2
<1>2. CASE ~Stored(s, mid) /\ mid \in s.pubcomps \cup s.autoAcks
  <2>1. OnRoad(Refuse(s, "0x82"), m)
    BY RefuseRoad DEF Reasons, Good, Core
  <2> QED BY <1>2, <2>1 DEF OnQos2
<1>3. CASE ~Stored(s, mid) /\ mid \notin s.pubcomps \cup s.autoAcks
  <2>1. OnRoad(Begun(s, mid, msg, "WAIT_PUBREL"), m)
    BY <1>3, BegunRoad
  <2> QED BY <1>3, <2>1 DEF OnQos2
<1> QED BY <1>1, <1>2, <1>3

\* A delivery that needs no mark
LEMMA UnmarkedRoad ==
    ASSUME NEW s \in Sessions, NEW m, OnRoad(s, m), NEW t, SameBooks(s, t), t.tokens = s.tokens,
           t.replay = s.replay, NEW e \in Effects, e \notin Marks, t.emits = Append(s.emits, e)
    PROVE  OnRoad(t, m)
<1>1. t.rows = s.rows /\ t.acks = s.acks /\ t.autoAcks = s.autoAcks /\ t.pubcomps = s.pubcomps
  BY DEF SameBooks
<1>2. Lessens(s, t) /\ Due(t) = Due(s)
  BY <1>1, LessensSame, DueSame
<1>3. s.emits \in Seq(Effects)
  BY SessionTyped
<1>4. Road(s, Append(s.emits, e), m, Due(s))
  BY <1>3, RoadPlain DEF OnRoad
<1>5. Road(t, t.emits, m, Due(t)) /\ Kinds(t)
  BY <1>2, <1>4, RoadLessens DEF OnRoad
<1>6. Replaying(t, t.emits)
  BY <1>3, ReplayingAppend DEF OnRoad
<1>7. Held(t)
  BY <1>1, <1>2 DEF OnRoad, Held, Owned
<1> QED BY <1>5, <1>6, <1>7 DEF OnRoad

\* A QoS 1 PUBLISH that no row is kept for
LEMMA AutoAckedRoad ==
    ASSUME NEW s, Good(s, FALSE), s.refused = "none", OnRoad(s, FALSE), NEW mid \in Mid, NEW msg \in Message
    PROVE  OnRoad(AutoAcked(s, mid, msg), FALSE)
<1>1. s \in Sessions
  BY DEF Good, Core
<1>2. PICK b, t : b = Acquire(s, 0) /\ t = AutoAcked(s, mid, msg)
  OBVIOUS
<1>3. IsAcquire(s, 0, b)
  BY <1>1, <1>2, AcquireIs
<1>4. PICK a : a = IF mid \in s.autoAcks THEN s ELSE b
  OBVIOUS
<1>5. a \in Sessions /\ OnRoad(a, FALSE)
  <2>1. b \in Sessions /\ Hush(s, b)
    BY <1>3, HushAcquire DEF IsAcquire
  <2>2. OnRoad(b, FALSE)
    BY <2>1, HushRoad
  <2> QED BY <1>1, <1>4, <2>1, <2>2
<1>6. CASE Refused(a)
  <2>1. t = a
    BY <1>2, <1>4, <1>6 DEF AutoAcked
  <2> QED BY <1>2, <1>5, <2>1
<1>7. CASE ~Refused(a)
  <2>1. PICK n, e : n = Send(a, "PUBACK", mid) /\ e = EmitUnmarked(n, mid, msg)
    OBVIOUS
  <2>2. n \in Sessions /\ SameBooks(a, n) /\ SameTalk(a, n)
    BY <1>5, <2>1, SendIs
  <2>3. OnRoad(n, FALSE)
    BY <1>5, <2>2, HushTalk, HushRoad
  <2>4. IsEmitUnmarked(n, mid, msg, e)
    BY <2>1, <2>2, EmitUnmarkedIs
  <2>5. PICK d : d = Delivery(mid, msg, NoToken, FALSE)
    OBVIOUS
  <2>6. d \in Effects /\ d \notin Marks
    <3>1. d \in Effects
      BY <2>4, <2>5 DEF IsEmitUnmarked, Effects
    <3>2. d.mark = FALSE
      BY <2>5 DEF Delivery
    <3> QED BY <3>1, <3>2 DEF Marks
  <2>7. e \in Sessions /\ OnRoad(e, FALSE)
    BY <2>2, <2>3, <2>4, <2>5, <2>6, UnmarkedRoad DEF IsEmitUnmarked
  <2>8. PICK h : h = (mid \notin s.autoAcks /\ Inflight(s) + 1 >= ReceiveMaximum)
    OBVIOUS
  <2>9. t = [e EXCEPT !.autoAcks = @ \cup {mid}, !.handoff = @ \/ h]
    BY <1>2, <1>4, <1>7, <2>1, <2>8 DEF AutoAcked
  <2>10. SameTalk(e, t) /\ t.rows = e.rows /\ t.acks = e.acks /\ e.autoAcks \subseteq t.autoAcks /\ e.pubcomps \subseteq t.pubcomps
    BY <2>7, <2>9 DEF Sessions, SameTalk
  <2>11. OnRoad(t, FALSE)
    BY <2>7, <2>10, HushSame, HushRoad
  <2> QED BY <1>2, <2>11
<1> QED BY <1>6, <1>7

\* A QoS 1 PUBLISH of an exchange that an earlier process left in the store
LEMMA RecoveredQos1Road ==
    ASSUME NEW s, Good(s, FALSE), s.refused = "none", OnRoad(s, FALSE), NEW mid, StoredAs(s, mid, {"WAIT_PUBACK"})
    PROVE  OnRoad(RecoveredQos1(s, mid), FALSE)
<1>1. s \in Sessions /\ Ledger(s) /\ SlotInv(s, FALSE)
  BY DEF Good, Core
<1>2. PICK row, t : row = RowOf(s, mid) /\ t = RecoveredQos1(s, mid)
  OBVIOUS
<1>3. /\ Has(s.rows, row) /\ row.mid = mid /\ row \in Row /\ mid \in Mid /\ mid \in Mids(s.rows)
      /\ row.state = "WAIT_PUBACK"
  BY <1>1, <1>2, StoredRow DEF StoredAs
<1>4. CASE s.waiting[mid] # "none"
  <2>1. t = s
    BY <1>2, <1>4 DEF RecoveredQos1
  <2> QED BY <1>2, <2>1
<1>5. CASE s.waiting[mid] = "none" /\ ~row.delivered
  <2>1. PICK a : a = AcquireCurrent(s, mid)
    OBVIOUS
  <2>2. IsAcquireCurrent(s, mid, a)
    <3>1. Inflight(s) <= ReceiveMaximum
      BY <1>1 DEF SlotInv
    <3> QED BY <1>1, <1>3, <2>1, <3>1, AcquireCurrentIs
  <2>3. a \in Sessions /\ OnRoad(a, FALSE)
    BY <2>2, HushAcquire, HushRoad DEF IsAcquireCurrent
  <2>4. t = IF Refused(a) THEN a ELSE [a EXCEPT !.waiting[mid] = "WAIT_PUBACK"]
    BY <1>2, <1>5, <2>1 DEF RecoveredQos1
  <2>5. PICK b : b = [a EXCEPT !.waiting[mid] = "WAIT_PUBACK"]
    OBVIOUS
  <2>6. OnRoad(b, FALSE)
    <3>1. /\ SameTalk(a, b) /\ b.rows = a.rows /\ b.acks = a.acks /\ a.autoAcks \subseteq b.autoAcks
          /\ a.pubcomps \subseteq b.pubcomps
      BY <2>3, <2>5 DEF Sessions, SameTalk
    <3> QED BY <2>3, <3>1, HushSame, HushRoad
  <2> QED BY <1>2, <2>3, <2>4, <2>5, <2>6
<1>6. CASE s.waiting[mid] = "none" /\ row.delivered
  <2>1. PICK a : a = Acquire(s, 0)
    OBVIOUS
  <2>2. IsAcquire(s, 0, a)
    BY <1>1, <2>1, AcquireIs
  <2>3. a \in Sessions /\ OnRoad(a, FALSE) /\ Hush(s, a)
    BY <2>2, HushAcquire, HushRoad DEF IsAcquire
  <2>4. PICK r, n : r = Retired(a, mid, "WAIT_PUBACK") /\ n = Send(r, "PUBACK", mid)
    OBVIOUS
  <2>5. t = IF Refused(a) THEN a
            ELSE [n EXCEPT !.autoAcks = @ \cup {mid}, !.handoff = @ \/ (Inflight(s) + 1 >= ReceiveMaximum)]
    BY <1>2, <1>6, <2>1, <2>4 DEF RecoveredQos1
  <2>6. CASE Refused(a)
    BY <1>2, <2>3, <2>5, <2>6
  <2>7. CASE ~Refused(a)
    <3>1. a.rows = s.rows /\ a.stored = s.stored /\ a.bytes = s.bytes
      <4>1. s.bytes + 0 = s.bytes
        BY <1>1, SessionTyped
      <4> QED BY <2>2, <2>7, <4>1 DEF IsAcquire, SameButBytes
    <3>2. Ledger(a) /\ Has(a.rows, row)
      BY <1>1, <1>3, <3>1 DEF Ledger
    <3>3. IsRetired(a, mid, r)
      BY <1>3, <2>3, <2>4, <3>2, RetiredIs
    <3>4. n \in Sessions /\ SameBooks(r, n) /\ SameTalk(r, n)
      BY <1>3, <2>4, <3>3, SendIs DEF IsRetired
    <3>5. /\ n.rows = Drop(a.rows, {mid}) /\ n.tokens = [a.tokens EXCEPT ![mid] = NoToken]
          /\ n.emits = a.emits /\ n.replay = a.replay /\ n.acks = a.acks /\ n.autoAcks = a.autoAcks
          /\ n.pubcomps = a.pubcomps
      BY <3>3, <3>4 DEF SameBooks, SameTalk, IsRetired, SameButRow
    <3>6. /\ t.rows = n.rows /\ t.tokens = n.tokens /\ t.emits = n.emits /\ t.replay = n.replay
          /\ t.acks = n.acks /\ t.autoAcks = n.autoAcks \cup {mid} /\ t.pubcomps = n.pubcomps
      BY <2>5, <2>7, <3>4 DEF Sessions
    <3>7. RowGone(a, mid, t)
      BY <2>3, <3>2, <3>5, <3>6, RowGoes
    <3>8. Lessens(a, t)
      BY <2>3, <3>5, <3>6, <3>7, LessensDrop
    <3>9. Owned(a) \subseteq Owned(t)
      BY <3>5, <3>6, <3>7 DEF Owned, RowGone
    <3>10. Hush(a, t)
      BY <3>5, <3>6, <3>8, <3>9 DEF Hush
    <3> QED BY <1>2, <2>3, <3>10, HushRoad
  <2> QED BY <2>6, <2>7
<1> QED BY <1>3, <1>4, <1>5, <1>6

\* A QoS 1 PUBLISH without manual acknowledgement
LEMMA OnQos1AutoRoad ==
    ASSUME NEW s, Good(s, FALSE), s.refused = "none", OnRoad(s, FALSE), NEW mid \in Mid, NEW msg \in Message
    PROVE  OnRoad(OnQos1Auto(s, mid, msg), FALSE)
<1>1. CASE StoredAs(s, mid, {"WAIT_PUBACK"})
  <2>1. OnRoad(RecoveredQos1(s, mid), FALSE)
    BY <1>1, RecoveredQos1Road
  <2> QED BY <1>1, <2>1 DEF OnQos1Auto
<1>2. CASE ~StoredAs(s, mid, {"WAIT_PUBACK"}) /\ (Stored(s, mid) \/ mid \in s.pubcomps)
  <2>1. OnRoad(Refuse(s, "0x82"), FALSE)
    BY RefuseRoad DEF Reasons, Good, Core
  <2> QED BY <1>2, <2>1 DEF OnQos1Auto
<1>3. CASE ~StoredAs(s, mid, {"WAIT_PUBACK"}) /\ ~(Stored(s, mid) \/ mid \in s.pubcomps)
  <2>1. OnRoad(AutoAcked(s, mid, msg), FALSE)
    BY AutoAckedRoad
  <2> QED BY <1>3, <2>1 DEF OnQos1Auto
<1> QED BY <1>1, <1>2, <1>3

\* One more delivery of a QoS 1 row
LEMMA EmitRoad ==
    ASSUME NEW s \in Sessions, Ledger(s), NEW m, OnRoad(s, m), Around, NEW row, Has(s.rows, row),
           QosOf[row.msg] # 2
    PROVE  OnRoad(Emit(s, row), m)
<1>0. PICK rows \in Seq(Row) : rows = s.rows
  BY SessionTyped
<1>1. row \in Row
  BY <1>0 DEF Has
<1>2. PICK t : t = Emit(s, row)
  OBVIOUS
<1>3. IsEmit(s, row, t)
  BY <1>1, <1>2, EmitIs
<1>4. PICK d : d = Delivery(row.mid, row.msg, t.tokens[row.mid], TRUE)
  OBVIOUS
<1>5. t.emits = Append(s.emits, d) /\ SameBooks(s, t) /\ t.replay = s.replay /\ d \in Effects
  BY <1>3, <1>4 DEF IsEmit, Effects, Messages
<1>6. s.emits \in Seq(Effects) /\ Old(s, s.emits) /\ Due(t) = Due(s)
  BY <1>5, SessionTyped, EmitsOld, DueSame
<1>7. Road(t, t.emits, m, Due(t))
  <2>1. Road(s, s.emits, m, Due(s)) /\ Due(s) \subseteq Due(s) \cup {row.mid}
    BY DEF OnRoad
  <2> QED BY <1>3, <1>4, <1>5, <1>6, <2>1, RoadEmits
<1>8. Kinds(t)
  BY <1>5 DEF OnRoad, Kinds, SameBooks
<1>9. Replaying(t, t.emits)
  BY <1>5, <1>6, ReplayingAppend DEF OnRoad
<1>10. Held(t)
  BY <1>5, <1>6 DEF OnRoad, Held, Owned, SameBooks
<1> QED BY <1>2, <1>7, <1>8, <1>9, <1>10 DEF OnRoad

\* A QoS 1 PUBLISH for an identifier that owns a row, in manual mode
LEMMA RepeatedQos1Road ==
    ASSUME NEW s, Good(s, TRUE), s.refused = "none", Around, NEW mid, StoredAs(s, mid, {"WAIT_PUBACK"}), OnRoad(s, TRUE)
    PROVE  OnRoad(RepeatedQos1(s, mid), TRUE)
<1>1. s \in Sessions /\ Ledger(s) /\ SlotInv(s, TRUE) /\ WaitInv(s, TRUE) /\ Core(s, TRUE)
      /\ OrderInv(s, TRUE)
  BY DEF Good, Core
<1>2. PICK row : row = RowOf(s, mid)
  OBVIOUS
<1>3. /\ Has(s.rows, row) /\ row.mid = mid /\ row \in Row /\ mid \in Mid /\ mid \in Mids(s.rows)
      /\ row.state = "WAIT_PUBACK"
  BY <1>1, <1>2, StoredRow DEF StoredAs
<1>4. PICK a, t : a = AcquireCurrent(s, mid) /\ t = RepeatedQos1(s, mid)
  OBVIOUS
<1>5. IsAcquireCurrent(s, mid, a)
  <2>1. Inflight(s) <= ReceiveMaximum
    BY <1>1 DEF SlotInv
  <2> QED BY <1>1, <1>3, <1>4, <2>1, AcquireCurrentIs
<1>6. t = IF Refused(a) THEN a ELSE IF mid \in s.acks THEN DrainAcks(a) ELSE Emit(a, row)
  BY <1>2, <1>4 DEF RepeatedQos1
<1>7. a \in Sessions /\ OnRoad(a, TRUE)
  BY <1>5, HushAcquire, HushRoad DEF IsAcquireCurrent
<1>8. CASE Refused(a)
  BY <1>4, <1>6, <1>7, <1>8
<1>9. CASE ~Refused(a)
  <2>1. a \in Sessions /\ Ledger(a) /\ SlotInv(a, TRUE)
    BY <1>1, <1>3, <1>5, <1>9, CountedSlots
  <2>2. SameButBytes(s, a) /\ SameTalk(s, a)
    BY <1>5, <1>9 DEF IsAcquireCurrent
  <2>3. CASE mid \in s.acks
    <3>1. Core(a, TRUE)
      <4>1. WaitInv(a, TRUE)
        BY <1>1, <2>2 DEF WaitInv, SameButBytes
      <4> QED BY <2>1, <4>1 DEF Core
    <3>2. OrderInv(a, TRUE)
      BY <1>1, <2>2 DEF OrderInv, SameButBytes
    <3>3. a.replay = NoReplay
      BY <2>2, <2>3 DEF OnRoad, Held, SameTalk
    <3>4. t = DrainAcks(a)
      BY <1>6, <1>9, <2>3
    <3>5. Lessens(a, t) /\ t.emits = a.emits /\ t.replay = a.replay /\ t.acks \subseteq a.acks
      BY <3>1, <3>2, <3>4, DrainGood
    <3>6. Hush(a, t)
      BY <3>3, <3>5 DEF Hush
    <3> QED BY <1>4, <1>7, <3>6, HushRoad
  <2>4. CASE mid \notin s.acks
    <3>1. t = Emit(a, row)
      BY <1>6, <1>9, <2>4
    <3>2. Has(a.rows, row) /\ QosOf[row.msg] # 2
      BY <1>3, <2>2 DEF SameButBytes, OnRoad, Kinds
    <3> QED BY <1>4, <1>7, <2>1, <3>1, <3>2, EmitRoad
  <2> QED BY <2>3, <2>4
<1> QED BY <1>8, <1>9

\* A QoS 1 PUBLISH with manual acknowledgement
LEMMA OnQos1ManualRoad ==
    ASSUME NEW s, Good(s, TRUE), s.refused = "none", Around, OnRoad(s, TRUE), NEW mid \in Mid, NEW msg \in Message,
           QosOf[msg] # 2
    PROVE  OnRoad(OnQos1Manual(s, mid, msg), TRUE)
<1>1. CASE StoredAs(s, mid, {"WAIT_PUBACK"})
  <2>1. OnRoad(RepeatedQos1(s, mid), TRUE)
    BY <1>1, RepeatedQos1Road
  <2> QED BY <1>1, <2>1 DEF OnQos1Manual
<1>2. CASE ~StoredAs(s, mid, {"WAIT_PUBACK"}) /\ (Stored(s, mid) \/ mid \in s.pubcomps)
  <2>1. OnRoad(Refuse(s, "0x82"), TRUE)
    BY RefuseRoad DEF Reasons, Good, Core
  <2> QED BY <1>2, <2>1 DEF OnQos1Manual
<1>3. CASE ~StoredAs(s, mid, {"WAIT_PUBACK"}) /\ ~(Stored(s, mid) \/ mid \in s.pubcomps)
  <2>0. mid \notin s.autoAcks \cup s.pubcomps
    BY <1>3 DEF Good, Core, SlotInv
  <2>1. OnRoad(Begun(s, mid, msg, "WAIT_PUBACK"), TRUE)
    BY <1>3, <2>0, BegunRoad
  <2> QED BY <1>3, <2>1 DEF OnQos1Manual
<1> QED BY <1>1, <1>2, <1>3

\* A row whose state or acknowledgement changes
LEMMA LessensChange ==
    ASSUME NEW s \in Sessions, NEW old, Has(s.rows, old), NEW row, Revises(old, row), row.delivered = old.delivered,
           NEW t, t.rows = Changed(s.rows, row.mid, row), t.tokens = s.tokens
    PROVE  Lessens(s, t)
<1>1. PICK rows \in Seq(Row) : rows = s.rows
  BY SessionTyped
<1>2. \A r : Has(t.rows, r) => r = row \/ Has(s.rows, r)
  BY <1>1, ChangedRows
<1> QED BY <1>2 DEF Lessens, Revises

\* The identifiers it leaves
LEMMA HushUpdate ==
    ASSUME NEW s, NEW m \in BOOLEAN, Good(s, m), NEW old, Has(s.rows, old), NEW row, Revises(old, row),
           row.delivered = old.delivered, NEW t, IsUpdate(s, row, m, t)
    PROVE  Hush(s, t)
<1>1. s \in Sessions /\ Ledger(s)
  BY DEF Good, Core
<1>2. /\ t.rows = Changed(s.rows, row.mid, row) /\ t.tokens = s.tokens /\ t.emits = s.emits /\ t.replay = s.replay
      /\ t.acks = s.acks /\ t.autoAcks = s.autoAcks /\ t.pubcomps = s.pubcomps
  BY DEF IsUpdate, SameButRow
<1>3. Lessens(s, t)
  BY <1>1, <1>2, LessensChange
<1>4. Mids(t.rows) = Mids(s.rows)
  <2>1. PICK rows \in Seq(Row) : rows = s.rows
    BY <1>1, SessionTyped
  <2>2. row \in Row /\ row.mid = old.mid
    BY DEF Revises
  <2>3. \A i \in 1..Len(rows) : rows[i].mid = row.mid => rows[i] = old
    <3> SUFFICES ASSUME NEW i \in 1..Len(rows), rows[i].mid = row.mid PROVE rows[i] = old
      OBVIOUS
    <3>1. Has(s.rows, rows[i]) /\ old.mid = row.mid
      BY <2>1, <2>2 DEF Has
    <3>2. \A r : Has(s.rows, r) /\ r.mid = row.mid => RowOf(s, row.mid) = r
      BY <1>1, StoredRow
    <3> QED BY <3>1, <3>2
  <2>4. \A i \in 1..Len(rows) : rows[i].mid = row.mid =>
               /\ rows[i].msg = row.msg
               /\ rows[i].state = "WAIT_PUBACK" <=> row.state = "WAIT_PUBACK"
    BY <2>3 DEF Revises
  <2>5. Mids(Changed(rows, row.mid, row)) = Mids(rows)
    BY <2>2, <2>4, RowsChanged
  <2> QED BY <1>2, <2>1, <2>5
<1>5. Owned(s) = Owned(t)
  BY <1>2, <1>4 DEF Owned
<1> QED BY <1>2, <1>3, <1>5 DEF Hush

\* A finished QoS 2 exchange
LEMMA HushCompleted ==
    ASSUME NEW s \in Sessions, NEW m, NEW mid, NEW t, IsCompleted(s, mid, m, t)
    PROVE  /\ Lessens(s, t) /\ t.emits = s.emits /\ t.replay = s.replay
           /\ t.pubcomps = s.pubcomps \cup {mid} => Hush(s, t)
<1>1. Lessens(s, t)
  BY LessensDrop DEF IsCompleted
<1>2. t.emits = s.emits /\ t.replay = s.replay /\ t.acks = s.acks /\ t.autoAcks = s.autoAcks
  BY DEF IsCompleted
<1>3. ASSUME t.pubcomps = s.pubcomps \cup {mid} PROVE Owned(s) \subseteq Owned(t)
  BY <1>2, <1>3 DEF Owned, IsCompleted, RowGone
<1> QED BY <1>1, <1>2, <1>3 DEF Hush

\* on_pubrel
LEMMA OnPubrelledRoad ==
    ASSUME NEW s, manual \in BOOLEAN, Good(s, manual), s.refused = "none", OnRoad(s, manual), NEW mid \in Mid
    PROVE  OnRoad(OnPubrelled(s, mid), manual)
<1>1. s \in Sessions /\ Ledger(s) /\ WaitInv(s, manual) /\ Core(s, manual)
  BY DEF Good, Core
<1>2. CASE ~Stored(s, mid)
  <2>1. PICK t : t = Send(s, "PUBCOMP", mid)
    OBVIOUS
  <2>2. SameTalk(s, t) /\ SameBooks(s, t)
    BY <1>1, <2>1, SendIs
  <2>3. OnRoad(t, manual)
    BY <2>2, HushTalk, HushRoad
  <2> QED BY <1>2, <2>1, <2>3 DEF OnPubrelled
<1>3. CASE Stored(s, mid)
  <2>1. PICK row, t : row = RowOf(s, mid) /\ t = Released(s, mid)
    OBVIOUS
  <2>2. Has(s.rows, row) /\ row.mid = mid /\ row \in Row
    BY <1>1, <1>3, <2>1, StoredRow
  <2>3. t = IF row.state = "WAIT_PUBACK" THEN Refuse(s, "0x82*")
            ELSE IF row.state = "WAIT_USER_ACK" /\ manual THEN s
            ELSE IF row.state = "WAIT_PUBREL" /\ manual /\ ~row.acked
            THEN Update(s, mid, [row EXCEPT !.state = "WAIT_USER_ACK"])
            ELSE IF ~row.delivered /\ ~row.acked
            THEN [s EXCEPT !.waiting[mid] = row.state]
            ELSE CompleteQos2(s, mid, row.state)
    BY <2>1 DEF Released
  <2>4. OnPubrelled(s, mid) = t
    BY <1>3, <2>1 DEF OnPubrelled
  <2>5. CASE t = Refuse(s, "0x82*")
    BY <1>1, <2>4, <2>5, RefuseRoad DEF Reasons
  <2>6. CASE t = s
    BY <2>4, <2>6
  <2>7. CASE row.state = "WAIT_PUBREL" /\ manual /\ t = Update(s, mid, [row EXCEPT !.state = "WAIT_USER_ACK"])
    <3>1. PICK new : new = [row EXCEPT !.state = "WAIT_USER_ACK"]
      OBVIOUS
    <3>2. new \in Row /\ new.mid = mid /\ new.msg = row.msg /\ new.state = "WAIT_USER_ACK" /\ new.delivered = row.delivered
      BY <2>2, <3>1 DEF Row, RowState
    <3>3. s.waiting[mid] = "none"
      BY <1>1, <2>7 DEF WaitInv
    <3>4. Revises(row, new)
      BY <2>2, <2>7, <3>2 DEF Revises
    <3>5. IsUpdate(s, new, manual, t)
      BY <2>2, <2>7, <3>1, <3>3, <3>4, ChangeGood
    <3>6. Hush(s, t)
      BY <2>2, <3>2, <3>4, <3>5, HushUpdate
    <3> QED BY <2>4, <3>6, HushRoad
  <2>8. CASE t = [s EXCEPT !.waiting[mid] = row.state]
    <3>1. /\ SameTalk(s, t) /\ t.rows = s.rows /\ t.acks = s.acks /\ s.autoAcks \subseteq t.autoAcks
          /\ s.pubcomps \subseteq t.pubcomps
      BY <1>1, <2>8 DEF Sessions, SameTalk
    <3> QED BY <2>4, <3>1, HushSame, HushRoad
  <2>9. CASE t = CompleteQos2(s, mid, row.state)
    <3>1. IsCompleted(s, mid, manual, t) /\ t.pubcomps = s.pubcomps \cup {mid}
      BY <1>1, <2>2, <2>9, CompleteQos2Is
    <3>2. Hush(s, t)
      BY <1>1, <3>1, HushCompleted
    <3> QED BY <2>4, <3>2, HushRoad
  <2> QED BY <2>3, <2>5, <2>6, <2>7, <2>8, <2>9
<1> QED BY <1>2, <1>3

\* mark_delivered, for the delivery that has just been handed over
LEMMA MarkedRoad ==
    ASSUME NEW s, NEW m \in BOOLEAN, Good(s, m), NEW q \in Seq(Effects), q # <<>>, NEW M, Road(s, q, m, M), Kinds(s),
           NEW d \in Marks, d = Head(q), NEW t, t = Marked(s, d.mid, d.token)
    PROVE  Road(t, Tail(q), m, M) /\ Kinds(t) /\ t.emits = s.emits /\ t.replay = s.replay
<1>1. s \in Sessions /\ Ledger(s) /\ WaitInv(s, m) /\ Core(s, m)
  BY DEF Good, Core
<1>2. PICK mid, token : mid = d.mid /\ token = d.token /\ mid \in Mid
  BY DEF Marks
<1>3. t = IF s.tokens[mid] # token THEN s
          ELSE IF s.waiting[mid] = "WAIT_PUBACK" THEN CompleteQos1(s, mid)
          ELSE IF s.waiting[mid] # "none" THEN CompleteQos2(s, mid, s.waiting[mid])
          ELSE IF Stored(s, mid)
          THEN Update(s, mid, [RowOf(s, mid) EXCEPT !.delivered = TRUE]) ELSE s
  BY <1>2 DEF Marked
<1>4. CASE t = s /\ (s.tokens[mid] # token \/ ~Stored(s, mid))
  <2>1. \A r : Has(s.rows, r) /\ ~r.delivered => ~Current(s, Head(q), r.mid)
    <3> SUFFICES ASSUME NEW r, Has(s.rows, r), Current(s, Head(q), r.mid) PROVE FALSE
      OBVIOUS
    <3>1. r.mid = mid /\ s.tokens[mid] = token
      BY <1>2 DEF Current
    <3>2. Stored(s, mid)
      BY <1>1, <3>1, StoredRow
    <3> QED BY <1>4, <3>1, <3>2
  <2>2. Road(s, Tail(q), m, M)
    BY <2>1, RoadTail
  <2> QED BY <1>4, <2>2
<1>5. CASE s.waiting[mid] # "none" /\ t \in {CompleteQos1(s, mid), CompleteQos2(s, mid, s.waiting[mid])}
           /\ (t = CompleteQos1(s, mid) \/ s.waiting[mid] # "WAIT_PUBACK")
           /\ (t = CompleteQos2(s, mid, s.waiting[mid]) \/ s.waiting[mid] = "WAIT_PUBACK")
  <2>1. \E r \in Row : Has(s.rows, r) /\ r.mid = mid /\ r.state = s.waiting[mid]
    BY <1>1, <1>2, <1>5 DEF WaitInv
  <2>2. PICK r : Has(s.rows, r) /\ r.mid = mid /\ r.state = s.waiting[mid]
    BY <2>1
  <2>3. IsCompleted(s, mid, m, t)
    <3>1. CASE s.waiting[mid] = "WAIT_PUBACK"
      BY <1>1, <1>5, <2>2, <3>1, CompleteQos1Is
    <3>2. CASE s.waiting[mid] # "WAIT_PUBACK"
      BY <1>1, <1>5, <2>2, <3>2, CompleteQos2Is
    <3> QED BY <3>1, <3>2
  <2>4. Lessens(s, t) /\ t.emits = s.emits /\ t.replay = s.replay
    BY <1>1, <2>3, HushCompleted
  <2>5. Road(t, q, m, M) /\ Kinds(t)
    BY <2>4, RoadLessens
  <2>6. \A x : Has(t.rows, x) => x.mid # mid
    BY <2>3 DEF IsCompleted, RowGone
  <2>7. \A x : Has(t.rows, x) /\ ~x.delivered => ~Current(t, Head(q), x.mid)
    BY <1>2, <2>6 DEF Current
  <2> QED BY <2>4, <2>5, <2>7, RoadTail
<1>6. CASE /\ s.tokens[mid] = token /\ s.waiting[mid] = "none" /\ Stored(s, mid)
           /\ t = Update(s, mid, [RowOf(s, mid) EXCEPT !.delivered = TRUE])
  <2>1. PICK row, new : row = RowOf(s, mid) /\ new = [row EXCEPT !.delivered = TRUE]
    OBVIOUS
  <2>2. Has(s.rows, row) /\ row.mid = mid /\ row \in Row
    BY <1>1, <1>6, <2>1, StoredRow
  <2>3. new \in Row /\ new.mid = mid /\ new.msg = row.msg /\ new.state = row.state /\ new.delivered = TRUE
    BY <2>1, <2>2 DEF Row
  <2>4. Revises(row, new)
    BY <2>2, <2>3 DEF Revises
  <2>5. IsUpdate(s, new, m, t)
    BY <1>6, <2>1, <2>2, <2>4, ChangeGood
  <2>6. t.rows = Changed(s.rows, mid, new) /\ t.tokens = s.tokens /\ t.emits = s.emits /\ t.replay = s.replay
    BY <2>3, <2>5 DEF IsUpdate, SameButRow
  <2>7. Current(s, Head(q), mid)
    BY <1>2, <1>6 DEF Current
  <2> QED BY <1>1, <2>2, <2>3, <2>6, <2>7, RoadMarked
<1> QED BY <1>3, <1>4, <1>5, <1>6

\* ack()
LEMMA AckedRoad ==
    ASSUME NEW s, Good(s, TRUE), NEW mid, Stored(s, mid)
    PROVE  Lessens(s, Acked(s, mid)) /\ Acked(s, mid).emits = s.emits /\ Acked(s, mid).replay = s.replay
<1>1. s \in Sessions /\ Ledger(s) /\ WaitInv(s, TRUE) /\ Core(s, TRUE) /\ OrderInv(s, TRUE)
  BY DEF Good, Core
<1>2. PICK row, t : row = RowOf(s, mid) /\ t = Acked(s, mid)
  OBVIOUS
<1>3. Has(s.rows, row) /\ row.mid = mid /\ row \in Row /\ mid \in Mid
  BY <1>1, <1>2, StoredRow
<1>4. PICK s1 : s1 = [s EXCEPT !.acks = @ \cup {mid}]
  OBVIOUS
<1>5. t = IF row.state = "WAIT_PUBREL" THEN Update(s, mid, [row EXCEPT !.acked = TRUE])
          ELSE IF row.state = "WAIT_PUBACK" THEN DrainAcks(s1) ELSE CompleteQos2(s, mid, row.state)
  BY <1>2, <1>4 DEF Acked
<1>6. CASE row.state = "WAIT_PUBREL"
  <2>1. PICK new : new = [row EXCEPT !.acked = TRUE]
    OBVIOUS
  <2>2. new \in Row /\ new.mid = mid /\ new.msg = row.msg /\ new.state = row.state /\ new.delivered = row.delivered
    BY <1>3, <2>1 DEF Row
  <2>3. s.waiting[mid] = "none" /\ t = Update(s, mid, new)
    BY <1>1, <1>3, <1>5, <1>6, <2>1 DEF WaitInv
  <2>4. Revises(row, new)
    BY <1>3, <2>2 DEF Revises
  <2>5. IsUpdate(s, new, TRUE, t)
    BY <1>3, <2>3, <2>4, ChangeGood
  <2>6. Hush(s, t)
    BY <1>3, <2>2, <2>4, <2>5, HushUpdate
  <2> QED BY <1>2, <2>6 DEF Hush
<1>7. CASE row.state = "WAIT_PUBACK"
  <2>1. mid \in PubackMids(s.rows)
    BY <1>1, <1>3, <1>7, PubackRows
  <2>2. PICK c : c = s.acks \cup {mid}
    OBVIOUS
  <2>3. s1 = [s EXCEPT !.acks = c] /\ c \in SUBSET Mid
    BY <1>1, <1>3, <1>4, <2>2, SessionTyped
  <2>4. /\ s1 \in Sessions /\ s1.acks = c /\ s1.rows = s.rows /\ s1.stored = s.stored /\ s1.bytes = s.bytes
        /\ s1.current = s.current /\ s1.autoAcks = s.autoAcks /\ s1.pubcomps = s.pubcomps
        /\ s1.pubcompSlots = s.pubcompSlots /\ s1.handoff = s.handoff
        /\ s1.waiting = s.waiting /\ s1.order = s.order
        /\ s1.tokens = s.tokens /\ s1.emits = s.emits /\ s1.replay = s.replay
    BY <1>1, <2>3 DEF Sessions
  <2>5. Core(s1, TRUE)
    <3>1. Ledger(s1) /\ SlotInv(s1, TRUE) /\ WaitInv(s1, TRUE)
      BY <1>1, <2>4 DEF Core, Ledger, SlotInv, WaitInv, Inflight
    <3> QED BY <2>4, <3>1 DEF Core
  <2>6. OrderInv(s1, TRUE)
    BY <1>1, <2>1, <2>2, <2>4 DEF OrderInv
  <2>7. t = DrainAcks(s1)
    BY <1>5, <1>7
  <2>8. Lessens(s1, t) /\ t.emits = s1.emits /\ t.replay = s1.replay
    BY <2>5, <2>6, <2>7, DrainGood
  <2>9. Lessens(s, s1)
    BY <2>4, LessensSame
  <2>10. Lessens(s, t)
    BY <2>8, <2>9, LessensOn
  <2> QED BY <1>2, <2>4, <2>8, <2>10
<1>8. CASE row.state \notin {"WAIT_PUBREL", "WAIT_PUBACK"}
  <2>1. t = CompleteQos2(s, mid, row.state)
    BY <1>5, <1>8
  <2>2. IsCompleted(s, mid, TRUE, t)
    BY <1>1, <1>3, <2>1, CompleteQos2Is
  <2>3. Lessens(s, t) /\ t.emits = s.emits /\ t.replay = s.replay
    BY <1>1, <2>2, HushCompleted, ZenonT(30)
  <2> QED BY <1>2, <2>3
<1> QED BY <1>6, <1>7, <1>8

-----------------------------------------------------------------------------
(* The road of a replay.                                                   *)

\* What is behind the head of the lane
Behind(l) == l \in Seq(Effects) /\ \A i \in 1..Len(l) : Has(lane, l[i])

\* The identities before a delivery are alive.
LEMMA OldConcat ==
    ASSUME Around, NEW l, Behind(l), NEW x \in Sessions
    PROVE  l \o x.emits \in Seq(Effects) /\ Old(x, l \o x.emits)
<1>1. PICK e \in Seq(Effects) : e = x.emits
  BY SessionTyped
<1>0. PICK a \in Nat, b \in Nat : a = Len(l) /\ b = Len(e)
  BY DEF Behind
<1>2. PICK u : u = l \o e /\ a = Len(l) /\ b = Len(e)
  BY <1>0
<1>3. /\ u \in Seq(Effects) /\ Len(u) = a + b
      /\ \A i \in 1..a + b : u[i] = IF i <= a THEN l[i] ELSE e[i - a]
  BY <1>1, <1>2 DEF Behind
<1>4. ASSUME NEW i \in 1..a + b PROVE u[i].token \in TokensAlive(x)
  <2>1. CASE i <= a
    <3>1. PICK j \in 1..Len(lane) : lane[j] = u[i]
      BY <1>2, <1>3, <2>1 DEF Behind, Has
    <3>2. j \in DOMAIN lane
      BY DEF Around
    <3> QED BY <3>1, <3>2 DEF TokensAlive
  <2>2. CASE ~(i <= a)
    <3>1. u[i] = e[i - a] /\ i - a \in DOMAIN x.emits
      BY <1>1, <1>2, <1>3, <2>2
    <3> QED BY <1>1, <3>1 DEF TokensAlive
  <2> QED BY <2>1, <2>2
<1> QED BY <1>1, <1>2, <1>3, <1>4 DEF Old

\* The deliveries of rows that were to be replayed
LEMMA EmitAllRoad ==
    ASSUME NEW s \in Sessions, Ledger(s), Around, NEW m, NEW l, Behind(l), NEW M, Road(s, l \o s.emits, m, M),
           NEW q \in Seq(Row), Keyed(q),
           \A i \in 1..Len(q) : Has(s.rows, q[i]) /\ q[i].mid \in M /\ (q[i].delivered => m)
    PROVE  LET t == EmitAll(s, q) IN Road(t, l \o t.emits, m, M \ Mids(q))
<1>1. PICK f : IsTold(f, s, q)
  BY EmitAllTold
<1>2. f[0] = s /\ EmitAll(s, q) = f[Len(q)] /\ \A n \in 1..Len(q) : f[n] = Emit(f[n - 1], q[n])
  BY <1>1 DEF IsTold
<1> DEFINE Left(n) == {k \in M : \A i \in 1..n : q[i].mid # k}
           P(x, n) == Tells(s, x) /\ Road(x, l \o x.emits, m, Left(n))
           B == {n \in Nat : n <= Len(q) => P(f[n], n)}
<1>3. 0 \in B
  <2>1. Left(0) = M
    OBVIOUS
  <2>2. Tells(s, s)
    BY DEF Tells, SameBooks
  <2> QED BY <1>2, <2>1, <2>2
<1>4. ASSUME NEW n \in Nat, n \in B PROVE n + 1 \in B
  <2> SUFFICES ASSUME n + 1 <= Len(q) PROVE P(f[n + 1], n + 1)
    OBVIOUS
  <2>1. PICK x, y, row : x = f[n] /\ y = f[n + 1] /\ row = q[n + 1]
    OBVIOUS
  <2>2. P(x, n) /\ n + 1 \in 1..Len(q) /\ (n + 1) - 1 = n /\ row \in Row
    BY <1>4, <2>1
  <2>3. y = Emit(x, row) /\ x \in Sessions
    BY <1>2, <2>1, <2>2 DEF Tells
  <2>4. IsEmit(x, row, y)
    BY <2>2, <2>3, EmitIs
  <2>5. Tells(s, y)
    BY <2>2, <2>4 DEF IsEmit, Tells, SameBooks
  <2>6. PICK e, d : e = x.emits /\ d = Delivery(row.mid, row.msg, y.tokens[row.mid], TRUE)
    OBVIOUS
  <2>7. l \o e \in Seq(Effects) /\ Old(x, l \o e)
    BY <2>3, <2>6, OldConcat
  <2>8. x.rows = s.rows /\ Ledger(x) /\ Has(x.rows, row)
    BY <2>1, <2>2 DEF Tells, SameBooks, Ledger
  <2>9. row.mid \in Left(n) /\ row.mid \notin Left(n + 1) /\ (row.delivered => m)
    <3>1. \A i \in 1..n : q[i].mid # q[n + 1].mid
      BY <2>2 DEF Keyed
    <3> QED BY <2>1, <2>2, <3>1
  <2>10. Left(n + 1) \subseteq Left(n) /\ Left(n) \subseteq Left(n + 1) \cup {row.mid}
    <3>1. 1..n + 1 = 1..n \cup {n + 1}
      OBVIOUS
    <3> QED BY <2>1, <3>1
  <2>11. PICK L0, L1 : L0 = Left(n) /\ L1 = Left(n + 1)
    OBVIOUS
  <2>12. Road(x, l \o e, m, L0)
    BY <2>2, <2>6, <2>11
  <2>13. Road(y, Append(l \o e, d), m, L1)
    <3> HIDE DEF Left
    <3> QED BY <2>3, <2>4, <2>6, <2>7, <2>8, <2>9, <2>10, <2>11, <2>12, RoadEmits
  <2>14. y.emits = Append(e, d) /\ d \in Effects /\ e \in Seq(Effects)
    BY <2>3, <2>4, <2>6, SessionTyped DEF IsEmit, Effects, Messages
  <2>15. l \o Append(e, d) = Append(l \o e, d)
    BY <2>14 DEF Behind
  <2>16. Road(y, l \o y.emits, m, Left(n + 1))
    BY <2>11, <2>13, <2>14, <2>15
  <2>17. P(y, n + 1)
    BY <2>5, <2>16
  <2> HIDE DEF P
  <2> QED BY <2>1, <2>17
<1>5. P(f[Len(q)], Len(q))
  <2>1. \A n \in Nat : n \in B
    <3> HIDE DEF B
    <3> QED BY <1>3, <1>4, InductiveSet
  <2>2. PICK k \in Nat : k = Len(q)
    OBVIOUS
  <2>3. k \in B /\ k <= Len(q)
    <3> HIDE DEF B
    <3> QED BY <2>1, <2>2
  <2> HIDE DEF P
  <2>4. P(f[k], k)
    BY <2>3
  <2> QED BY <2>2, <2>4
<1>6. Left(Len(q)) = M \ Mids(q)
  <2>1. \A k : k \in Mids(q) <=> \E i \in 1..Len(q) : q[i].mid = k
    BY MidsOwned DEF Owns
  <2>2. ASSUME NEW k PROVE k \in Left(Len(q)) <=> k \in M /\ k \notin Mids(q)
    <3>1. (\A i \in 1..Len(q) : q[i].mid # k) <=> k \notin Mids(q)
      BY <2>1
    <3> QED BY <3>1
  <2> QED BY <2>2
<1> QED BY <1>2, <1>5, <1>6

\* Where a page begins
LEMMA PageStart ==
    ASSUME NEW a \in Nat
    PROVE  \E i \in Nat : i % ReplayBatch = 0 /\ i <= a /\ a < i + ReplayBatch
<1>1. PICK b \in Nat \ {0} : b = ReplayBatch
  BY InboundAssumptions
<1>2. PICK k : k = a % b
  OBVIOUS
<1>3. (a - (a % b)) % b = 0 /\ a % b < b /\ a % b \in Nat /\ a - (a % b) \in Nat
  OBVIOUS
<1>4. a - k \in Nat /\ (a - k) % b = 0 /\ k \in Nat /\ k < b
  BY <1>2, <1>3
<1>5. a - k <= a /\ a < (a - k) + b
  BY <1>4
<1> QED BY <1>1, <1>4, <1>5

\* The end of a page
PageEnd(i, q) == IF i + ReplayBatch <= Len(q) THEN i + ReplayBatch ELSE Len(q)

\* The rows that the identifiers of a page still own
LEMMA PageIs ==
    ASSUME NEW s \in Sessions, Ledger(s), NEW q \in Seq(Mid), q = s.replay.mids, Distinct(q),
           NEW i \in Nat, i <= Len(q)
    PROVE  /\ Page(s, i) \in Seq(Row) /\ Keyed(Page(s, i))
           /\ Len(Page(s, i)) <= PageEnd(i, q) - i
           /\ \A r : Has(Page(s, i), r) <=> Has(s.rows, r) /\ \E j \in i + 1..PageEnd(i, q) : q[j] = r.mid
<1>1. PICK n : n = PageEnd(i, q)
  OBVIOUS
<1>2. n \in Nat /\ n <= Len(q) /\ i <= n
  <2>0. ReplayBatch \in Nat /\ Len(q) \in Nat
    BY InboundAssumptions
  <2>a. i + ReplayBatch \in Nat /\ i <= i + ReplayBatch
    BY <2>0
  <2>1. PICK a, b : a = i + ReplayBatch /\ b = Len(q) /\ a \in Nat /\ b \in Nat /\ i <= a /\ i <= b
    BY <2>0, <2>a
  <2>2. n = IF a <= b THEN a ELSE b
    BY <1>1, <2>1 DEF PageEnd
  <2> QED BY <2>1, <2>2
<1>3. n = Min({i + ReplayBatch, Len(q)})
  <2>0. ReplayBatch \in Nat /\ Len(q) \in Nat
    BY InboundAssumptions
  <2>a. i + ReplayBatch \in Nat
    BY <2>0
  <2>1. PICK a, b : a = i + ReplayBatch /\ b = Len(q) /\ a \in Nat /\ b \in Nat
    BY <2>0, <2>a
  <2>2. \E x \in {a, b} : \A y \in {a, b} : x <= y
    <3>1. (a <= b \/ b <= a) /\ a <= a /\ b <= b
      BY <2>1
    <3> QED BY <3>1
  <2>3. PICK c : c = Min({a, b})
    OBVIOUS
  <2>4. c \in {a, b} /\ \A y \in {a, b} : c <= y
    BY <2>2, <2>3 DEF Min
  <2>5. c = IF a <= b THEN a ELSE b
    BY <2>1, <2>4
  <2> QED BY <1>1, <2>1, <2>3, <2>5 DEF PageEnd
<1>4. PICK mids, S, live : mids = SubSeq(q, i + 1, n) /\ S = Mids(s.rows) /\ live = Only(mids, S)
  OBVIOUS
<1>5. mids \in Seq(Mid) /\ Len(mids) = n - i /\ \A j \in 1..n - i : mids[j] = q[i + j]
  BY <1>2, <1>4
<1>6. Distinct(mids)
  <2> SUFFICES ASSUME NEW j \in 1..n - i, NEW k \in 1..n - i, mids[j] = mids[k] PROVE j = k
    BY <1>5 DEF Distinct
  <2>1. i + j \in 1..Len(q) /\ i + k \in 1..Len(q)
    BY <1>2
  <2>2. i + j = i + k
    BY <1>5, <2>1 DEF Distinct
  <2> QED BY <2>2
<1>7. \A x : Has(mids, x) <=> \E j \in i + 1..n : q[j] = x
  <2> SUFFICES ASSUME NEW x PROVE Has(mids, x) <=> \E j \in i + 1..n : q[j] = x
    OBVIOUS
  <2>1. ASSUME NEW j \in 1..n - i, mids[j] = x PROVE i + j \in i + 1..n /\ q[i + j] = x
    BY <1>2, <1>5, <2>1
  <2>2. ASSUME NEW j \in i + 1..n, q[j] = x PROVE j - i \in 1..n - i /\ mids[j - i] = x
    <3>1. j - i \in 1..n - i /\ i + (j - i) = j
      BY <1>2, <2>2
    <3> QED BY <1>5, <2>2, <3>1
  <2> QED BY <1>5, <2>1, <2>2 DEF Has
<1>8. live \in Seq(Mid \cap S) /\ Len(live) <= n - i
  BY <1>4, <1>5, OnlyTyped
<1>9. Distinct(live) /\ \A x : Has(live, x) <=> Has(mids, x) /\ x \in S
  <2>1. \A z \in Seq(Mid) : /\ \A x : Has(Only(z, S), x) <=> Has(z, x) /\ x \in S
                            /\ Distinct(z) => Distinct(Only(z, S))
    BY OnlyMembers
  <2> QED BY <1>4, <1>5, <1>6, <2>1
<1>10. PICK page : page = Page(s, i)
  OBVIOUS
<1>11. page = [j \in 1..Len(live) |-> RowOf(s, live[j])]
  <2>1. DOMAIN live = 1..Len(live)
    BY <1>8
  <2> QED BY <1>3, <1>4, <1>10, <2>1 DEF Page
<1>12. page \in Seq(Row)
  BY <1>10, PageTyped
<1>13. Len(page) = Len(live) /\ \A j \in 1..Len(live) : page[j] = RowOf(s, live[j])
  <2>1. Len(live) \in Nat
    BY <1>8
  <2> QED BY <1>11, <2>1
<1>14. \A j \in 1..Len(live) : live[j] \in S /\ page[j].mid = live[j] /\ Has(s.rows, page[j])
  <2> SUFFICES ASSUME NEW j \in 1..Len(live) PROVE live[j] \in S /\ page[j].mid = live[j] /\ Has(s.rows, page[j])
    OBVIOUS
  <2>1. PICK k : k = live[j]
    OBVIOUS
  <2>2. k \in Mids(s.rows)
    BY <1>4, <1>8, <2>1
  <2>3. Stored(s, k)
    BY <2>2, StoredRow
  <2>4. Has(s.rows, RowOf(s, k)) /\ RowOf(s, k).mid = k
    BY <2>3, StoredRow
  <2> QED BY <1>4, <1>13, <2>1, <2>2, <2>4
<1>15. Keyed(page)
  BY <1>9, <1>13, <1>14 DEF Keyed, Distinct
<1>16. \A r : Has(page, r) <=> Has(s.rows, r) /\ \E j \in i + 1..n : q[j] = r.mid
  <2>1. ASSUME NEW r, Has(page, r) PROVE Has(s.rows, r) /\ Has(mids, r.mid)
    <3>1. PICK j \in 1..Len(live) : page[j] = r
      BY <1>13, <2>1 DEF Has
    <3>2. Has(live, r.mid)
      BY <1>14, <3>1 DEF Has
    <3> QED BY <1>9, <1>14, <3>1, <3>2
  <2>2. ASSUME NEW r, Has(s.rows, r), Has(mids, r.mid) PROVE Has(page, r)
    <3>1. r.mid \in S /\ RowOf(s, r.mid) = r
      BY <1>4, <2>2, StoredRow
    <3>2. PICK j \in 1..Len(live) : live[j] = r.mid
      BY <1>9, <2>2, <3>1 DEF Has
    <3>3. page[j] = r
      BY <1>13, <3>1, <3>2
    <3> QED BY <1>13, <3>3 DEF Has
  <2> QED BY <1>7, <2>1, <2>2
<1> QED BY <1>1, <1>8, <1>10, <1>12, <1>13, <1>15, <1>16

\* The identifiers behind the first k
IsRest(q, k, u) ==
    /\ u \in Seq(Mid) /\ Len(u) = IF k <= Len(q) THEN Len(q) - k ELSE 0
    /\ \A x : Has(u, x) <=> \E j \in k + 1..Len(q) : q[j] = x
    /\ Distinct(q) => Distinct(u)

\* They are a suffix of the saved ones.
LEMMA RestIs ==
    ASSUME NEW q \in Seq(Mid), NEW k \in Nat
    PROVE  IsRest(q, k, SubSeq(q, k + 1, Len(q)))
<1>0. PICK u : u = SubSeq(q, k + 1, Len(q))
  OBVIOUS
<1> SUFFICES IsRest(q, k, u)
  BY <1>0
<1>1. PICK n \in Nat : n = Len(q)
  OBVIOUS
<1>2. CASE n < k
  <2>1. u = <<>> /\ k + 1..n = {}
    BY <1>0, <1>1, <1>2
  <2>2. Len(u) = 0 /\ ~(k <= n)
    <3>1. ~(k <= n)
      BY <1>2
    <3>2. Len(u) = 0
      BY <2>1, EmptySeq, Zenon
    <3> QED BY <3>1, <3>2
  <2>3. u \in Seq(Mid) /\ (\A x : ~Has(u, x)) /\ Distinct(u)
    BY <2>1, <2>2 DEF Has, Distinct
  <2> QED BY <1>1, <2>1, <2>2, <2>3 DEF IsRest
<1>3. CASE k <= n
  <2>1. u \in Seq(Mid) /\ Len(u) = n - k /\ \A i \in 1..n - k : u[i] = q[k + i]
    BY <1>0, <1>1, <1>3
  <2>2. \A i \in 1..n - k : k + i \in k + 1..n /\ k + i \in 1..n
    BY <1>3
  <2>3. \A j \in k + 1..n : j - k \in 1..n - k /\ k + (j - k) = j
    BY <1>3
  <2>4. \A x : Has(u, x) <=> \E j \in k + 1..n : q[j] = x
    BY <2>1, <2>2, <2>3 DEF Has
  <2>5. ASSUME Distinct(q) PROVE Distinct(u)
    <3> SUFFICES ASSUME NEW i \in 1..n - k, NEW j \in 1..n - k, u[i] = u[j] PROVE i = j
      BY <2>1 DEF Distinct
    <3>1. k + i = k + j
      BY <1>1, <2>1, <2>2, <2>5 DEF Distinct
    <3> QED BY <3>1
  <2> QED BY <1>1, <1>3, <2>1, <2>4, <2>5 DEF IsRest
<1> QED BY <1>1, <1>2, <1>3

\* The rows of a page that are delivered again
LEMMA OnlyKeyed ==
    ASSUME NEW q \in Seq(Row), Keyed(q), NEW S, NEW u, u = Only(q, S)
    PROVE  u \in Seq(Row) /\ Keyed(u) /\ \A r : Has(u, r) <=> Has(q, r) /\ r \in S
<1>1. u = Only(q, S)
  OBVIOUS
<1>2. u \in Seq(Row)
  <2>1. u \in Seq(Row \cap S)
    BY <1>1, OnlyTyped
  <2> QED BY <2>1
<1>3. Distinct(q)
  BY DEF Keyed, Distinct
<1>4. Distinct(u) /\ \A r : Has(u, r) <=> Has(q, r) /\ r \in S
  <2>1. \A z \in Seq(Row) : /\ \A x : Has(Only(z, S), x) <=> Has(z, x) /\ x \in S
                            /\ Distinct(z) => Distinct(Only(z, S))
    BY OnlyMembers
  <2> QED BY <1>1, <1>3, <2>1
<1>5. Keyed(u)
  <2> SUFFICES ASSUME NEW i \in 1..Len(u), NEW j \in 1..Len(u), u[i].mid = u[j].mid PROVE i = j
    BY DEF Keyed
  <2>1. Has(u, u[i]) /\ Has(u, u[j])
    BY DEF Has
  <2>2. PICK a \in 1..Len(q), b \in 1..Len(q) : q[a] = u[i] /\ q[b] = u[j]
    BY <1>4, <2>1 DEF Has
  <2>3. u[i] = u[j]
    BY <2>2 DEF Keyed
  <2> QED BY <1>4, <2>3 DEF Distinct
<1> QED BY <1>2, <1>4, <1>5

\* A row that is to be replayed is on a page.
LEMMA RowPage ==
    ASSUME NEW s \in Sessions, Ledger(s), NEW q \in Seq(Mid), q = s.replay.mids, Distinct(q),
           NEW r, Has(s.rows, r), NEW j \in 1..Len(q), q[j] = r.mid
    PROVE  \E i \in NextPages(s) : i < j
<1>1. j - 1 \in Nat
  OBVIOUS
<1>2. PICK i \in Nat : i % ReplayBatch = 0 /\ i <= j - 1 /\ j - 1 < i + ReplayBatch
  BY <1>1, PageStart
<1>3. i < j /\ i <= Len(q) /\ i \in 0..Len(q)
  BY <1>2
<1>4. j \in i + 1..PageEnd(i, q)
  <2>0. ReplayBatch \in Nat
    BY InboundAssumptions
  <2>1. PICK b \in Nat, n \in Nat : b = ReplayBatch /\ n = Len(q)
    BY <2>0
  <2>2. i + 1 <= j /\ j <= i + b /\ j <= n
    BY <1>2, <1>3, <2>1
  <2>3. PICK e : e = PageEnd(i, q)
    OBVIOUS
  <2>4. e = IF i + b <= n THEN i + b ELSE n
    BY <2>1, <2>3 DEF PageEnd
  <2>5. j \in i + 1..e
    BY <2>1, <2>2, <2>4
  <2> QED BY <2>3, <2>5
<1>5. Page(s, i) \in Seq(Row) /\ Has(Page(s, i), r)
  BY <1>3, <1>4, PageIs
<1>6. Page(s, i) # <<>>
  BY <1>5 DEF Has
<1> QED BY <1>2, <1>3, <1>6 DEF NextPages

\* What a replay that goes on has saved
Planned(s) == s.replay # NoReplay => Distinct(s.replay.mids) /\ Len(s.replay.mids) <= s.replay.remaining

\* A page: the rows before it are gone, those on it that want it are
\* delivered, and the others are still to come.
LEMMA PageRoad ==
    ASSUME NEW s \in Sessions, Ledger(s), Around, NEW l, Behind(l), Road(s, l \o s.emits, manual, Due(s)),
           NEW q \in Seq(Mid), q = s.replay.mids, Distinct(q),
           NEW i \in Nat, i <= Len(q), \A k \in NextPages(s) : i <= k,
           NEW rows, rows = Only(Page(s, i), {row \in Range(Page(s, i)) : ShouldRedeliver(s, row)}),
           NEW t, t = EmitAll(s, rows),
           NEW N, N \subseteq Due(s), \A j \in 1..Len(q) : q[j] \in N => j > PageEnd(i, q),
           \A r : \A j \in 1..Len(q) : Has(s.rows, r) /\ q[j] = r.mid /\ j > PageEnd(i, q) => r.mid \in N
    PROVE  Road(t, l \o t.emits, manual, N)
<1>1. PICK page, S : page = Page(s, i) /\ S = {row \in Range(page) : ShouldRedeliver(s, row)}
  OBVIOUS
<1>2. /\ page \in Seq(Row) /\ Keyed(page)
      /\ \A r : Has(page, r) <=> Has(s.rows, r) /\ \E j \in i + 1..PageEnd(i, q) : q[j] = r.mid
  BY <1>1, PageIs
<1>3. rows = Only(page, S)
  <2>1. S = {row \in Range(Page(s, i)) : ShouldRedeliver(s, row)}
    BY <1>1
  <2> QED BY <1>1, <2>1
<1>4. rows \in Seq(Row) /\ Keyed(rows) /\ \A r : Has(rows, r) <=> Has(page, r) /\ r \in S
  BY <1>2, <1>3, OnlyKeyed
<1>5. \A r : r \in Range(page) <=> Has(page, r)
  BY <1>2, MidsOwned
<1>6. \A r : Has(rows, r) <=> Has(page, r) /\ ShouldRedeliver(s, r)
  BY <1>1, <1>4, <1>5
<1>7. PICK n, e : n = Len(q) /\ e = PageEnd(i, q) /\ n \in Nat
  OBVIOUS
<1>8. e \in Nat /\ i <= e /\ e <= n
  <2>0. ReplayBatch \in Nat
    BY InboundAssumptions
  <2>1. PICK b \in Nat : b = ReplayBatch
    BY <2>0
  <2>2. e = IF i + b <= n THEN i + b ELSE n
    BY <1>7, <2>1 DEF PageEnd
  <2> QED BY <1>7, <2>1, <2>2
<1>9. ASSUME NEW r, Has(page, r) PROVE r.mid \in Due(s) /\ r.mid \notin N
  <2>1. PICK j \in i + 1..e : q[j] = r.mid
    BY <1>2, <1>7, <1>9
  <2>2. j \in 1..n /\ ~(j > e)
    BY <1>7, <1>8, <2>1
  <2>3. r.mid \in Mid /\ Has(q, r.mid)
    BY <1>7, <2>1, <2>2 DEF Has
  <2> QED BY <1>7, <2>1, <2>2, <2>3 DEF Due
<1>10. \A k \in 1..Len(rows) : Has(s.rows, rows[k]) /\ rows[k].mid \in Due(s) /\ (rows[k].delivered => manual)
  <2> SUFFICES ASSUME NEW k \in 1..Len(rows)
               PROVE  Has(s.rows, rows[k]) /\ rows[k].mid \in Due(s) /\ (rows[k].delivered => manual)
    OBVIOUS
  <2>1. Has(rows, rows[k])
    BY DEF Has
  <2>2. Has(page, rows[k]) /\ ShouldRedeliver(s, rows[k])
    BY <1>6, <2>1
  <2> QED BY <1>2, <1>9, <2>2 DEF ShouldRedeliver
<1>11. Road(t, l \o t.emits, manual, Due(s) \ Mids(rows))
  BY <1>4, <1>10, EmitAllRoad
<1>12. t.rows = s.rows
  <2>1. Tells(s, t)
    BY <1>4, EmitAllIs
  <2> QED BY <2>1 DEF Tells, SameBooks
<1>13. N \subseteq Due(s) \ Mids(rows)
  <2> SUFFICES ASSUME NEW k \in N, k \in Mids(rows) PROVE FALSE
    OBVIOUS
  <2>1. PICK a \in 1..Len(rows) : rows[a].mid = k
    BY <1>4, MidsOwned DEF Owns
  <2>2. Has(page, rows[a])
    BY <1>4 DEF Has
  <2> QED BY <1>9, <2>1, <2>2
<1>14. ASSUME NEW r, Has(t.rows, r), ~r.delivered, r.mid \in Due(s) \ Mids(rows) PROVE r.mid \in N
  <2>1. Has(s.rows, r)
    BY <1>12, <1>14
  <2>2. PICK j \in 1..Len(q) : q[j] = r.mid
    BY <1>14 DEF Due, Has
  <2>3. PICK k \in NextPages(s) : k < j
    BY <2>1, <2>2, RowPage
  <2>4. i < j
    <3>1. k \in Nat /\ i <= k
      BY <2>3 DEF NextPages
    <3> QED BY <2>3, <3>1
  <2>5. CASE j <= e
    <3>1. j \in i + 1..e
      BY <1>8, <2>4, <2>5
    <3>2. Has(rows, r)
      BY <1>2, <1>6, <1>7, <1>14, <2>1, <2>2, <3>1 DEF ShouldRedeliver
    <3>3. r.mid \in Mids(rows)
      BY <1>4, <3>2, MidsOwned DEF Owns, Has
    <3> QED BY <1>14, <3>3
  <2>6. CASE j > e
    BY <1>7, <2>1, <2>2, <2>6
  <2> QED BY <1>8, <2>5, <2>6
<1> QED BY <1>11, <1>13, <1>14, RoadFewer

\* The end of a replay
LEMMA EndedRoad ==
    ASSUME NEW s \in Sessions, NEW q, NEW m, Road(s, q, m, {}), NEW t, t = ReplayEnded(s)
    PROVE  /\ Road(t, q, m, Due(t)) /\ t.emits = s.emits /\ t.replay = NoReplay /\ Due(t) = {}
<1>1. t.rows = s.rows /\ t.tokens = s.tokens /\ t.emits = s.emits /\ t.replay = NoReplay
  BY DEF ReplayEnded, Sessions
<1>2. Due(t) = {}
  <2>1. t.replay.mids = <<>> /\ Len(<<>>) = 0
    BY <1>1 DEF NoReplay
  <2> QED BY <2>1 DEF Due, Has
<1>3. Lessens(s, t)
  BY <1>1, LessensSame
<1>4. Road(t, q, m, {})
  BY <1>3, RoadLessens
<1> QED BY <1>1, <1>2, <1>4

\* drain_replay: the next page that still has a row is delivered, and the one
\* after it is announced unless no row is left.
LEMMA DrainReplayRoad ==
    ASSUME NEW s \in Sessions, Ledger(s), Around, NEW l, Behind(l), Road(s, l \o s.emits, manual, Due(s)),
           s.replay # NoReplay, Planned(s), NEW t, t = DrainReplay(s)
    PROVE  /\ Road(t, l \o t.emits, manual, Due(t)) /\ Planned(t) /\ Due(t) \subseteq Due(s)
           /\ t.replay # NoReplay => Has(t.emits, ContinueReplay)
<1>1. PICK q \in Seq(Mid), rem \in Int : q = s.replay.mids /\ rem = s.replay.remaining
  BY SessionTyped DEF Replays
<1>2. Distinct(q) /\ Len(q) <= rem
  BY <1>1 DEF Planned
<1>3. CASE NextPages(s) = {}
  <2>1. t = ReplayEnded(s)
    BY <1>3 DEF DrainReplay
  <2>2. Road(s, l \o s.emits, manual, {})
    <3>1. \A r : Has(s.rows, r) => r.mid \notin Due(s)
      <4> SUFFICES ASSUME NEW r, Has(s.rows, r), r.mid \in Due(s) PROVE FALSE
        OBVIOUS
      <4>1. PICK j \in 1..Len(q) : q[j] = r.mid
        BY <1>1 DEF Due, Has
      <4>2. \E i \in NextPages(s) : i < j
        BY <1>1, <1>2, <4>1, RowPage
      <4> QED BY <1>3, <4>2
    <3> QED BY <3>1, RoadFewer
  <2>3. /\ Road(t, l \o s.emits, manual, Due(t)) /\ t.emits = s.emits /\ t.replay = NoReplay /\ Due(t) = {}
    BY <2>1, <2>2, EndedRoad
  <2> QED BY <2>3 DEF Planned
<1>4. CASE NextPages(s) # {}
  <2>1. PICK N : N = NextPages(s)
    OBVIOUS
  <2>2. N \in SUBSET Nat /\ \A x \in N : x <= Len(q)
    BY <1>1, <2>1 DEF NextPages
  <2>3. PICK i : i = Min(N)
    OBVIOUS
  <2>4. i \in N /\ \A k \in N : i <= k
    <3>1. \E x \in N : \A y \in N : x <= y
      BY <1>4, <2>1, <2>2, LeastExists
    <3> QED BY <2>3, <3>1 DEF Min
  <2>5. i \in Nat /\ i <= Len(q) /\ \A k \in NextPages(s) : i <= k
    BY <2>1, <2>2, <2>4
  <2>6. PICK page, rows, told, left : /\ page = Page(s, i)
                                      /\ rows = Only(page, {row \in Range(page) : ShouldRedeliver(s, row)})
                                      /\ told = EmitAll(s, rows) /\ left = rem - Len(page)
    OBVIOUS
  <2>7. PICK rest, on : /\ rest = [mids |-> SubSeq(q, i + ReplayBatch + 1, Len(q)), remaining |-> left]
                        /\ on = [told EXCEPT !.replay = rest, !.emits = Append(@, ContinueReplay)]
    OBVIOUS
  <2>8. page \in Seq(Row) /\ Len(page) <= PageEnd(i, q) - i
    BY <1>1, <1>2, <2>5, <2>6, PageIs
  <2>9. rows \in Seq(Row)
    <3>1. PICK S : S = {row \in Range(page) : ShouldRedeliver(s, row)}
      OBVIOUS
    <3>2. rows = Only(page, S)
      BY <2>6, <3>1
    <3>3. rows \in Seq(Row \cap S)
      BY <2>8, <3>2, OnlyTyped
    <3> QED BY <3>3
  <2>10. Tells(s, told) /\ told.replay = s.replay /\ told \in Sessions
    BY <2>6, <2>9, EmitAllIs DEF Tells
  <2>11. t = IF left = 0 THEN ReplayEnded(told) ELSE on
    <3>1. told.replay.mids = q
      BY <1>1, <2>10
    <3>2. on = [told EXCEPT
                    !.replay = [mids |-> SubSeq(@.mids, i + ReplayBatch + 1, Len(@.mids)), remaining |-> left],
                    !.emits = Append(@, ContinueReplay)]
      BY <2>7, <3>1
    <3> QED BY <1>1, <1>4, <2>1, <2>3, <2>6, <3>2 DEF DrainReplay
  <2>12. PICK n, b, e, p : /\ n = Len(q) /\ b = ReplayBatch /\ e = PageEnd(i, q) /\ p = Len(page)
                           /\ n \in Nat /\ b \in Nat /\ p \in Nat
    <3>1. ReplayBatch \in Nat
      BY InboundAssumptions
    <3>2. Len(q) \in Nat /\ Len(page) \in Nat
      BY <2>8
    <3> QED BY <3>1, <3>2, Zenon
  <2>13. /\ e = (IF i + b <= n THEN i + b ELSE n) /\ p <= e - i /\ left = rem - p /\ n <= rem /\ i <= n
         /\ i + b \in Nat
    BY <1>2, <2>5, <2>6, <2>8, <2>12 DEF PageEnd
  <2>14. e \in Nat /\ e <= n /\ i <= e
    BY <2>5, <2>12, <2>13
  <2>15. CASE left = 0
    <3>1. e = n
      BY <2>5, <2>12, <2>13, <2>14, <2>15
    <3>2. /\ \A j \in 1..Len(q) : q[j] \in {} => j > PageEnd(i, q)
          /\ \A r : \A j \in 1..Len(q) : Has(s.rows, r) /\ q[j] = r.mid /\ j > PageEnd(i, q) => r.mid \in {}
      <4>1. \A j \in 1..n : ~(j > e)
        BY <2>12, <3>1
      <4> QED BY <2>12, <4>1
    <3>3. Road(told, l \o told.emits, manual, {})
      <4>1. {} \subseteq Due(s)
        OBVIOUS
      <4> QED BY <1>1, <1>2, <2>5, <2>6, <3>2, <4>1, PageRoad
    <3>4. t = ReplayEnded(told)
      BY <2>11, <2>15
    <3>5. /\ Road(t, l \o told.emits, manual, Due(t)) /\ t.emits = told.emits /\ t.replay = NoReplay /\ Due(t) = {}
      BY <2>10, <3>3, <3>4, EndedRoad
    <3> QED BY <3>5 DEF Planned
  <2>16. CASE left # 0
    <3>1. t = on
      BY <2>11, <2>16
    <3>2. PICK u, x : u = SubSeq(q, (i + b) + 1, Len(q)) /\ x = ContinueReplay
      OBVIOUS
    <3>3. /\ u \in Seq(Mid) /\ Len(u) = (IF i + b <= n THEN n - (i + b) ELSE 0)
          /\ \A y : Has(u, y) <=> \E j \in (i + b) + 1..n : q[j] = y
          /\ Distinct(u)
      <4>1. PICK k \in Nat : k = i + b
        BY <2>13
      <4>2. IsRest(q, k, SubSeq(q, k + 1, Len(q)))
        BY RestIs
      <4>3. IsRest(q, k, u)
        BY <3>2, <4>1, <4>2
      <4> QED BY <1>2, <2>12, <4>1, <4>3 DEF IsRest
    <3>4. /\ t.replay.mids = u /\ t.replay.remaining = left /\ t.emits = Append(told.emits, x)
          /\ t.rows = told.rows /\ t.tokens = told.tokens
      <4>1. i + ReplayBatch + 1 = (i + b) + 1
        BY <2>12
      <4>2. rest.mids = u /\ rest.remaining = left
        BY <2>7, <3>2, <4>1
      <4>3. t = [told EXCEPT !.replay = rest, !.emits = Append(@, x)]
        BY <2>7, <3>1, <3>2
      <4> QED BY <2>10, <4>2, <4>3 DEF Sessions
    <3>5. Len(u) <= left
      BY <2>5, <2>12, <2>13, <2>14, <3>3
    <3>6. Planned(t)
      BY <3>3, <3>4, <3>5 DEF Planned
    <3>7. \A k : k \in Due(t) <=> \E j \in (i + b) + 1..n : q[j] = k
      <4>1. \A j \in (i + b) + 1..n : q[j] \in Mid
        BY <2>12, <2>13
      <4> QED BY <3>3, <3>4, <4>1 DEF Due
    <3>8. Due(t) \subseteq Due(s)
      <4> SUFFICES ASSUME NEW k \in Due(t) PROVE k \in Due(s)
        OBVIOUS
      <4>1. PICK j \in (i + b) + 1..n : q[j] = k
        BY <3>7
      <4>2. j \in 1..n /\ k \in Mid
        BY <2>12, <2>13, <4>1
      <4> QED BY <1>1, <2>12, <4>1, <4>2 DEF Due, Has
    <3>9. \A j \in 1..Len(q) : q[j] \in Due(t) => j > PageEnd(i, q)
      <4> SUFFICES ASSUME NEW j \in 1..n, q[j] \in Due(t) PROVE j > e
        BY <2>12
      <4>1. PICK k \in (i + b) + 1..n : q[k] = q[j]
        BY <3>7
      <4>2. k \in 1..n
        BY <2>13, <4>1
      <4>3. k = j
        BY <1>2, <2>12, <4>1, <4>2 DEF Distinct
      <4> QED BY <2>5, <2>12, <2>13, <4>1, <4>3
    <3>10. \A r : \A j \in 1..Len(q) : Has(s.rows, r) /\ q[j] = r.mid /\ j > PageEnd(i, q) => r.mid \in Due(t)
      <4> SUFFICES ASSUME NEW r, NEW j \in 1..n, q[j] = r.mid, j > e PROVE r.mid \in Due(t)
        BY <2>12
      <4>1. j \in (i + b) + 1..n
        BY <2>5, <2>12, <2>13, <2>14
      <4> QED BY <3>7, <4>1
    <3>11. Road(told, l \o told.emits, manual, Due(t))
      BY <1>1, <1>2, <2>5, <2>6, <3>8, <3>9, <3>10, PageRoad
    <3>12. PICK a \in Seq(Effects), d \in Seq(Effects) : a = l /\ d = told.emits
      BY <2>10, SessionTyped DEF Behind
    <3>13. x \in Effects /\ x \notin Marks
      BY <3>2 DEF Effects, Marks, ContinueReplay
    <3>14. Road(told, Append(a \o d, x), manual, Due(t))
      <4>1. a \o d \in Seq(Effects) /\ Road(told, a \o d, manual, Due(t))
        BY <3>11, <3>12
      <4> QED BY <3>13, <4>1, RoadPlain
    <3>15. a \o Append(d, x) = Append(a \o d, x)
      BY <3>12, <3>13
    <3>16. Road(told, l \o t.emits, manual, Due(t))
      BY <3>4, <3>12, <3>14, <3>15
    <3>17. Road(t, l \o t.emits, manual, Due(t))
      <4>1. Lessens(told, t)
        BY <3>4, LessensSame
      <4> QED BY <3>16, <4>1, RoadLessens
    <3>18. Has(t.emits, ContinueReplay)
      <4>1. Has(Append(d, x), x)
        BY <3>12, <3>13, HasAppend
      <4> QED BY <3>2, <3>4, <3>12, <4>1
    <3> QED BY <3>6, <3>8, <3>17, <3>18
  <2> QED BY <2>15, <2>16
<1> QED BY <1>3, <1>4

\* Everything is to be replayed, and nothing is on its way.
LEMMA RoadStart ==
    ASSUME NEW s, NEW m, NEW M, \A r : Has(s.rows, r) => r.mid \in M
    PROVE  Road(s, <<>>, m, M)
<1>1. Len(<<>>) = 0
  OBVIOUS
<1>2. PICK q : q = <<>> /\ Len(q) = 0
  BY <1>1
<1>3. \A k : None(s, q, k) /\ Once(s, q, k)
  BY <1>2 DEF None, Once
<1>4. \A i \in 1..Len(q) : q[i] \in Marks => q[i].token # NoToken
  BY <1>2
<1>5. Road(s, q, m, M)
  BY <1>3, <1>4 DEF Road
<1> QED BY <1>2, <1>5

\* A session without rows
LEMMA EmptyRoad ==
    ASSUME NEW t, NEW m, t.rows = <<>>, t.emits = <<>>, t.replay = NoReplay
    PROVE  OnRoad(t, m)
<1>1. \A r : ~Has(t.rows, r)
  <2>1. Len(<<>>) = 0
    OBVIOUS
  <2> QED BY <2>1 DEF Has
<1>2. Road(t, t.emits, m, Due(t))
  BY <1>1, RoadStart
<1> QED BY <1>1, <1>2 DEF OnRoad, Kinds, Replaying, Held

\* discard_session
LEMMA DiscardRoad ==
    ASSUME NEW s \in Sessions, s.emits = <<>>
    PROVE  OnRoad(DiscardSession(s), manual)
<1>1. PICK t, h : t = DiscardSession(s) /\ h = Hydrate(<<>>, manual)
  OBVIOUS
<1>2. t = [h EXCEPT !.sends = s.sends, !.emits = s.emits]
  BY <1>1 DEF DiscardSession
<1>3. t.rows = <<>> /\ t.emits = <<>> /\ t.replay = NoReplay
  BY <1>1, <1>2 DEF Hydrate
<1> QED BY <1>1, <1>3, EmptyRoad

\* replay_session, on a connection that nothing has arrived on
LEMMA ReplayRoad ==
    ASSUME NEW s, manual \in BOOLEAN, Good(s, manual), Around, Kinds(s),
           s.emits = <<>>, s.replay = NoReplay, s.acks = {}
    PROVE  OnRoad(ReplaySession(s), manual)
<1>1. s \in Sessions /\ Ledger(s)
  BY DEF Good, Core
<1>2. PICK rows \in Seq(Row) : rows = s.rows
  BY <1>1, SessionTyped
<1>3. CASE rows = <<>>
  <2>1. PICK t : t = [s EXCEPT !.current = {}, !.recovered = {}]
    OBVIOUS
  <2>2. ReplaySession(s) = t
    BY <1>2, <1>3, <2>1 DEF ReplaySession
  <2>3. t.rows = <<>> /\ t.emits = <<>> /\ t.replay = NoReplay
    BY <1>1, <1>2, <1>3, <2>1 DEF Sessions
  <2> QED BY <2>2, <2>3, EmptyRoad
<1>4. CASE rows # <<>>
  <2>1. PICK n, x, t : /\ n = [mids |-> MidSeq(rows), remaining |-> Len(rows)]
                       /\ x = [s EXCEPT !.current = {}, !.replay = n] /\ t = DrainReplay(x)
    OBVIOUS
  <2>2. ReplaySession(s) = t
    BY <1>2, <1>4, <2>1 DEF ReplaySession
  <2>3. n \in Replays
    <3>1. MidSeq(rows) \in Seq(Mid) /\ Len(rows) \in Int
      BY MidsOwned
    <3> QED BY <2>1, <3>1 DEF Replays
  <2>4. /\ x \in Sessions /\ x.rows = s.rows /\ x.stored = s.stored /\ x.bytes = s.bytes
        /\ x.emits = <<>> /\ x.acks = {} /\ x.replay = n
    BY <1>1, <2>1, <2>3 DEF Sessions
  <2>5. Ledger(x)
    BY <1>1, <2>4 DEF Ledger
  <2>6. x.replay.mids = MidSeq(rows) /\ x.replay.remaining = Len(rows)
    BY <2>1, <2>4
  <2>7. Distinct(MidSeq(rows)) /\ Len(MidSeq(rows)) = Len(rows) /\ Len(rows) \in Nat
    BY <1>1, <1>2, MidsOwned DEF Ledger
  <2>8. Planned(x)
    BY <2>6, <2>7 DEF Planned
  <2>9. x.replay # NoReplay
    <3>1. NoReplay.remaining = -1
      BY DEF NoReplay
    <3>2. Len(rows) # -1
      BY <2>7
    <3> QED BY <2>6, <3>1, <3>2
  <2>10. Due(x) = Mids(rows)
    <3>1. \A k : Has(x.replay.mids, k) <=> k \in Mids(rows)
      BY <2>6, MidsOwned
    <3>2. Mids(rows) \subseteq Mid
      BY MidsOwned
    <3> QED BY <3>1, <3>2 DEF Due
  <2>11. \A r : Has(x.rows, r) => r.mid \in Due(x)
    <3>1. \A r : Has(rows, r) => r.mid \in Mids(rows)
      BY MidsOwned DEF Has, Owns
    <3> QED BY <1>2, <2>4, <2>10, <3>1
  <2>12. Road(x, <<>>, manual, Due(x))
    BY <2>11, RoadStart
  <2>13. PICK l \in Seq(Effects) : l = <<>> /\ Len(l) = 0
    BY EmptySeq
  <2>14. Behind(l)
    BY <2>13 DEF Behind
  <2>15. \A e \in Seq(Effects) : l \o e = e
    BY <2>13
  <2>16. Road(x, l \o x.emits, manual, Due(x))
    <3>1. l \o l = l
      BY <2>15
    <3> QED BY <2>4, <2>12, <2>13, <3>1
  <2>17. /\ Road(t, l \o t.emits, manual, Due(t)) /\ Planned(t) /\ Due(t) \subseteq Due(x)
         /\ t.replay # NoReplay => Has(t.emits, ContinueReplay)
    BY <2>1, <2>4, <2>5, <2>8, <2>9, <2>14, <2>16, DrainReplayRoad
  <2>18. t \in Sessions /\ t.rows = s.rows /\ t.acks = {}
    <3>1. Tells(x, t)
      BY <2>1, <2>4, <2>5, DrainReplayIs
    <3> QED BY <2>4, <3>1 DEF Tells, SameBooks
  <2>19. Road(t, t.emits, manual, Due(t))
    <3>1. l \o t.emits = t.emits
      BY <2>15, <2>18, SessionTyped
    <3> QED BY <2>17, <3>1
  <2>20. Kinds(t) /\ Replaying(t, t.emits)
    BY <2>17, <2>18 DEF Kinds, Replaying, Planned
  <2>21. Held(t)
    BY <1>2, <2>10, <2>17, <2>18 DEF Held, Owned
  <2>22. OnRoad(t, manual)
    BY <2>19, <2>20, <2>21 DEF OnRoad
  <2> QED BY <2>2, <2>22
<1> QED BY <1>3, <1>4

-----------------------------------------------------------------------------
(* The road of the runtime.                                                *)

\* A connection that the server has accepted, with a reader
Joined == reader # "none" /\ conn # "CONNECTING"
\* What is on its way: the batch of the open lot, or the lane
Onward == IF lot = 0 THEN lane ELSE ib.emits
\* The inductive invariant of deliveries
RoadInv ==
    /\ Kinds(ib)
    /\ lot = 0 => ib.emits = <<>>
    /\ Joined => Road(ib, Onward, manual, Due(ib)) /\ Replaying(ib, Onward)
    /\ ~Joined => lot = 0 /\ lane = <<>> /\ ib.replay = NoReplay /\ ib.acks = {}
    /\ lot # 0 => Held(ib)

\* A new process
LEMMA InitRoad ==
    ASSUME Init
    PROVE  RoadInv
<1>1. ib = Hydrate(<<>>, manual) /\ lane = <<>> /\ lot = 0 /\ reader = "none"
  BY DEF Init
<1>2. ib.rows = <<>> /\ ib.emits = <<>> /\ ib.replay = NoReplay /\ ib.acks = {}
  BY <1>1 DEF Hydrate
<1>3. Kinds(ib)
  BY <1>2, EmptyRoad DEF OnRoad
<1> QED BY <1>1, <1>2, <1>3 DEF RoadInv, Joined

\* A packet that is handled while connected finds the session on its road.
LEMMA ReadingRoad ==
    ASSUME InboundInv, RoadInv, Reading, conn = "CONNECTED"
    PROVE  OnRoad(ib, manual)
<1>1. Joined /\ lane = <<>>
  BY DEF Reading, Joined
<1>2. Road(ib, Onward, manual, Due(ib)) /\ Replaying(ib, Onward) /\ Kinds(ib)
  BY <1>1 DEF RoadInv
<1>3. Onward = ib.emits
  BY <1>1 DEF RoadInv, Onward
<1>4. Held(ib)
  <2>1. CASE lot # 0
    BY <2>1 DEF RoadInv
  <2>2. CASE lot = 0
    <3>1. Onward = <<>> /\ Len(<<>>) = 0
      BY <1>1, <2>2 DEF Onward
    <3>2. ~Has(Onward, ContinueReplay)
      BY <3>1 DEF Has
    <3> QED BY <1>2, <3>2 DEF Replaying, Held
  <2> QED BY <2>1, <2>2
<1> QED BY <1>2, <1>3, <1>4 DEF OnRoad

\* And leaves it there.
LEMMA HandledRoad ==
    ASSUME InboundInv, RoadInv, NEW s, Handled(s), OnRoad(s, manual), conn' # "CONNECTING"
    PROVE  RoadInv'
<1>1. ib' = s /\ lot' = lot + 1 /\ manual' = manual /\ reader' \in {"failed", reader} /\ reader = "reading"
  BY DEF Handled, Reading
<1>2. lot \in Nat
  BY DEF InboundInv, RunTyped
<1>3. lot' # 0
  BY <1>1, <1>2
<1>4. Joined' /\ Onward' = s.emits
  BY <1>1, <1>3 DEF Joined, Onward
<1> QED BY <1>1, <1>3, <1>4 DEF RoadInv, OnRoad

\* A QoS 0 PUBLISH
LEMMA Qos0Road ==
    ASSUME InboundInv, RoadInv, NEW m \in Message, OnPublishQos0(m)
    PROVE  RoadInv'
<1>1. PICK s, d : s = EmitUnmarked(ib, 0, m) /\ d = Delivery(0, m, NoToken, FALSE)
  OBVIOUS
<1>2. Handled(s) /\ conn = "CONNECTED" /\ conn' = conn /\ Reading
  BY <1>1 DEF OnPublishQos0, EmitUnmarked, Handled
<1>3. OnRoad(ib, manual) /\ ib \in Sessions
  BY <1>2, ReadingRoad DEF InboundInv, Good, Core
<1>4. IsEmitUnmarked(ib, 0, m, s)
  BY <1>1, <1>3, EmitUnmarkedIs
<1>5. d \in Effects /\ d \notin Marks
  <2>1. d.mark = FALSE
    BY <1>1 DEF Delivery
  <2> QED BY <1>1, <1>4, <2>1 DEF IsEmitUnmarked, Effects, Marks
<1>6. OnRoad(s, manual)
  BY <1>1, <1>3, <1>4, <1>5, UnmarkedRoad DEF IsEmitUnmarked
<1> QED BY <1>2, <1>6, HandledRoad

\* A QoS 1 PUBLISH
LEMMA Qos1Road ==
    ASSUME InboundInv, RoadInv, NEW mid \in Mid, NEW m \in Message, OnPublishQos1(mid, m)
    PROVE  RoadInv'
<1>1. PICK s : s = IF manual THEN OnQos1Manual(ib, mid, m) ELSE OnQos1Auto(ib, mid, m)
  OBVIOUS
<1>2. Handled(s) /\ conn = "CONNECTED" /\ conn' = StillConnected(s) /\ Reading /\ QosOf[m] = 1
  BY <1>1 DEF OnPublishQos1, Handled
<1>3. Good(ib, manual) /\ ib.refused = "none" /\ Around /\ manual \in BOOLEAN
  BY <1>2, ReadingGood
<1>4. OnRoad(ib, manual)
  BY <1>2, ReadingRoad
<1>5. OnRoad(s, manual)
  <2>1. CASE manual = TRUE
    <3>1. QosOf[m] # 2 /\ s = OnQos1Manual(ib, mid, m)
      BY <1>1, <1>2, <2>1
    <3>2. OnRoad(OnQos1Manual(ib, mid, m), TRUE)
      BY <1>3, <1>4, <2>1, <3>1, OnQos1ManualRoad
    <3> QED BY <2>1, <3>1, <3>2
  <2>2. CASE manual = FALSE
    BY <1>1, <1>3, <1>4, <2>2, OnQos1AutoRoad
  <2> QED BY <1>3, <2>1, <2>2
<1>6. conn' # "CONNECTING"
  BY <1>2 DEF StillConnected
<1> QED BY <1>2, <1>5, <1>6, HandledRoad

\* A QoS 2 PUBLISH
LEMMA Qos2Road ==
    ASSUME InboundInv, RoadInv, NEW mid \in Mid, NEW m \in Message, OnPublishQos2(mid, m)
    PROVE  RoadInv'
<1>1. PICK s : s = OnQos2(ib, mid, m)
  OBVIOUS
<1>2. Handled(s) /\ conn = "CONNECTED" /\ conn' = StillConnected(s) /\ Reading
  BY <1>1 DEF OnPublishQos2, Handled
<1>3. Good(ib, manual) /\ ib.refused = "none" /\ Around /\ manual \in BOOLEAN
  BY <1>2, ReadingGood
<1>4. OnRoad(ib, manual)
  BY <1>2, ReadingRoad
<1>5. OnRoad(s, manual)
  BY <1>1, <1>3, <1>4, OnQos2Road
<1>6. conn' # "CONNECTING"
  BY <1>2 DEF StillConnected
<1> QED BY <1>2, <1>5, <1>6, HandledRoad

\* A PUBREL
LEMMA PubrelRoad ==
    ASSUME InboundInv, RoadInv, NEW mid \in Mid, OnPubrel(mid)
    PROVE  RoadInv'
<1>1. PICK s : s = OnPubrelled(ib, mid)
  OBVIOUS
<1>2. Handled(s) /\ conn = "CONNECTED" /\ conn' = StillConnected(s) /\ Reading
  BY <1>1 DEF OnPubrel, Handled
<1>3. Good(ib, manual) /\ ib.refused = "none" /\ manual \in BOOLEAN
  BY <1>2, ReadingGood
<1>4. OnRoad(ib, manual)
  BY <1>2, ReadingRoad
<1>5. OnRoad(s, manual)
  BY <1>1, <1>3, <1>4, OnPubrelledRoad
<1>6. conn' # "CONNECTING"
  BY <1>2 DEF StillConnected
<1> QED BY <1>2, <1>5, <1>6, HandledRoad

\* CONNACK
LEMMA ConnackRoad ==
    ASSUME InboundInv, RoadInv, NEW sessionPresent \in BOOLEAN, OnConnack(sessionPresent)
    PROVE  RoadInv'
<1>1. PICK s : s = IF sessionPresent THEN ReplaySession(ib) ELSE DiscardSession(ib)
  OBVIOUS
<1>2. Handled(s) /\ conn = "CONNECTING" /\ conn' = "CONNECTED" /\ Reading
  BY <1>1 DEF OnConnack, Handled
<1>3. Good(ib, manual) /\ Around /\ manual \in BOOLEAN /\ ib \in Sessions
  BY <1>2, ReadingGood DEF Good, Core
<1>4. ib.emits = <<>> /\ ib.replay = NoReplay /\ ib.acks = {} /\ Kinds(ib)
  BY <1>2 DEF RoadInv, Joined
<1>5. OnRoad(s, manual)
  <2>1. CASE sessionPresent
    BY <1>1, <1>3, <1>4, <2>1, ReplayRoad
  <2>2. CASE ~sessionPresent
    BY <1>1, <1>3, <1>4, <2>2, DiscardRoad
  <2> QED BY <2>1, <2>2
<1>6. conn' # "CONNECTING"
  BY <1>2
<1> QED BY <1>2, <1>5, <1>6, HandledRoad

\* What a collected batch leaves
LEMMA TakenIs ==
    ASSUME NEW s \in Sessions, NEW t, t = Taken(s)
    PROVE  t.rows = s.rows /\ t.tokens = s.tokens /\ t.replay = s.replay /\ t.acks = s.acks /\ t.emits = <<>>
  BY DEF Taken, Sessions

\* It is the same road.
LEMMA TakenRoad ==
    ASSUME NEW s \in Sessions, NEW t, t = Taken(s), NEW q, NEW m, Road(s, q, m, Due(s)), Replaying(s, q), Kinds(s)
    PROVE  Road(t, q, m, Due(t)) /\ Replaying(t, q) /\ Kinds(t) /\ t.emits = <<>>
<1>1. t.rows = s.rows /\ t.tokens = s.tokens /\ t.replay = s.replay /\ t.emits = <<>>
  BY TakenIs
<1>2. Lessens(s, t) /\ Due(t) = Due(s)
  BY <1>1, LessensSame, DueSame
<1>3. Road(t, q, m, Due(s)) /\ Kinds(t)
  BY <1>2, RoadLessens
<1>4. Replaying(t, q)
  BY <1>1 DEF Replaying
<1> QED BY <1>1, <1>2, <1>3, <1>4

\* A step of the lane that leaves its road
LEMMA LaneRoad ==
    ASSUME RoadInv, Joined, lot' = 0, reader' = reader, conn' = conn, manual' = manual,
           Road(ib', lane', manual, Due(ib')), Replaying(ib', lane'), Kinds(ib'), ib'.emits = <<>>
    PROVE  RoadInv'
<1>1. Joined' /\ Onward' = lane'
  BY DEF Joined, Onward
<1> QED BY <1>1 DEF RoadInv

\* The end of the lot
LEMMA CollectRoad ==
    ASSUME InboundInv, RoadInv, Collect
    PROVE  RoadInv'
<1>1. PICK t, e, u : /\ t = Taken(ib) /\ e = ib.emits
                     /\ u = IF ib.emits = <<>> THEN <<>> ELSE Append(ib.emits, LotEnd)
  OBVIOUS
<1>2. ib' = t /\ lane' = u /\ lot' = 0 /\ conn' = conn /\ reader' = reader /\ manual' = manual /\ lot > 0
  BY <1>1 DEF Collect
<1>3. lot # 0 /\ ib \in Sessions /\ e \in Seq(Effects)
  BY <1>1, <1>2, SessionTyped DEF InboundInv, Good, Core
<1>4. Joined /\ Road(ib, e, manual, Due(ib)) /\ Replaying(ib, e) /\ Kinds(ib)
  BY <1>1, <1>3 DEF RoadInv, Onward
<1>5. LotEnd \in Effects /\ LotEnd \notin Marks
  <2>1. LotEnd.kind # "MESSAGE"
    BY DEF LotEnd
  <2> QED BY <2>1 DEF Effects, Marks
<1>6. Road(ib, u, manual, Due(ib)) /\ Replaying(ib, u)
  <2>1. CASE e = <<>>
    BY <1>1, <1>4, <2>1
  <2>2. CASE e # <<>>
    <3>1. u = Append(e, LotEnd)
      BY <1>1, <2>2
    <3>2. Road(ib, Append(e, LotEnd), manual, Due(ib))
      BY <1>3, <1>4, <1>5, RoadPlain
    <3>3. Replaying(ib, Append(e, LotEnd))
      BY <1>3, <1>4, <1>5, ReplayingAppend
    <3> QED BY <3>1, <3>2, <3>3
  <2> QED BY <2>1, <2>2
<1>7. Road(t, u, manual, Due(t)) /\ Replaying(t, u) /\ Kinds(t) /\ t.emits = <<>>
  BY <1>1, <1>3, <1>4, <1>6, TakenRoad
<1> QED BY <1>2, <1>4, <1>7, LaneRoad

\* While the lane is drained it is the road.
LEMMA DrainingRoad ==
    ASSUME InboundInv, RoadInv, Draining
    PROVE  /\ Joined /\ Road(ib, lane, manual, Due(ib)) /\ Replaying(ib, lane) /\ Kinds(ib) /\ ib.emits = <<>>
           /\ lane \in Seq(Effects) /\ lane # <<>> /\ Good(ib, manual) /\ manual \in BOOLEAN /\ ib \in Sessions
           /\ Ledger(ib) /\ Around
<1>1. lane # <<>> /\ lot = 0
  BY DEF Draining
<1>2. Joined
  BY <1>1 DEF RoadInv
<1>3. Road(ib, lane, manual, Due(ib)) /\ Replaying(ib, lane) /\ Kinds(ib) /\ ib.emits = <<>>
  BY <1>1, <1>2 DEF RoadInv, Onward
<1> QED BY <1>1, <1>2, <1>3 DEF InboundInv, RunTyped, Around, Good, Core

\* Who is behind the head
LEMMA HasBehind ==
    ASSUME NEW q \in Seq(Effects), q # <<>>
    PROVE  \A x : Has(q, x) <=> x = Head(q) \/ Has(Tail(q), x)
<1>0. Len(q) \in Nat /\ Len(q) > 0
  OBVIOUS
<1>1. PICK n, u : n = Len(q) /\ n \in Nat /\ n > 0 /\ u = Tail(q)
  BY <1>0
<1>2. Head(q) = q[1] /\ Len(u) = n - 1 /\ \A i \in 1..n - 1 : u[i] = q[i + 1]
  BY <1>1
<1>3. /\ 1 \in 1..n /\ \A i \in 1..n - 1 : i + 1 \in 1..n
      /\ \A i \in 1..n : i # 1 => i - 1 \in 1..n - 1 /\ (i - 1) + 1 = i
  BY <1>1
<1>4. ASSUME NEW x PROVE Has(q, x) <=> x = Head(q) \/ Has(u, x)
  <2>1. ASSUME Has(q, x), x # Head(q) PROVE Has(u, x)
    <3>1. PICK i \in 1..n : q[i] = x
      BY <1>1, <2>1 DEF Has
    <3>2. i - 1 \in 1..Len(u) /\ u[i - 1] = x
      BY <1>2, <1>3, <2>1, <3>1
    <3> QED BY <3>2 DEF Has
  <2>2. ASSUME Has(u, x) PROVE Has(q, x)
    BY <1>1, <1>2, <1>3, <2>2 DEF Has
  <2>3. Has(q, Head(q))
    BY <1>1, <1>2, <1>3 DEF Has
  <2> QED BY <2>1, <2>2, <2>3
<1> QED BY <1>1, <1>4

\* The next page is announced behind another effect.
LEMMA ReplayingTail ==
    ASSUME NEW s, NEW q \in Seq(Effects), q # <<>>, Replaying(s, q), Head(q) # ContinueReplay
    PROVE  Replaying(s, Tail(q))
<1>1. Has(q, ContinueReplay) => Has(Tail(q), ContinueReplay)
  BY HasBehind
<1> QED BY <1>1 DEF Replaying

\* A delivery with its mark
LEMMA DeliverMarkedRoad ==
    ASSUME InboundInv, RoadInv, DeliverMarked
    PROVE  RoadInv'
<1>1. PICK d, t : d = Head(lane) /\ t = Marked(ib, d.mid, d.token)
  OBVIOUS
<1>2. /\ Draining /\ d.kind = "MESSAGE" /\ d.mark /\ ib' = t /\ lane' = Tail(lane)
      /\ conn' = conn /\ reader' = reader /\ lot' = lot /\ manual' = manual
  BY <1>1 DEF DeliverMarked
<1>3. /\ Joined /\ Road(ib, lane, manual, Due(ib)) /\ Replaying(ib, lane) /\ Kinds(ib) /\ ib.emits = <<>>
      /\ lane \in Seq(Effects) /\ lane # <<>> /\ Good(ib, manual) /\ manual \in BOOLEAN
  BY <1>2, DrainingRoad
<1>4. d \in Marks
  <2>1. d \in Effects
    BY <1>1, <1>2, LaneTail
  <2>2. CASE d \in Messages \ Marks
    <3>1. d.mark = FALSE
      BY <2>2 DEF Messages
    <3> QED BY <1>2, <3>1
  <2>3. CASE d \in {ContinueReplay, LotEnd}
    <3>1. d.kind # "MESSAGE"
      BY <2>3 DEF ContinueReplay, LotEnd
    <3> QED BY <1>2, <3>1
  <2> QED BY <2>1, <2>2, <2>3 DEF Effects
<1>5. Road(t, Tail(lane), manual, Due(ib)) /\ Kinds(t) /\ t.emits = ib.emits /\ t.replay = ib.replay
  BY <1>1, <1>3, <1>4, MarkedRoad
<1>6. Replaying(t, Tail(lane))
  <2>1. Head(lane) # ContinueReplay
    BY <1>1, <1>2 DEF ContinueReplay
  <2>2. Replaying(ib, Tail(lane))
    BY <1>3, <2>1, ReplayingTail
  <2> QED BY <1>5, <2>2 DEF Replaying
<1>7. Due(t) = Due(ib)
  BY <1>5, DueSame
<1>8. lot' = 0
  BY <1>2 DEF Draining
<1> QED BY <1>2, <1>3, <1>5, <1>6, <1>7, <1>8, LaneRoad

\* A delivery without one
LEMMA DeliverUnmarkedRoad ==
    ASSUME InboundInv, RoadInv, DeliverUnmarked
    PROVE  RoadInv'
<1>1. PICK d : d = Head(lane)
  OBVIOUS
<1>2. /\ Draining /\ d.kind = "MESSAGE" /\ ~d.mark /\ ib' = ib /\ lane' = Tail(lane)
      /\ conn' = conn /\ reader' = reader /\ lot' = lot /\ manual' = manual
  BY <1>1 DEF DeliverUnmarked
<1>3. /\ Joined /\ Road(ib, lane, manual, Due(ib)) /\ Replaying(ib, lane) /\ Kinds(ib) /\ ib.emits = <<>>
      /\ lane \in Seq(Effects) /\ lane # <<>>
  BY <1>2, DrainingRoad
<1>4. d \notin Marks
  BY <1>2 DEF Marks
<1>5. Road(ib, Tail(lane), manual, Due(ib))
  BY <1>1, <1>3, <1>4, RoadTail DEF Current
<1>6. Replaying(ib, Tail(lane))
  <2>1. Head(lane) # ContinueReplay
    BY <1>1, <1>2 DEF ContinueReplay
  <2> QED BY <1>3, <2>1, ReplayingTail
<1>7. lot' = 0
  BY <1>2 DEF Draining
<1> QED BY <1>2, <1>3, <1>5, <1>6, <1>7, LaneRoad

\* The end of the lane
LEMMA FlushRoad ==
    ASSUME InboundInv, RoadInv, FlushCompletions
    PROVE  RoadInv'
<1>1. PICK t : t = Taken(ib)
  OBVIOUS
<1>2. /\ Draining /\ Head(lane) = LotEnd /\ ib' = t /\ lane' = Tail(lane)
      /\ conn' = conn /\ reader' = reader /\ lot' = lot /\ manual' = manual
  BY <1>1 DEF FlushCompletions
<1>3. /\ Joined /\ Road(ib, lane, manual, Due(ib)) /\ Replaying(ib, lane) /\ Kinds(ib) /\ ib \in Sessions
      /\ lane \in Seq(Effects) /\ lane # <<>>
  BY <1>2, DrainingRoad
<1>4. Head(lane) \notin Marks /\ Head(lane) # ContinueReplay
  <2>1. LotEnd.kind = "LOT_END" /\ ContinueReplay.kind = "CONTINUE_INBOUND_REPLAY"
    BY DEF LotEnd, ContinueReplay
  <2> QED BY <1>2, <2>1 DEF Marks
<1>5. Road(ib, Tail(lane), manual, Due(ib))
  BY <1>3, <1>4, RoadTail DEF Current
<1>6. Replaying(ib, Tail(lane))
  BY <1>3, <1>4, ReplayingTail
<1>7. Road(t, Tail(lane), manual, Due(t)) /\ Replaying(t, Tail(lane)) /\ Kinds(t) /\ t.emits = <<>>
  BY <1>1, <1>3, <1>5, <1>6, TakenRoad
<1>8. lot' = 0
  BY <1>2 DEF Draining
<1> QED BY <1>2, <1>3, <1>7, <1>8, LaneRoad

\* The next page of the replay
LEMMA ContinueRoad ==
    ASSUME InboundInv, RoadInv, Continue
    PROVE  RoadInv'
<1>1. PICK s, t, l, e, u : /\ s = DrainReplay(ib) /\ t = Taken(s) /\ l = Tail(lane) /\ e = s.emits
                           /\ u = IF s.emits = <<>> THEN <<>> ELSE Append(s.emits, LotEnd)
  OBVIOUS
<1>2. /\ Draining /\ Head(lane) = ContinueReplay /\ ib' = t /\ lane' = l \o u
      /\ conn' = conn /\ reader' = reader /\ lot' = lot /\ manual' = manual
  BY <1>1 DEF Continue
<1>3. /\ Joined /\ Road(ib, lane, manual, Due(ib)) /\ Replaying(ib, lane) /\ Kinds(ib) /\ ib.emits = <<>>
      /\ lane \in Seq(Effects) /\ lane # <<>> /\ ib \in Sessions /\ Ledger(ib) /\ Around
  BY <1>2, DrainingRoad
<1>4. Head(lane) \notin Marks
  <2>1. ContinueReplay.kind = "CONTINUE_INBOUND_REPLAY"
    BY DEF ContinueReplay
  <2> QED BY <1>2, <2>1 DEF Marks
<1>5. l \in Seq(Effects) /\ Road(ib, l, manual, Due(ib))
  <2>1. Road(ib, Tail(lane), manual, Due(ib))
    BY <1>3, <1>4, RoadTail DEF Current
  <2> QED BY <1>1, <1>2, <2>1, LaneTail
<1>6. l \o <<>> = l
  BY <1>5
<1>7. Behind(l)
  <2>1. \A i \in 1..Len(l) : Has(l, l[i])
    BY DEF Has
  <2>2. \A x : Has(l, x) => Has(lane, x)
    BY <1>1, <1>3, HasBehind
  <2> QED BY <1>5, <2>1, <2>2 DEF Behind
<1>8. Tells(ib, s) /\ s \in Sessions /\ s.rows = ib.rows
  <2>1. Tells(ib, s)
    BY <1>1, <1>3, DrainReplayIs
  <2> QED BY <2>1 DEF Tells, SameBooks
<1>9. e \in Seq(Effects) /\ Kinds(s)
  BY <1>1, <1>3, <1>8, SessionTyped DEF Kinds
<1>10. /\ Road(s, l \o e, manual, Due(s)) /\ Planned(s)
       /\ s.replay # NoReplay => Has(e, ContinueReplay)
  <2>1. CASE ib.replay = NoReplay
    <3>1. s = ib
      BY <1>1, <2>1 DEF DrainReplay
    <3>2. Road(s, l \o e, manual, Due(s))
      BY <1>1, <1>3, <1>5, <1>6, <3>1
    <3> QED BY <2>1, <3>1, <3>2 DEF Planned
  <2>2. CASE ib.replay # NoReplay
    <3>1. Planned(ib)
      BY <1>3 DEF Replaying, Planned
    <3>2. Road(ib, l \o ib.emits, manual, Due(ib))
      BY <1>3, <1>5, <1>6
    <3> QED BY <1>1, <1>3, <1>7, <2>2, <3>1, <3>2, DrainReplayRoad
  <2> QED BY <2>1, <2>2
<1>11. LotEnd \in Effects /\ LotEnd \notin Marks
  <2>1. LotEnd.kind # "MESSAGE"
    BY DEF LotEnd
  <2> QED BY <2>1 DEF Effects, Marks
<1>12. PICK v : v = l \o u
  OBVIOUS
<1>13. Road(s, v, manual, Due(s)) /\ Replaying(s, v)
  <2>1. CASE e = <<>>
    <3>1. v = l \o e
      BY <1>1, <1>12, <2>1
    <3>2. ~Has(e, ContinueReplay)
      <4>1. Len(e) = 0
        BY <2>1, EmptySeq
      <4> QED BY <4>1 DEF Has
    <3> QED BY <1>10, <3>1, <3>2 DEF Replaying
  <2>2. CASE e # <<>>
    <3>1. PICK x : x = LotEnd
      OBVIOUS
    <3>2. u = Append(e, x) /\ x \in Effects /\ x \notin Marks
      BY <1>1, <1>11, <2>2, <3>1
    <3>3. l \o e \in Seq(Effects) /\ l \o Append(e, x) = Append(l \o e, x)
      BY <1>5, <1>9, <3>2
    <3>4. Road(s, Append(l \o e, x), manual, Due(s))
      BY <1>10, <3>2, <3>3, RoadPlain
    <3>5. Has(e, ContinueReplay) => Has(Append(l \o e, x), ContinueReplay)
      <4>1. Has(e, ContinueReplay) => Has(l \o e, ContinueReplay)
        <5> SUFFICES ASSUME NEW i \in 1..Len(e), e[i] = ContinueReplay PROVE Has(l \o e, ContinueReplay)
          BY DEF Has
        <5>0. Len(l) \in Nat /\ Len(e) \in Nat
          BY <1>5, <1>9
        <5>1. PICK a, b, w : a = Len(l) /\ a \in Nat /\ b = Len(e) /\ b \in Nat /\ w = l \o e
          BY <5>0, Zenon
        <5>2. Len(w) = a + b /\ a + i \in 1..a + b /\ w[a + i] = e[i]
          BY <1>5, <1>9, <5>1
        <5>3. Has(w, ContinueReplay)
          BY <5>2 DEF Has
        <5> QED BY <5>1, <5>3
      <4> QED BY <3>2, <3>3, <4>1, HasAppend
    <3>6. v = Append(l \o e, x)
      BY <1>12, <3>2, <3>3
    <3> QED BY <1>10, <3>4, <3>5, <3>6 DEF Replaying, Planned
  <2> QED BY <2>1, <2>2
<1>14. Road(t, v, manual, Due(t)) /\ Replaying(t, v) /\ Kinds(t) /\ t.emits = <<>>
  BY <1>1, <1>8, <1>9, <1>13, TakenRoad
<1>15. lot' = 0 /\ lane' = v
  BY <1>2, <1>12 DEF Draining
<1> QED BY <1>2, <1>3, <1>14, <1>15, LaneRoad

\* An acknowledgement of the application
LEMMA AckRoad ==
    ASSUME InboundInv, RoadInv, NEW h \in handles, Ack(h)
    PROVE  RoadInv'
<1>1. PICK s, t : s = Acked(ib, h.mid) /\ t = Taken(s)
  OBVIOUS
<1>2. /\ conn = "CONNECTED" /\ manual /\ lot = 0 /\ Stored(ib, h.mid) /\ ib' = t /\ lane' = lane
      /\ conn' = conn /\ reader' = reader /\ lot' = lot /\ manual' = manual
  BY <1>1 DEF Ack
<1>3. Good(ib, TRUE) /\ manual = TRUE /\ reader # "none"
  BY <1>2 DEF InboundInv, RunTyped, ReaderInv
<1>4. Joined
  BY <1>2, <1>3 DEF Joined
<1>5. Road(ib, lane, manual, Due(ib)) /\ Replaying(ib, lane) /\ Kinds(ib)
  BY <1>2, <1>4 DEF RoadInv, Onward
<1>6. Lessens(ib, s) /\ s.replay = ib.replay
  BY <1>1, <1>2, <1>3, AckedRoad
<1>7. s \in Sessions
  <2>1. Good(s, TRUE)
    BY <1>1, <1>2, <1>3, AckedGood
  <2> QED BY <2>1 DEF Good, Core
<1>8. Road(s, lane, manual, Due(s)) /\ Kinds(s) /\ Replaying(s, lane)
  <2>1. Due(s) = Due(ib)
    BY <1>6, DueSame
  <2>2. Road(s, lane, manual, Due(ib)) /\ Kinds(s)
    BY <1>5, <1>6, RoadLessens
  <2> QED BY <1>5, <1>6, <2>1, <2>2 DEF Replaying
<1>9. Road(t, lane, manual, Due(t)) /\ Replaying(t, lane) /\ Kinds(t) /\ t.emits = <<>>
  BY <1>1, <1>7, <1>8, TakenRoad
<1>10. lot' = 0
  BY <1>2
<1> QED BY <1>2, <1>4, <1>9, <1>10, LaneRoad

\* A step that leaves no connection
LEMMA AloneRoad ==
    ASSUME RoadInv, ~Joined', ib'.rows = ib.rows, ib'.emits = <<>>, ib'.replay = NoReplay, ib'.acks = {},
           lot' = 0, lane' = <<>>
    PROVE  RoadInv'
<1>1. Kinds(ib')
  BY DEF RoadInv, Kinds
<1> QED BY <1>1 DEF RoadInv

\* A new connection, which the server has not accepted yet
LEMMA BeginRoad ==
    ASSUME InboundInv, RoadInv, BeginConnect
    PROVE  RoadInv'
<1>1. PICK t : t = StartConnection(ib)
  OBVIOUS
<1>2. reader = "none" /\ conn' = "CONNECTING" /\ ib' = t /\ lane' = lane /\ lot' = lot
  BY <1>1 DEF BeginConnect
<1>3. lot = 0 /\ lane = <<>> /\ ib.emits = <<>> /\ ib \in Sessions
  BY <1>2 DEF RoadInv, Joined, InboundInv, Good, Core
<1>4. t.rows = ib.rows /\ t.emits = <<>> /\ t.replay = NoReplay /\ t.acks = {}
  BY <1>1, <1>3 DEF StartConnection, Sessions
<1>5. ~Joined'
  BY <1>2 DEF Joined
<1> QED BY <1>2, <1>3, <1>4, <1>5, AloneRoad

\* The end of one
LEMMA RetireRoad ==
    ASSUME InboundInv, RoadInv, Retire
    PROVE  RoadInv'
<1>1. PICK t : t = Closed(ib)
  OBVIOUS
<1>2. reader' = "none" /\ ib' = t /\ lane' = <<>> /\ lot' = 0 /\ ib \in Sessions
  BY <1>1 DEF Retire, InboundInv, Good, Core
<1>3. t.rows = ib.rows /\ t.emits = <<>> /\ t.replay = NoReplay /\ t.acks = {}
  BY <1>1, <1>2 DEF Closed, Sessions
<1>4. ~Joined'
  BY <1>2 DEF Joined
<1> QED BY <1>2, <1>3, <1>4, AloneRoad

\* A new process on the same store
LEMMA RestartRoad ==
    ASSUME InboundInv, RoadInv, Restart
    PROVE  RoadInv'
<1>1. PICK t : t = Hydrate(ib.rows, manual')
  OBVIOUS
<1>2. reader' = "none" /\ ib' = t /\ lane' = <<>> /\ lot' = 0
  BY <1>1 DEF Restart
<1>3. t.rows = ib.rows /\ t.emits = <<>> /\ t.replay = NoReplay /\ t.acks = {}
  BY <1>1 DEF Hydrate
<1>4. ~Joined'
  BY <1>2 DEF Joined
<1> QED BY <1>2, <1>3, <1>4, AloneRoad

\* Every step
LEMMA NextRoad ==
    ASSUME InboundInv, RoadInv, [Next]_vars
    PROVE  RoadInv'
<1>1. CASE UNCHANGED vars
  BY <1>1 DEF vars, RoadInv, Joined, Onward
<1>2. CASE Next
  BY <1>2, Qos0Road, Qos1Road, Qos2Road, PubrelRoad, ConnackRoad, CollectRoad,
     DeliverMarkedRoad, DeliverUnmarkedRoad, ContinueRoad, FlushRoad, AckRoad,
     BeginRoad, RetireRoad, RestartRoad
     DEF Next
<1> QED BY <1>1, <1>2

\* Everything on its way is in one place.
LEMMA OnwardIs ==
    ASSUME InboundInv, RoadInv
    PROVE  /\ ib.emits \o lane = Onward /\ Onward \in Seq(Effects)
           /\ \A x : Has(Onward, x) => x \in Range(lane) \cup Range(ib.emits)
<1>1. lane \in Seq(Effects) /\ ib.emits \in Seq(Effects)
  BY SessionTyped DEF InboundInv, RunTyped, Around, Good, Core
<1>2. PICK e \in Seq(Effects), u \in Seq(Effects) : e = ib.emits /\ u = lane
  BY <1>1
<1>3. \A z \in Seq(Effects) : <<>> \o z = z /\ z \o <<>> = z
  OBVIOUS
<1>4. \A z \in Seq(Effects) : \A x : Has(z, x) => x \in Range(z)
  BY DEF Has, Range
<1>5. CASE lot = 0
  <2>1. Onward = u /\ e = <<>>
    BY <1>2, <1>5 DEF RoadInv, Onward
  <2> QED BY <1>2, <1>3, <1>4, <2>1
<1>6. CASE lot # 0
  <2>1. Onward = e /\ u = <<>>
    BY <1>2, <1>6 DEF InboundInv, LaneInv, Onward
  <2> QED BY <1>2, <1>3, <1>4, <2>1
<1> QED BY <1>5, <1>6

\* Every row that is not delivered is on its way.
LEMMA RoadUndelivered ==
    ASSUME InboundInv, RoadInv
    PROVE  UndeliveredEnRoute
<1> SUFFICES ASSUME conn = "CONNECTED"
             PROVE  /\ \A r \in Range(ib.rows) : ~ r.delivered => EnRoute(r.mid)
                    /\ \A mid \in Mid : ib.waiting[mid] # "none" =>
                        mid \in Mids(ib.rows) /\ ~ RowOf(ib, mid).delivered
                    /\ ib.replay # NoReplay => ContinueReplay \in Range(lane) \cup Range(ib.emits)
  BY DEF UndeliveredEnRoute
<1>1. Joined
  BY DEF InboundInv, ReaderInv, Joined
<1>2. Road(ib, Onward, manual, Due(ib)) /\ Replaying(ib, Onward)
  BY <1>1 DEF RoadInv
<1>3. ib \in Sessions /\ Ledger(ib) /\ WaitInv(ib, manual)
  BY DEF InboundInv, Good, Core
<1>4. \A x : Has(Onward, x) => x \in Range(lane) \cup Range(ib.emits)
  BY OnwardIs
<1>5. ASSUME NEW r \in Range(ib.rows), ~r.delivered PROVE EnRoute(r.mid)
  <2>1. Has(ib.rows, r)
    BY <1>3, <1>5, SessionTyped, MidsOwned
  <2>2. CASE r.mid \in Due(ib)
    <3>1. PICK q \in Seq(Mid) : q = ib.replay.mids
      BY <1>3, SessionTyped DEF Replays
    <3>2. PICK j \in 1..Len(q) : q[j] = r.mid
      BY <2>2, <3>1 DEF Due, Has
    <3>3. r.mid \in Range(q)
      BY <3>2 DEF Range
    <3> QED BY <3>1, <3>3 DEF EnRoute
  <2>3. CASE ~None(ib, Onward, r.mid)
    <3>1. PICK i \in 1..Len(Onward) : Current(ib, Onward[i], r.mid)
      BY <2>3 DEF None
    <3>2. PICK d : d = Onward[i]
      OBVIOUS
    <3>3. d \in Range(lane) \cup Range(ib.emits)
      <4>1. Has(Onward, d)
        BY <3>2 DEF Has
      <4> QED BY <1>4, <4>1
    <3>4. d.kind = "MESSAGE" /\ d.mark /\ d.mid = r.mid /\ d.token = ib.tokens[r.mid]
      BY <3>1, <3>2 DEF Current, Marks
    <3> QED BY <3>3, <3>4 DEF EnRoute
  <2> QED BY <1>2, <1>5, <2>1, <2>2, <2>3 DEF Road
<1>6. ASSUME NEW mid \in Mid, ib.waiting[mid] # "none" PROVE mid \in Mids(ib.rows) /\ ~ RowOf(ib, mid).delivered
  <2>1. PICK row \in Row : Has(ib.rows, row) /\ row.mid = mid /\ ~row.delivered
    BY <1>3, <1>6 DEF WaitInv
  <2>2. RowOf(ib, mid) = row /\ Stored(ib, mid)
    BY <1>3, <2>1, StoredRow
  <2>3. mid \in Mids(ib.rows)
    BY <1>3, <2>2, StoredRow
  <2> QED BY <2>1, <2>2, <2>3
<1>7. ib.replay # NoReplay => ContinueReplay \in Range(lane) \cup Range(ib.emits)
  BY <1>2, <1>4 DEF Replaying
<1> QED BY <1>5, <1>6, <1>7

\* And a QoS 2 row only once.
LEMMA RoadOnce ==
    ASSUME InboundInv, RoadInv
    PROVE  OneQos2Delivery
<1>1. PICK all : all = ib.emits \o lane
  OBVIOUS
<1>2. all = Onward /\ all \in Seq(Effects)
  BY <1>1, OnwardIs
<1> DEFINE of(mid) == {i \in DOMAIN all : /\ all[i].kind = "MESSAGE" /\ all[i].mark
                                          /\ all[i].mid = mid
                                          /\ all[i].token = ib.tokens[mid]}
<1>3. ASSUME NEW r, Has(ib.rows, r), QosOf[r.msg] = 2
      PROVE  Once(ib, all, r.mid) /\ (r.delivered /\ ~manual => None(ib, all, r.mid))
  <2>1. CASE Joined
    BY <1>2, <1>3, <2>1 DEF RoadInv, Road
  <2>2. CASE ~Joined
    <3>1. all = <<>> /\ Len(<<>>) = 0
      BY <1>2, <2>2 DEF RoadInv, Onward
    <3> QED BY <3>1 DEF Once, None
  <2> QED BY <2>1, <2>2
<1>4. \A k : \A i \in of(k) : i \in 1..Len(all) /\ Current(ib, all[i], k)
  <2> SUFFICES ASSUME NEW k, NEW i \in of(k) PROVE i \in 1..Len(all) /\ Current(ib, all[i], k)
    OBVIOUS
  <2>1. i \in 1..Len(all) /\ all[i] \in Effects
    BY <1>2
  <2>2. PICK d \in Effects : d = all[i] /\ d.kind = "MESSAGE" /\ d.mark /\ d.mid = k /\ d.token = ib.tokens[k]
    BY <2>1
  <2>3. d \in Marks
    <3>1. CASE d \in Messages \ Marks
      <4>1. d.mark = FALSE
        BY <3>1 DEF Messages
      <4> QED BY <2>2, <4>1
    <3>2. CASE d \in {ContinueReplay, LotEnd}
      <4>1. d.kind # "MESSAGE"
        BY <3>2 DEF ContinueReplay, LotEnd
      <4> QED BY <2>2, <4>1
    <3> QED BY <3>1, <3>2 DEF Effects
  <2> QED BY <2>1, <2>2, <2>3 DEF Current
<1> HIDE DEF of
<1>5. ASSUME NEW r \in Range(ib.rows), QosOf[r.msg] = 2
      PROVE  Cardinality(of(r.mid)) <= 1 /\ (r.delivered /\ ~manual => of(r.mid) = {})
  <2>1. Has(ib.rows, r)
    <3>1. ib.rows \in Seq(Row)
      BY SessionTyped DEF InboundInv, Good, Core
    <3> QED BY <1>5, <3>1, MidsOwned
  <2>2. Once(ib, all, r.mid) /\ (r.delivered /\ ~manual => None(ib, all, r.mid))
    BY <1>3, <1>5, <2>1
  <2>3. PICK S : S = of(r.mid)
    OBVIOUS
  <2>4. \A i \in S : \A j \in S : i = j
    BY <1>4, <2>2, <2>3 DEF Once
  <2>5. Cardinality(S) <= 1
    <3>1. CASE S = {}
      BY <3>1, FS_EmptySet
    <3>2. CASE S # {}
      <4>1. PICK i : S = {i}
        BY <2>4, <3>2
      <4>2. Cardinality({i}) = 1
        BY FS_Singleton
      <4> QED BY <4>1, <4>2
    <3> QED BY <3>1, <3>2
  <2>6. r.delivered /\ ~manual => S = {}
    BY <1>4, <2>2, <2>3 DEF None
  <2> QED BY <2>3, <2>5, <2>6
<1> QED BY <1>1, <1>5 DEF OneQos2Delivery, of

(***************************************************************************)
(* While a connection lasts everything that is on its way to the           *)
(* application is in one queue, in which each stored message it does not   *)
(* own has a delivery or a replay page to come, and each QoS 2 message has *)
(* at most one delivery: whatever the order of packets, deliveries,        *)
(* acknowledgements, replay pages, losses and restarts.                    *)
(***************************************************************************)
THEOREM DeliveryInvariant == Spec => []RoadInv
<1>1. Init => RoadInv
  BY InitRoad
<1>2. InboundInv /\ RoadInv /\ [Next]_vars => RoadInv'
  BY NextRoad
<1> QED BY <1>1, <1>2, InboundInvariant, PTL DEF Spec

(***************************************************************************)
(* A completion that waits for its delivery mark waits for something that  *)
(* is on its way, the next replay page is always announced, and no         *)
(* duplicate PUBLISH, replay or restart puts a second delivery of a QoS 2  *)
(* exchange behind the first: for every set of identifiers and messages,   *)
(* every limit, lot and page size.                                         *)
(***************************************************************************)
THEOREM InboundDeliveryExact == Spec => []DeliveryExact
<1>1. InboundInv /\ RoadInv => DeliveryExact
  BY RoadUndelivered, RoadOnce DEF DeliveryExact
<1> QED BY <1>1, InboundInvariant, DeliveryInvariant, PTL
=============================================================================
