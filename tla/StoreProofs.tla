---------------------------- MODULE StoreProofs ----------------------------
(***************************************************************************)
(* The SQLite store for any number of openings, identifiers, calls and     *)
(* faults: the bookkeeping of the object, what a conditional call may      *)
(* settle, and the durability of what the client has exposed.              *)
(***************************************************************************)
EXTENDS Store, FiniteSetTheorems, WellFoundedInduction, TLAPS

Id == Nat \X Nat \X Table
Cell == Row \cup {NoRow}
Tables == {T \in [Table -> [OutMid -> Cell] \cup [InMid -> Cell]] :
             \A t \in Table : T[t] \in [MidOf[t] -> Cell]}

\* A call, by what it does.
PutOp == [k: {"put"}, t: Table, m: Mid, state: State, size: Size, seq: Nat, id: Id]
RowOp == [k: {"delete", "mark"}, t: Table, m: Mid]
ClearOp == [k: {"clear"}, t: Table]
CompleteOp == [k: {"complete"}, t: Table, m: Mid, read: Row]
TransitionOp == [k: {"transition"}, t: Table, m: Mid, read: Row, state: State, set: BOOLEAN]
Op == PutOp \cup RowOp \cup ClearOp \cup CompleteOp \cup TransitionOp

Call == [t: Table, m: Mid, row: Row]
Object ==
  [open: BOOLEAN, by: Nat, depth: Nat, started: BOOLEAN, rollback_only: BOOLEAN,
   txn: {"none", "idle", "read", "stale", "write"}, snap: Tables, seq: [Table -> Nat],
   call: Call \cup {NoCall}, ops: Seq([op: Op, was: Id \cup {NoRow.id}]), latched: BOOLEAN]

Budget == [ops: Nat, faults: Nat, opens: Nat, pages: Nat, depth: Nat, shared: BOOLEAN]

\* The identity of a row names its table and its insertion sequence.
Sane(T) ==
  \A t \in Table : \A m \in MidOf[t] :
    T[t][m] # NoRow => T[t][m].id[2] = T[t][m].seq /\ T[t][m].id[3] = t

TypeInv ==
  /\ left \in Budget
  /\ disk \in Tables /\ work \in Tables
  /\ writer \in Conn \cup {NoConn}
  /\ st \in [Conn -> Object]
  /\ \A c \in Conn : st[c].call # NoCall => st[c].call.m \in MidOf[st[c].call.t]

\* The lock, the transaction and the batch of each opening agree; a transaction
\* that no batch started holds no change.
LockOf(c) ==
  /\ ~st[c].open => st[c] = Closed
  /\ st[c].depth <= left.depth
  /\ (writer = c) <=> (st[c].txn = "write")
  /\ st[c].started => st[c].depth > 0 /\ writer = c
  /\ st[c].ops # <<>> => st[c].started
  /\ st[c].rollback_only => st[c].depth > 0
  /\ writer = c /\ ~st[c].started => work = disk

LockInv ==
  /\ \A c \in Conn : LockOf(c)
  /\ ~shared => \A c, x \in Conn : st[c].open /\ st[x].open => c = x

\* Rows, also those read and remembered, name their table and sequence.
RowOf(c) ==
  /\ Sane(st[c].snap)
  /\ st[c].call # NoCall =>
       st[c].call.row.id[2] = st[c].call.row.seq /\ st[c].call.row.id[3] = st[c].call.t

RowInv == Sane(disk) /\ Sane(work) /\ \A c \in Conn : RowOf(c)

\* No opening, present or to come, will hand out identity i.
Spent(i) ==
  /\ i \in Id /\ i[1] > left.opens
  /\ \A c \in Conn : st[c].open /\ st[c].by = i[1] => i[2] <= st[c].seq[i[3]]

\* The rows of each table have distinct identities.
Distinct(T) ==
  \A t \in Table : \A m, n \in MidOf[t] :
    T[t][m] # NoRow /\ T[t][n] # NoRow /\ T[t][m].id = T[t][n].id => m = n

\* Finished exchanges are not in the tables, and cannot come back.
IdInv ==
  /\ \A c \in Conn : st[c].open => st[c].by > left.opens
  /\ \A c, x \in Conn : st[c].open /\ st[x].open /\ st[c].by = st[x].by => c = x
  /\ Distinct(disk) /\ Distinct(work)
  /\ \A i \in Ids(disk) \cup Ids(work) : Spent(i)
  /\ \A c \in Conn : \A e \in ToSet(st[c].ops) :
       e.op.k = "complete" => e.was \notin Ids(work) /\ Spent(e.was)
  /\ \A e \in told : e.k = "complete" /\ ~e.lost =>
       e.id \notin Ids(disk) /\ e.id \notin Ids(work) /\ Spent(e.id)
  /\ \A e \in told : e.k = "put" => e.id \in Ids(disk) \cup gone

StoreInv == TypeInv /\ LockInv /\ RowInv /\ IdInv

-----------------------------------------------------------------------------
\* A set of naturals that is finite and not empty has a greatest element.
LEMMA GreatestExists ==
    ASSUME NEW S \in SUBSET Nat, IsFiniteSet(S), S # {}
    PROVE  \E n \in S : \A k \in S : k <= n
<1> DEFINE HasMax(U) == \E n \in U : \A k \in U : k <= n
           Bad == {U \in SUBSET S : U # {} /\ ~HasMax(U)}
<1>1. SUFFICES ASSUME Bad # {}
               PROVE  FALSE
  BY DEF Bad
<1>2. IsWellFoundedOn(StrictSubsetOrdering(S), FiniteSubsetsOf(S))
  BY FS_StrictSubsetOrderingWellFounded
<1>3. Bad \subseteq FiniteSubsetsOf(S)
  BY FS_FiniteSubsetsOfFinite
<1>4. \E U \in Bad : \A V \in Bad : ~ (<<V, U>> \in StrictSubsetOrdering(S))
  <2> HIDE DEF Bad
  <2> QED BY <1>1, <1>2, <1>3, WFMin
<1>5. PICK U \in Bad : \A V \in Bad : ~ (<<V, U>> \in StrictSubsetOrdering(S))
  BY <1>4
<1>6. PICK x \in U : x \in Nat
  BY <1>5
<1>7. U \ {x} \notin Bad
  BY <1>5, <1>6 DEF StrictSubsetOrdering
<1>8. CASE U \ {x} = {}
  BY <1>5, <1>6, <1>8
<1>9. CASE U \ {x} # {}
  <2>1. PICK y \in U \ {x} : \A k \in U \ {x} : k <= y
    BY <1>5, <1>7, <1>9
  <2>2. y \in Nat /\ \A k \in U : k \in Nat
    BY <1>5, <2>1
  <2>3. CASE x <= y
    BY <1>5, <2>1, <2>2, <2>3
  <2>4. CASE y <= x
    <3>1. \A k \in U : k <= x
      BY <1>6, <2>1, <2>2, <2>4
    <3> QED BY <1>5, <1>6, <3>1
  <2> QED BY <1>6, <2>2, <2>3, <2>4
<1> QED BY <1>8, <1>9

\* SELECT COALESCE(MAX(seq), 0) is a number.
LEMMA MaxSeqTyped ==
    ASSUME NEW T \in Tables, NEW t \in Table
    PROVE  _max_seq(T, t) \in Nat
<1> DEFINE R == Rows(T, t)
           used == {T[t][m].seq : m \in R}
           f == [m \in R |-> T[t][m].seq]
<1>1. R \subseteq OutMid \cup InMid /\ \A m \in R : T[t][m] \in Row
  BY DEF Rows, Tables, Cell, MidOf, Table
<1>2. IsFiniteSet(R)
  BY <1>1, StoreAssumption, FS_Subset
<1>3. used \subseteq Nat
  BY <1>1 DEF Row
<1>4. f \in Surjection(R, used)
  BY DEF Surjection
<1>5. IsFiniteSet(used)
  <2> HIDE DEF f, used, R
  <2> QED BY <1>2, <1>4, FS_Surjection
<1>6. CASE used = {}
  BY <1>6 DEF _max_seq
<1>7. CASE used # {}
  <2>1. \E n \in used : \A k \in used : k <= n
    <3> HIDE DEF used
    <3> QED BY <1>3, <1>5, <1>7, GreatestExists
  <2>2. _max_seq(T, t) = CHOOSE n \in used : \A k \in used : k <= n
    BY <1>7 DEF _max_seq
  <2> HIDE DEF used
  <2> QED BY <1>3, <2>1, <2>2
<1> QED BY <1>6, <1>7

-----------------------------------------------------------------------------
(***************************************************************************)
(* What the statements do to the tables.                                   *)
(***************************************************************************)

\* A call that is made on the tables of its own identifier space.
Fits(op) == op \in Op /\ (op.k # "clear" => op.m \in MidOf[op.t])

\* The cell of a row that a call left alone, changed, removed or inserted.
Follows(op, t, m, old, new) ==
  \/ new = NoRow
  \/ old # NoRow /\ new # NoRow /\ new.id = old.id /\ new.seq = old.seq
  \/ /\ old = NoRow /\ new # NoRow
     /\ op.k = "put" /\ op.t = t /\ op.m = m /\ new.id = op.id /\ new.seq = op.seq

\* A cell of the tables is a row or empty.
LEMMA CellTyped ==
    ASSUME NEW T \in Tables, NEW t \in Table, NEW m \in MidOf[t]
    PROVE  T[t][m] \in Cell /\ (T[t][m] # NoRow => T[t][m] \in Row)
BY DEF Tables, Cell

\* The tables of a new database.
LEMMA EmptyTablesTyped ==
    EmptyTables \in Tables /\ Sane(EmptyTables) /\ Ids(EmptyTables) = {}
<1>1. \A t \in Table : EmptyTables[t] = [m \in MidOf[t] |-> NoRow]
  BY DEF EmptyTables
<1>2. EmptyTables \in Tables
  BY <1>1 DEF EmptyTables, Tables, Cell, MidOf, Table
<1>3. Sane(EmptyTables)
  BY <1>1 DEF Sane
<1>4. \A t \in Table : Rows(EmptyTables, t) = {}
  BY <1>1 DEF Rows
<1> QED BY <1>2, <1>3, <1>4 DEF Ids

\* An identity of a table is that of one of its rows.
LEMMA IdsShape ==
    ASSUME NEW T, NEW i
    PROVE  i \in Ids(T) <=> \E t \in Table : \E m \in MidOf[t] :
                               T[t][m] # NoRow /\ T[t][m].id = i
BY DEF Ids, Rows

\* One statement, cell by cell.
LEMMA ExecEffect ==
    ASSUME NEW T \in Tables, NEW op, Fits(op)
    PROVE  /\ Exec(op, T) \in Tables
           /\ \A t \in Table : \A m \in MidOf[t] :
                Follows(op, t, m, T[t][m], Exec(op, T)[t][m])
           /\ op.k = "put" => /\ Exec(op, T)[op.t][op.m] # NoRow
                              /\ Exec(op, T)[op.t][op.m].id = Was(op, T)
           /\ op.k = "complete" /\ Changes(op, T) => Exec(op, T)[op.t][op.m] = NoRow
<1> DEFINE old == T[op.t][op.m]
<1>1. /\ op.t \in Table
      /\ op.k \in {"put", "delete", "mark", "clear", "complete", "transition"}
      /\ op.k # "clear" => op.m \in MidOf[op.t]
  BY DEF Fits, Op, PutOp, RowOp, ClearOp, CompleteOp, TransitionOp
<1>2. ASSUME op.k # "clear", NEW new \in Cell, Exec(op, T) = [T EXCEPT ![op.t][op.m] = new],
             new = NoRow \/ Follows(op, op.t, op.m, old, new)
      PROVE  /\ Exec(op, T) \in Tables
             /\ \A t \in Table : \A m \in MidOf[t] :
                  Follows(op, t, m, T[t][m], Exec(op, T)[t][m])
             /\ Exec(op, T)[op.t][op.m] = new
  <2>1. /\ Exec(op, T) \in Tables
        /\ Exec(op, T)[op.t][op.m] = new
        /\ \A u \in Table : \A n \in MidOf[u] :
             u # op.t \/ n # op.m => Exec(op, T)[u][n] = T[u][n]
    <3> DEFINE U == [T EXCEPT ![op.t][op.m] = new]
    <3>1. op.t \in Table /\ op.m \in MidOf[op.t]
      BY <1>1, <1>2
    <3>2. /\ U \in Tables /\ U[op.t][op.m] = new
          /\ \A u \in Table : \A n \in MidOf[u] :
               u # op.t \/ n # op.m => U[u][n] = T[u][n]
      BY <3>1 DEF Tables, MidOf, Table
    <3>3. Exec(op, T) = U
      BY <1>2
    <3> HIDE DEF U
    <3> QED BY <3>2, <3>3
  <2> QED BY <1>1, <1>2, <2>1 DEF Follows
<1>3. CASE ~Changes(op, T)
  BY <1>1, <1>3 DEF Exec, Changes, Follows
<1>4. CASE Changes(op, T) /\ op.k = "put"
  <2>0. op.state \in State /\ op.size \in Size /\ op.seq \in Nat /\ op.id \in Id
    <3>1. op \in PutOp
      BY <1>4 DEF Fits, Op, PutOp, RowOp, ClearOp, CompleteOp, TransitionOp
    <3> QED BY <3>1 DEF PutOp
  <2>1. put_row(op, old) \in Row
    <3>1. old # NoRow => old.id \in Id /\ old.seq \in Nat
      BY <1>1, <1>4, CellTyped DEF Row, Id
    <3> HIDE DEF old
    <3> QED BY <2>0, <3>1 DEF put_row, Row, Id
  <2>2. put_row(op, old) # NoRow
    BY <2>1 DEF Row, NoRow
  <2>3. put_row(op, old).id = Was(op, T) /\ put_row(op, old).seq = IF old = NoRow THEN op.seq ELSE old.seq
    BY <1>4 DEF put_row, Was
  <2>4. Exec(op, T) = [T EXCEPT ![op.t][op.m] = put_row(op, old)]
    BY <1>1, <1>4 DEF Exec, Tables
  <2>5. Follows(op, op.t, op.m, old, put_row(op, old))
    BY <1>4, <2>2, <2>3 DEF Follows, Was
  <2> QED BY <1>2, <1>4, <2>1, <2>2, <2>3, <2>4, <2>5 DEF Cell
<1>5. CASE Changes(op, T) /\ op.k \in {"delete", "complete"}
  <2>1. Exec(op, T) = [T EXCEPT ![op.t][op.m] = NoRow]
    BY <1>5 DEF Exec
  <2> QED BY <1>2, <1>5, <2>1 DEF Cell
<1>6. CASE Changes(op, T) /\ op.k = "clear"
  <2>1. Exec(op, T) = [T EXCEPT ![op.t] = EmptyTables[op.t]]
    BY <1>6 DEF Exec
  <2>2. Exec(op, T) \in Tables
    BY <1>1, <2>1, EmptyTablesTyped DEF Tables
  <2>3. \A m \in MidOf[op.t] : Exec(op, T)[op.t][m] = NoRow
    BY <1>1, <2>1 DEF Tables, EmptyTables
  <2>4. \A t \in Table \ {op.t} : Exec(op, T)[t] = T[t]
    BY <1>1, <2>1 DEF Tables
  <2> QED BY <1>6, <2>2, <2>3, <2>4 DEF Follows
<1>7. CASE Changes(op, T) /\ op.k = "mark"
  <2>1. Exec(op, T) = [T EXCEPT ![op.t][op.m] = [old EXCEPT !.delivered = TRUE]]
    BY <1>1, <1>7 DEF Exec, Tables
  <2>2. old \in Row
    BY <1>1, <1>7, CellTyped DEF Changes
  <2>3. [old EXCEPT !.delivered = TRUE] \in Row
    BY <2>2 DEF Row
  <2>4. Follows(op, op.t, op.m, old, [old EXCEPT !.delivered = TRUE])
    BY <1>7, <2>2, <2>3 DEF Row, NoRow, Follows
  <2> QED BY <1>2, <1>7, <2>1, <2>3, <2>4 DEF Cell
<1>8. CASE Changes(op, T) /\ op.k = "transition"
  <2>1. Exec(op, T) = [T EXCEPT ![op.t][op.m] = transition_row(op, old)]
    BY <1>1, <1>8 DEF Exec, Tables
  <2>2. old \in Row
    BY <1>1, <1>8, CellTyped DEF Changes, Hit
  <2>3. op.state \in State /\ op.set \in BOOLEAN
    BY <1>8 DEF Fits, Op, PutOp, RowOp, ClearOp, CompleteOp, TransitionOp
  <2>4. transition_row(op, old) \in Row
    BY <2>2, <2>3 DEF Row, transition_row
  <2>5. Follows(op, op.t, op.m, old, transition_row(op, old))
    BY <1>8, <2>2, <2>4 DEF Row, NoRow, Follows, transition_row
  <2> QED BY <1>2, <1>8, <2>1, <2>4, <2>5 DEF Cell
<1> QED BY <1>1, <1>3, <1>4, <1>5, <1>6, <1>7, <1>8

\* The identities after a statement: those before it, and the inserted one.
LEMMA ExecIds ==
    ASSUME NEW T \in Tables, NEW op, Fits(op)
    PROVE  /\ \A i \in Ids(Exec(op, T)) : i \in Ids(T) \/ (op.k = "put" /\ i = op.id)
           /\ op.k = "put" => Was(op, T) \in Ids(Exec(op, T))
<1>1. op.t \in Table /\ (op.k = "put" => op.m \in MidOf[op.t])
  BY DEF Fits, Op, PutOp, RowOp, ClearOp, CompleteOp, TransitionOp
<1>2. ASSUME NEW i \in Ids(Exec(op, T))
      PROVE  i \in Ids(T) \/ (op.k = "put" /\ i = op.id)
  <2>0. PICK t \in Table : \E m \in MidOf[t] :
          Exec(op, T)[t][m] # NoRow /\ Exec(op, T)[t][m].id = i
    BY <1>2, IdsShape
  <2>1. PICK m \in MidOf[t] : Exec(op, T)[t][m] # NoRow /\ Exec(op, T)[t][m].id = i
    BY <2>0
  <2>2. Follows(op, t, m, T[t][m], Exec(op, T)[t][m])
    BY ExecEffect
  <2> QED BY <2>1, <2>2, IdsShape DEF Follows
<1>3. op.k = "put" => Was(op, T) \in Ids(Exec(op, T))
  BY <1>1, ExecEffect, IdsShape
<1> QED BY <1>2, <1>3

\* Rows keep naming their table and sequence, and their identities distinct.
LEMMA ExecKeeps ==
    ASSUME NEW T \in Tables, NEW op, Fits(op), Sane(T), Distinct(T),
           op.k = "put" => /\ op.id[2] = op.seq /\ op.id[3] = op.t
                           /\ op.id \notin Ids(T)
    PROVE  Sane(Exec(op, T)) /\ Distinct(Exec(op, T))
<1>1. \A t \in Table : \A m \in MidOf[t] : Follows(op, t, m, T[t][m], Exec(op, T)[t][m])
  BY ExecEffect
<1>2. Sane(Exec(op, T))
  <2> SUFFICES ASSUME NEW t \in Table, NEW m \in MidOf[t], Exec(op, T)[t][m] # NoRow
               PROVE  /\ Exec(op, T)[t][m].id[2] = Exec(op, T)[t][m].seq
                      /\ Exec(op, T)[t][m].id[3] = t
    BY DEF Sane
  <2>1. T[t][m] # NoRow => T[t][m].id[2] = T[t][m].seq /\ T[t][m].id[3] = t
    BY DEF Sane
  <2> QED BY <1>1, <2>1 DEF Follows
<1>3. Distinct(Exec(op, T))
  <2> SUFFICES ASSUME NEW t \in Table, NEW m \in MidOf[t], NEW n \in MidOf[t],
                      Exec(op, T)[t][m] # NoRow, Exec(op, T)[t][n] # NoRow,
                      Exec(op, T)[t][m].id = Exec(op, T)[t][n].id
               PROVE  m = n
    BY DEF Distinct
  <2>1. /\ Follows(op, t, m, T[t][m], Exec(op, T)[t][m])
        /\ Follows(op, t, n, T[t][n], Exec(op, T)[t][n])
    BY <1>1
  <2>2. /\ T[t][m] # NoRow => T[t][m].id \in Ids(T)
        /\ T[t][n] # NoRow => T[t][n].id \in Ids(T)
    BY IdsShape
  <2>3. T[t][m] # NoRow /\ T[t][n] # NoRow /\ T[t][m].id = T[t][n].id => m = n
    BY DEF Distinct
  <2> QED BY <2>1, <2>2, <2>3 DEF Follows
<1> QED BY <1>2, <1>3

\* A complete that changes something removes the identity of its record.
LEMMA CompleteRemoves ==
    ASSUME NEW T \in Tables, NEW op, Fits(op), Sane(T), Distinct(T),
           op.k = "complete", Changes(op, T)
    PROVE  Was(op, T) \in Ids(T) /\ Was(op, T) \notin Ids(Exec(op, T))
<1>1. op.t \in Table /\ op.m \in MidOf[op.t]
  BY DEF Fits, Op, PutOp, RowOp, ClearOp, CompleteOp, TransitionOp
<1>2. T[op.t][op.m] # NoRow /\ Was(op, T) = T[op.t][op.m].id
  BY DEF Changes, Hit, Was
<1>3. Was(op, T) \in Ids(T) /\ Was(op, T)[3] = op.t
  BY <1>1, <1>2, IdsShape DEF Sane
<1>4. SUFFICES ASSUME Was(op, T) \in Ids(Exec(op, T))
               PROVE  FALSE
  BY <1>3
<1>4a. PICK t \in Table : \E m \in MidOf[t] :
         Exec(op, T)[t][m] # NoRow /\ Exec(op, T)[t][m].id = Was(op, T)
  BY <1>4, IdsShape
<1>5. PICK m \in MidOf[t] :
        Exec(op, T)[t][m] # NoRow /\ Exec(op, T)[t][m].id = Was(op, T)
  BY <1>4a
<1>6. Follows(op, t, m, T[t][m], Exec(op, T)[t][m])
  BY ExecEffect
<1>7. T[t][m] # NoRow /\ T[t][m].id = Was(op, T)
  BY <1>5, <1>6 DEF Follows
<1>8. t = op.t
  BY <1>3, <1>7 DEF Sane
<1>9. m = op.m
  BY <1>1, <1>2, <1>7, <1>8 DEF Distinct
<1> QED BY <1>5, <1>8, <1>9, ExecEffect

-----------------------------------------------------------------------------
(***************************************************************************)
(* The calls of an opening.                                                *)
(***************************************************************************)
LEMMA AttemptsTyped ==
    ASSUME TypeInv, NEW c \in Conn, NEW op \in Attempts(c)
    PROVE  /\ Fits(op)
           /\ op.k = "put" => /\ op.seq = st[c].seq[op.t] + 1
                              /\ op.id = <<st[c].by, op.seq, op.t>>
           /\ IF st[c].call = NoCall THEN op.k \notin {"complete", "transition"}
              ELSE /\ op.k \in {"complete", "transition"}
                   /\ op.t = st[c].call.t /\ op.m = st[c].call.m
                   /\ op.read = st[c].call.row
<1>1. /\ st[c] \in Object /\ st[c].by \in Nat /\ st[c].seq \in [Table -> Nat]
      /\ st[c].call \in Call \cup {NoCall}
      /\ st[c].call # NoCall => st[c].call.m \in MidOf[st[c].call.t]
  BY DEF TypeInv, Object
<1>2. \A t \in Table : MidOf[t] \subseteq Mid
  BY DEF Table, Mid, MidOf
<1>3. CASE st[c].call = NoCall
  <2>1. op \in FreeOps(c)
    BY <1>3 DEF Attempts
  <2>2. CASE \E t \in Table : \E m \in MidOf[t], s \in NewState, z \in Size :
               op = [k |-> "put", t |-> t, m |-> m, state |-> s, size |-> z,
                     seq |-> st[c].seq[t] + 1, id |-> <<st[c].by, st[c].seq[t] + 1, t>>]
    <3>0. PICK t \in Table : \E m \in MidOf[t], s \in NewState, z \in Size :
               op = [k |-> "put", t |-> t, m |-> m, state |-> s, size |-> z,
                     seq |-> st[c].seq[t] + 1, id |-> <<st[c].by, st[c].seq[t] + 1, t>>]
      BY <2>2
    <3>1. PICK m \in MidOf[t], s \in NewState, z \in Size :
               op = [k |-> "put", t |-> t, m |-> m, state |-> s, size |-> z,
                     seq |-> st[c].seq[t] + 1, id |-> <<st[c].by, st[c].seq[t] + 1, t>>]
      BY <3>0
    <3>2. st[c].seq[t] + 1 \in Nat /\ m \in Mid /\ s \in State
      BY <1>1, <1>2, StoreAssumption
    <3>3. <<st[c].by, st[c].seq[t] + 1, t>> \in Id
      BY <1>1, <3>2 DEF Id
    <3>4. op \in PutOp
      BY <3>1, <3>2, <3>3 DEF PutOp
    <3> QED BY <1>3, <3>1, <3>4 DEF Fits, Op
  <2>3. CASE \E m \in OutMid : op = [k |-> "delete", t |-> "out", m |-> m]
    <3>1. op \in RowOp /\ op.m \in MidOf[op.t] /\ op.k = "delete"
      BY <2>3 DEF RowOp, Table, Mid, MidOf
    <3> QED BY <1>3, <3>1 DEF Fits, Op
  <2>4. CASE \E m \in InMid : op = [k |-> "mark", t |-> "in", m |-> m]
    <3>1. op \in RowOp /\ op.m \in MidOf[op.t] /\ op.k = "mark"
      BY <2>4 DEF RowOp, Table, Mid, MidOf
    <3> QED BY <1>3, <3>1 DEF Fits, Op
  <2>5. CASE \E t \in Table : op = [k |-> "clear", t |-> t]
    <3>1. op \in ClearOp /\ op.k = "clear"
      BY <2>5 DEF ClearOp
    <3> QED BY <1>3, <3>1 DEF Fits, Op
  <2>6. \/ \E t \in Table : \E m \in MidOf[t], s \in NewState, z \in Size :
               op = [k |-> "put", t |-> t, m |-> m, state |-> s, size |-> z,
                     seq |-> st[c].seq[t] + 1, id |-> <<st[c].by, st[c].seq[t] + 1, t>>]
        \/ \E m \in OutMid : op = [k |-> "delete", t |-> "out", m |-> m]
        \/ \E m \in InMid : op = [k |-> "mark", t |-> "in", m |-> m]
        \/ \E t \in Table : op = [k |-> "clear", t |-> t]
    <3>1. \/ op \in UNION {Puts(c, t) : t \in Table}
          \/ op \in {[k |-> "delete", t |-> "out", m |-> m] : m \in OutMid}
          \/ op \in {[k |-> "mark", t |-> "in", m |-> m] : m \in InMid}
          \/ op \in {[k |-> "clear", t |-> t] : t \in Table}
      BY <2>1 DEF FreeOps
    <3>2. ASSUME NEW t \in Table, op \in Puts(c, t)
          PROVE  \E m \in MidOf[t], s \in NewState, z \in Size :
               op = [k |-> "put", t |-> t, m |-> m, state |-> s, size |-> z,
                     seq |-> st[c].seq[t] + 1, id |-> <<st[c].by, st[c].seq[t] + 1, t>>]
      BY <3>2 DEF Puts
    <3>3. op \in UNION {Puts(c, t) : t \in Table} => \E t \in Table : op \in Puts(c, t)
      OBVIOUS
    <3> QED BY <3>1, <3>2, <3>3
  <2> QED BY <2>2, <2>3, <2>4, <2>5, <2>6
<1>4. CASE st[c].call # NoCall
  <2> DEFINE call == st[c].call
  <2>1. /\ op \in SettleOps(call)
        /\ call.t \in Table /\ call.m \in Mid /\ call.row \in Row
        /\ call.m \in MidOf[call.t] /\ call.row.state \in State
    BY <1>1, <1>4 DEF Attempts, Call, Row
  <2> HIDE DEF call
  <2>2. CASE op = [k |-> "complete", t |-> call.t, m |-> call.m, read |-> call.row]
    <3>1. op \in CompleteOp /\ op.k = "complete"
      BY <2>1, <2>2 DEF CompleteOp
    <3> QED BY <1>4, <2>1, <2>2, <3>1 DEF Fits, Op, call
  <2>3. CASE \E s \in State : \E b \in BOOLEAN :
               op = [k |-> "transition", t |-> call.t, m |-> call.m, read |-> call.row,
                     state |-> s, set |-> b]
    <3>1. op \in TransitionOp
      BY <2>1, <2>3 DEF TransitionOp
    <3>2. op.k = "transition" /\ op.t = call.t /\ op.m = call.m /\ op.read = call.row
      BY <2>3
    <3> QED BY <1>4, <2>1, <3>1, <3>2 DEF Fits, Op, call
  <2>4. op = [k |-> "complete", t |-> call.t, m |-> call.m, read |-> call.row]
        \/ \E s \in State : \E b \in BOOLEAN :
              op = [k |-> "transition", t |-> call.t, m |-> call.m, read |-> call.row,
                    state |-> s, set |-> b]
    <3> DEFINE tr(s, b) == [k |-> "transition", t |-> call.t, m |-> call.m,
                            read |-> call.row, state |-> s, set |-> b]
    <3>1. \/ op = [k |-> "complete", t |-> call.t, m |-> call.m, read |-> call.row]
          \/ \E s \in State : op = tr(s, FALSE)
          \/ \E s \in State \cup {call.row.state} : op = tr(s, TRUE)
      BY <2>1 DEF SettleOps
    <3> HIDE DEF tr
    <3>2. \/ op = [k |-> "complete", t |-> call.t, m |-> call.m, read |-> call.row]
          \/ \E s \in State : \E b \in BOOLEAN : op = tr(s, b)
      BY <2>1, <3>1
    <3> QED BY <3>2 DEF tr
  <2> QED BY <2>2, <2>3, <2>4
<1> QED BY <1>3, <1>4

\* The object of opening c after a call.
LEMMA CalledShape ==
    ASSUME TypeInv, NEW c \in Conn, NEW op \in Attempts(c)
    PROVE  /\ Called(c, op) \in Object
           /\ Called(c, op).call = NoCall
           /\ Called(c, op).open = st[c].open /\ Called(c, op).by = st[c].by
           /\ Called(c, op).depth = st[c].depth /\ Called(c, op).started = st[c].started
           /\ Called(c, op).rollback_only = st[c].rollback_only
           /\ Called(c, op).txn = st[c].txn /\ Called(c, op).snap = st[c].snap
           /\ Called(c, op).ops = st[c].ops
           /\ \A t \in Table : Called(c, op).seq[t] >= st[c].seq[t]
           /\ op.k = "put" => Called(c, op).seq[op.t] = op.seq
<1>1. st[c] \in Object
  BY DEF TypeInv
<1>2. op.k = "put" => op.t \in Table /\ op.seq = st[c].seq[op.t] + 1
  BY AttemptsTyped DEF Fits, Op, PutOp, RowOp, ClearOp, CompleteOp, TransitionOp
<1> DEFINE q == IF op.k = "put" THEN [st[c].seq EXCEPT ![op.t] = op.seq] ELSE st[c].seq
<1>3. /\ q \in [Table -> Nat]
      /\ \A t \in Table : q[t] >= st[c].seq[t]
      /\ op.k = "put" => q[op.t] = op.seq
  BY <1>1, <1>2 DEF Object
<1>4. Called(c, op) = [st[c] EXCEPT !.call = NoCall, !.seq = q]
  BY <1>1 DEF Called, Object
<1> HIDE DEF q
<1> QED BY <1>1, <1>3, <1>4 DEF Object

\* A closed object is an object.
LEMMA ClosedTyped ==
    Closed \in Object
BY EmptyTablesTyped DEF Closed, Object

\* A SELECT reads tables.
LEMMA ViewTyped ==
    ASSUME TypeInv, NEW c \in Conn
    PROVE  View(c) \in Tables
BY DEF TypeInv, View, Object

\* A read takes its snapshot, or keeps the one it has.
LEMMA SnappedTyped ==
    ASSUME TypeInv, NEW c \in Conn
    PROVE  /\ Snapped(c) \in Object
           /\ Snapped(c).open = st[c].open /\ Snapped(c).by = st[c].by
           /\ Snapped(c).depth = st[c].depth /\ Snapped(c).started = st[c].started
           /\ Snapped(c).rollback_only = st[c].rollback_only
           /\ Snapped(c).seq = st[c].seq /\ Snapped(c).ops = st[c].ops
           /\ Snapped(c).call = st[c].call
           /\ Snapped(c).txn = "write" <=> st[c].txn = "write"
           /\ Snapped(c).snap \in {disk, st[c].snap}
<1>1. st[c] \in Object /\ disk \in Tables
  BY DEF TypeInv
<1> QED BY <1>1 DEF Snapped, Object

\* A call that changed something is recorded with the identity it was about.
LEMMA RecordedShape ==
    ASSUME NEW T \in Tables, NEW op, Fits(op),
           NEW done \in Seq([op: Op, was: Id \cup {NoRow.id}])
    PROVE  /\ Recorded(done, op, T) \in Seq([op: Op, was: Id \cup {NoRow.id}])
           /\ \A e \in ToSet(Recorded(done, op, T)) :
                e \in ToSet(done)
                \/ (Changes(op, T) /\ e = [op |-> op, was |-> Was(op, T)])
<1> DEFINE e == [op |-> op, was |-> Was(op, T)]
<1>1. CASE ~Changes(op, T)
  BY <1>1 DEF Recorded
<1>2. CASE Changes(op, T)
  <2>1. Was(op, T) \in Id \cup {NoRow.id}
    <3>1. CASE op.k = "clear"
      BY <3>1 DEF Was
    <3>2. CASE op.k # "clear"
      <4>1. op.t \in Table /\ op.m \in MidOf[op.t]
        BY <3>2 DEF Fits, Op, PutOp, RowOp, ClearOp, CompleteOp, TransitionOp
      <4>2. T[op.t][op.m] # NoRow => T[op.t][op.m].id \in Id
        BY <4>1, CellTyped DEF Row, Id
      <4>3. T[op.t][op.m] = NoRow => op.id \in Id
        <5> SUFFICES ASSUME T[op.t][op.m] = NoRow
                     PROVE  op.id \in Id
          OBVIOUS
        <5>1. op \in PutOp
          BY <1>2, <3>2 DEF Changes, Hit, Fits, Op, PutOp, RowOp, ClearOp, CompleteOp, TransitionOp
        <5> QED BY <5>1 DEF PutOp
      <4> QED BY <3>2, <4>2, <4>3 DEF Was
    <3> QED BY <3>1, <3>2
  <2>2. e \in [op: Op, was: Id \cup {NoRow.id}]
    BY <2>1 DEF Fits
  <2>3. Recorded(done, op, T) = Append(done, e)
    BY <1>2 DEF Recorded
  <2> HIDE DEF e
  <2>4. \A x \in ToSet(Append(done, e)) : x \in ToSet(done) \/ x = e
    BY <2>2 DEF ToSet
  <2> QED BY <1>2, <2>2, <2>3, <2>4 DEF e
<1> QED BY <1>1, <1>2

-----------------------------------------------------------------------------
(***************************************************************************)
(* Types and counters.                                                     *)
(***************************************************************************)
LEMMA InitStoreInv ==
    ASSUME Init
    PROVE  StoreInv
<1>1. /\ disk = EmptyTables /\ work = EmptyTables /\ writer = NoConn /\ told = {}
      /\ \A c \in Conn : st[c] = Closed
      /\ st = [c \in Conn |-> Closed]
      /\ left \in Budget
  BY StoreAssumption DEF Init, Budget
<1>2. /\ ~Closed.open /\ Closed.depth = 0 /\ ~Closed.started /\ ~Closed.rollback_only
      /\ Closed.txn = "none" /\ Closed.snap = EmptyTables /\ Closed.call = NoCall
      /\ Closed.ops = <<>>
  BY DEF Closed
<1>3. TypeInv
  BY <1>1, <1>2, EmptyTablesTyped, ClosedTyped DEF TypeInv
<1>4. LockInv
  BY <1>1, <1>2, StoreAssumption DEF LockInv, LockOf, shared, Budget
<1>5. RowInv
  BY <1>1, <1>2, EmptyTablesTyped DEF RowInv, RowOf
<1>6. IdInv
  <2>1. Distinct(EmptyTables)
    BY EmptyTablesTyped, IdsShape DEF Distinct
  <2>2. ToSet(<<>>) = {}
    BY DEF ToSet
  <2> QED BY <1>1, <1>2, <2>1, <2>2, EmptyTablesTyped DEF IdInv
<1> QED BY <1>3, <1>4, <1>5, <1>6 DEF StoreInv

\* What no step but an opening changes of the budget.
SameLimits ==
  left'.opens = left.opens /\ left'.shared = left.shared /\ left'.depth = left.depth

\* Every step but an opening: the counters of an object only grow.
Grow ==
  /\ SameLimits
  /\ \A x \in Conn :
       st'[x].open => /\ st[x].open /\ st'[x].by = st[x].by
                      /\ \A t \in Table : st'[x].seq[t] >= st[x].seq[t]

\* An object that replaces that of opening c.
LEMMA Replaced ==
    ASSUME TypeInv, NEW c \in Conn, NEW mine \in Object,
           mine.call # NoCall => mine.call.m \in MidOf[mine.call.t],
           mine.open => /\ st[c].open /\ mine.by = st[c].by
                        /\ \A t \in Table : mine.seq[t] >= st[c].seq[t],
           st' = [st EXCEPT ![c] = mine]
    PROVE  /\ st' \in [Conn -> Object]
           /\ \A x \in Conn : st'[x].call # NoCall => st'[x].call.m \in MidOf[st'[x].call.t]
           /\ \A x \in Conn :
                st'[x].open => /\ st[x].open /\ st'[x].by = st[x].by
                               /\ \A t \in Table : st'[x].seq[t] >= st[x].seq[t]
<1>1. st \in [Conn -> Object]
  BY DEF TypeInv
<1>2. \A x \in Conn : st'[x] = IF x = c THEN mine ELSE st[x]
  BY <1>1
<1>3. \A x \in Conn : \A t \in Table : st[x].seq[t] \in Nat
  BY <1>1 DEF Object
<1>4. \A x \in Conn : st[x].call # NoCall => st[x].call.m \in MidOf[st[x].call.t]
  BY DEF TypeInv
<1> HIDE DEF NoCall, MidOf, Object
<1> QED BY <1>1, <1>2, <1>3, <1>4

\* A budget that is spent keeps its type, and its limits.
LEMMA LeftTyped ==
    ASSUME TypeInv
    PROVE  /\ left.ops > 0 /\ Counted("ops") => left' \in Budget /\ SameLimits
           /\ left.faults > 0 /\ Counted("faults") => left' \in Budget /\ SameLimits
           /\ left.pages > 0 /\ Counted("pages") => left' \in Budget /\ SameLimits
           /\ left.ops > 0 /\ left.faults > 0 /\ CountedFault => left' \in Budget /\ SameLimits
           /\ left.opens > 0 /\ Counted("opens") =>
                /\ left' \in Budget /\ left'.opens = left.opens - 1
                /\ left'.shared = left.shared /\ left'.depth = left.depth
<1>1. left \in Budget
  BY DEF TypeInv
<1>2. left.ops > 0 /\ Counted("ops") => left' \in Budget /\ SameLimits
  BY <1>1 DEF Counted, Budget, SameLimits
<1>3. left.faults > 0 /\ Counted("faults") => left' \in Budget /\ SameLimits
  BY <1>1 DEF Counted, Budget, SameLimits
<1>4. left.pages > 0 /\ Counted("pages") => left' \in Budget /\ SameLimits
  BY <1>1 DEF Counted, Budget, SameLimits
<1>5. left.ops > 0 /\ left.faults > 0 /\ CountedFault => left' \in Budget /\ SameLimits
  <2> SUFFICES ASSUME left.ops > 0, left.faults > 0, CountedFault
               PROVE  left' \in Budget /\ SameLimits
    OBVIOUS
  <2>1. left.ops - 1 \in Nat /\ left.faults - 1 \in Nat
    BY <1>1 DEF Budget
  <2>2. left' = [left EXCEPT !.ops = left.ops - 1, !.faults = left.faults - 1]
    BY DEF CountedFault
  <2> QED BY <1>1, <2>1, <2>2 DEF Budget, SameLimits
<1>6. left.opens > 0 /\ Counted("opens") =>
        /\ left' \in Budget /\ left'.opens = left.opens - 1
        /\ left'.shared = left.shared /\ left'.depth = left.depth
  BY <1>1 DEF Counted, Budget
<1> QED BY <1>2, <1>3, <1>4, <1>5, <1>6

\* What _rollback_or_close() leaves of the object and of the lock.
LEMMA RolledBack ==
    ASSUME TypeInv, NEW c \in Conn, NEW mine \in Object, mine.call = NoCall,
           mine.open => /\ st[c].open /\ mine.by = st[c].by
                        /\ \A t \in Table : mine.seq[t] >= st[c].seq[t],
           _rollback_or_close(c, mine)
    PROVE  /\ work' \in Tables /\ writer' \in Conn \cup {NoConn}
           /\ st' \in [Conn -> Object]
           /\ \A x \in Conn : st'[x].call # NoCall => st'[x].call.m \in MidOf[st'[x].call.t]
           /\ \A x \in Conn :
                st'[x].open => /\ st[x].open /\ st'[x].by = st[x].by
                               /\ \A t \in Table : st'[x].seq[t] >= st[x].seq[t]
<1>1. work' \in Tables /\ writer' \in Conn \cup {NoConn}
  BY EmptyTablesTyped DEF TypeInv, _rollback_or_close, GaveUp
<1>2. CASE st' = [st EXCEPT ![c] = [mine EXCEPT !.txn = "none"]]
  <2> DEFINE new == [mine EXCEPT !.txn = "none"]
  <2>1. /\ new \in Object /\ new.call = NoCall /\ new.open = mine.open
        /\ new.by = mine.by /\ new.seq = mine.seq
    BY DEF Object
  <2>2. st' = [st EXCEPT ![c] = new]
    BY <1>2
  <2> HIDE DEF new
  <2> QED BY <1>1, <2>1, <2>2, Replaced
<1>3. CASE st' = [st EXCEPT ![c] = Closed]
  <2>1. Closed.call = NoCall /\ ~Closed.open
    BY DEF Closed
  <2> QED BY <1>1, <1>3, <2>1, ClosedTyped, Replaced
<1> QED BY <1>2, <1>3 DEF _rollback_or_close

\* What a commit leaves of the objects.
LEMMA CommittedTyped ==
    ASSUME TypeInv, NEW c \in Conn, NEW T \in Tables, NEW mine \in Object, NEW done,
           mine.call = NoCall,
           mine.open => /\ st[c].open /\ mine.by = st[c].by
                        /\ \A t \in Table : mine.seq[t] >= st[c].seq[t],
           Committed(c, T, mine, done)
    PROVE  /\ disk' \in Tables /\ work' \in Tables /\ writer' \in Conn \cup {NoConn}
           /\ st' \in [Conn -> Object]
           /\ \A x \in Conn : st'[x].call # NoCall => st'[x].call.m \in MidOf[st'[x].call.t]
           /\ \A x \in Conn :
                st'[x].open => /\ st[x].open /\ st'[x].by = st[x].by
                               /\ \A t \in Table : st'[x].seq[t] >= st[x].seq[t]
           /\ \A x \in Conn \ {c} : /\ st'[x] = [st[x] EXCEPT !.txn = st'[x].txn]
                                    /\ st'[x].txn = "write" <=> st[x].txn = "write"
           /\ st'[c] = mine
<1>1. disk' \in Tables /\ work' \in Tables /\ writer' \in Conn \cup {NoConn}
  BY EmptyTablesTyped DEF Committed
<1>2. st'[c] = mine
  BY DEF Committed
<1>3. ASSUME NEW x \in Conn \ {c}
      PROVE  /\ st'[x] \in Object
             /\ st'[x] = [st[x] EXCEPT !.txn = st'[x].txn]
             /\ st'[x].txn = "write" <=> st[x].txn = "write"
  <2>1. st[x] \in Object
    BY DEF TypeInv
  <2>2. st'[x] = IF st[x].txn = "read" THEN [st[x] EXCEPT !.txn = "stale"] ELSE st[x]
    BY <1>3 DEF Committed
  <2>3. CASE st[x].txn = "read"
    <3>1. PICK o : o = st[x]
      OBVIOUS
    <3>2. [o EXCEPT !.txn = "stale"] \in Object /\ [o EXCEPT !.txn = "stale"].txn = "stale"
      BY <2>1, <3>1, SMTT(30) DEF Object
    <3> QED BY <2>2, <2>3, <3>1, <3>2
  <2>4. CASE st[x].txn # "read"
    <3>1. st'[x] = st[x]
      BY <2>2, <2>4
    <3>2. st[x] = [st[x] EXCEPT !.txn = st[x].txn]
      BY <2>1, SMTT(30) DEF Object
    <3> QED BY <2>1, <3>1, <3>2
  <2> QED BY <2>3, <2>4
<1>4. ASSUME NEW x \in Conn \ {c}
      PROVE  st'[x].call = st[x].call /\ st'[x].open = st[x].open
             /\ st'[x].by = st[x].by /\ st'[x].seq = st[x].seq
  <2>1. st[x] \in Object
    BY DEF TypeInv
  <2>2. PICK o, v : o = st[x] /\ v = st'[x].txn
    OBVIOUS
  <2>3. /\ [o EXCEPT !.txn = v].call = o.call /\ [o EXCEPT !.txn = v].open = o.open
        /\ [o EXCEPT !.txn = v].by = o.by /\ [o EXCEPT !.txn = v].seq = o.seq
    BY <2>1, <2>2, SMTT(30) DEF Object
  <2>4. st'[x] = [o EXCEPT !.txn = v]
    BY <1>3, <2>2
  <2> QED BY <2>2, <2>3, <2>4
<1>5. st' \in [Conn -> Object]
  <2>1. st' = [x \in Conn |-> st'[x]]
    BY DEF Committed
  <2> HIDE DEF Object
  <2> QED BY <1>2, <1>3, <2>1
<1>6. \A x \in Conn : \A t \in Table : st[x].seq[t] \in Nat
  BY DEF TypeInv, Object
<1> QED BY <1>1, <1>2, <1>3, <1>4, <1>5, <1>6 DEF TypeInv

\* The object after a lot ended, successfully or not.
LEMMA LeftShape ==
    ASSUME TypeInv, NEW c \in Conn, st[c].call = NoCall
    PROVE  \A mine \in {Left(c), [Left(c) EXCEPT !.latched = TRUE]} :
             /\ mine \in Object /\ mine.call = NoCall /\ mine.open = st[c].open
             /\ mine.by = st[c].by /\ mine.seq = st[c].seq /\ mine.txn = st[c].txn
             /\ mine.snap = st[c].snap /\ mine.depth = 0 /\ ~mine.started
             /\ ~mine.rollback_only /\ mine.ops = <<>>
<1>1. st[c] \in Object
  BY DEF TypeInv
<1>2. /\ Left(c) \in Object /\ Left(c).call = NoCall /\ Left(c).open = st[c].open
      /\ Left(c).by = st[c].by /\ Left(c).seq = st[c].seq /\ Left(c).txn = st[c].txn
      /\ Left(c).snap = st[c].snap /\ Left(c).depth = 0 /\ ~Left(c).started
      /\ ~Left(c).rollback_only /\ Left(c).ops = <<>>
  <2>1. 0 \in Nat /\ <<>> \in Seq([op: Op, was: Id \cup {NoRow.id}])
    OBVIOUS
  <2> QED BY <1>1, <2>1 DEF Left, Object
<1> QED BY <1>2 DEF Object

\* The types and the counters after a step.
LEMMA TypeStep ==
    ASSUME StoreInv, Next
    PROVE  TypeInv' /\ (Grow \/ \E c \in Conn : Open(c))
<1> USE DEF StoreInv
<1>0. /\ TypeInv /\ disk \in Tables /\ work \in Tables /\ left \in Budget
      /\ writer \in Conn \cup {NoConn}
  BY DEF TypeInv
<1>a. ASSUME NEW c \in Conn
      PROVE  /\ st[c] \in Object
             /\ \A t \in Table : st[c].seq[t] \in Nat /\ st[c].seq[t] >= st[c].seq[t]
             /\ st[c].call # NoCall => st[c].call.m \in MidOf[st[c].call.t]
  <2>1. st[c] \in Object
    BY DEF TypeInv
  <2>2. \A t \in Table : st[c].seq[t] \in Nat
    BY <2>1 DEF Object
  <2> QED BY <2>1, <2>2 DEF TypeInv
\* An object is replaced, by one that is as far or by none.
<1>b. ASSUME NEW c \in Conn, NEW mine \in Object,
             mine.call # NoCall => mine.call.m \in MidOf[mine.call.t],
             mine.open => /\ st[c].open /\ mine.by = st[c].by
                          /\ \A t \in Table : mine.seq[t] >= st[c].seq[t],
             st' = [st EXCEPT ![c] = mine],
             disk' \in Tables, work' \in Tables, writer' \in Conn \cup {NoConn},
             left' \in Budget, SameLimits
      PROVE  TypeInv' /\ Grow
  BY <1>0, <1>b, Replaced DEF TypeInv, Grow
<1>c. UNCHANGED left => left' \in Budget /\ SameLimits
  BY <1>0 DEF SameLimits
<1>1. ASSUME NEW c \in Conn, Open(c)
      PROVE  TypeInv'
  <2>1. Opened(c) \in Object /\ Opened(c).call = NoCall
    <3>1. [t \in Table |-> _max_seq(disk, t)] \in [Table -> Nat]
      BY <1>0, MaxSeqTyped
    <3>2. left.opens \in Nat
      BY <1>0 DEF Budget
    <3>3. Closed \in Object /\ Closed.call = NoCall
      BY ClosedTyped DEF Closed
    <3> QED BY <3>1, <3>2, <3>3 DEF Opened, Object
  <2>2. left' \in Budget
    BY <1>1, LeftTyped DEF Open
  <2>3. st' = [st EXCEPT ![c] = Opened(c)] /\ UNCHANGED <<disk, work, writer>>
    BY <1>1 DEF Open
  <2> QED BY <1>0, <2>1, <2>2, <2>3 DEF TypeInv
<1>2. ASSUME NEW c \in Conn, Close(c) \/ Crash(c)
      PROVE  TypeInv' /\ Grow
  <2>1. /\ st' = [st EXCEPT ![c] = Closed] /\ GaveUp(c) /\ UNCHANGED <<disk, left>>
    BY <1>2 DEF Close, Crash
  <2>2. work' \in Tables /\ writer' \in Conn \cup {NoConn}
    BY <1>0, <2>1, EmptyTablesTyped DEF GaveUp
  <2>3. Closed \in Object /\ Closed.call = NoCall /\ ~Closed.open
    BY ClosedTyped DEF Closed
  <2> QED BY <1>0, <1>b, <1>c, <2>1, <2>2, <2>3
<1>3. ASSUME NEW c \in Conn, NEW t \in Table, NEW m \in MidOf[t], ReadRow(c, t, m)
      PROVE  TypeInv' /\ Grow
  <2> DEFINE call == [t |-> t, m |-> m, row |-> View(c)[t][m]]
             mine == [Snapped(c) EXCEPT !.call = call]
  <2>1. call \in Call
    <3>1. View(c)[t][m] \in Row
      BY <1>0, <1>3, ViewTyped, CellTyped DEF ReadRow, Rows
    <3>2. m \in Mid
      BY DEF Mid, MidOf, Table
    <3> QED BY <3>1, <3>2 DEF Call
  <2>2. /\ mine \in Object /\ mine.call = call /\ mine.open = st[c].open
        /\ mine.by = st[c].by /\ mine.seq = st[c].seq
    <3> DEFINE x == Snapped(c)
    <3>1. /\ x \in Object /\ x.open = st[c].open /\ x.by = st[c].by /\ x.seq = st[c].seq
      BY <1>0, SnappedTyped
    <3>2. mine = [x EXCEPT !.call = call]
      OBVIOUS
    <3> HIDE DEF x, mine, call
    <3> QED BY <2>1, <3>1, <3>2 DEF Object
  <2>3. st' = [st EXCEPT ![c] = mine] /\ UNCHANGED <<disk, work, writer, left>>
    BY <1>3 DEF ReadRow
  <2>4. mine.call.m \in MidOf[mine.call.t]
    BY <2>2
  <2> HIDE DEF mine
  <2> QED BY <1>0, <1>a, <1>b, <1>c, <2>2, <2>3, <2>4
<1>4. ASSUME NEW c \in Conn, WriteAlone(c)
      PROVE  TypeInv' /\ Grow
  <2> DEFINE T == IF writer = c THEN work ELSE disk
  <2>1. PICK op \in Attempts(c) :
          Committed(c, Exec(op, T), [Called(c, op) EXCEPT !.txn = "none"], Recorded(<<>>, op, T))
    BY <1>4 DEF WriteAlone
  <2> DEFINE mine == [Called(c, op) EXCEPT !.txn = "none"]
  <2>2. Exec(op, T) \in Tables
    BY <1>0, AttemptsTyped, ExecEffect
  <2>3. /\ mine \in Object /\ mine.call = NoCall /\ mine.open = st[c].open
        /\ mine.by = st[c].by /\ \A t \in Table : mine.seq[t] >= st[c].seq[t]
    <3> DEFINE x == Called(c, op)
    <3>1. /\ x \in Object /\ x.call = NoCall /\ x.open = st[c].open
          /\ x.by = st[c].by /\ \A t \in Table : x.seq[t] >= st[c].seq[t]
      BY <1>0, CalledShape
    <3>2. mine = [x EXCEPT !.txn = "none"]
      OBVIOUS
    <3> HIDE DEF x, mine
    <3> QED BY <3>1, <3>2 DEF Object
  <2>4. left' \in Budget /\ SameLimits
    BY <1>0, <1>4, LeftTyped DEF WriteAlone, Calling
  <2>5. Committed(c, Exec(op, T), mine, Recorded(<<>>, op, T))
    BY <2>1
  <2> HIDE DEF mine, T
  <2> QED BY <1>0, <2>2, <2>3, <2>4, <2>5, CommittedTyped DEF TypeInv, Grow
<1>5. ASSUME NEW c \in Conn, WriteInBatch(c)
      PROVE  TypeInv' /\ Grow
  <2> DEFINE T == IF writer = c THEN work ELSE disk
             mine(op) == [Called(c, op) EXCEPT !.started = TRUE, !.txn = "write",
                                               !.ops = Recorded(@, op, T)]
  <2>1. PICK op \in Attempts(c) : work' = Exec(op, T) /\ st' = [st EXCEPT ![c] = mine(op)]
    BY <1>5 DEF WriteInBatch
  <2>2. Exec(op, T) \in Tables /\ Fits(op) /\ T \in Tables
    BY <1>0, AttemptsTyped, ExecEffect
  <2>3. Recorded(Called(c, op).ops, op, T) \in Seq([op: Op, was: Id \cup {NoRow.id}])
    <3>1. Called(c, op).ops \in Seq([op: Op, was: Id \cup {NoRow.id}])
      BY <1>0, CalledShape DEF Object
    <3> HIDE DEF T
    <3> QED BY <2>2, <3>1, RecordedShape
  <2>4. /\ mine(op) \in Object /\ mine(op).call = NoCall /\ mine(op).open = st[c].open
        /\ mine(op).by = st[c].by /\ \A t \in Table : mine(op).seq[t] >= st[c].seq[t]
    <3> DEFINE r == Recorded(Called(c, op).ops, op, T)
               x == Called(c, op)
    <3>1. mine(op) = [x EXCEPT !.started = TRUE, !.txn = "write", !.ops = r]
      OBVIOUS
    <3>2. /\ x \in Object /\ x.call = NoCall /\ x.open = st[c].open
          /\ x.by = st[c].by /\ \A t \in Table : x.seq[t] >= st[c].seq[t]
      BY <1>0, <1>a, CalledShape DEF Object
    <3> HIDE DEF mine, r, x
    <3>3. r \in Seq([op: Op, was: Id \cup {NoRow.id}])
      BY <2>3 DEF r
    <3> QED BY <3>1, <3>2, <3>3 DEF Object
  <2>5. left' \in Budget /\ SameLimits
    BY <1>0, <1>5, LeftTyped DEF WriteInBatch, Calling
  <2>6. writer' = c /\ UNCHANGED disk
    BY <1>5 DEF WriteInBatch
  <2> HIDE DEF mine, T
  <2> QED BY <1>0, <1>b, <2>1, <2>2, <2>4, <2>5, <2>6
<1>6. ASSUME NEW c \in Conn, WriteBlocked(c)
      PROVE  TypeInv' /\ Grow
  <2> DEFINE mine(op) ==
        IF st[c].depth > 0 THEN [st[c] EXCEPT !.call = NoCall]
        ELSE [Called(c, op) EXCEPT !.txn = IF @ = "none" THEN "idle" ELSE @]
  <2>1. PICK op \in Attempts(c) : st' = [st EXCEPT ![c] = mine(op)]
    BY <1>6 DEF WriteBlocked
  <2>2. /\ mine(op) \in Object /\ mine(op).call = NoCall /\ mine(op).open = st[c].open
        /\ mine(op).by = st[c].by /\ \A t \in Table : mine(op).seq[t] >= st[c].seq[t]
    <3> DEFINE x == Called(c, op)
    <3>1. /\ x \in Object /\ x.call = NoCall /\ x.open = st[c].open
          /\ x.by = st[c].by /\ \A t \in Table : x.seq[t] >= st[c].seq[t]
      BY <1>0, CalledShape
    <3>2. CASE st[c].depth > 0
      <4>1. mine(op) = [st[c] EXCEPT !.call = NoCall]
        BY <3>2
      <4> HIDE DEF mine
      <4> QED BY <1>a, <4>1 DEF Object
    <3>3. CASE ~(st[c].depth > 0)
      <4> DEFINE y == IF x.txn = "none" THEN "idle" ELSE x.txn
      <4>1. mine(op) = [x EXCEPT !.txn = y]
        BY <3>3
      <4>2. y \in {"none", "idle", "read", "stale", "write"}
        BY <3>1 DEF Object
      <4> HIDE DEF mine, x, y
      <4> QED BY <3>1, <4>1, <4>2 DEF Object
    <3> QED BY <3>2, <3>3
  <2>3. left' \in Budget /\ SameLimits
    BY <1>0, <1>6, LeftTyped DEF WriteBlocked, Calling
  <2>4. UNCHANGED <<disk, work, writer>>
    BY <1>6 DEF WriteBlocked
  <2> HIDE DEF mine
  <2> QED BY <1>0, <1>b, <2>1, <2>2, <2>3, <2>4
<1>7. ASSUME NEW c \in Conn, WriteFails(c)
      PROVE  TypeInv' /\ Grow
  <2> DEFINE mine(op) == [Called(c, op) EXCEPT !.txn = "write", !.started = st[c].depth > 0]
  <2>1. PICK op \in Attempts(c) : st' = [st EXCEPT ![c] = mine(op)]
    BY <1>7 DEF WriteFails
  <2>2. /\ mine(op) \in Object /\ mine(op).call = NoCall /\ mine(op).open = st[c].open
        /\ mine(op).by = st[c].by /\ \A t \in Table : mine(op).seq[t] >= st[c].seq[t]
    <3> DEFINE x == Called(c, op)
    <3>1. /\ x \in Object /\ x.call = NoCall /\ x.open = st[c].open
          /\ x.by = st[c].by /\ \A t \in Table : x.seq[t] >= st[c].seq[t]
      BY <1>0, CalledShape
    <3> DEFINE b == st[c].depth > 0
    <3>2. mine(op) = [x EXCEPT !.txn = "write", !.started = b] /\ b \in BOOLEAN
      OBVIOUS
    <3> HIDE DEF x, mine, b
    <3> QED BY <3>1, <3>2 DEF Object
  <2>3. left' \in Budget /\ SameLimits
    BY <1>0, <1>7, LeftTyped DEF WriteFails, Calling, Faulty
  <2>4. writer' = c /\ work' \in Tables /\ UNCHANGED disk
    BY <1>0, <1>7 DEF WriteFails
  <2> HIDE DEF mine
  <2> QED BY <1>0, <1>b, <2>1, <2>2, <2>3, <2>4
<1>8. ASSUME NEW c \in Conn, CommitAloneFails(c)
      PROVE  TypeInv' /\ Grow
  <2>1. PICK op \in Attempts(c) : _rollback_or_close(c, Called(c, op))
    BY <1>8 DEF CommitAloneFails
  <2>2. /\ Called(c, op) \in Object /\ Called(c, op).call = NoCall
        /\ Called(c, op).open = st[c].open
        /\ Called(c, op).by = st[c].by
        /\ \A t \in Table : Called(c, op).seq[t] >= st[c].seq[t]
    BY <1>0, <1>a, CalledShape DEF Object
  <2>3. left' \in Budget /\ SameLimits
    BY <1>0, <1>8, LeftTyped DEF CommitAloneFails, Calling, Faulty
  <2>4. UNCHANGED disk
    BY <1>8 DEF CommitAloneFails
  <2> QED BY <1>0, <2>1, <2>2, <2>3, <2>4, RolledBack DEF TypeInv, Grow
<1>9. ASSUME NEW c \in Conn, Enter(c) \/ RaiseNested(c) \/ ExitNested(c)
      PROVE  TypeInv' /\ Grow
  <2>1. PICK d \in Nat, r \in BOOLEAN :
          st' = [st EXCEPT ![c] = [st[c] EXCEPT !.depth = d, !.rollback_only = r]]
    <3>1. st[c].depth \in Nat /\ st[c].rollback_only \in BOOLEAN /\ st \in [Conn -> Object]
      BY <1>0, <1>a DEF Object, TypeInv
    <3>2. CASE Enter(c)
      <4>1. st' = [st EXCEPT ![c] = [st[c] EXCEPT !.depth = st[c].depth + 1,
                     !.rollback_only = IF st[c].depth = 0 THEN FALSE ELSE st[c].rollback_only]]
        BY <3>1, <3>2 DEF Enter, Object
      <4>2. st[c].depth + 1 \in Nat
        BY <3>1
      <4>3. (IF st[c].depth = 0 THEN FALSE ELSE st[c].rollback_only) \in BOOLEAN
        BY <3>1, Zenon
      <4> QED BY <4>1, <4>2, <4>3
    <3>3. CASE RaiseNested(c)
      <4>1. st' = [st EXCEPT ![c] = [st[c] EXCEPT !.depth = st[c].depth - 1, !.rollback_only = TRUE]]
        BY <3>1, <3>3 DEF RaiseNested, Object
      <4>2. st[c].depth - 1 \in Nat
        BY <3>1, <3>3 DEF RaiseNested
      <4> QED BY <4>1, <4>2
    <3>4. CASE ExitNested(c)
      <4>1. st' = [st EXCEPT ![c] = [st[c] EXCEPT !.depth = st[c].depth - 1, !.rollback_only = st[c].rollback_only]]
        BY <3>1, <3>4 DEF ExitNested, Object
      <4>2. st[c].depth - 1 \in Nat
        BY <3>1, <3>4 DEF ExitNested
      <4> QED BY <3>1, <4>1, <4>2
    <3> QED BY <1>9, <3>2, <3>3, <3>4
  <2> DEFINE mine == [st[c] EXCEPT !.depth = d, !.rollback_only = r]
  <2>2. /\ mine \in Object /\ mine.call = st[c].call /\ mine.open = st[c].open
        /\ mine.by = st[c].by /\ mine.seq = st[c].seq
    BY <1>a DEF Object
  <2>3. UNCHANGED <<disk, work, writer, left>>
    BY <1>9 DEF Enter, RaiseNested, ExitNested
  <2>4. st' = [st EXCEPT ![c] = mine]
    BY <2>1
  <2> HIDE DEF mine
  <2> QED BY <1>0, <1>a, <1>b, <1>c, <2>2, <2>3, <2>4
\* The three endings of a lot that failed.
<1>d. ASSUME NEW c \in Conn, LotFails(c), InBatch(c), left' \in Budget, SameLimits
      PROVE  TypeInv' /\ Grow
  <2> DEFINE mine == [Left(c) EXCEPT !.latched = TRUE]
  <2>1. /\ mine \in Object /\ mine.call = NoCall /\ mine.open = st[c].open
        /\ mine.by = st[c].by /\ mine.seq = st[c].seq
    BY <1>0, <1>d, LeftShape DEF InBatch
  <2>2. UNCHANGED disk
    BY <1>d DEF LotFails
  <2>3. CASE st[c].started
    <3>1. _rollback_or_close(c, mine)
      BY <1>d, <2>3 DEF LotFails
    <3> HIDE DEF mine
    <3> QED BY <1>0, <1>a, <1>d, <2>1, <2>2, <3>1, RolledBack DEF TypeInv, Grow
  <2>4. CASE ~st[c].started
    <3>1. st' = [st EXCEPT ![c] = mine] /\ UNCHANGED <<work, writer>>
      BY <1>d, <2>4 DEF LotFails
    <3> HIDE DEF mine
    <3> QED BY <1>0, <1>a, <1>b, <1>d, <2>1, <2>2, <3>1
  <2> QED BY <2>3, <2>4
<1>10. ASSUME NEW c \in Conn, Raise(c) \/ ExitCommitFails(c) \/ ExitRefused(c)
       PROVE  TypeInv' /\ Grow
  <2>1. LotFails(c) /\ InBatch(c)
    BY <1>10 DEF Raise, ExitCommitFails, ExitRefused
  <2>2. left' \in Budget /\ SameLimits
    BY <1>0, <1>c, <1>10, LeftTyped DEF Raise, ExitCommitFails, ExitRefused, Faulty
  <2> QED BY <1>d, <2>1, <2>2
<1>11. ASSUME NEW c \in Conn, ExitCommits(c)
       PROVE  TypeInv' /\ Grow
  <2>1. st[c].call = NoCall /\ UNCHANGED left
    BY <1>11 DEF ExitCommits, InBatch
  <2>2. CASE st[c].started
    <3> DEFINE mine == [Left(c) EXCEPT !.txn = "none"]
    <3>1. Committed(c, work, mine, st[c].ops)
      BY <1>11, <2>2 DEF ExitCommits
    <3>2. /\ mine \in Object /\ mine.call = NoCall /\ mine.open = st[c].open
          /\ mine.by = st[c].by /\ mine.seq = st[c].seq
      <4>1. /\ Left(c) \in Object /\ Left(c).call = NoCall /\ Left(c).open = st[c].open
            /\ Left(c).by = st[c].by /\ Left(c).seq = st[c].seq
        BY <1>0, <2>1, LeftShape
      <4> QED BY <4>1 DEF Object
    <3> HIDE DEF mine
    <3> QED BY <1>0, <1>a, <1>c, <2>1, <3>1, <3>2, CommittedTyped DEF TypeInv, Grow
  <2>3. CASE ~st[c].started
    <3>1. /\ Left(c) \in Object /\ Left(c).call = NoCall /\ Left(c).open = st[c].open
          /\ Left(c).by = st[c].by /\ Left(c).seq = st[c].seq
      BY <1>0, <2>1, LeftShape
    <3>2. st' = [st EXCEPT ![c] = Left(c)] /\ UNCHANGED <<disk, work, writer>>
      BY <1>11, <2>3 DEF ExitCommits
    <3> QED BY <1>0, <1>a, <1>b, <1>c, <2>1, <3>1, <3>2
  <2> QED BY <2>2, <2>3
<1>12. ASSUME NEW c \in Conn, NextPage(c) \/ \E t \in Table : StartPages(c, t)
       PROVE  TypeInv' /\ Grow
  <2>1. st' = [st EXCEPT ![c] = Snapped(c)] /\ UNCHANGED <<disk, work, writer>>
    BY <1>12 DEF NextPage, StartPages
  <2>2. /\ Snapped(c) \in Object /\ Snapped(c).call = st[c].call /\ Snapped(c).open = st[c].open
        /\ Snapped(c).by = st[c].by /\ Snapped(c).seq = st[c].seq
    BY <1>0, <1>a, SnappedTyped DEF Object
  <2>3. left' \in Budget /\ SameLimits
    BY <1>0, <1>c, <1>12, LeftTyped DEF NextPage, StartPages
  <2> QED BY <1>0, <1>a, <1>b, <2>1, <2>2, <2>3
<1>13. ASSUME NEW c \in Conn, EndPages(c)
       PROVE  TypeInv' /\ Grow
  <2>1. UNCHANGED <<disk, work, writer, st, left>>
    BY <1>13 DEF EndPages
  <2> QED BY <1>0, <1>a, <1>c, <2>1 DEF TypeInv, Grow
<1> QED BY <1>1, <1>2, <1>3, <1>4, <1>5, <1>6, <1>7, <1>8, <1>9, <1>10, <1>11, <1>12, <1>13 DEF Next

-----------------------------------------------------------------------------
(***************************************************************************)
(* The lock.                                                               *)
(***************************************************************************)

\* Opening y is not concerned by a step of another one.
Aside(y) ==
  /\ st'[y].open = st[y].open /\ (~st[y].open => st'[y] = st[y])
  /\ st'[y].depth = st[y].depth /\ st'[y].started = st[y].started
  /\ st'[y].rollback_only = st[y].rollback_only /\ st'[y].ops = st[y].ops
  /\ st'[y].snap = st[y].snap /\ st'[y].call = st[y].call
  /\ st'[y].txn = "write" <=> st[y].txn = "write"
  /\ writer' = y <=> writer = y
  /\ writer = y => UNCHANGED <<work, disk>>

\* The lock is right after a step of opening c that leaves the others aside.
LEMMA LockFrame ==
    ASSUME StoreInv, NEW c \in Conn, Grow, LockOf(c)',
           \A y \in Conn \ {c} : Aside(y)
    PROVE  LockInv'
<1>1. \A y \in Conn : LockOf(y)'
  BY DEF StoreInv, LockInv, LockOf, Aside, Grow, SameLimits
<1>2. left'.shared = left.shared /\ \A y \in Conn : st'[y].open => st[y].open
  BY DEF Grow, SameLimits
<1> QED BY <1>1, <1>2 DEF StoreInv, LockInv, shared

\* A step of opening c that leaves the others alone.
LEMMA OthersAside ==
    ASSUME StoreInv, NEW c \in Conn, NEW mine, st' = [st EXCEPT ![c] = mine],
           writer \in {c, NoConn} \/ UNCHANGED <<work, writer, disk>>,
           writer' \in {c, NoConn} \/ UNCHANGED <<work, writer, disk>>
    PROVE  st'[c] = mine /\ \A y \in Conn \ {c} : Aside(y)
<1>1. st \in [Conn -> Object] /\ NoConn \notin Conn
  BY StoreAssumption DEF StoreInv, TypeInv
<1> QED BY <1>1 DEF Aside

\* What a closed object holds.
LEMMA ClosedShape ==
    /\ ~Closed.open /\ Closed.depth = 0 /\ ~Closed.started /\ ~Closed.rollback_only
    /\ Closed.txn = "none" /\ Closed.snap = EmptyTables /\ Closed.call = NoCall
    /\ Closed.ops = <<>>
BY DEF Closed

\* What _rollback_or_close() leaves of the lock.
LEMMA RolledBackLock ==
    ASSUME StoreInv, NEW c \in Conn, NEW mine \in Object, _rollback_or_close(c, mine),
           UNCHANGED disk, Grow, mine.open, mine.depth <= left.depth, ~mine.started,
           mine.ops = <<>>, ~mine.rollback_only, mine.call = NoCall, mine.snap = st[c].snap
    PROVE  /\ LockInv' /\ RowOf(c)' /\ st'[c].ops = <<>> /\ work' \in {work, EmptyTables}
           /\ \A y \in Conn \ {c} : Aside(y)
<1>0. NoConn \notin Conn /\ left.depth \in Nat /\ left'.depth = left.depth
  BY StoreAssumption DEF StoreInv, TypeInv, Budget, Grow, SameLimits
<1>1. /\ writer' # c
      /\ writer = c \/ UNCHANGED <<work, writer>>
      /\ writer = c => writer' = NoConn
  BY <1>0 DEF _rollback_or_close, GaveUp
<1>a. work' \in {work, EmptyTables}
  BY DEF _rollback_or_close, GaveUp
<1>2. CASE st' = [st EXCEPT ![c] = [mine EXCEPT !.txn = "none"]]
  <2> DEFINE new == [mine EXCEPT !.txn = "none"]
  <2>1. /\ new.open = mine.open /\ new.depth = mine.depth /\ new.started = mine.started
        /\ new.ops = mine.ops /\ new.rollback_only = mine.rollback_only
        /\ new.txn = "none" /\ new.call = mine.call /\ new.snap = mine.snap
    BY DEF Object
  <2>2. st' = [st EXCEPT ![c] = new]
    BY <1>2
  <2> HIDE DEF new
  <2>3. st'[c] = new /\ \A y \in Conn \ {c} : Aside(y)
    BY <1>1, <2>2, OthersAside
  <2>4. LockOf(c)'
    BY <1>0, <1>1, <2>1, <2>3 DEF LockOf
  <2>5. RowOf(c)'
    BY <2>1, <2>3 DEF StoreInv, RowInv, RowOf
  <2> QED BY <1>a, <2>1, <2>3, <2>4, <2>5, LockFrame
<1>3. CASE st' = [st EXCEPT ![c] = Closed]
  <2>1. st'[c] = Closed /\ \A y \in Conn \ {c} : Aside(y)
    BY <1>1, <1>3, OthersAside
  <2>2. LockOf(c)'
    BY <1>0, <1>1, <2>1, ClosedShape DEF LockOf
  <2>3. RowOf(c)'
    BY <2>1, ClosedShape, EmptyTablesTyped DEF RowOf
  <2> QED BY <1>a, <2>1, <2>2, <2>3, LockFrame, ClosedShape
<1> QED BY <1>2, <1>3 DEF _rollback_or_close

\* What a commit leaves of the lock.
LEMMA CommittedLock ==
    ASSUME StoreInv, NEW c \in Conn, NEW T \in Tables, NEW mine \in Object, NEW done,
           mine.call = NoCall, mine.by = st[c].by,
           \A t \in Table : mine.seq[t] >= st[c].seq[t], st[c].open,
           Committed(c, T, mine, done), Grow, writer \in {c, NoConn},
           mine.open, mine.depth = 0, ~mine.started, mine.txn = "none",
           mine.ops = <<>>, ~mine.rollback_only
    PROVE  LockInv' /\ st'[c] = mine /\ \A y \in Conn \ {c} : Aside(y)
<1>0. NoConn \notin Conn /\ left.depth \in Nat /\ left'.depth = left.depth /\ TypeInv
  BY StoreAssumption DEF StoreInv, TypeInv, Budget, Grow, SameLimits
<1>1. /\ st'[c] = mine /\ writer' = NoConn
      /\ \A y \in Conn \ {c} : /\ st'[y] = [st[y] EXCEPT !.txn = st'[y].txn]
                               /\ st'[y].txn = "write" <=> st[y].txn = "write"
  <2>1. writer' = NoConn
    BY DEF Committed
  <2> QED BY <1>0, <2>1, CommittedTyped
<1>2. LockOf(c)'
  BY <1>0, <1>1 DEF LockOf
<1>3. ASSUME NEW y \in Conn \ {c}
      PROVE  Aside(y)
  <2>1. st[y] \in Object
    BY DEF StoreInv, TypeInv
  <2>4. st'[y] = IF st[y].txn = "read" THEN [st[y] EXCEPT !.txn = "stale"] ELSE st[y]
    BY <1>3 DEF Committed
  <2>2. ~st[y].open => st'[y] = st[y]
    <3>1. ~st[y].open => st[y].txn = "none"
      BY ClosedShape DEF StoreInv, LockInv, LockOf
    <3> QED BY <2>4, <3>1
  <2>3. /\ st'[y].open = st[y].open /\ st'[y].depth = st[y].depth
        /\ st'[y].started = st[y].started /\ st'[y].ops = st[y].ops
        /\ st'[y].rollback_only = st[y].rollback_only
        /\ st'[y].snap = st[y].snap /\ st'[y].call = st[y].call
    BY <2>1, <2>4 DEF Object
  <2>5. writer # y /\ writer' # y
    BY <1>0, <1>1, <1>3
  <2>6. st'[y].txn = "write" <=> st[y].txn = "write"
    BY <1>1, <1>3
  <2> QED BY <2>2, <2>3, <2>5, <2>6 DEF Aside
<1> QED BY <1>1, <1>2, <1>3, LockFrame

-----------------------------------------------------------------------------
(***************************************************************************)
(* Identities.                                                             *)
(***************************************************************************)

\* An identity that was handed out stays so.
LEMMA SpentStays ==
    ASSUME StoreInv, Grow, TypeInv', NEW i, Spent(i)
    PROVE  Spent(i)'
<1>1. i \in Id /\ i[1] \in Nat /\ i[2] \in Nat /\ i[3] \in Table
  BY DEF Spent, Id
<1>2. i[1] > left'.opens
  BY DEF Spent, Grow, SameLimits
<1>3. ASSUME NEW x \in Conn, st'[x].open, st'[x].by = i[1]
      PROVE  i[2] <= st'[x].seq[i[3]]
  <2>1. st[x].open /\ st[x].by = i[1] /\ st'[x].seq[i[3]] >= st[x].seq[i[3]]
    BY <1>1, <1>3 DEF Grow
  <2>2. i[2] <= st[x].seq[i[3]]
    BY <2>1 DEF Spent
  <2>3. st'[x].seq[i[3]] \in Nat /\ st[x].seq[i[3]] \in Nat
    BY <1>1 DEF StoreInv, TypeInv, Object
  <2> QED BY <1>1, <2>1, <2>2, <2>3
<1> QED BY <1>1, <1>2, <1>3 DEF Spent

\* Which opening handed an identity out.
LEMMA OpeningsStay ==
    ASSUME StoreInv, Grow
    PROVE  /\ \A c \in Conn : st'[c].open => st'[c].by > left'.opens
           /\ \A c, x \in Conn : st'[c].open /\ st'[x].open /\ st'[c].by = st'[x].by => c = x
BY DEF StoreInv, IdInv, Grow, SameLimits

\* The next identity of opening c is fresh, and spent once it is handed out.
LEMMA NextIsFresh ==
    ASSUME StoreInv, NEW c \in Conn, st[c].open, NEW op \in Attempts(c), op.k = "put"
    PROVE  ~Spent(op.id) /\ op.id[2] = op.seq /\ op.id[3] = op.t /\ op.id \in Id
<1>1. op.seq = st[c].seq[op.t] + 1 /\ op.id = <<st[c].by, op.seq, op.t>> /\ Fits(op)
  BY AttemptsTyped DEF StoreInv
<1>2. op.t \in Table
  BY <1>1 DEF Fits, Op, PutOp, RowOp, ClearOp, CompleteOp, TransitionOp
<1>3. st[c].seq[op.t] \in Nat /\ st[c].by \in Nat
  BY <1>2 DEF StoreInv, TypeInv, Object
<1>4. op.id[1] = st[c].by /\ op.id[2] = op.seq /\ op.id[3] = op.t
  BY <1>1
<1>5. ~(op.id[2] <= st[c].seq[op.id[3]])
  BY <1>1, <1>3, <1>4
<1>6. op.id \in Id
  BY <1>1, <1>2, <1>3 DEF Id
<1> QED BY <1>4, <1>5, <1>6 DEF Spent

\* The identity that a put hands out is spent after it.
LEMMA NextIsSpent ==
    ASSUME StoreInv, Grow, TypeInv', NEW c \in Conn, st[c].open, NEW op \in Attempts(c),
           op.k = "put", st'[c].seq[op.t] >= op.seq
    PROVE  Spent(op.id)'
<1>1. op.seq = st[c].seq[op.t] + 1 /\ op.id = <<st[c].by, op.seq, op.t>> /\ Fits(op)
  BY AttemptsTyped DEF StoreInv
<1>2. op.id \in Id /\ op.id[1] = st[c].by /\ op.id[2] = op.seq /\ op.id[3] = op.t
  BY <1>1, NextIsFresh
<1>3. st[c].by > left'.opens
  BY DEF StoreInv, IdInv, Grow, SameLimits
<1>4. ASSUME NEW x \in Conn, st'[x].open, st'[x].by = op.id[1]
      PROVE  op.id[2] <= st'[x].seq[op.id[3]]
  <2>1. st[x].open /\ st[x].by = st[c].by
    BY <1>2, <1>4 DEF Grow
  <2>2. x = c
    BY <2>1 DEF StoreInv, IdInv
  <2>3. op.t \in Table /\ op.seq \in Nat
    BY <1>1, <1>2 DEF Fits, Op, PutOp, RowOp, ClearOp, CompleteOp, TransitionOp, Id
  <2>4. st'[c].seq[op.t] \in Nat
    BY <2>3 DEF TypeInv, Object
  <2> QED BY <1>2, <2>2, <2>3, <2>4
<1> QED BY <1>2, <1>3, <1>4 DEF Spent

\* Nobody has recorded a call unless it holds the lock.
LEMMA NoLockNoOps ==
    ASSUME StoreInv, NEW c \in Conn, writer # c
    PROVE  ToSet(st[c].ops) = {}
<1>1. st[c].ops = <<>>
  BY DEF StoreInv, LockInv, LockOf
<1> QED BY <1>1 DEF ToSet

\* A step that changes nothing on the disk, drops or starts a transaction, and
\* exposes no more than the outcomes of a failed lot.
LEMMA QuietStep ==
    ASSUME StoreInv, TypeInv', Grow, NEW c \in Conn, UNCHANGED <<disk, gone>>,
           \/ work' \in {work, EmptyTables}
           \/ writer \in {c, NoConn} /\ st[c].ops = <<>> /\ work' = disk,
           \A e \in told' : e \in told \/ (e.k = "complete" /\ e.lost),
           st'[c].ops \in {st[c].ops, <<>>},
           RowOf(c)', \A y \in Conn \ {c} : Aside(y)
    PROVE  RowInv' /\ IdInv'
<1>0. Sane(work') /\ Distinct(work') /\ Sane(disk') /\ Distinct(disk')
  <2>1. Sane(EmptyTables) /\ Distinct(EmptyTables)
    BY EmptyTablesTyped, IdsShape DEF Distinct
  <2>2. work' \in {work, EmptyTables, disk} /\ disk' = disk
    OBVIOUS
  <2> QED BY <2>1, <2>2 DEF StoreInv, RowInv, IdInv
<1>1. RowInv'
  <2>1. \A y \in Conn \ {c} : RowOf(y)'
    BY DEF StoreInv, RowInv, RowOf, Aside
  <2> QED BY <1>0, <2>1 DEF RowInv
<1>2. \A i \in Ids(disk') \cup Ids(work') : i \in Ids(disk) \cup Ids(work)
  BY EmptyTablesTyped
<1>3. \A i \in Ids(disk') \cup Ids(work') : Spent(i)'
  BY <1>2, SpentStays DEF StoreInv, IdInv
<1>4. ASSUME NEW x \in Conn, NEW e \in ToSet(st'[x].ops), e.op.k = "complete"
      PROVE  e.was \notin Ids(work') /\ Spent(e.was)'
  <2>1. e \in ToSet(st[x].ops)
    <3>1. st'[x].ops \in {st[x].ops, <<>>}
      BY DEF Aside
    <3>2. ToSet(<<>>) = {}
      BY DEF ToSet
    <3> QED BY <1>4, <3>1, <3>2
  <2>2. Spent(e.was) /\ e.was \notin Ids(work)
    BY <1>4, <2>1 DEF StoreInv, IdInv
  <2>3. work' \in {work, EmptyTables}
    <3>1. writer = x
      BY <2>1, NoLockNoOps
    <3>2. st[x].ops # <<>>
      BY <2>1 DEF ToSet
    <3>3. NoConn \notin Conn
      BY StoreAssumption
    <3> QED BY <3>1, <3>2, <3>3
  <2> QED BY <2>2, <2>3, SpentStays, EmptyTablesTyped
<1>5. ASSUME NEW e \in told', e.k = "complete", ~e.lost
      PROVE  e.id \notin Ids(disk') /\ e.id \notin Ids(work') /\ Spent(e.id)'
  <2>1. e \in told
    BY <1>5
  <2>2. e.id \notin Ids(disk) /\ e.id \notin Ids(work) /\ Spent(e.id)
    BY <1>5, <2>1 DEF StoreInv, IdInv
  <2> QED BY <1>2, <2>2, SpentStays
<1>6. \A e \in told' : e.k = "put" => e.id \in Ids(disk') \cup gone'
  BY DEF StoreInv, IdInv
<1> QED BY <1>0, <1>1, <1>3, <1>4, <1>5, <1>6, OpeningsStay DEF IdInv

-----------------------------------------------------------------------------
(***************************************************************************)
(* The steps that commit nothing.                                          *)
(***************************************************************************)
LEMMA ClosingStep ==
    ASSUME StoreInv, TypeInv', Grow, NEW c \in Conn, Close(c) \/ Crash(c)
    PROVE  StoreInv'
<1>1. /\ st' = [st EXCEPT ![c] = Closed] /\ GaveUp(c) /\ UNCHANGED <<disk, gone, told, left>>
  BY DEF Close, Crash
<1>0. NoConn \notin Conn /\ left'.depth \in Nat
  BY StoreAssumption DEF TypeInv, Budget
<1>2. work' \in {work, EmptyTables} /\ writer' # c
      /\ (UNCHANGED <<work, writer>> \/ (writer = c /\ writer' = NoConn))
  <2>1. GaveUp(c)
    BY <1>1
  <2> QED BY <1>0, <2>1 DEF GaveUp
<1>3. st'[c] = Closed /\ \A y \in Conn \ {c} : Aside(y)
  BY <1>1, <1>2, OthersAside
<1>4. LockOf(c)' /\ RowOf(c)' /\ st'[c].ops = <<>>
  BY <1>0, <1>2, <1>3, ClosedShape, EmptyTablesTyped DEF LockOf, RowOf
<1>5. LockInv'
  BY <1>3, <1>4, LockFrame
<1>6. RowInv' /\ IdInv'
  BY <1>1, <1>2, <1>3, <1>4, QuietStep
<1> QED BY <1>5, <1>6 DEF StoreInv

\* A step that leaves the tables and the lock alone, and of its object what
\* the lock is about.
LEMMA ReadingStep ==
    ASSUME StoreInv, TypeInv', Grow, NEW c \in Conn, NEW mine, st' = [st EXCEPT ![c] = mine],
           UNCHANGED <<disk, work, writer, told, gone>>,
           mine.open \/ mine = Closed, mine.depth <= left'.depth, mine.started = st[c].started,
           mine.ops = st[c].ops, mine.txn = "write" <=> st[c].txn = "write",
           mine.started => mine.depth > 0, mine.rollback_only => mine.depth > 0,
           RowOf(c)'
    PROVE  StoreInv'
<1>1. st'[c] = mine /\ \A y \in Conn \ {c} : Aside(y)
  BY OthersAside
<1>2. LockOf(c)'
  BY <1>1 DEF StoreInv, LockInv, LockOf
<1>3. LockInv'
  BY <1>1, <1>2, LockFrame
<1>4. RowInv' /\ IdInv'
  BY <1>1, QuietStep
<1> QED BY <1>3, <1>4 DEF StoreInv

\* What a SELECT reads is sane.
LEMMA ViewSane ==
    ASSUME StoreInv, NEW c \in Conn
    PROVE  Sane(View(c))
BY DEF View, StoreInv, RowInv, RowOf

\* So is what a read transaction has pinned.
LEMMA SnappedSane ==
    ASSUME StoreInv, NEW c \in Conn
    PROVE  Sane(Snapped(c).snap)
BY SnappedTyped DEF StoreInv, RowInv, RowOf

\* A conditional call reads its row.
LEMMA ReadRowStep ==
    ASSUME StoreInv, TypeInv', Grow, NEW c \in Conn, NEW t \in Table, NEW m \in MidOf[t],
           ReadRow(c, t, m)
    PROVE  StoreInv'
<1> DEFINE call == [t |-> t, m |-> m, row |-> View(c)[t][m]]
           x == Snapped(c)
           mine == [x EXCEPT !.call = call]
<1>1. /\ st' = [st EXCEPT ![c] = mine] /\ st[c].open
      /\ UNCHANGED <<disk, work, writer, told, gone, left>>
  BY DEF ReadRow, Calling
<1>2. /\ x \in Object /\ x.open = st[c].open
      /\ x.depth = st[c].depth /\ x.started = st[c].started
      /\ x.rollback_only = st[c].rollback_only /\ x.ops = st[c].ops
      /\ x.txn = "write" <=> st[c].txn = "write"
  BY SnappedTyped DEF StoreInv
<1>3. Sane(x.snap)
  BY SnappedSane
<1>4. call.row.id[2] = call.row.seq /\ call.row.id[3] = call.t
  BY ViewSane DEF ReadRow, Rows, Sane
<1> HIDE DEF x, call
<1>5. /\ mine.open /\ mine.depth = st[c].depth /\ mine.started = st[c].started
      /\ mine.rollback_only = st[c].rollback_only /\ mine.ops = st[c].ops
      /\ mine.txn = "write" <=> st[c].txn = "write"
      /\ mine.snap = x.snap /\ mine.call = call
  BY <1>1, <1>2 DEF Object
<1> HIDE DEF mine
<1>6. st'[c] = mine
  BY <1>1, OthersAside
<1>7. RowOf(c)'
  BY <1>3, <1>4, <1>5, <1>6 DEF RowOf
<1>8. /\ mine.depth <= left'.depth
      /\ mine.started => mine.depth > 0
      /\ mine.rollback_only => mine.depth > 0
  BY <1>1, <1>5 DEF StoreInv, LockInv, LockOf
<1> QED BY <1>1, <1>5, <1>7, <1>8, ReadingStep

\* The replay of pages writes nothing.
LEMMA PagesStep ==
    ASSUME StoreInv, TypeInv', Grow, NEW c \in Conn,
           NextPage(c) \/ EndPages(c) \/ \E t \in Table : StartPages(c, t)
    PROVE  StoreInv'
<1>0. /\ st[c] \in Object /\ st \in [Conn -> Object] /\ LockOf(c) /\ LockOf(c) /\ RowOf(c)
      /\ left'.depth = left.depth
  BY DEF StoreInv, TypeInv, LockInv, RowInv, Grow, SameLimits
<1>1. CASE EndPages(c)
  <2>1. UNCHANGED <<disk, work, writer, st, told, gone, left>>
    BY <1>1 DEF EndPages
  <2>2. st' = [st EXCEPT ![c] = st[c]] /\ RowOf(c)'
    BY <1>0, <2>1 DEF RowOf
  <2>3. /\ st[c].open \/ st[c] = Closed
        /\ st[c].depth <= left'.depth
        /\ st[c].started => st[c].depth > 0
        /\ st[c].rollback_only => st[c].depth > 0
    BY <1>0 DEF LockOf
  <2> QED BY <2>1, <2>2, <2>3, ReadingStep
<1>2. CASE NextPage(c) \/ \E t \in Table : StartPages(c, t)
  <2> DEFINE x == Snapped(c)
  <2>1. st' = [st EXCEPT ![c] = x] /\ UNCHANGED <<disk, work, writer, told, gone>>
    BY <1>2 DEF NextPage, StartPages
  <2>2. /\ x \in Object /\ x.open = st[c].open
        /\ x.depth = st[c].depth /\ x.started = st[c].started
        /\ x.rollback_only = st[c].rollback_only /\ x.ops = st[c].ops
        /\ x.txn = "write" <=> st[c].txn = "write"
        /\ x.call = st[c].call
    BY SnappedTyped DEF StoreInv
  <2>3. ~st[c].open => x = Closed
    BY <1>0, ClosedShape DEF Snapped, LockOf
  <2>4. Sane(x.snap) /\ st'[c] = x
    BY <2>1, SnappedSane, OthersAside
  <2> HIDE DEF x
  <2>5. /\ x.open \/ x = Closed
        /\ x.depth <= left'.depth
        /\ x.started => x.depth > 0
        /\ x.rollback_only => x.depth > 0
    BY <1>0, <2>2, <2>3 DEF LockOf
  <2>6. RowOf(c)'
    BY <1>0, <2>2, <2>4 DEF RowOf
  <2> QED BY <2>1, <2>2, <2>5, <2>6, ReadingStep
<1> QED BY <1>1, <1>2

\* A lot begins, or a nested part of one ends.
LEMMA BatchStep ==
    ASSUME StoreInv, TypeInv', Grow, NEW c \in Conn,
           Enter(c) \/ RaiseNested(c) \/ ExitNested(c)
    PROVE  StoreInv'
<1>0. /\ st[c] \in Object /\ st \in [Conn -> Object] /\ LockOf(c) /\ RowOf(c)
      /\ left'.depth = left.depth /\ left.depth \in Nat /\ st[c].depth \in Nat
  BY DEF StoreInv, TypeInv, LockInv, RowInv, Grow, SameLimits, Budget, Object
<1>1. /\ UNCHANGED <<disk, work, writer, told, gone>> /\ st[c].open
      /\ st[c].depth + 1 \in Nat
  <2>1. st[c].depth + 1 \in Nat
    BY <1>0
  <2>2. CASE Enter(c)
    BY <2>1, <2>2 DEF Enter
  <2>3. CASE RaiseNested(c)
    BY <2>1, <2>3 DEF RaiseNested, InBatch
  <2>4. CASE ExitNested(c)
    BY <2>1, <2>4 DEF ExitNested, InBatch
  <2> QED BY <2>2, <2>3, <2>4
<1>2. PICK d, r :
        /\ d \in Nat
        /\ st' = [st EXCEPT ![c] = [st[c] EXCEPT !.depth = d, !.rollback_only = r]]
        /\ d > 0 /\ d <= left.depth
  <2>1. CASE Enter(c)
    <3>1. st' = [st EXCEPT ![c] = [st[c] EXCEPT !.depth = st[c].depth + 1,
                   !.rollback_only = IF st[c].depth = 0 THEN FALSE ELSE st[c].rollback_only]]
      BY <1>0, <2>1 DEF Enter, Object
    <3>2. st[c].depth + 1 > 0 /\ st[c].depth + 1 <= left.depth
      BY <1>0, <2>1 DEF Enter
    <3> QED BY <1>1, <3>1, <3>2
  <2>2. CASE RaiseNested(c)
    <3>1. st' = [st EXCEPT ![c] = [st[c] EXCEPT !.depth = st[c].depth - 1, !.rollback_only = TRUE]]
      BY <1>0, <2>2 DEF RaiseNested, Object
    <3>2. st[c].depth - 1 > 0 /\ st[c].depth - 1 <= left.depth /\ st[c].depth - 1 \in Nat
      BY <1>0, <2>2 DEF RaiseNested, LockOf
    <3> QED BY <3>1, <3>2
  <2>3. CASE ExitNested(c)
    <3>1. st' = [st EXCEPT ![c] = [st[c] EXCEPT !.depth = st[c].depth - 1,
                                                !.rollback_only = st[c].rollback_only]]
      BY <1>0, <2>3 DEF ExitNested, Object
    <3>2. st[c].depth - 1 > 0 /\ st[c].depth - 1 <= left.depth /\ st[c].depth - 1 \in Nat
      BY <1>0, <2>3 DEF ExitNested, LockOf
    <3> QED BY <3>1, <3>2
  <2> QED BY <2>1, <2>2, <2>3
<1> DEFINE mine == [st[c] EXCEPT !.depth = d, !.rollback_only = r]
<1>3. /\ mine.open = st[c].open /\ mine.depth = d /\ mine.started = st[c].started
      /\ mine.ops = st[c].ops /\ mine.txn = st[c].txn /\ mine.call = st[c].call
      /\ mine.snap = st[c].snap
  BY <1>0 DEF Object
<1>4. st' = [st EXCEPT ![c] = mine]
  BY <1>2
<1> HIDE DEF mine
<1>5. st'[c] = mine
  BY <1>1, <1>4, OthersAside
<1>6. RowOf(c)'
  BY <1>0, <1>3, <1>5 DEF RowOf
<1>7. mine.depth <= left'.depth /\ mine.depth > 0
  BY <1>0, <1>2, <1>3
<1> QED BY <1>1, <1>3, <1>4, <1>6, <1>7, ReadingStep

\* A call that finds the database locked changes nothing.
LEMMA WriteBlockedStep ==
    ASSUME StoreInv, TypeInv', Grow, NEW c \in Conn, WriteBlocked(c)
    PROVE  StoreInv'
<1>0. /\ st[c] \in Object /\ LockOf(c) /\ RowOf(c) /\ left'.depth = left.depth
      /\ st[c].open /\ UNCHANGED <<disk, work, writer, told, gone>>
  BY DEF StoreInv, TypeInv, LockInv, RowInv, Grow, SameLimits, WriteBlocked, Calling
<1> DEFINE mine(op) ==
      IF st[c].depth > 0 THEN [st[c] EXCEPT !.call = NoCall]
      ELSE [Called(c, op) EXCEPT !.txn = IF @ = "none" THEN "idle" ELSE @]
<1>1. PICK op \in Attempts(c) : st' = [st EXCEPT ![c] = mine(op)]
  BY DEF WriteBlocked
<1>2. /\ mine(op).open = st[c].open /\ mine(op).depth = st[c].depth
      /\ mine(op).started = st[c].started /\ mine(op).rollback_only = st[c].rollback_only
      /\ mine(op).ops = st[c].ops
      /\ mine(op).txn = "write" <=> st[c].txn = "write"
      /\ mine(op).call = NoCall /\ mine(op).snap = st[c].snap
  <2>1. CASE st[c].depth > 0
    <3>1. mine(op) = [st[c] EXCEPT !.call = NoCall]
      BY <2>1
    <3> HIDE DEF mine
    <3> QED BY <1>0, <3>1 DEF Object
  <2>2. CASE ~(st[c].depth > 0)
    <3> DEFINE x == Called(c, op)
               y == IF x.txn = "none" THEN "idle" ELSE x.txn
    <3>1. mine(op) = [x EXCEPT !.txn = y]
      BY <2>2
    <3>2. /\ x \in Object /\ x.open = st[c].open /\ x.depth = st[c].depth
          /\ x.started = st[c].started /\ x.rollback_only = st[c].rollback_only
          /\ x.ops = st[c].ops /\ x.txn = st[c].txn /\ x.call = NoCall /\ x.snap = st[c].snap
      BY CalledShape DEF StoreInv
    <3>3. y = "write" <=> st[c].txn = "write"
      BY <3>2
    <3> HIDE DEF mine, x, y
    <3> QED BY <3>1, <3>2, <3>3 DEF Object
  <2> QED BY <2>1, <2>2
<1> HIDE DEF mine
<1>3. st'[c] = mine(op)
  BY <1>0, <1>1, OthersAside
<1>4. RowOf(c)'
  BY <1>0, <1>2, <1>3 DEF RowOf
<1>5. /\ mine(op).depth <= left'.depth
      /\ mine(op).started => mine(op).depth > 0
      /\ mine(op).rollback_only => mine(op).depth > 0
  BY <1>0, <1>2 DEF LockOf
<1> QED BY <1>0, <1>1, <1>2, <1>4, <1>5, ReadingStep

\* A statement that raises is rolled back.
LEMMA WriteFailsStep ==
    ASSUME StoreInv, TypeInv', Grow, NEW c \in Conn, WriteFails(c)
    PROVE  StoreInv'
<1>0. /\ st[c] \in Object /\ LockOf(c) /\ RowOf(c) /\ left'.depth = left.depth
      /\ st[c].open /\ UNCHANGED <<disk, told, gone>> /\ writer' = c
      /\ work' = IF writer = c THEN work ELSE disk
      /\ writer \in {c, NoConn}
  BY DEF StoreInv, TypeInv, LockInv, RowInv, Grow, SameLimits, WriteFails, Calling, CanWrite
<1> DEFINE b == st[c].depth > 0
           mine(op) == [Called(c, op) EXCEPT !.txn = "write", !.started = b]
<1>1. PICK op \in Attempts(c) : st' = [st EXCEPT ![c] = mine(op)]
  BY DEF WriteFails
<1>2. /\ mine(op).open = st[c].open /\ mine(op).depth = st[c].depth
      /\ mine(op).started = b /\ mine(op).rollback_only = st[c].rollback_only
      /\ mine(op).ops = st[c].ops /\ mine(op).txn = "write"
      /\ mine(op).call = NoCall /\ mine(op).snap = st[c].snap
  <2> DEFINE x == Called(c, op)
  <2>1. /\ x \in Object /\ x.open = st[c].open /\ x.depth = st[c].depth
        /\ x.started = st[c].started /\ x.rollback_only = st[c].rollback_only
        /\ x.ops = st[c].ops /\ x.txn = st[c].txn /\ x.call = NoCall /\ x.snap = st[c].snap
    BY CalledShape DEF StoreInv
  <2>2. mine(op) = [x EXCEPT !.txn = "write", !.started = b]
    OBVIOUS
  <2> HIDE DEF mine, x, b
  <2> QED BY <2>1, <2>2 DEF Object
<1> HIDE DEF mine
<1>3. st'[c] = mine(op) /\ \A y \in Conn \ {c} : Aside(y)
  BY <1>0, <1>1, OthersAside
<1>4. LockOf(c)'
  BY <1>0, <1>2, <1>3 DEF LockOf
<1>5. RowOf(c)' /\ st'[c].ops = st[c].ops
  BY <1>0, <1>2, <1>3 DEF RowOf
<1>6. work' = work \/ (st[c].ops = <<>> /\ work' = disk)
  BY <1>0 DEF LockOf
<1>7. RowInv' /\ IdInv'
  BY <1>0, <1>3, <1>5, <1>6, QuietStep
<1> QED BY <1>3, <1>4, <1>7, LockFrame DEF StoreInv

\* So is a lone call whose commit fails.
LEMMA CommitAloneFailsStep ==
    ASSUME StoreInv, TypeInv', Grow, NEW c \in Conn, CommitAloneFails(c)
    PROVE  StoreInv'
<1>0. /\ st[c] \in Object /\ LockOf(c) /\ left.depth \in Nat
      /\ st[c].open /\ st[c].depth = 0 /\ UNCHANGED <<disk, told, gone>>
  BY DEF StoreInv, TypeInv, LockInv, Budget, CommitAloneFails, Calling
<1>1. PICK op \in Attempts(c) : _rollback_or_close(c, Called(c, op))
  BY DEF CommitAloneFails
<1>2. /\ Called(c, op) \in Object /\ Called(c, op).call = NoCall
      /\ Called(c, op).open = st[c].open /\ Called(c, op).depth = st[c].depth
      /\ Called(c, op).started = st[c].started
      /\ Called(c, op).rollback_only = st[c].rollback_only
      /\ Called(c, op).ops = st[c].ops /\ Called(c, op).snap = st[c].snap
  BY CalledShape DEF StoreInv
<1>3. /\ ~st[c].started /\ st[c].ops = <<>> /\ ~st[c].rollback_only
      /\ st[c].depth <= left.depth
  BY <1>0 DEF LockOf
<1>4. /\ LockInv' /\ RowOf(c)' /\ st'[c].ops = <<>> /\ work' \in {work, EmptyTables}
      /\ \A y \in Conn \ {c} : Aside(y)
  BY <1>0, <1>1, <1>2, <1>3, RolledBackLock
<1>5. RowInv' /\ IdInv'
  BY <1>0, <1>4, QuietStep
<1> QED BY <1>4, <1>5 DEF StoreInv

\* So is a lot that fails, with the outcomes the reader keeps.
LEMMA LotFailsStep ==
    ASSUME StoreInv, TypeInv', Grow, NEW c \in Conn, InBatch(c), LotFails(c)
    PROVE  StoreInv'
<1>0. /\ st[c] \in Object /\ LockOf(c) /\ RowOf(c) /\ left.depth \in Nat
      /\ left'.depth = left.depth /\ st[c].call = NoCall /\ st[c].open
      /\ UNCHANGED <<disk, gone>>
  BY DEF StoreInv, TypeInv, LockInv, RowInv, Budget, Grow, SameLimits, InBatch, LotFails
<1> DEFINE mine == [Left(c) EXCEPT !.latched = TRUE]
<1>1. /\ mine \in Object /\ mine.call = NoCall /\ mine.open = st[c].open
      /\ mine.txn = st[c].txn /\ mine.snap = st[c].snap /\ mine.depth = 0 /\ ~mine.started
      /\ ~mine.rollback_only /\ mine.ops = <<>>
  BY <1>0, LeftShape DEF StoreInv
<1>a. mine.depth <= left.depth /\ mine.depth <= left'.depth
  BY <1>0, <1>1
<1>2. \A e \in told' : e \in told \/ (e.k = "complete" /\ e.lost)
  BY DEF LotFails, Effects, kept
<1>3. CASE st[c].started
  <2>1. _rollback_or_close(c, mine)
    BY <1>3 DEF LotFails
  <2> HIDE DEF mine
  <2>2. /\ LockInv' /\ RowOf(c)' /\ st'[c].ops = <<>> /\ work' \in {work, EmptyTables}
        /\ \A y \in Conn \ {c} : Aside(y)
    BY <1>0, <1>1, <1>a, <2>1, RolledBackLock
  <2>3. RowInv' /\ IdInv'
    BY <1>0, <1>2, <2>2, QuietStep
  <2> QED BY <2>2, <2>3 DEF StoreInv
<1>4. CASE ~st[c].started
  <2>1. st' = [st EXCEPT ![c] = mine] /\ UNCHANGED <<writer, work>>
    BY <1>4 DEF LotFails
  <2> HIDE DEF mine
  <2>2. st'[c] = mine /\ \A y \in Conn \ {c} : Aside(y)
    BY <1>0, <2>1, OthersAside
  <2>3. LockOf(c)'
    BY <1>0, <1>1, <1>a, <1>4, <2>1, <2>2 DEF LockOf
  <2>4. RowOf(c)' /\ st'[c].ops = <<>>
    BY <1>0, <1>1, <2>2 DEF RowOf
  <2>5. RowInv' /\ IdInv'
    BY <1>0, <1>2, <2>1, <2>2, <2>4, QuietStep
  <2> QED BY <2>2, <2>3, <2>5, LockFrame DEF StoreInv
<1> QED BY <1>3, <1>4

-----------------------------------------------------------------------------
(***************************************************************************)
(* Openings, statements and commits.                                       *)
(***************************************************************************)
LEMMA OpenStep ==
    ASSUME StoreInv, TypeInv', NEW c \in Conn, Open(c)
    PROVE  StoreInv'
<1>1. /\ ~st[c].open /\ left.opens > 0
      /\ shared \/ \A x \in Conn : ~st[x].open
      /\ st' = [st EXCEPT ![c] = Opened(c)]
      /\ UNCHANGED <<disk, writer, work, told, gone>>
  BY DEF Open
<1>2. /\ left'.opens = left.opens - 1 /\ left'.shared = left.shared
      /\ left'.depth = left.depth /\ left.opens \in Nat /\ left.depth \in Nat
  BY LeftTyped DEF Open, StoreInv, TypeInv, Budget
<1>3. /\ Opened(c).open /\ Opened(c).by = left.opens /\ Opened(c).depth = 0
      /\ ~Opened(c).started /\ ~Opened(c).rollback_only /\ Opened(c).txn = "none"
      /\ Opened(c).snap = EmptyTables /\ Opened(c).call = NoCall /\ Opened(c).ops = <<>>
  BY DEF Opened, Closed
<1>4. st'[c] = Opened(c) /\ \A y \in Conn \ {c} : st'[y] = st[y]
  BY <1>1 DEF StoreInv, TypeInv
<1>5. writer # c
  BY <1>1, ClosedShape DEF StoreInv, LockInv, LockOf
<1>6. LockInv'
  <2>1. LockOf(c)'
    BY <1>1, <1>2, <1>3, <1>4, <1>5 DEF LockOf
  <2>2. \A y \in Conn \ {c} : LockOf(y)'
    BY <1>1, <1>2, <1>4 DEF LockOf, StoreInv, LockInv
  <2>3. ~shared' => \A x, y \in Conn : st'[x].open /\ st'[y].open => x = y
    BY <1>1, <1>2, <1>4 DEF shared
  <2> QED BY <2>1, <2>2, <2>3 DEF LockInv
<1>7. RowInv'
  <2>1. RowOf(c)'
    BY <1>3, <1>4, EmptyTablesTyped DEF RowOf
  <2>2. \A y \in Conn \ {c} : RowOf(y)'
    BY <1>4 DEF RowOf, StoreInv, RowInv
  <2> QED BY <1>1, <2>1, <2>2 DEF RowInv, StoreInv
<1>8. ASSUME NEW i, Spent(i)
      PROVE  Spent(i)'
  <2>1. i \in Id /\ i[1] \in Nat /\ i[1] > left.opens
    BY <1>8 DEF Spent, Id
  <2>2. \A x \in Conn : st'[x].open /\ st'[x].by = i[1] => i[2] <= st'[x].seq[i[3]]
    <3>1. Opened(c).by # i[1]
      BY <1>2, <1>3, <2>1
    <3> QED BY <1>4, <1>8, <3>1 DEF Spent
  <2> QED BY <1>2, <2>1, <2>2 DEF Spent
<1>9. IdInv'
  <2>1. \A x \in Conn : st'[x].open => st'[x].by > left'.opens
    <3>1. \A x \in Conn : st[x].by \in Nat
      BY DEF StoreInv, TypeInv, Object
    <3> QED BY <1>2, <1>3, <1>4, <3>1 DEF StoreInv, IdInv
  <2>2. \A x, y \in Conn : st'[x].open /\ st'[y].open /\ st'[x].by = st'[y].by => x = y
    <3>1. \A x \in Conn \ {c} : st'[x].open => st'[x].by # st'[c].by
      BY <1>2, <1>3, <1>4 DEF StoreInv, IdInv
    <3> QED BY <1>4, <3>1 DEF StoreInv, IdInv
  <2>3. \A x \in Conn : \A e \in ToSet(st'[x].ops) : e \in ToSet(st[x].ops)
    <3>1. ToSet(<<>>) = {}
      BY DEF ToSet
    <3> QED BY <1>3, <1>4, <3>1
  <2> QED BY <1>1, <1>8, <2>1, <2>2, <2>3 DEF StoreInv, IdInv
<1> QED BY <1>6, <1>7, <1>9 DEF StoreInv

\* What a commit makes durable, and what is exposed with it.
LEMMA CommitStep ==
    ASSUME StoreInv, TypeInv', Grow, NEW c \in Conn, NEW T \in Tables, NEW mine, NEW done,
           Committed(c, T, mine, done), Sane(T), Distinct(T),
           \A i \in Ids(T) : Spent(i)',
           told' = told \cup Effects(ToSet(done), FALSE),
           \A e \in ToSet(done) : e.op.k = "complete" => e.was \notin Ids(T) /\ Spent(e.was)',
           \A e \in told : e.k = "complete" /\ ~e.lost => e.id \notin Ids(T),
           \A x \in Conn : st'[x].ops = <<>>,
           RowOf(c)', \A y \in Conn \ {c} : Aside(y)
    PROVE  RowInv' /\ IdInv'
<1>1. /\ disk' = T /\ work' = EmptyTables
      /\ gone' = gone \cup ((Ids(disk) \cup {done[i].was : i \in DOMAIN done}) \ Ids(T))
  BY DEF Committed
<1>2. RowInv'
  <2>1. \A y \in Conn \ {c} : RowOf(y)'
    BY DEF StoreInv, RowInv, RowOf, Aside
  <2> QED BY <1>1, <2>1, EmptyTablesTyped DEF RowInv
<1>3. Distinct(EmptyTables) /\ Ids(EmptyTables) = {}
  BY EmptyTablesTyped, IdsShape DEF Distinct
<1>4. ASSUME NEW e \in told', e.k = "complete", ~e.lost
      PROVE  e.id \notin Ids(T) /\ Spent(e.id)'
  <2>1. CASE e \in told
    <3>1. Spent(e.id)
      BY <1>4, <2>1 DEF StoreInv, IdInv
    <3> QED BY <1>4, <2>1, <3>1, SpentStays
  <2>2. CASE e \in Effects(ToSet(done), FALSE)
    BY <1>4, <2>2 DEF Effects
  <2> QED BY <2>1, <2>2
<1>5. ASSUME NEW e \in told', e.k = "put"
      PROVE  e.id \in Ids(T) \cup gone'
  <2>1. CASE e \in told
    BY <1>1, <1>5, <2>1 DEF StoreInv, IdInv
  <2>2. CASE e \in Effects(ToSet(done), FALSE)
    <3>1. PICK x \in ToSet(done) : e.id = x.was
      BY <2>2 DEF Effects
    <3>2. e.id \in {done[i].was : i \in DOMAIN done}
      BY <3>1 DEF ToSet
    <3> QED BY <1>1, <3>2
  <2> QED BY <2>1, <2>2
<1>6. ToSet(<<>>) = {}
  BY DEF ToSet
<1> QED BY <1>1, <1>2, <1>3, <1>4, <1>5, <1>6, OpeningsStay DEF IdInv

\* One statement on the tables that opening c sees.
LEMMA StatementStep ==
    ASSUME StoreInv, TypeInv', Grow, NEW c \in Conn, st[c].open, NEW op \in Attempts(c),
           NEW T \in {disk, work},
           op.k = "put" => st'[c].seq[op.t] = op.seq
    PROVE  /\ Exec(op, T) \in Tables /\ Sane(Exec(op, T)) /\ Distinct(Exec(op, T))
           /\ \A i \in Ids(Exec(op, T)) : Spent(i)'
           /\ \A i \in Ids(Exec(op, T)) : i \in Ids(T) \/ ~Spent(i)
           /\ op.k = "put" => Was(op, T) \in Ids(Exec(op, T))
           /\ op.k = "complete" /\ Changes(op, T) =>
                Was(op, T) \notin Ids(Exec(op, T)) /\ Spent(Was(op, T))'
<1>1. T \in Tables /\ Sane(T) /\ Distinct(T) /\ \A i \in Ids(T) : Spent(i)
  BY DEF StoreInv, TypeInv, RowInv, IdInv
<1>2. Fits(op)
  BY AttemptsTyped DEF StoreInv
<1>3. op.k = "put" => ~Spent(op.id) /\ op.id[2] = op.seq /\ op.id[3] = op.t
  BY NextIsFresh
<1>4. op.k = "put" => Spent(op.id)'
  <2> SUFFICES ASSUME op.k = "put"
               PROVE  Spent(op.id)'
    OBVIOUS
  <2>1. op.t \in Table
    BY <1>2 DEF Fits, Op, PutOp, RowOp, ClearOp, CompleteOp, TransitionOp
  <2>2. st'[c].seq[op.t] \in Nat
    BY <2>1 DEF TypeInv, Object
  <2>3. st'[c].seq[op.t] >= op.seq
    BY <2>2
  <2> QED BY <2>3, NextIsSpent
<1>5. Exec(op, T) \in Tables /\ Sane(Exec(op, T)) /\ Distinct(Exec(op, T))
  BY <1>1, <1>2, <1>3, ExecEffect, ExecKeeps
<1>6. /\ \A i \in Ids(Exec(op, T)) : i \in Ids(T) \/ (op.k = "put" /\ i = op.id)
      /\ op.k = "put" => Was(op, T) \in Ids(Exec(op, T))
  BY <1>1, <1>2, ExecIds
<1>7. op.k = "complete" /\ Changes(op, T) =>
        Was(op, T) \in Ids(T) /\ Was(op, T) \notin Ids(Exec(op, T))
  BY <1>1, <1>2, CompleteRemoves
<1>8. \A i \in Ids(T) : Spent(i)'
  BY <1>1, SpentStays
<1> QED BY <1>3, <1>4, <1>5, <1>6, <1>7, <1>8

\* A lone call is on the disk when it returns.
LEMMA WriteAloneStep ==
    ASSUME StoreInv, TypeInv', Grow, NEW c \in Conn, WriteAlone(c)
    PROVE  StoreInv'
<1> DEFINE U == IF writer = c THEN work ELSE disk
<1>0. /\ st[c] \in Object /\ LockOf(c) /\ RowOf(c) /\ st[c].open /\ st[c].depth = 0
      /\ writer \in {c, NoConn} /\ NoConn \notin Conn
  BY StoreAssumption
  DEF StoreInv, TypeInv, LockInv, RowInv, WriteAlone, Calling, CanWrite
<1>1. ~st[c].started /\ st[c].ops = <<>> /\ ~st[c].rollback_only /\ U = disk
  BY <1>0 DEF LockOf
<1>b. PICK D : D = disk
  OBVIOUS
<1>2. PICK op \in Attempts(c) :
        /\ Committed(c, Exec(op, D), [Called(c, op) EXCEPT !.txn = "none"],
                     Recorded(<<>>, op, D))
        /\ told' = told \cup Effects(ToSet(Recorded(<<>>, op, D)), FALSE)
  <2>1. PICK op \in Attempts(c) :
          /\ Committed(c, Exec(op, U), [Called(c, op) EXCEPT !.txn = "none"],
                       Recorded(<<>>, op, U))
          /\ told' = told \cup Effects(ToSet(Recorded(<<>>, op, U)), FALSE)
    BY DEF WriteAlone
  <2> QED BY <1>1, <1>b, <2>1
<1> HIDE DEF U
<1> DEFINE x == Called(c, op)
           mine == [x EXCEPT !.txn = "none"]
           T == Exec(op, D)
           done == Recorded(<<>>, op, D)
<1>3. /\ x \in Object /\ x.open = st[c].open /\ x.depth = st[c].depth
      /\ x.started = st[c].started /\ x.rollback_only = st[c].rollback_only
      /\ x.ops = st[c].ops /\ x.call = NoCall /\ x.snap = st[c].snap /\ x.by = st[c].by
      /\ \A t \in Table : x.seq[t] >= st[c].seq[t]
      /\ op.k = "put" => x.seq[op.t] = op.seq
  BY CalledShape DEF StoreInv
<1>4. Fits(op) /\ D \in Tables
  BY <1>b, AttemptsTyped DEF StoreInv, TypeInv
<1>5. \A e \in ToSet(done) : Changes(op, D) /\ e = [op |-> op, was |-> Was(op, D)]
  <2>1. <<>> \in Seq([op: Op, was: Id \cup {NoRow.id}]) /\ ToSet(<<>>) = {}
    BY DEF ToSet
  <2> QED BY <1>4, <2>1, RecordedShape
<1>6. Committed(c, T, mine, done) /\ told' = told \cup Effects(ToSet(done), FALSE)
  BY <1>2
<1>a. T \in Tables
  BY <1>4, ExecEffect
<1> HIDE DEF x, T, done
<1>7. /\ mine \in Object /\ mine.open = x.open /\ mine.depth = x.depth
      /\ mine.started = x.started /\ mine.rollback_only = x.rollback_only
      /\ mine.ops = x.ops /\ mine.call = x.call /\ mine.snap = x.snap /\ mine.by = x.by
      /\ mine.seq = x.seq /\ mine.txn = "none"
  BY <1>3 DEF Object
<1> HIDE DEF mine
<1>8. LockInv' /\ st'[c] = mine /\ \A y \in Conn \ {c} : Aside(y)
  BY <1>0, <1>1, <1>3, <1>6, <1>7, <1>a, CommittedLock
<1>9. /\ Sane(T) /\ Distinct(T)
      /\ \A i \in Ids(T) : Spent(i)'
      /\ \A i \in Ids(T) : i \in Ids(D) \/ ~Spent(i)
      /\ op.k = "complete" /\ Changes(op, D) =>
           Was(op, D) \notin Ids(T) /\ Spent(Was(op, D))'
  <2>1. op.k = "put" => st'[c].seq[op.t] = op.seq
    BY <1>3, <1>7, <1>8
  <2>2. D \in {disk, work}
    BY <1>b
  <2> QED BY <1>0, <2>1, <2>2, StatementStep DEF T
<1>10. \A y \in Conn : st'[y].ops = <<>>
  <2>1. \A y \in Conn \ {c} : st[y].ops = <<>>
    BY <1>0 DEF StoreInv, LockInv, LockOf
  <2> QED BY <1>1, <1>3, <1>7, <1>8, <2>1 DEF Aside
<1>11. RowOf(c)'
  BY <1>0, <1>3, <1>7, <1>8 DEF RowOf
<1>12. \A e \in ToSet(done) : e.op.k = "complete" => e.was \notin Ids(T) /\ Spent(e.was)'
  BY <1>5, <1>9
<1>13. \A e \in told : e.k = "complete" /\ ~e.lost => e.id \notin Ids(T)
  BY <1>b, <1>9 DEF StoreInv, IdInv
<1>14. RowInv' /\ IdInv'
  BY <1>6, <1>8, <1>9, <1>10, <1>11, <1>12, <1>13, <1>a, CommitStep
<1> QED BY <1>8, <1>14 DEF StoreInv

\* A lot is on the disk when it ends.
LEMMA ExitCommitsStep ==
    ASSUME StoreInv, TypeInv', Grow, NEW c \in Conn, ExitCommits(c)
    PROVE  StoreInv'
<1>0. /\ st[c] \in Object /\ LockOf(c) /\ RowOf(c) /\ st[c].open /\ st[c].call = NoCall
      /\ NoConn \notin Conn /\ left'.depth \in Nat
  BY StoreAssumption
  DEF StoreInv, TypeInv, LockInv, RowInv, ExitCommits, InBatch, Budget
<1>1. told' = told \cup Effects(ToSet(st[c].ops), FALSE)
  BY DEF ExitCommits
<1> DEFINE x == Left(c)
<1>2. /\ x \in Object /\ x.call = NoCall /\ x.open = st[c].open
      /\ x.by = st[c].by /\ x.seq = st[c].seq /\ x.txn = st[c].txn
      /\ x.snap = st[c].snap /\ x.depth = 0 /\ ~x.started
      /\ ~x.rollback_only /\ x.ops = <<>>
  BY <1>0, LeftShape DEF StoreInv
<1>3. CASE ~st[c].started
  <2>1. st' = [st EXCEPT ![c] = x] /\ UNCHANGED <<disk, gone, writer, work>>
    BY <1>3 DEF ExitCommits
  <2>2. st[c].ops = <<>>
    BY <1>0, <1>3 DEF LockOf
  <2>3. told' = told
    <3>1. ToSet(<<>>) = {}
      BY DEF ToSet
    <3> QED BY <1>1, <2>2, <3>1 DEF Effects
  <2> HIDE DEF x
  <2>4. st'[c] = x
    BY <2>1, OthersAside
  <2>5. RowOf(c)'
    BY <1>0, <1>2, <2>4 DEF RowOf
  <2>6. x.depth <= left'.depth
    BY <1>0, <1>2
  <2>7. UNCHANGED <<disk, work, writer, told, gone>> /\ x.started = st[c].started
    BY <1>0, <1>2, <1>3, <2>1, <2>3 DEF Object
  <2> QED BY <1>0, <1>2, <2>1, <2>2, <2>5, <2>6, <2>7, ReadingStep
<1>4. CASE st[c].started
  <2> DEFINE mine == [x EXCEPT !.txn = "none"]
  <2>1. Committed(c, work, mine, st[c].ops)
    BY <1>4 DEF ExitCommits
  <2>2. writer = c /\ work \in Tables /\ \A t \in Table : x.seq[t] >= st[c].seq[t]
    <3>1. \A t \in Table : st[c].seq[t] \in Nat
      BY <1>0 DEF Object
    <3> QED BY <1>0, <1>2, <1>4, <3>1 DEF LockOf, StoreInv, TypeInv
  <2> HIDE DEF x
  <2>3. /\ mine \in Object /\ mine.open = x.open /\ mine.depth = x.depth
        /\ mine.started = x.started /\ mine.rollback_only = x.rollback_only
        /\ mine.ops = x.ops /\ mine.call = x.call /\ mine.snap = x.snap /\ mine.by = x.by
        /\ mine.seq = x.seq /\ mine.txn = "none"
    BY <1>2 DEF Object
  <2> HIDE DEF mine
  <2>4. LockInv' /\ st'[c] = mine /\ \A y \in Conn \ {c} : Aside(y)
    BY <1>0, <1>2, <2>1, <2>2, <2>3, CommittedLock
  <2>5. /\ Sane(work) /\ Distinct(work) /\ \A i \in Ids(work) : Spent(i)
        /\ \A e \in ToSet(st[c].ops) :
             e.op.k = "complete" => e.was \notin Ids(work) /\ Spent(e.was)
        /\ \A e \in told : e.k = "complete" /\ ~e.lost => e.id \notin Ids(work)
    BY DEF StoreInv, RowInv, IdInv
  <2>6. /\ \A i \in Ids(work) : Spent(i)'
        /\ \A e \in ToSet(st[c].ops) : e.op.k = "complete" => Spent(e.was)'
    BY <2>5, SpentStays
  <2>7. \A y \in Conn : st'[y].ops = <<>>
    <3>1. \A y \in Conn \ {c} : st[y].ops = <<>>
      BY <2>2 DEF StoreInv, LockInv, LockOf
    <3> QED BY <1>2, <2>3, <2>4, <3>1 DEF Aside
  <2>8. RowOf(c)'
    BY <1>0, <1>2, <2>3, <2>4 DEF RowOf
  <2>9. RowInv' /\ IdInv'
    BY <1>1, <2>1, <2>2, <2>4, <2>5, <2>6, <2>7, <2>8, CommitStep
  <2> QED BY <2>4, <2>9 DEF StoreInv
<1> QED BY <1>3, <1>4

\* A call of a lot changes the transaction only.
LEMMA WriteInBatchStep ==
    ASSUME StoreInv, TypeInv', Grow, NEW c \in Conn, WriteInBatch(c)
    PROVE  StoreInv'
<1>a. PICK T : T = IF writer = c THEN work ELSE disk
  OBVIOUS
<1>0. /\ st[c] \in Object /\ LockOf(c) /\ RowOf(c) /\ st[c].open /\ st[c].depth > 0
      /\ writer \in {c, NoConn} /\ NoConn \notin Conn /\ left'.depth = left.depth
      /\ UNCHANGED <<disk, told, gone>> /\ writer' = c
  BY StoreAssumption
  DEF StoreInv, TypeInv, LockInv, RowInv, WriteInBatch, Calling, CanWrite, Grow, SameLimits
<1> DEFINE x(op) == Called(c, op)
           r(op) == Recorded(x(op).ops, op, T)
           mine(op) == [x(op) EXCEPT !.started = TRUE, !.txn = "write", !.ops = r(op)]
<1>1. PICK op \in Attempts(c) : work' = Exec(op, T) /\ st' = [st EXCEPT ![c] = mine(op)]
  BY <1>a DEF WriteInBatch
<1>2. /\ x(op) \in Object /\ x(op).open = st[c].open /\ x(op).depth = st[c].depth
      /\ x(op).rollback_only = st[c].rollback_only
      /\ x(op).ops = st[c].ops /\ x(op).call = NoCall /\ x(op).snap = st[c].snap
      /\ op.k = "put" => x(op).seq[op.t] = op.seq
  BY CalledShape DEF StoreInv
<1>3. T \in {disk, work} /\ (st[c].ops # <<>> => T = work)
  BY <1>0, <1>a DEF LockOf
<1>4. \A e \in ToSet(r(op)) :
        e \in ToSet(st[c].ops) \/ (Changes(op, T) /\ e = [op |-> op, was |-> Was(op, T)])
  <2>1. /\ T \in Tables /\ Fits(op)
        /\ x(op).ops \in Seq([op: Op, was: Id \cup {NoRow.id}])
    BY <1>2, <1>3, AttemptsTyped DEF StoreInv, TypeInv, Object
  <2> HIDE DEF x
  <2> QED BY <1>2, <2>1, RecordedShape
<1> HIDE DEF x, r
<1>5. /\ mine(op).open = x(op).open /\ mine(op).depth = x(op).depth
      /\ mine(op).started /\ mine(op).rollback_only = x(op).rollback_only
      /\ mine(op).ops = r(op) /\ mine(op).call = x(op).call /\ mine(op).snap = x(op).snap
      /\ mine(op).seq = x(op).seq /\ mine(op).txn = "write"
  BY <1>2 DEF Object
<1> HIDE DEF mine
<1>6. st'[c] = mine(op) /\ \A y \in Conn \ {c} : Aside(y)
  BY <1>0, <1>1, OthersAside
<1>7. LockInv'
  <2>1. LockOf(c)'
    BY <1>0, <1>2, <1>5, <1>6 DEF LockOf
  <2> QED BY <1>6, <2>1, LockFrame
<1>8. /\ Sane(work') /\ Distinct(work')
      /\ \A i \in Ids(work') : Spent(i)'
      /\ \A i \in Ids(work') : i \in Ids(T) \/ ~Spent(i)
      /\ op.k = "complete" /\ Changes(op, T) =>
           Was(op, T) \notin Ids(work') /\ Spent(Was(op, T))'
  <2>1. op.k = "put" => st'[c].seq[op.t] = op.seq
    BY <1>2, <1>5, <1>6
  <2> QED BY <1>0, <1>1, <1>3, <2>1, StatementStep
<1>9. RowInv'
  <2>1. RowOf(c)'
    BY <1>0, <1>2, <1>5, <1>6 DEF RowOf
  <2>2. \A y \in Conn \ {c} : RowOf(y)'
    BY <1>6 DEF StoreInv, RowInv, RowOf, Aside
  <2> QED BY <1>0, <1>8, <2>1, <2>2 DEF StoreInv, RowInv
<1>10. ASSUME NEW y \in Conn, NEW e \in ToSet(st'[y].ops), e.op.k = "complete"
       PROVE  e.was \notin Ids(work') /\ Spent(e.was)'
  <2>1. CASE y # c
    <3>1. ToSet(st[y].ops) = {}
      BY <1>0, <2>1, NoLockNoOps
    <3> QED BY <1>6, <1>10, <2>1, <3>1 DEF Aside
  <2>2. CASE y = c /\ e \in ToSet(st[c].ops)
    <3>1. e.was \notin Ids(work) /\ Spent(e.was)
      BY <1>10, <2>2 DEF StoreInv, IdInv
    <3>2. T = work
      BY <1>3, <2>2 DEF ToSet
    <3> QED BY <1>8, <3>1, <3>2, SpentStays
  <2>3. CASE y = c /\ Changes(op, T) /\ e = [op |-> op, was |-> Was(op, T)]
    BY <1>8, <1>10, <2>3
  <2> QED BY <1>4, <1>5, <1>6, <1>10, <2>1, <2>2, <2>3
<1>11. ASSUME NEW e \in told', e.k = "complete", ~e.lost
       PROVE  e.id \notin Ids(disk') /\ e.id \notin Ids(work') /\ Spent(e.id)'
  <2>1. e.id \notin Ids(disk) /\ e.id \notin Ids(work) /\ Spent(e.id)
    BY <1>0, <1>11 DEF StoreInv, IdInv
  <2> QED BY <1>0, <1>3, <1>8, <2>1, SpentStays
<1>12. \A i \in Ids(disk') : Spent(i)'
  BY <1>0, SpentStays DEF StoreInv, IdInv
<1>13. IdInv'
  BY <1>0, <1>8, <1>10, <1>11, <1>12, OpeningsStay DEF StoreInv, IdInv
<1> QED BY <1>7, <1>9, <1>13 DEF StoreInv

-----------------------------------------------------------------------------
(***************************************************************************)
(* The results.                                                            *)
(***************************************************************************)
LEMMA StoreInvStep ==
    ASSUME StoreInv, [Next]_vars
    PROVE  StoreInv'
<1>1. CASE UNCHANGED vars
  <2>1. UNCHANGED <<disk, writer, work, st, told, gone, left>>
    BY <1>1 DEF vars
  <2>2. TypeInv' /\ LockInv' /\ RowInv'
    BY <2>1 DEF StoreInv, TypeInv, LockInv, LockOf, RowInv, RowOf, shared
  <2>3. \A i : Spent(i)' <=> Spent(i)
    BY <2>1 DEF Spent
  <2>4. IdInv'
    BY <2>1, <2>3 DEF StoreInv, IdInv
  <2> QED BY <2>2, <2>4 DEF StoreInv
<1>2. CASE Next
  <2>1. TypeInv' /\ (Grow \/ \E c \in Conn : Open(c))
    BY <1>2, TypeStep
  <2>2. CASE \E c \in Conn : Open(c)
    BY <2>1, <2>2, OpenStep
  <2>3. CASE Grow
    <3>1. PICK c \in Conn :
            \/ Open(c) \/ Close(c) \/ Crash(c)
            \/ \E t \in Table : \E m \in MidOf[t] : ReadRow(c, t, m)
            \/ WriteAlone(c) \/ WriteInBatch(c) \/ WriteBlocked(c) \/ WriteFails(c)
            \/ CommitAloneFails(c)
            \/ Enter(c) \/ RaiseNested(c) \/ Raise(c)
            \/ ExitNested(c) \/ ExitCommits(c) \/ ExitCommitFails(c) \/ ExitRefused(c)
            \/ \E t \in Table : StartPages(c, t)
            \/ NextPage(c) \/ EndPages(c)
      BY <1>2 DEF Next
    <3>2. CASE Close(c) \/ Crash(c)
      BY <2>1, <2>3, <3>2, ClosingStep
    <3>3. CASE \E t \in Table : \E m \in MidOf[t] : ReadRow(c, t, m)
      BY <2>1, <2>3, <3>3, ReadRowStep
    <3>4. CASE WriteAlone(c) \/ WriteInBatch(c) \/ WriteBlocked(c) \/ WriteFails(c)
               \/ CommitAloneFails(c)
      BY <2>1, <2>3, <3>4, WriteAloneStep, WriteInBatchStep, WriteBlockedStep,
         WriteFailsStep, CommitAloneFailsStep
    <3>5. CASE Enter(c) \/ RaiseNested(c) \/ ExitNested(c) \/ ExitCommits(c)
      BY <2>1, <2>3, <3>5, BatchStep, ExitCommitsStep
    <3>6. CASE Raise(c) \/ ExitCommitFails(c) \/ ExitRefused(c)
      <4>1. InBatch(c) /\ LotFails(c)
        BY <3>6 DEF Raise, ExitCommitFails, ExitRefused
      <4> QED BY <2>1, <2>3, <4>1, LotFailsStep
    <3>7. CASE NextPage(c) \/ EndPages(c) \/ \E t \in Table : StartPages(c, t)
      BY <2>1, <2>3, <3>7, PagesStep
    <3> QED BY <2>1, <3>1, <3>2, <3>3, <3>4, <3>5, <3>6, <3>7, OpenStep
  <2> QED BY <2>1, <2>2, <2>3
<1> QED BY <1>1, <1>2

\* In every reachable state the objects, the lock, the tables and what was
\* exposed fit together.
THEOREM StoreInvariant ==
    Spec => []StoreInv
<1>1. Init => StoreInv
  BY InitStoreInv
<1>2. StoreInv /\ [Next]_vars => StoreInv'
  BY StoreInvStep
<1> QED BY <1>1, <1>2, PTL DEF Spec

\* The store's bookkeeping, for any number of openings, calls and faults.
THEOREM StoreIsExact ==
    Spec => []StoreExact
<1>1. ASSUME StoreInv
      PROVE  StoreExact
  <2>1. \A t \in Table : \A m \in MidOf[t] : {disk[t][m], work[t][m]} \subseteq Row \cup {NoRow}
    BY <1>1 DEF StoreInv, TypeInv, Tables, Cell
  <2>2. ASSUME NEW c \in Conn
        PROVE  /\ st[c].depth \in 0 .. left.depth
               /\ (writer = c) <=> (st[c].txn = "write")
               /\ st[c].started => st[c].depth > 0 /\ writer = c
               /\ st[c].ops # <<>> => st[c].started
               /\ st[c].rollback_only => st[c].depth > 0
    <3>1. st[c].depth \in Nat /\ left.depth \in Nat
      BY <1>1 DEF StoreInv, TypeInv, Object, Budget
    <3> QED BY <1>1, <3>1 DEF StoreInv, LockInv, LockOf
  <2>3. ~shared => Cardinality({c \in Conn : st[c].open}) <= 1
    <3> SUFFICES ASSUME ~shared
                 PROVE  Cardinality({c \in Conn : st[c].open}) <= 1
      OBVIOUS
    <3> DEFINE S == {c \in Conn : st[c].open}
    <3>1. \A c, x \in S : c = x
      BY <1>1 DEF StoreInv, LockInv
    <3>2. CASE S = {}
      <4> HIDE DEF S
      <4> QED BY <3>2, FS_EmptySet DEF S
    <3>3. CASE S # {}
      <4>1. PICK c : S = {c}
        BY <3>1, <3>3
      <4> HIDE DEF S
      <4>2. Cardinality(S) = 1
        BY <4>1, FS_Singleton
      <4> QED BY <4>2 DEF S
    <3> QED BY <3>2, <3>3
  <2> QED BY <1>1, <2>1, <2>2, <2>3 DEF StoreExact, StoreInv, TypeInv
<1> QED BY <1>1, StoreInvariant, PTL

\* What the client sent or reported is durable, whatever fails and whenever
\* the process ends.
THEOREM ExposedStaysDurable ==
    Spec => []ExposedIsDurable
<1>1. StoreInv => ExposedIsDurable
  BY DEF StoreInv, IdInv, ExposedIsDurable
<1> QED BY <1>1, StoreInvariant, PTL

\* Only a write ends a conditional call of an opening that stays open.
LEMMA CallEnds ==
    ASSUME StoreInv, Next, NEW c \in Conn,
           st[c].call # NoCall, st'[c].call = NoCall, st'[c].open
    PROVE  WriteAlone(c) \/ WriteInBatch(c) \/ WriteBlocked(c) \/ WriteFails(c)
           \/ CommitAloneFails(c)
<1>0. st \in [Conn -> Object] /\ \A x \in Conn : st[x] \in Object
  BY DEF StoreInv, TypeInv
<1>1. st[c].open
  BY ClosedShape DEF StoreInv, LockInv, LockOf
<1>2. ASSUME NEW x \in Conn, NEW mine, st' = [st EXCEPT ![x] = mine], x # c
      PROVE  FALSE
  BY <1>0, <1>2
<1>3. ASSUME NEW x \in Conn, NEW mine, _rollback_or_close(x, mine), x # c
      PROVE  FALSE
  BY <1>0, <1>3 DEF _rollback_or_close
<1>4. ASSUME NEW x \in Conn, NEW T, NEW mine, NEW done, Committed(x, T, mine, done), x # c
      PROVE  FALSE
  <2>1. st'[c] = IF st[c].txn = "read" THEN [st[c] EXCEPT !.txn = "stale"] ELSE st[c]
    BY <1>4 DEF Committed
  <2>2. st'[c].call = st[c].call
    BY <1>0, <2>1 DEF Object
  <2> QED BY <2>2
<1>5. ASSUME NEW x \in Conn, Open(x) \/ Close(x) \/ Crash(x)
      PROVE  FALSE
  <2>1. st' = [st EXCEPT ![x] = Opened(x)] \/ st' = [st EXCEPT ![x] = Closed]
    BY <1>5 DEF Open, Close, Crash
  <2>2. x = c
    BY <1>2, <2>1
  <2>3. ~Open(c)
    BY <1>1 DEF Open
  <2>4. st' = [st EXCEPT ![c] = Closed]
    BY <1>5, <2>2, <2>3 DEF Close, Crash
  <2> QED BY <1>0, <2>4, ClosedShape
<1>6. ASSUME NEW x \in Conn, NEW t \in Table, NEW m \in MidOf[t], ReadRow(x, t, m)
      PROVE  FALSE
  <2>1. x = c
    BY <1>2, <1>6 DEF ReadRow
  <2> QED BY <1>6, <2>1 DEF ReadRow
<1>7. ASSUME NEW x \in Conn, LotFails(x), InBatch(x)
      PROVE  FALSE
  <2>1. x = c
    BY <1>2, <1>3, <1>7 DEF LotFails
  <2> QED BY <1>7, <2>1 DEF InBatch
<1>8. ASSUME NEW x \in Conn, ExitCommits(x)
      PROVE  FALSE
  <2>1. x = c
    BY <1>2, <1>4, <1>8 DEF ExitCommits
  <2> QED BY <1>8, <2>1 DEF ExitCommits, InBatch
<1>9. ASSUME NEW x \in Conn, Enter(x) \/ RaiseNested(x) \/ ExitNested(x)
      PROVE  FALSE
  <2>1. CASE x = c
    BY <1>9, <2>1 DEF Enter, RaiseNested, ExitNested, InBatch
  <2>2. CASE x # c
    <3>1. st'[c] = st[c]
      BY <1>0, <1>9, <2>2 DEF Enter, RaiseNested, ExitNested
    <3> QED BY <3>1
  <2> QED BY <2>1, <2>2
<1>10. ASSUME NEW x \in Conn, EndPages(x) \/ NextPage(x) \/ \E t \in Table : StartPages(x, t)
       PROVE  FALSE
  <2>1. CASE EndPages(x)
    BY <2>1 DEF EndPages
  <2>2. CASE NextPage(x) \/ \E t \in Table : StartPages(x, t)
    <3>1. st' = [st EXCEPT ![x] = Snapped(x)] /\ st[x].call = NoCall
      BY <2>2 DEF NextPage, StartPages
    <3> QED BY <1>2, <3>1
  <2> QED BY <1>10, <2>1, <2>2
<1>11. ASSUME NEW x \in Conn, x # c,
              WriteAlone(x) \/ WriteInBatch(x) \/ WriteBlocked(x) \/ WriteFails(x)
              \/ CommitAloneFails(x)
       PROVE  FALSE
  BY <1>2, <1>3, <1>4, <1>11 DEF WriteAlone, WriteInBatch, WriteBlocked, WriteFails,
     CommitAloneFails
<1> QED
  BY <1>5, <1>6, <1>7, <1>8, <1>9, <1>10, <1>11 DEF Next, Raise, ExitCommitFails, ExitRefused

\* The statement of a conditional call hits no row of the same opening but the
\* one it read.
LEMMA HitsWhatItRead ==
    ASSUME StoreInv, NEW c \in Conn, st[c].call # NoCall, NEW op \in Attempts(c),
           NEW T \in {disk, work},
           T[st[c].call.t][st[c].call.m] # NoRow,
           T[st[c].call.t][st[c].call.m].id # st[c].call.row.id,
           T[st[c].call.t][st[c].call.m].id[1] = st[c].call.row.id[1]
    PROVE  Exec(op, T) = T
<1> DEFINE call == st[c].call
           now == T[call.t][call.m]
<1>1. /\ op.k \in {"complete", "transition"} /\ op.t = call.t /\ op.m = call.m
      /\ op.read = call.row
  BY AttemptsTyped DEF StoreInv
<1>2. /\ call.t \in Table /\ call.m \in MidOf[call.t] /\ call.row \in Row
      /\ call.row.id[2] = call.row.seq /\ call.row.id[3] = call.t
  BY DEF StoreInv, TypeInv, Object, Call, RowInv, RowOf
<1>3. T \in Tables /\ Sane(T)
  BY DEF StoreInv, TypeInv, RowInv
<1>4. now \in Row /\ now.id[2] = now.seq /\ now.id[3] = call.t
  BY <1>2, <1>3, CellTyped DEF Sane
<1>5. now.seq # call.row.seq
  <2> SUFFICES ASSUME now.seq = call.row.seq
               PROVE  FALSE
    OBVIOUS
  <2>1. now.id \in Id /\ call.row.id \in Id
    BY <1>2, <1>4 DEF Row, Id
  <2>2. now.id[1] = call.row.id[1] /\ now.id[2] = call.row.id[2] /\ now.id[3] = call.row.id[3]
    BY <1>2, <1>4
  <2>3. now.id = call.row.id
    <3> HIDE DEF now, call
    <3> QED BY <2>1, <2>2 DEF Id
  <2> QED BY <2>3
<1>6. ~Hit(op, T[op.t][op.m])
  BY <1>1, <1>5 DEF Hit
<1> QED BY <1>1, <1>6 DEF Exec, Changes

\* A conditional call settles the record it read or none, whatever happens to
\* the row between its SELECT and its statement.
THEOREM SettlesOnlyWhatItRead ==
    Spec => SettlesWhatItRead
<1> DEFINE Settles ==
      \A c \in Conn :
        st[c].call # NoCall /\ st'[c].call = NoCall /\ st'[c].open =>
          LET call == st[c].call
              T == IF writer = c THEN work ELSE disk
              now == T[call.t][call.m]
              next == IF writer' = c THEN work'[call.t][call.m] ELSE disk'[call.t][call.m]
          IN  now # NoRow /\ now.id # call.row.id /\ now.id[1] = call.row.id[1]
                => next = now
<1>1. ASSUME StoreInv, Next
      PROVE  Settles
  <2> SUFFICES ASSUME NEW c \in Conn,
                      st[c].call # NoCall, st'[c].call = NoCall, st'[c].open
               PROVE  LET call == st[c].call
                          T == IF writer = c THEN work ELSE disk
                          now == T[call.t][call.m]
                          next == IF writer' = c THEN work'[call.t][call.m]
                                  ELSE disk'[call.t][call.m]
                      IN  now # NoRow /\ now.id # call.row.id /\ now.id[1] = call.row.id[1]
                            => next = now
    BY DEF Settles
  <2>1. PICK T : T = IF writer = c THEN work ELSE disk
    OBVIOUS
  <2> DEFINE call == st[c].call
             now == T[call.t][call.m]
             next == IF writer' = c THEN work'[call.t][call.m] ELSE disk'[call.t][call.m]
  <2>2. SUFFICES ASSUME now # NoRow, now.id # call.row.id, now.id[1] = call.row.id[1]
                 PROVE  next = now
    BY <2>1
  <2>3. \A op \in Attempts(c) : Exec(op, T) = T
    BY <1>1, <2>1, <2>2, HitsWhatItRead
  <2>4. NoConn \notin Conn /\ LockOf(c)
    BY <1>1, StoreAssumption DEF StoreInv, LockInv
  <2>5. CASE WriteAlone(c)
    <3>1. PICK op \in Attempts(c) : disk' = Exec(op, T) /\ writer' = NoConn
      BY <2>1, <2>5 DEF WriteAlone, Committed
    <3> QED BY <2>3, <2>4, <3>1
  <2>6. CASE WriteInBatch(c)
    <3>1. writer' = c /\ \E op \in Attempts(c) : work' = Exec(op, T)
      BY <2>1, <2>6 DEF WriteInBatch
    <3> QED BY <2>3, <3>1
  <2>7. CASE WriteBlocked(c)
    BY <2>1, <2>7 DEF WriteBlocked
  <2>8. CASE WriteFails(c)
    BY <2>1, <2>8 DEF WriteFails
  <2>9. CASE CommitAloneFails(c)
    <3>1. UNCHANGED disk /\ st[c].depth = 0 /\ GaveUp(c)
      BY <2>9 DEF CommitAloneFails, _rollback_or_close
    <3>2. T = disk
      BY <2>1, <2>4, <3>1 DEF LockOf
    <3>3. writer' # c
      BY <2>4, <3>1 DEF GaveUp
    <3> QED BY <3>1, <3>2, <3>3
  <2> QED BY <1>1, <2>5, <2>6, <2>7, <2>8, <2>9, CallEnds
<1>2. StoreInv /\ [Next]_vars => [Settles]_vars
  BY <1>1
<1>3. SettlesWhatItRead <=> [][Settles]_vars
  BY DEF SettlesWhatItRead
<1> HIDE DEF Settles
<1> QED BY <1>2, <1>3, StoreInvariant, PTL DEF Spec
=============================================================================
