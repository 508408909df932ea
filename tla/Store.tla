------------------------------- MODULE Store -------------------------------
(***************************************************************************)
(* persistence/sqlite.py: SqliteInflightStore, the rows of both tables,    *)
(* its lazy and nested batches, the conditional transitions, the paged     *)
(* reads, what a failing statement, commit or rollback leaves behind, and  *)
(* several openings of one file, one after the other or at the same time.  *)
(* mem is what persistence/memory.py would hold after the same successful  *)
(* calls.  The caller is the client: api/async_client.py opens one batch   *)
(* around every lot of packets and hands out the lot's effects after it.   *)
(***************************************************************************)
EXTENDS Integers, Sequences, FiniteSets, SequencesExt

CONSTANTS
  Conn,         \* openings of the file that may exist at the same time
  OutMid, InMid,                           \* packet identifiers in either table
  State, NewState,                         \* states of a record, those it is put in
  Size,                                    \* logical sizes of a record
  PageMessages, PageBytes,                 \* limits of one page
  Budgets       \* bounds: how many calls, faults, openings, paged reads and
                \* nested batches there are, and whether two processes share
                \* the file

NoConn == "noconn"

ASSUME StoreAssumption ==
  /\ NoConn \notin Conn
  /\ PageMessages \in Nat \ {0} /\ PageBytes \in Nat \ {0}
  /\ Size \subseteq Nat \ {0}
  /\ OutMid \cup InMid \subseteq Nat \ {0} /\ IsFiniteSet(OutMid \cup InMid)
  /\ NewState \subseteq State
  /\ Budgets \subseteq [ops: Nat, faults: Nat, opens: Nat, pages: Nat,
                       depth: Nat, shared: BOOLEAN]

VARIABLES
  disk,       \* the committed tables
  created,    \* whether the file holds the schema
  writer,     \* the opening that holds SQLite's write lock
  work,       \* the tables as that opening sees them
  st,         \* the SqliteInflightStore of each opening, with its caller
  mem,        \* the two dictionaries of a MemoryInflightStore
  told,       \* what was sent or reported because of a successful call
  gone,       \* identities of the records removed from the disk
  pager,      \* one paged read in progress
  left        \* what is left of the budget

vars == <<disk, created, writer, work, st, mem, told, gone, pager, left>>

Table == {"out", "in"}
Mid == OutMid \cup InMid
MidOf == [out |-> OutMid, in |-> InMid]
shared == left.shared
NoRow == [id |-> <<0, 0, "none">>]
NoCall == [t |-> "none"]
NoPager == [c |-> NoConn]

(* A row.  flag is user_acked for an inbound row and, for an outbound one,  *)
(* whether topic and payload were dropped.  id tells records apart: which   *)
(* opening inserted the row and with which value of its counter.            *)
Row == [id: Nat \X Nat \X Table, state: State, flag: BOOLEAN, delivered: BOOLEAN,
        size: Size, seq: Nat]

EmptyTables == [t \in Table |-> [m \in MidOf[t] |-> NoRow]]
Rows(T, t) == {m \in MidOf[t] : T[t][m] # NoRow}
Ids(T) == UNION {{T[t][m].id : m \in Rows(T, t)} : t \in Table}

Closed == [open |-> FALSE, by |-> 0, depth |-> 0, started |-> FALSE,
           rollback_only |-> FALSE, txn |-> "none", snap |-> EmptyTables,
           seq |-> [t \in Table |-> 0], call |-> NoCall, ops |-> <<>>,
           latched |-> FALSE]

(* SELECT COALESCE(MAX(seq), 0). *)
_max_seq(T, t) ==
  LET used == {T[t][m].seq : m \in Rows(T, t)}
  IN  IF used = {} THEN 0 ELSE CHOOSE n \in used : \A k \in used : k <= n

(* What a SELECT of opening c reads: its own transaction, the snapshot of a *)
(* read transaction it still has open, or the last commit.                  *)
View(c) == CASE writer = c -> work
             [] writer # c /\ st[c].txn \in {"read", "stale"} -> st[c].snap
             [] OTHER -> disk

(* The snapshot a first SELECT takes inside a transaction that is open.     *)
Snapped(c) == IF st[c].txn = "idle"
              THEN [st[c] EXCEPT !.txn = "read", !.snap = disk]
              ELSE st[c]

-----------------------------------------------------------------------------
(* The SQL statements.                                                      *)

(* As Hit, not repeating the insertion sequence. *)
HitAnySeq(op, row) ==
  /\ row # NoRow
  /\ row.state = op.read.state
  /\ op.t = "in" => row.flag = op.read.flag

(* The WHERE clause of a conditional UPDATE or DELETE.                      *)
Hit(op, row) ==
  /\ row # NoRow
  /\ row.state = op.read.state
  /\ row.seq = op.read.seq
  /\ op.t = "in" => row.flag = op.read.flag

(* Whether the statement changes a row: rowcount > 0.                       *)
Changes(op, T) ==
  CASE op.k = "put" -> TRUE
    [] op.k = "delete" -> T[op.t][op.m] # NoRow
    [] op.k = "clear" -> Rows(T, op.t) # {}
    [] op.k = "mark" -> T[op.t][op.m] # NoRow /\ ~T[op.t][op.m].delivered
    [] OTHER -> Hit(op, T[op.t][op.m])

(* The upsert: a row that exists keeps its place.                          *)
put_row(op, old) ==
  [id |-> IF old = NoRow THEN op.id ELSE old.id, state |-> op.state, flag |-> FALSE, delivered |-> FALSE,
   size |-> op.size, seq |-> IF old = NoRow THEN op.seq ELSE old.seq]

transition_row(op, old) ==
  [old EXCEPT !.state = op.state, !.flag = @ \/ op.set]

Exec(op, T) ==
  IF ~Changes(op, T) THEN T
  ELSE CASE op.k = "put" -> [T EXCEPT ![op.t][op.m] = put_row(op, @)]
         [] op.k \in {"delete", "complete"} -> [T EXCEPT ![op.t][op.m] = NoRow]
         [] op.k = "clear" -> [T EXCEPT ![op.t] = EmptyTables[op.t]]
         [] op.k = "mark" -> [T EXCEPT ![op.t][op.m].delivered = TRUE]
         [] OTHER -> [T EXCEPT ![op.t][op.m] = transition_row(op, @)]

-----------------------------------------------------------------------------
(* The same calls on the dictionaries of the memory store.  A dictionary is *)
(* the sequence of its items, in the order in which keys were added.        *)

KeyAt(d, m) == SelectInSeq(d, LAMBDA r : r.m = m)

MemRecord(op, id) == [m |-> op.m, id |-> id, state |-> op.state, flag |-> FALSE,
                      delivered |-> FALSE, size |-> op.size]

MemApply(op, d) ==
  LET i == KeyAt(d, op.m)
      without == SelectSeq(d, LAMBDA r : r.m # op.m)
  IN  CASE op.k = "put" -> IF i = 0 THEN Append(d, MemRecord(op, op.id))
                           ELSE [d EXCEPT ![i] = MemRecord(op, @.id)]
        [] op.k = "delete" -> without
        [] op.k = "clear" -> <<>>
        [] op.k = "mark" -> [d EXCEPT ![i].delivered = TRUE]
        [] op.k = "complete" -> IF d[i].state = op.read.state THEN without ELSE d
        [] OTHER -> IF d[i].state # op.read.state THEN d
                    ELSE [d EXCEPT ![i].state = op.state, ![i].flag = @ \/ op.set]

MemAll(done, M) ==
  FoldLeft(LAMBDA acc, e : [acc EXCEPT ![e.op.t] = MemApply(e.op, @)], M, done)

-----------------------------------------------------------------------------
(* What the client sends or reports once a call has succeeded: the packet a *)
(* new record stands for, and the end of an exchange.  lost marks an        *)
(* outcome reported although the removal of its row was rolled back.        *)
Effects(done, lost) ==
  {[k |-> e.op.k, id |-> e.was, lost |-> lost] :
     e \in {x \in done : x.op.k \in {"put", "complete"}}}

(* As kept, exposing the whole lot. *)
kept_all(done) == done

(* Of a lot that failed locally only the terminal publish outcomes stay.    *)
kept(done) == {e \in done : e.op.k = "complete" /\ e.op.t = "out"}

(* put_out and put_in, with the next value of the counter.                  *)
Puts(c, t) ==
  {[k |-> "put", t |-> t, m |-> m, state |-> s, size |-> z,
    seq |-> st[c].seq[t] + 1, id |-> <<st[c].by, st[c].seq[t] + 1, t>>] :
      m \in MidOf[t], s \in NewState, z \in Size}

FreeOps(c) ==
  (UNION {Puts(c, t) : t \in Table})
  \cup {[k |-> "delete", t |-> "out", m |-> m] : m \in OutMid}
  \cup {[k |-> "mark", t |-> "in", m |-> m] : m \in InMid}
  \cup {[k |-> "clear", t |-> t] : t \in Table}

(* complete_out, complete_in, transition_out and transition_in after their  *)
(* SELECT found the row in the expected state.  The callers change a state, *)
(* dropping an outbound payload or not, or set user_acked in the same one.  *)
SettleOps(call) ==
  {[k |-> "complete", t |-> call.t, m |-> call.m, read |-> call.row]}
  \cup {[k |-> "transition", t |-> call.t, m |-> call.m, read |-> call.row,
         state |-> s, set |-> FALSE] : s \in State \ {call.row.state}}
  \cup {[k |-> "transition", t |-> call.t, m |-> call.m, read |-> call.row,
         state |-> s, set |-> TRUE] :
           s \in IF call.t = "in" THEN {call.row.state} ELSE State \ {call.row.state}}

Attempts(c) == IF st[c].call = NoCall THEN FreeOps(c) ELSE SettleOps(st[c].call)

(* The record a call is about. *)
Was(op, T) == IF op.k = "clear" THEN NoRow.id
              ELSE IF T[op.t][op.m] # NoRow THEN T[op.t][op.m].id ELSE op.id

(* A call that changed something, in the list of them.                      *)
Recorded(done, op, T) ==
  IF Changes(op, T) THEN Append(done, [op |-> op, was |-> Was(op, T)]) ELSE done

(* _ensure_write_transaction() refuses BEGIN inside an open transaction; a  *)
(* write waits for the lock until its timeout; a snapshot that is no longer *)
(* the last commit cannot be written from.                                  *)
CanWrite(c) ==
  /\ st[c].depth > 0 /\ ~st[c].started => st[c].txn = "none"
  /\ writer = c \/ (writer = NoConn /\ st[c].txn # "stale")

Calling(c) == st[c].open /\ left.ops > 0

Counted(k) == left' = [left EXCEPT ![k] = @ - 1]
Faulty == left.faults > 0
CountedFault == left' = [left EXCEPT !.ops = @ - 1, !.faults = @ - 1]

(* The object after a call, successful or not.                              *)
Called(c, op) == [st[c] EXCEPT !.call = NoCall,
                   !.seq = IF op.k = "put" THEN [@ EXCEPT ![op.t] = op.seq] ELSE @]

(* A commit of the calls done by opening c: other snapshots are no longer    *)
(* the last commit.                                                         *)
Committed(c, T, mine, done) ==
  /\ disk' = T
  /\ gone' = gone \cup ((Ids(disk) \cup {done[i].was : i \in DOMAIN done}) \ Ids(T))
  /\ writer' = NoConn /\ work' = EmptyTables
  /\ st' = [x \in Conn |-> IF x = c THEN mine
                           ELSE IF st[x].txn = "read" THEN [st[x] EXCEPT !.txn = "stale"]
                           ELSE st[x]]

(* The lock and the changes of opening c are given up.                      *)
GaveUp(c) == IF writer = c THEN writer' = NoConn /\ work' = EmptyTables
             ELSE UNCHANGED <<writer, work>>

(* As _rollback_or_close, leaving the failed transaction open. *)
no_rollback(c, mine) ==
  /\ UNCHANGED <<writer, work>>
  /\ st' = [st EXCEPT ![c] = mine]

(* _rollback_or_close(): a rollback that fails too closes the connection.   *)
_rollback_or_close(c, mine) ==
  /\ GaveUp(c)
  /\ \/ st' = [st EXCEPT ![c] = [mine EXCEPT !.txn = "none"]]
     \/ Faulty /\ st' = [st EXCEPT ![c] = Closed]

-----------------------------------------------------------------------------
(* The object's life.                                                       *)

Init ==
  /\ disk = EmptyTables /\ created = FALSE
  /\ writer = NoConn /\ work = EmptyTables
  /\ st = [c \in Conn |-> Closed]
  /\ mem = [t \in Table |-> <<>>]
  /\ told = {} /\ gone = {}
  /\ pager = NoPager
  /\ left \in Budgets

Opened(c) == [Closed EXCEPT !.open = TRUE, !.by = left.opens,
                            !.seq = [t \in Table |-> _max_seq(disk, t)]]

(* __init__ with _prepare_schema() and the two counters: only an empty file *)
(* needs the write lock.                                                    *)
Open(c) ==
  /\ ~st[c].open /\ left.opens > 0
  /\ shared \/ \A x \in Conn : ~st[x].open
  /\ ~created => writer = NoConn
  /\ created' = TRUE
  /\ st' = [st EXCEPT ![c] = Opened(c)]
  /\ Counted("opens")
  /\ UNCHANGED <<disk, writer, work, mem, told, gone, pager>>

DropPager(c) == pager' = IF pager.c = c THEN NoPager ELSE pager

(* close(), refused inside a batch; it commits nothing.                     *)
Close(c) ==
  /\ st[c].open /\ st[c].depth = 0 /\ st[c].call = NoCall
  /\ st' = [st EXCEPT ![c] = Closed]
  /\ GaveUp(c) /\ DropPager(c)
  /\ UNCHANGED <<disk, created, mem, told, gone, left>>

(* The process ends anywhere.                                               *)
Crash(c) ==
  /\ st[c].open /\ (st[c].depth > 0 \/ st[c].call # NoCall)
  /\ st' = [st EXCEPT ![c] = Closed]
  /\ GaveUp(c) /\ DropPager(c)
  /\ UNCHANGED <<disk, created, mem, told, gone, left>>

-----------------------------------------------------------------------------
(* Calls.                                                                   *)

(* The SELECT of a conditional call, in the expected state.                 *)
ReadRow(c, t, m) ==
  /\ Calling(c) /\ st[c].call = NoCall
  /\ m \in Rows(View(c), t)
  /\ st' = [st EXCEPT ![c] = [Snapped(c) EXCEPT
                                !.call = [t |-> t, m |-> m, row |-> View(c)[t][m]]]]
  /\ UNCHANGED <<disk, created, writer, work, mem, told, gone, pager, left>>

(* A statement outside a batch, committed on its own.                       *)
WriteAlone(c) ==
  /\ Calling(c) /\ st[c].depth = 0 /\ CanWrite(c)
  /\ \E op \in Attempts(c) :
       LET T == IF writer = c THEN work ELSE disk
           done == Recorded(<<>>, op, T)
       IN  /\ Committed(c, Exec(op, T), [Called(c, op) EXCEPT !.txn = "none"], done)
           /\ mem' = MemAll(done, mem)
           /\ told' = told \cup Effects(ToSet(done), FALSE)
  /\ Counted("ops")
  /\ UNCHANGED <<created, pager>>

(* A statement inside a batch; the first one takes the write lock.          *)
WriteInBatch(c) ==
  /\ Calling(c) /\ st[c].depth > 0 /\ CanWrite(c)
  /\ \E op \in Attempts(c) :
       LET T == IF writer = c THEN work ELSE disk
       IN  /\ work' = Exec(op, T)
           /\ st' = [st EXCEPT ![c] = [Called(c, op) EXCEPT
                       !.started = TRUE, !.txn = "write",
                       !.ops = Recorded(@, op, T)]]
  /\ writer' = c
  /\ Counted("ops")
  /\ UNCHANGED <<disk, created, mem, told, gone, pager>>

(* The lock, or BEGIN, is refused.  Outside a batch the implicit            *)
(* transaction of the failed statement stays open.                          *)
WriteBlocked(c) ==
  /\ Calling(c) /\ ~CanWrite(c)
  /\ \E op \in Attempts(c) :
       st' = [st EXCEPT ![c] =
                IF st[c].depth > 0 THEN [st[c] EXCEPT !.call = NoCall]
                ELSE [Called(c, op) EXCEPT !.txn = IF @ = "none" THEN "idle" ELSE @]]
  /\ Counted("ops")
  /\ UNCHANGED <<disk, created, writer, work, mem, told, gone, pager>>

(* A statement fails with the lock taken: it changes no row.                *)
WriteFails(c) ==
  /\ Calling(c) /\ CanWrite(c) /\ Faulty
  /\ \E op \in Attempts(c) :
       st' = [st EXCEPT ![c] = [Called(c, op) EXCEPT
                !.txn = "write", !.started = st[c].depth > 0]]
  /\ writer' = c /\ work' = IF writer = c THEN work ELSE disk
  /\ CountedFault
  /\ UNCHANGED <<disk, created, mem, told, gone, pager>>

(* _commit() of a statement outside a batch fails.                          *)
CommitAloneFails(c) ==
  /\ Calling(c) /\ st[c].depth = 0 /\ CanWrite(c) /\ Faulty
  /\ \E op \in Attempts(c) : _rollback_or_close(c, Called(c, op))
  /\ CountedFault
  /\ pager' = IF st'[c].open THEN pager ELSE IF pager.c = c THEN NoPager ELSE pager
  /\ UNCHANGED <<disk, created, mem, told, gone>>

-----------------------------------------------------------------------------
(* Batches.                                                                 *)

(* The reader opens a batch around a lot; batches nest.                     *)
Enter(c) ==
  /\ st[c].open /\ st[c].call = NoCall /\ ~st[c].latched
  /\ st[c].depth < left.depth
  /\ st' = [st EXCEPT ![c].depth = @ + 1,
                      ![c].rollback_only = IF st[c].depth = 0 THEN FALSE ELSE @]
  /\ UNCHANGED <<disk, created, writer, work, mem, told, gone, pager, left>>

InBatch(c) == st[c].open /\ st[c].depth > 0 /\ st[c].call = NoCall

(* As Left, the transaction still counted as started. *)
LeftStarted(c) == [st[c] EXCEPT !.depth = 0, !.rollback_only = FALSE, !.ops = <<>>]

Left(c) == [st[c] EXCEPT !.depth = 0, !.started = FALSE, !.rollback_only = FALSE,
                         !.ops = <<>>]

(* The outermost batch ends with an exception: the lot failed locally, the  *)
(* client is latched and only terminal publish outcomes are handed on.      *)
LotFails(c) ==
  /\ told' = told \cup Effects(kept(ToSet(st[c].ops)), TRUE)
  /\ IF st[c].started
     THEN _rollback_or_close(c, [Left(c) EXCEPT !.latched = TRUE])
     ELSE /\ st' = [st EXCEPT ![c] = [Left(c) EXCEPT !.latched = TRUE]]
          /\ UNCHANGED <<writer, work>>
  /\ pager' = IF pager.c = c THEN NoPager ELSE pager
  /\ UNCHANGED <<disk, created, mem, gone>>

(* An exception leaves a nested batch; the block around it may catch it.    *)
RaiseNested(c) ==
  /\ InBatch(c) /\ st[c].depth > 1
  /\ st' = [st EXCEPT ![c].depth = @ - 1, ![c].rollback_only = TRUE]
  /\ UNCHANGED <<disk, created, writer, work, mem, told, gone, pager, left>>

(* An exception leaves the outermost batch.                                 *)
Raise(c) ==
  /\ InBatch(c) /\ st[c].depth = 1 /\ Faulty
  /\ LotFails(c)
  /\ Counted("faults")

ExitNested(c) ==
  /\ InBatch(c) /\ st[c].depth > 1
  /\ st' = [st EXCEPT ![c].depth = @ - 1]
  /\ UNCHANGED <<disk, created, writer, work, mem, told, gone, pager, left>>

(* The outermost batch ends and commits; then the lot's effects are         *)
(* collected.                                                               *)
ExitCommits(c) ==
  /\ InBatch(c) /\ st[c].depth = 1 /\ ~st[c].rollback_only
  /\ IF st[c].started
     THEN Committed(c, work, [Left(c) EXCEPT !.txn = "none"], st[c].ops)
     ELSE st' = [st EXCEPT ![c] = Left(c)] /\ UNCHANGED <<disk, gone, writer, work>>
  /\ mem' = MemAll(st[c].ops, mem)
  /\ told' = told \cup Effects(ToSet(st[c].ops), FALSE)
  /\ UNCHANGED <<created, pager, left>>

ExitCommitFails(c) ==
  /\ InBatch(c) /\ st[c].depth = 1 /\ ~st[c].rollback_only
  /\ st[c].started /\ Faulty
  /\ LotFails(c)
  /\ Counted("faults")

(* A nested batch failed: the outer one refuses to commit.                  *)
ExitRefused(c) ==
  /\ InBatch(c) /\ st[c].depth = 1 /\ st[c].rollback_only
  /\ LotFails(c)
  /\ UNCHANGED left

-----------------------------------------------------------------------------
(* Paged reads: out_summary_pages, in_index_pages, in_replay_pages.         *)

(* Identifiers in insertion order, with the sizes the pages are cut by.     *)
_ordered_mids(T, t) ==
  LET mids == SetToSortSeq(Rows(T, t), LAMBDA a, b : T[t][a].seq < T[t][b].seq)
  IN  [i \in DOMAIN mids |-> [m |-> mids[i], size |-> T[t][mids[i]].size,
                              id |-> T[t][mids[i]].id]]

(* How many identifiers make the next page: as many as the two limits allow *)
(* and at least one.                                                        *)
PageLength(index) ==
  LET bytes(n) == FoldLeft(LAMBDA s, e : s + e.size, 0, SubSeq(index, 1, n))
      fits == {n \in 1 .. Len(index) : n = 1 \/ (n <= PageMessages /\ bytes(n) <= PageBytes)}
  IN  CHOOSE n \in fits : \A k \in fits : k <= n

(* _fetch_by_mids: the rows as they are now, in the order asked for.        *)
_fetch_by_mids(T, t, index) ==
  LET found == SelectSeq(index, LAMBDA e : e.m \in Rows(T, t))
  IN  [i \in DOMAIN found |-> [m |-> found[i].m, id |-> T[t][found[i].m].id]]

StartPages(c, t) ==
  /\ st[c].open /\ st[c].call = NoCall /\ pager = NoPager /\ left.pages > 0
  /\ Rows(View(c), t) # {}
  /\ st' = [st EXCEPT ![c] = Snapped(c)]
  /\ LET index == _ordered_mids(View(c), t)
     IN  pager' = [c |-> c, t |-> t, index |-> index, rest |-> index, given |-> <<>>]
  /\ Counted("pages")
  /\ UNCHANGED <<disk, created, writer, work, mem, told, gone>>

(* As NextPage, counting rows from the start of the table for each page. *)
NextPageByOffset(c) ==
  /\ pager.c = c /\ st[c].call = NoCall /\ pager.rest # <<>>
  /\ LET n == PageLength(pager.rest)
         offset == Len(pager.index) - Len(pager.rest)
         now == _ordered_mids(View(c), pager.t)
         page == _fetch_by_mids(View(c), pager.t,
                   SubSeq(now, offset + 1, IF offset + n < Len(now) THEN offset + n ELSE Len(now)))
     IN  pager' = [pager EXCEPT !.rest = SubSeq(@, n + 1, Len(@)), !.given = @ \o page]
  /\ st' = [st EXCEPT ![c] = Snapped(c)]
  /\ UNCHANGED <<disk, created, writer, work, mem, told, gone, left>>

NextPage(c) ==
  /\ pager.c = c /\ st[c].call = NoCall /\ pager.rest # <<>>
  /\ LET n == PageLength(pager.rest)
         page == _fetch_by_mids(View(c), pager.t, SubSeq(pager.rest, 1, n))
     IN  pager' = [pager EXCEPT !.rest = SubSeq(@, n + 1, Len(@)), !.given = @ \o page]
  /\ st' = [st EXCEPT ![c] = Snapped(c)]
  /\ UNCHANGED <<disk, created, writer, work, mem, told, gone, left>>

EndPages(c) ==
  /\ pager.c = c /\ pager.rest = <<>>
  /\ pager' = NoPager
  /\ UNCHANGED <<disk, created, writer, work, st, mem, told, gone, left>>

-----------------------------------------------------------------------------
Next == \E c \in Conn :
  \/ Open(c) \/ Close(c) \/ Crash(c)
  \/ \E t \in Table : \E m \in MidOf[t] : ReadRow(c, t, m)
  \/ WriteAlone(c) \/ WriteInBatch(c) \/ WriteBlocked(c) \/ WriteFails(c)
  \/ CommitAloneFails(c)
  \/ Enter(c) \/ RaiseNested(c) \/ Raise(c)
  \/ ExitNested(c) \/ ExitCommits(c) \/ ExitCommitFails(c) \/ ExitRefused(c)
  \/ \E t \in Table : StartPages(c, t)
  \/ NextPage(c) \/ EndPages(c)

Spec == Init /\ [][Next]_vars

-----------------------------------------------------------------------------
(* Type invariant with the object's bookkeeping: the write lock belongs to  *)
(* the opening whose transaction is open for writing, a started batch has   *)
(* it, and only a batch collects operations.                                *)
StoreExact ==
  /\ \A t \in Table : \A m \in MidOf[t] : {disk[t][m], work[t][m]} \subseteq Row \cup {NoRow}
  /\ writer \in Conn \cup {NoConn}
  /\ \A c \in Conn :
       /\ st[c].depth \in 0 .. left.depth
       /\ (writer = c) <=> (st[c].txn = "write")
       /\ st[c].started => st[c].depth > 0 /\ writer = c
       /\ st[c].ops # <<>> => st[c].started
       /\ st[c].rollback_only => st[c].depth > 0
  /\ ~shared => Cardinality({c \in Conn : st[c].open}) <= 1

(* What is on disk is what a memory store holds after exactly the calls     *)
(* that were reported successful: a batch that failed anywhere, a nested    *)
(* one included, leaves nothing, one that succeeded leaves everything, and  *)
(* no failed transaction is committed by a later call.  With one process at *)
(* a time the rows are also replayed in the memory store's order, across    *)
(* rollbacks and reopenings.                                                *)
StoresAgree ==
  \A t \in Table :
    LET full(m) == [m |-> m, id |-> disk[t][m].id, state |-> disk[t][m].state,
                    flag |-> disk[t][m].flag, delivered |-> disk[t][m].delivered,
                    size |-> disk[t][m].size]
    IN  /\ ToSet(mem[t]) = {full(m) : m \in Rows(disk, t)}
        /\ ~shared => [i \in DOMAIN mem[t] |-> mem[t][i].m]
                        = [i \in DOMAIN _ordered_mids(disk, t) |-> _ordered_mids(disk, t)[i].m]

(* What the client sent or reported is durable, whatever fails and whenever *)
(* the process ends: a packet that a new record stands for was sent only    *)
(* with the record on disk or finished since, and an exchange reported as   *)
(* finished does not come back, except the publish outcomes that a failed   *)
(* lot hands on.                                                            *)
ExposedIsDurable ==
  \A e \in told :
    /\ e.k = "put" => e.id \in Ids(disk) \cup gone
    /\ e.k = "complete" /\ ~e.lost => e.id \notin Ids(disk)

(* A conditional call settles the record it read or none, although another  *)
(* opening may have removed the row and inserted another since, as long as  *)
(* one opening inserted both: the sequence numbers it hands out differ.     *)
SettlesWhatItRead ==
  [][\A c \in Conn :
       st[c].call # NoCall /\ st'[c].call = NoCall /\ st'[c].open =>
         LET call == st[c].call
             T == IF writer = c THEN work ELSE disk
             now == T[call.t][call.m]
             next == IF writer' = c THEN work'[call.t][call.m] ELSE disk'[call.t][call.m]
         IN  now # NoRow /\ now.id # call.row.id /\ now.id[1] = call.row.id[1]
               => next = now]_vars

(* A paged read gives no identifier twice, keeps the order the records had  *)
(* when it began, and gives every record that was there then and still is,  *)
(* although rows are added, replaced and removed between two pages.         *)
PagesExact ==
  pager # NoPager =>
    LET position(m) == SelectInSeq(pager.index, LAMBDA e : e.m = m)
        due == {e \in ToSet(pager.index) : e.id \in Ids(disk)}
    IN  /\ \A i, j \in DOMAIN pager.given :
             i < j => position(pager.given[i].m) < position(pager.given[j].m)
        /\ st[pager.c].depth = 0 =>
             \A e \in due : e \in ToSet(pager.rest)
                            \/ [m |-> e.m, id |-> e.id] \in ToSet(pager.given)

(* A failed call leaves no transaction open outside a batch.                *)
NoTransactionLeftOpen ==
  \A c \in Conn : st[c].open /\ st[c].depth = 0 => st[c].txn = "none"

(* A conditional call settles the record it read or none.                   *)
StaleReadSettlesNothing ==
  [][\A c \in Conn :
       st[c].call # NoCall /\ st'[c].call = NoCall /\ st'[c].open =>
         LET call == st[c].call
             T == IF writer = c THEN work ELSE disk
             now == T[call.t][call.m]
             next == IF writer' = c THEN work'[call.t][call.m] ELSE disk'[call.t][call.m]
         IN  now # NoRow /\ now.id # call.row.id => next = now]_vars

=============================================================================
