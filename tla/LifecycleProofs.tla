--------------------------- MODULE LifecycleProofs ---------------------------
(***************************************************************************)
(* The safety of the connection lifecycle for any number of supervisors,   *)
(* transports, retries and calls: OneOwner, DisconnectIsFinal and          *)
(* WorkIsOwned.                                                            *)
(*                                                                         *)
(* The first two follow from Inv.  Its first part, BaseInv, holds always:  *)
(* types, the queue of the lifecycle lock (LockInv: who waits, and that a  *)
(* task in an attempt is its head), the order of connect() and             *)
(* disconnect() in it (OrderInv), one hold on the hooks per task that      *)
(* closes (HoldsInv), and tokens that never run ahead (TokenInv).          *)
(*                                                                         *)
(* Its second part, OwnerInv, holds while no connect() that had not begun  *)
(* its first attempt was overtaken by a disconnect(), and no reader        *)
(* started a supervisor while connect() waited for the end of another.  A  *)
(* live reader is the one of the transport the client names, so a dial,    *)
(* which starts with none, makes the only one (ReaderInv).  A supervisor   *)
(* other than the one the client names would dial beside it: a reader      *)
(* starts one only when none is alive, and connect() and disconnect()      *)
(* cancel the named one (SupervisorInv).  A connect() that waits for the   *)
(* lock while the connection is up is passed only by those WaitingInv      *)
(* names, a disconnect() that holds or awaits the lock has the intent on   *)
(* its side and no supervisor left (DisconnectInv), and one that returns   *)
(* leaves nobody who would dial (FinalInv).                                *)
(*                                                                         *)
(* WorkIsOwned needs HandInv.  The reader, the supervisor, connect() and   *)
(* disconnect() hand the pending work (state RECONNECTING, publications    *)
(* with an open receipt) to each other between awaits, so the property is  *)
(* about whoever has it next, and HandInv says who that is.  Its part      *)
(* WorkInv follows the current reader: until it has decided it will settle *)
(* or keep the work itself; decided to retry, it hands it to the           *)
(* supervisor; decided not to, it has failed it, and what was admitted     *)
(* since belongs to a connect() that still has its attempt before it.      *)
(* RetryInv and ClosingInv are what that argument needs of the flags: an   *)
(* intentional end takes RECONNECTING back, a latched failure is noticed   *)
(* by the reader that is ending, and whoever gives up an attempt has told  *)
(* its reader to end.                                                      *)
(*                                                                         *)
(* RetryInv and ClosingInv hold unless a connect() that had not begun its  *)
(* first attempt was overtaken by a disconnect() or lost sight of a        *)
(* supervisor, WorkInv unless one of the windows was hit that WorkIsOwned  *)
(* excuses.  Inv is assumed throughout that part.                          *)
(***************************************************************************)
EXTENDS Lifecycle, SeqFoldsProofs, FiniteSetTheorems

-----------------------------------------------------------------------------
(* The queue of the lifecycle lock.                                        *)

\* The awaits of a task that holds the lock for an attempt.
Trying == {"dial", "connack", "bye", "fail", "quit", "backoff"}
\* In the lock's queue; and holding the lock.
Queues(p, a) ==
    IF a = "disconnect" THEN p[a] \in {"lock", "ending", "flush"}
    ELSE p[a] \in Trying \cup {"lock", "cancel", "force"}
Owns(p, a) ==
    IF a = "disconnect" THEN p[a] = "flush" ELSE p[a] \in Trying \cup {"cancel", "force"}
\* The queue of the lock: every task that waits or holds, once; a holder is its head.
LockOK(l, p) ==
    /\ l \in Seq(Tasks) /\ Distinct(l)
    /\ \A a \in Tasks : Has(l, a) <=> Queues(p, a)
    /\ \A a \in Tasks : Owns(p, a) => l # <<>> /\ Head(l) = a
Callers == {"connect", "disconnect"}
\* A connect() behind a disconnect().
Reversed(u) == Len(u) = 2 /\ u[1] = "disconnect" /\ u[2] = "connect"
OrderOK(l) == ~Reversed(Only(l, Callers))

\* A step that changes neither who queues nor who owns the lock.
LEMMA LockKept ==
    ASSUME NEW l, NEW p, NEW q, LockOK(l, p),
           \A a \in Tasks : (Queues(q, a) <=> Queues(p, a)) /\ (Owns(q, a) => Owns(p, a))
    PROVE  LockOK(l, q)
  BY DEF LockOK

\* The head of the queue goes on with the lock.
LEMMA LockTaken ==
    ASSUME NEW l, NEW p, NEW q, LockOK(l, p), NEW b \in Tasks, l # <<>>, Head(l) = b, Queues(q, b),
           \A a \in Tasks : (Queues(q, a) <=> Queues(p, a)) /\ (Owns(q, a) => Owns(p, a) \/ a = b)
    PROVE  LockOK(l, q)
  BY DEF LockOK

\* The holder releases the lock to the next waiter.
LEMMA LockReleased ==
    ASSUME NEW l, NEW p, NEW q, LockOK(l, p), NEW b \in Tasks, l # <<>>, Head(l) = b, ~Queues(q, b),
           \A a \in Tasks \ {b} : (Queues(q, a) <=> Queues(p, a)) /\ (Owns(q, a) => Owns(p, a))
    PROVE  LockOK(Tail(l), q)
<1>1. /\ Tail(l) \in Seq(Tasks) /\ Distinct(Tail(l))
      /\ \A x : Has(Tail(l), x) <=> Has(l, x) /\ x # Head(l)
  BY HasTail DEF LockOK
<1>2. \A a \in Tasks : Has(Tail(l), a) <=> Queues(q, a)
  BY <1>1 DEF LockOK
<1>3. \A a \in Tasks : ~Owns(q, a)
  BY DEF LockOK, Owns, Queues
<1> QED BY <1>1, <1>2, <1>3 DEF LockOK

\* A task joins the queue; it may own the lock at once only when the queue was empty.
LEMMA LockJoined ==
    ASSUME NEW l, NEW p, NEW q, LockOK(l, p), NEW b \in Tasks, ~Queues(p, b), Queues(q, b),
           Owns(q, b) => l = <<>>,
           \A a \in Tasks \ {b} : (Queues(q, a) <=> Queues(p, a)) /\ (Owns(q, a) => Owns(p, a))
    PROVE  LockOK(Append(l, b), q)
<1>1. l \in Seq(Tasks) /\ Distinct(l) /\ ~Has(l, b)
  BY DEF LockOK
<1>2. /\ \A x : Has(Append(l, b), x) <=> Has(l, x) \/ x = b
      /\ Distinct(Append(l, b)) /\ Append(l, b) \in Seq(Tasks) /\ Append(l, b) # <<>>
  BY <1>1, HasAppend, AppendProperties
<1>3. \A a \in Tasks : Has(Append(l, b), a) <=> Queues(q, a)
  BY <1>2 DEF LockOK
<1>4. Head(Append(l, b)) = IF l = <<>> THEN b ELSE Head(l)
  BY <1>1
<1>5. \A a \in Tasks : Owns(q, a) => Head(Append(l, b)) = a
  BY <1>4 DEF LockOK
<1> QED BY <1>2, <1>3, <1>5 DEF LockOK

\* A task leaves the queue wherever it stands; the head stays when it was another's.
LEMMA LockLeft ==
    ASSUME NEW l, NEW p, NEW q, LockOK(l, p), NEW b, b \in Tasks => ~Queues(q, b),
           \A a \in Tasks \ {b} : (Queues(q, a) <=> Queues(p, a)) /\ (Owns(q, a) => Owns(p, a))
    PROVE  /\ LockOK(Only(l, Tasks \ {b}), q)
           /\ l # <<>> /\ Head(l) # b => /\ Only(l, Tasks \ {b}) # <<>>
                                         /\ Head(Only(l, Tasks \ {b})) = Head(l)
<1> DEFINE u == Only(l, Tasks \ {b})
<1>1. l \in Seq(Tasks) /\ Distinct(l)
  BY DEF LockOK
<1>2. u \in Seq(Tasks) /\ Distinct(u) /\ \A x : Has(u, x) <=> Has(l, x) /\ x \in Tasks \ {b}
  <2>1. u \in Seq(Tasks \cap (Tasks \ {b}))
    BY <1>1, OnlyTyped
  <2>2. Tasks \cap (Tasks \ {b}) \subseteq Tasks
    OBVIOUS
  <2>3. u \in Seq(Tasks)
    BY <2>1, <2>2
  <2> QED BY <1>1, <2>3, OnlyMembers
<1>3. ASSUME l # <<>>, Head(l) # b
      PROVE  u # <<>> /\ Head(u) = Head(l)
  <2>1. Head(l) \in Tasks \ {b} /\ Tail(l) \in Seq(Tasks)
    BY <1>1, <1>3
  <2>2. u = <<Head(l)>> \o Only(Tail(l), Tasks \ {b})
    BY <1>1, <1>3, <2>1, OnlyHead
  <2>3. Only(Tail(l), Tasks \ {b}) \in Seq(Tasks \cap (Tasks \ {b}))
    BY <2>1, OnlyTyped
  <2>4. PICK h, v : h = Head(l) /\ v = Only(Tail(l), Tasks \ {b})
    OBVIOUS
  <2>5. h \in Tasks /\ v \in Seq(Tasks) /\ u = <<h>> \o v
    <3>1. Tasks \cap (Tasks \ {b}) \subseteq Tasks /\ v \in Seq(Tasks \cap (Tasks \ {b}))
      BY <2>3, <2>4
    <3>2. v \in Seq(Tasks)
      BY <3>1
    <3> QED BY <2>1, <2>2, <2>4, <3>2
  <2>6. <<h>> \o v # <<>> /\ Head(<<h>> \o v) = h
    BY <2>5
  <2> QED BY <2>4, <2>5, <2>6
<1>4. \A a \in Tasks : Has(u, a) <=> Queues(q, a)
  BY <1>2 DEF LockOK
<1>5. \A a \in Tasks : Owns(q, a) => u # <<>> /\ Head(u) = a
  BY <1>3 DEF LockOK, Owns, Queues
<1> HIDE DEF u
<1> QED BY <1>2, <1>3, <1>4, <1>5 DEF LockOK, u

\* One element in front of a sequence
LEMMA InFront ==
    ASSUME NEW T, NEW v \in Seq(T), NEW h \in T
    PROVE  /\ Len(<<h>> \o v) = Len(v) + 1 /\ (<<h>> \o v)[1] = h
           /\ \A i \in 1..Len(v) : (<<h>> \o v)[i + 1] = v[i]
  OBVIOUS

\* The order of the two callers in the lock's queue
LEMMA OrderJoined ==
    ASSUME NEW l \in Seq(Tasks), NEW b \in Tasks, OrderOK(l), b # "connect"
    PROVE  OrderOK(Append(l, b))
<1>1. PICK u : u = Only(l, Callers) /\ u \in Seq(Callers)
  <2>1. Only(l, Callers) \in Seq(Tasks \cap Callers) /\ Tasks \cap Callers \subseteq Callers
    BY OnlyTyped
  <2> QED BY <2>1
<1>2. Only(Append(l, b), Callers) = IF b \in Callers THEN Append(u, b) ELSE u
  BY <1>1, OnlyAppend
<1>3. Append(u, b)[Len(u) + 1] = b /\ Len(Append(u, b)) = Len(u) + 1 /\ Len(u) \in Nat
  BY <1>1, AppendProperties
<1> QED BY <1>1, <1>2, <1>3 DEF OrderOK, Reversed

\* A release keeps the order of the two callers.
LEMMA OrderReleased ==
    ASSUME NEW l \in Seq(Tasks), l # <<>>, Distinct(l), OrderOK(l)
    PROVE  OrderOK(Tail(l))
<1>1. PICK h, u, v : h = Head(l) /\ u = Only(l, Callers) /\ v = Only(Tail(l), Callers)
  OBVIOUS
<1>2. (h \in Callers => u = <<h>> \o v) /\ (h \notin Callers => u = v)
  BY <1>1, OnlyHead
<1>3. Distinct(u) /\ v \in Seq(Tasks) /\ h \in Tasks
  <2>1. Tail(l) \in Seq(Tasks) /\ h \in Tasks
    BY <1>1
  <2>2. v \in Seq(Tasks \cap Callers) /\ Tasks \cap Callers \subseteq Tasks
    BY <1>1, <2>1, OnlyTyped
  <2>3. v \in Seq(Tasks)
    BY <2>2
  <2> QED BY <1>1, <2>1, <2>3, OnlyMembers
<1>4. ASSUME Reversed(v), h \in Callers PROVE FALSE
  <2>1. /\ Len(u) = Len(v) + 1 /\ u[1] = h
        /\ \A i \in 1..Len(v) : u[i + 1] = v[i]
    BY <1>2, <1>3, <1>4, InFront
  <2>2. Len(u) = 3 /\ u[1] = h /\ u[1 + 1] = v[1] /\ u[2 + 1] = v[2]
    BY <1>4, <2>1 DEF Reversed
  <2> QED BY <1>3, <1>4, <2>2 DEF Distinct, Callers, Reversed
<1> QED BY <1>1, <1>2, <1>4 DEF OrderOK

\* So does a waiter's leaving.
LEMMA OrderLeft ==
    ASSUME NEW l \in Seq(Tasks), NEW b, b # "disconnect", OrderOK(l)
    PROVE  OrderOK(Only(l, Tasks \ {b}))
<1>1. CASE b # "connect"
  <2>1. Tasks \cap Callers \subseteq Tasks \ {b}
    BY <1>1 DEF Callers
  <2> QED BY <2>1, OnlyWithin DEF OrderOK
<1>2. CASE b = "connect"
  <2>1. PICK u, v : u = Only(l, Tasks \ {b}) /\ v = Only(u, Callers)
    OBVIOUS
  <2>2. u \in Seq(Tasks \cap (Tasks \ {b})) /\ ~Has(u, "connect")
    BY <1>2, <2>1, OnlyTyped, OnlyMembers
  <2>3. ~Has(v, "connect")
    BY <2>1, <2>2, OnlyMembers
  <2>4. ~Reversed(v)
    BY <2>3 DEF Has, Reversed
  <2> QED BY <2>1, <2>4 DEF OrderOK
<1> QED BY <1>1, <1>2

\* connect() does not wait behind disconnect().
LEMMA OrderUsed ==
    ASSUME NEW l \in Seq(Tasks), l # <<>>, Distinct(l), OrderOK(l), Head(l) = "disconnect"
    PROVE  ~Has(l, "connect")
<1>1. SUFFICES ASSUME Has(l, "connect") PROVE FALSE
  OBVIOUS
<1>2. PICK h, u, v : h = Head(l) /\ u = Only(l, Callers) /\ v = Only(Tail(l), Callers)
  OBVIOUS
<1>3. /\ Tail(l) \in Seq(Tasks) /\ Distinct(Tail(l))
      /\ \A x : Has(Tail(l), x) <=> Has(l, x) /\ x # "disconnect"
  BY HasTail
<1>4. /\ v \in Seq(Tasks \cap Callers) /\ Distinct(v)
      /\ \A x : Has(v, x) <=> Has(Tail(l), x) /\ x \in Callers
  BY <1>2, <1>3, OnlyTyped, OnlyMembers
<1>5. \A i \in 1..Len(v) : v[i] = "connect"
  BY <1>3, <1>4 DEF Has, Callers
<1>6. PICK k \in 1..Len(v) : v[k] = "connect"
  BY <1>1, <1>3, <1>4 DEF Has, Callers
<1>7. PICK n \in Nat : n = Len(v)
  BY <1>4, LenProperties
<1>8. n = 1
  <2>1. 1 \in 1..n
    BY <1>6, <1>7
  <2>2. n \in 1..n
    BY <1>6, <1>7
  <2> QED BY <1>4, <1>5, <1>7, <2>1, <2>2 DEF Distinct
<1>9. u = <<h>> \o v /\ h \in Tasks
  BY <1>2, OnlyHead DEF Callers
<1>10. Len(u) = 2 /\ u[1] = h /\ u[1 + 1] = v[1]
  <2>1. v \in Seq(Tasks)
    BY <1>4
  <2>2. /\ Len(u) = n + 1 /\ u[1] = h
        /\ \A i \in 1..n : u[i + 1] = v[i]
    BY <1>7, <1>9, <2>1, InFront
  <2> QED BY <1>8, <2>2
<1> QED BY <1>2, <1>5, <1>7, <1>8, <1>10 DEF OrderOK, Reversed

-----------------------------------------------------------------------------
(* The invariant.                                                          *)

\* The awaits of connect(), of disconnect() and of a supervisor.
ConnectStates ==
    {"idle", "lock", "cancel", "dial", "connack", "bye", "backoff", "force", "fail", "quit"}
DisconnectStates == {"idle", "join", "lock", "ending", "flush", "force", "shut"}
SupervisorStates ==
    {"none", "ready", "sleep", "lock", "dial", "connack", "bye", "stable", "cancelled", "force",
     "fail", "quit"}
PcType ==
    /\ pc \in [Tasks -> ConnectStates \cup DisconnectStates \cup SupervisorStates]
    /\ pc["connect"] \in ConnectStates /\ pc["disconnect"] \in DisconnectStates
    /\ \A s \in Supervisors : pc[s] \in SupervisorStates

\* The records of the readers, of the hook tasks and of the client.
Readers ==
    [pc : {"none", "reading", "fatal", "ending", "retiring", "closing", "cut", "done"},
     tok : Nat, will : BOOLEAN, connack : {"none", "wait", "ok", "refused", "plain", "permanent"}]
Notes == [pc : {"none", "start", "barrier", "run", "cancelled"}, tok : Nat, up : BOOLEAN]
Hooks == [token : Nat, pending : Notes, hook : Notes, ready : BOOLEAN, holds : Int]
Clients ==
    [policy : Policies, engine : {"new", "connecting", "connected", "disconnecting", "disconnected"},
     gen : 0..MaxGens, transport : 0..MaxGens, reader : 0..MaxGens, old : 0..MaxGens,
     task : Supervisors \cup {"none"}, intentional : BOOLEAN, reconnecting : BOOLEAN,
     latch : BOOLEAN, cause : {"none", "plain", "permanent"},
     lastDisc : {"none", "transient", "terminal"}, lastConnack : {"none", "transient", "terminal"},
     attempt : 0..MaxRetries, closed : BOOLEAN, replacing : BOOLEAN, owed : BOOLEAN, bye : BOOLEAN,
     asked : BOOLEAN, exc : {"plain", "permanent"}, late : 0..MaxGens,
     intent : {"connect", "disconnect", "off"}]
Windows == {"retire", "overtaken", "orphaned", "waiting", "backoff", "doomed"}
TypeInv ==
    /\ PcType /\ reader \in [Gens -> Readers] /\ hooks \in Hooks /\ client \in Clients
    /\ cut \subseteq Windows

\* The queue, and unless connect() was the last call no connect() behind a disconnect().
LockInv == LockOK(lock, pc)
OrderInv == client.intent # "connect" => OrderOK(lock)

\* The hooks are held once for the attempt that joins its reader, once for the
\* disconnect() that does.
HoldsInv ==
    hooks.holds = (IF \E a \in Attempting : pc[a] \in Joining THEN 1 ELSE 0)
                  + (IF pc["disconnect"] \in {"force", "shut"} THEN 1 ELSE 0)

\* Tokens: no note is of a later operation than the current one, and an attempt
\* has made the running hook a note of an earlier one.
Tries(a) == pc[a] \in Trying \/ (a \in Supervisors /\ pc[a] = "force")
TokenInv ==
    /\ hooks.pending.pc \in {"none", "start"}
    /\ hooks.pending.tok <= hooks.token /\ hooks.hook.tok <= hooks.token
    /\ (\E a \in Attempting : Tries(a)) => hooks.hook.pc = "none" \/ hooks.hook.tok # hooks.token

\* The connection is up or coming up; no reader is live; no supervisor is.
Up == {"connecting", "connected"}
AllIdle == \A g \in Gens : Idle(reader[g])
Alone == \A s \in Supervisors : pc[s] = "none"

\* The only live reader is that of the transport the client names; a connection
\* that is up has one; and an attempt dials when there is none.
ReaderInv ==
    /\ \A g \in Gens : ~Idle(reader[g]) =>
          g = client.gen /\ g = client.reader /\ g = client.transport
    /\ client.engine \in {"connecting", "connected", "disconnecting"} =>
          client.gen > 0 /\ reader[client.gen].pc \in {"reading", "fatal", "ending"}
    /\ client.engine \in Up => reader[client.gen].pc # "fatal"
    /\ client.reader \in {0, client.gen}
    /\ \A a \in Attempting :
          pc[a] \in {"dial", "backoff"} => client.reader = 0 /\ client.transport = 0
    /\ \A a \in Attempting : pc[a] = "connack" => client.gen > 0
    /\ client.engine = "connecting" =>
          /\ reader[client.gen].connack # "ok"
          /\ \E a \in Attempting : pc[a] \in {"connack", "fail", "quit"}

\* The only supervisor is the one the client names; while it waits or dials the
\* connection is not up; beside an attempt of connect() it has not begun; one that
\* connect() cancelled is alone while connect() waits for its end; and a live
\* reader belongs to the current operation, unless the supervisor is about to join
\* what is left of it.
SupervisorInv ==
    /\ \A s \in Supervisors : pc[s] # "none" => client.task = s
    /\ \A s \in Supervisors :
          pc[s] \in {"sleep", "lock", "force", "dial"} => client.engine \notin Up
    /\ \A s \in Supervisors : pc["connect"] \in Trying =>
          /\ pc[s] \in {"none", "ready"}
          /\ pc[s] = "ready" => ~hooks.ready \/ client.intentional
    /\ \A s \in Supervisors :
          /\ pc[s] = "cancelled" => pc["connect"] = "cancel"
          /\ pc["connect"] = "cancel" => pc[s] \in {"none", "cancelled"}
    /\ \A g \in Gens : ~Idle(reader[g]) =>
          reader[g].tok = hooks.token \/ \E s \in Supervisors : pc[s] = "force"

\* While connect() waits for the lock of a connection that is up, the reader is ending,
\* a supervisor lives, or a disconnect() is about to take it down.
WaitingInv ==
    /\ pc["connect"] = "lock" /\ client.engine \in Up =>
        \/ reader[client.gen].pc = "ending" \/ ~Alone
        \/ pc["disconnect"] = "join" \/ Head(lock) = "disconnect"
    /\ \A s \in Supervisors : pc[s] = "ready" /\ pc["connect"] = "lock" => client.engine \notin Up

\* disconnect(): from its first await the end is intentional, from its turn at the
\* lock no supervisor is left, and what it joins is its own reader or none; while it
\* waits for an attempt to end, that attempt is closing or has closed.
Closing(a) == pc[a] \in {"bye", "fail", "quit"} \/ (pc[a] = "connack" /\ client.bye)
DisconnectInv ==
    /\ pc["disconnect"] \in {"join", "lock", "ending", "flush"} => client.intentional
    /\ pc["disconnect"] \in {"lock", "flush", "force", "shut"} => Alone
    /\ pc["disconnect"] = "flush" => client.engine \notin Up
    /\ pc["disconnect"] = "force" => client.intentional \/ AllIdle
    /\ pc["disconnect"] = "force" => client.reader \in {0, client.old}
    /\ pc["disconnect"] = "shut" => client.reader = 0
    /\ pc["disconnect"] = "ending" =>
        \/ \E a \in Attempting : Closing(a)
        \/ /\ client.reader = 0 /\ client.transport = 0 /\ client.engine = "disconnected"
           /\ pc["connect"] \in {"idle", "lock", "cancel", "force"}
           /\ \A s \in Supervisors : pc[s] \in {"none", "ready", "cancelled"}

\* A disconnect() that nobody overtook has no connect() beside it, and leaves
\* nothing behind that dials.
FinalInv ==
    /\ client.intent = "disconnect" /\ pc["disconnect"] \in {"flush", "force", "shut"} =>
            pc["connect"] = "idle" /\ client.intentional
    /\ client.intent = "off" =>
        /\ pc["connect"] = "idle" /\ pc["disconnect"] = "idle"
        /\ client.engine \in {"new", "disconnected"} /\ client.transport = 0
        /\ client.intentional /\ \A s \in Supervisors : pc[s] \in {"none", "ready"}

\* The inductive invariant.  OwnerInv is claimed unless a connect() that had not
\* begun its first attempt was overtaken by a disconnect(), or a supervisor was
\* started while connect() waited for the end of another.
Protected == "overtaken" \notin cut /\ "orphaned" \notin cut
OwnerInv == ReaderInv /\ SupervisorInv /\ WaitingInv /\ DisconnectInv /\ FinalInv
BaseInv == TypeInv /\ LockInv /\ OrderInv /\ HoldsInv /\ TokenInv
Inv == BaseInv /\ (Protected => OwnerInv)

-----------------------------------------------------------------------------
(* The operators of the model, on values of their types.                   *)

\* _cancel_obsolete() touches nothing but the state of the running hook.
LEMMA CancelObsolete ==
    ASSUME NEW h \in Hooks
    PROVE  LET k == _cancel_obsolete(h) IN
           /\ k \in Hooks /\ k.token = h.token /\ k.pending = h.pending /\ k.ready = h.ready
           /\ k.holds = h.holds /\ k.hook.tok = h.hook.tok /\ k.hook.up = h.hook.up
           /\ k.hook.pc = IF h.hook.pc \in {"start", "barrier"} THEN "cancelled" ELSE h.hook.pc
  BY DEF Hooks, Notes, _cancel_obsolete

\* begin_operation() by its arguments.
LEMMA BeginOperation ==
    ASSUME NEW h \in Hooks, NEW replace \in BOOLEAN, NEW preserve \in BOOLEAN
    PROVE  LET k == begin_operation(h, replace, preserve) IN
           /\ k \in Hooks
           /\ (replace => k.token = h.token + 1) /\ (~replace => k.token = h.token)
           /\ k.pending = NoHook /\ k.ready = TRUE /\ k.holds = h.holds
           /\ k.hook.tok = h.hook.tok /\ k.hook.up = h.hook.up
           /\ k.hook.pc = IF h.hook.pc \in {"start", "barrier"} /\ ~preserve THEN "cancelled"
                          ELSE h.hook.pc
<1>1. PICK m : m = (IF preserve THEN h ELSE _cancel_obsolete(h))
  OBVIOUS
<1>2. /\ m \in Hooks /\ m.token = h.token /\ m.holds = h.holds
      /\ m.hook.tok = h.hook.tok /\ m.hook.up = h.hook.up
      /\ m.hook.pc = IF h.hook.pc \in {"start", "barrier"} /\ ~preserve THEN "cancelled"
                     ELSE h.hook.pc
  BY <1>1, CancelObsolete
<1>3. begin_operation(h, replace, preserve) =
        [m EXCEPT !.token = @ + (IF replace THEN 1 ELSE 0), !.pending = NoHook, !.ready = TRUE]
  BY <1>1 DEF begin_operation
<1>4. NoHook \in Notes
  BY DEF NoHook, Notes
<1>5. PICK k : k = begin_operation(h, replace, preserve)
  OBVIOUS
<1>6. PICK n \in Nat : n = h.token + (IF replace THEN 1 ELSE 0)
  BY DEF Hooks
<1>7. k = [m EXCEPT !.token = n, !.pending = NoHook, !.ready = TRUE]
  BY <1>2, <1>3, <1>5, <1>6
<1>8. /\ k \in Hooks /\ k.token = n /\ k.pending = NoHook /\ k.ready = TRUE
      /\ k.holds = m.holds /\ k.hook = m.hook
  BY <1>2, <1>4, <1>7 DEF Hooks
<1>9. (replace => n = h.token + 1) /\ (~replace => n = h.token)
  BY <1>6 DEF Hooks
<1> QED BY <1>2, <1>5, <1>8, <1>9

\* hold() and release() only count.
LEMMA HoldHooks ==
    ASSUME NEW h \in Hooks
    PROVE  LET k == hold(h) IN
           /\ k \in Hooks /\ k.token = h.token /\ k.pending = h.pending /\ k.ready = h.ready
           /\ k.hook = h.hook /\ k.holds = h.holds + 1
  BY DEF Hooks, hold

\* release() undoes hold().
LEMMA ReleaseHooks ==
    ASSUME NEW h \in Hooks
    PROVE  LET k == release(h) IN
           /\ k \in Hooks /\ k.token = h.token /\ k.pending = h.pending /\ k.ready = h.ready
           /\ k.hook = h.hook /\ k.holds = h.holds - 1
  BY DEF Hooks, release

\* connected() queues an on_connect, for the current token only.
LEMMA ConnectedHooks ==
    ASSUME NEW h \in Hooks, NEW tok
    PROVE  LET k == connected(h, tok) IN
           /\ k \in Hooks /\ k.token = h.token /\ k.hook = h.hook /\ k.holds = h.holds
           /\ tok # h.token => k = h
           /\ tok = h.token =>
                /\ k.ready = TRUE
                /\ k.pending.pc = "start" /\ k.pending.tok = tok /\ k.pending.up
<1>1. PICK n : n = Note(tok, TRUE)
  OBVIOUS
<1>2. n.pc = "start" /\ n.tok = tok /\ n.up = TRUE /\ (tok = h.token => n \in Notes)
  BY <1>1 DEF Hooks, Notes, Note
<1>3. connected(h, tok) = IF tok # h.token THEN h ELSE [h EXCEPT !.ready = TRUE, !.pending = n]
  BY <1>1 DEF connected
<1> QED BY <1>2, <1>3 DEF Hooks

\* disconnected() queues an on_disconnect and closes the gate, for the current token only.
LEMMA DisconnectedHooks ==
    ASSUME NEW h \in Hooks, NEW tok
    PROVE  LET k == disconnected(h, tok) IN
           /\ k \in Hooks /\ k.token = h.token /\ k.holds = h.holds
           /\ k.hook.tok = h.hook.tok /\ k.hook.up = h.hook.up
           /\ tok # h.token => k = h
           /\ tok = h.token =>
                /\ k.ready = FALSE
                /\ k.pending.pc = "start" /\ k.pending.tok = tok /\ ~k.pending.up
                /\ k.hook.pc = IF h.hook.pc \in {"start", "barrier"} THEN "cancelled" ELSE h.hook.pc
<1>1. PICK n : n = Note(tok, FALSE)
  OBVIOUS
<1>2. n.pc = "start" /\ n.tok = tok /\ n.up = FALSE /\ (tok = h.token => n \in Notes)
  BY <1>1 DEF Hooks, Notes, Note
<1>3. PICK m : m = _cancel_obsolete(h)
  OBVIOUS
<1>4. /\ m \in Hooks /\ m.token = h.token /\ m.holds = h.holds
      /\ m.hook.tok = h.hook.tok /\ m.hook.up = h.hook.up
      /\ m.hook.pc = IF h.hook.pc \in {"start", "barrier"} THEN "cancelled" ELSE h.hook.pc
  BY <1>3, CancelObsolete
<1>5. disconnected(h, tok) = IF tok # h.token THEN h
                             ELSE [m EXCEPT !.ready = FALSE, !.pending = n]
  BY <1>1, <1>3 DEF disconnected
<1> QED BY <1>2, <1>4, <1>5 DEF Hooks

\* retiring() drops what is queued and closes the gate, for the current token only.
LEMMA RetiringHooks ==
    ASSUME NEW h \in Hooks, NEW tok
    PROVE  LET k == retiring(h, tok) IN
           /\ k \in Hooks /\ k.token = h.token /\ k.holds = h.holds
           /\ k.hook.tok = h.hook.tok /\ k.hook.up = h.hook.up
           /\ tok # h.token => k = h
           /\ tok = h.token =>
                /\ k.ready = FALSE /\ k.pending = NoHook
                /\ k.hook.pc = IF h.hook.pc \in {"start", "barrier"} THEN "cancelled" ELSE h.hook.pc
<1>1. NoHook \in Notes
  BY DEF Notes, NoHook
<1>2. PICK m : m = _cancel_obsolete(h)
  OBVIOUS
<1>3. /\ m \in Hooks /\ m.token = h.token /\ m.holds = h.holds
      /\ m.hook.tok = h.hook.tok /\ m.hook.up = h.hook.up
      /\ m.hook.pc = IF h.hook.pc \in {"start", "barrier"} THEN "cancelled" ELSE h.hook.pc
  BY <1>2, CancelObsolete
<1>4. retiring(h, tok) = IF tok # h.token THEN h
                         ELSE [m EXCEPT !.ready = FALSE, !.pending = NoHook]
  BY <1>2 DEF retiring
<1> QED BY <1>1, <1>3, <1>4 DEF Hooks

\* Failing the receipts settles them and may set the latch, never clear it.
LEMMA FailPending ==
    ASSUME NEW c \in Clients, NEW d \in _fail_pending(c)
    PROVE  \E latch \in BOOLEAN : /\ d = [c EXCEPT !.owed = FALSE, !.latch = latch]
                                  /\ c.latch => latch
<1>1. CASE d = [c EXCEPT !.owed = FALSE]
  <2>1. d = [c EXCEPT !.owed = FALSE, !.latch = c.latch] /\ c.latch \in BOOLEAN
    BY <1>1 DEF Clients
  <2> QED BY <2>1
<1>2. CASE d = [c EXCEPT !.owed = FALSE, !.latch = TRUE]
  BY <1>2
<1> QED BY <1>1, <1>2 DEF _fail_pending

\* What a cancellation does to the readers
Cancels(g) ==
    /\ reader' \in [Gens -> Readers]
    /\ \A h \in Gens :
        /\ reader'[h].tok = reader[h].tok /\ reader'[h].will = reader[h].will
        /\ reader'[h].connack = reader[h].connack
        /\ h # g => reader'[h] = reader[h]
    /\ g # 0 =>
        /\ reader[g].pc \in {"reading", "fatal"} => reader'[g].pc = "ending"
        /\ reader[g].pc = "closing" => reader'[g].pc \in {"closing", "cut"}
        /\ reader[g].pc \notin {"reading", "fatal", "closing"} => reader'[g].pc = reader[g].pc
    /\ cut' \in {cut, cut \cup {"retire"}}
    /\ g # 0 /\ cut' = {} =>
        /\ reader[g].pc = "closing" => reader'[g].pc = "closing" /\ ~(reader[g].will /\ client.intentional)

\* A cancellation of any reader, or of none, is one of those.
LEMMA CancelReaderStep ==
    ASSUME TypeInv, NEW g \in 0..MaxGens, CancelReader(g)
    PROVE  Cancels(g)
<1>1. CASE g = 0
  <2>1. UNCHANGED <<reader, cut>>
    BY <1>1 DEF CancelReader
  <2> QED BY <1>1, <2>1 DEF TypeInv, Cancels, Gens
<1>2. CASE g # 0
  <2>1. g \in Gens
    BY <1>2, LifecycleAssumption DEF Gens
  <2>2. PICK r \in CancelledReader(reader[g]) :
            /\ reader' = [reader EXCEPT ![g] = r]
            /\ cut' = IF r.pc = "cut" \/ (r.pc = "closing" /\ r.will /\ client.intentional)
                      THEN cut \cup {"retire"} ELSE cut
    BY <1>2 DEF CancelReader
  <2>3. reader \in [Gens -> Readers] /\ reader[g] \in Readers
    BY <2>1 DEF TypeInv
  <2>4. /\ r \in Readers
        /\ r.tok = reader[g].tok /\ r.will = reader[g].will /\ r.connack = reader[g].connack
        /\ reader[g].pc \in {"reading", "fatal"} => r.pc = "ending"
        /\ reader[g].pc = "closing" => r.pc \in {"closing", "cut"}
        /\ reader[g].pc \notin {"reading", "fatal", "closing"} => r.pc = reader[g].pc
    <3>1. CASE reader[g].pc \in {"reading", "fatal"}
      BY <2>2, <2>3, <3>1 DEF CancelledReader, Readers
    <3>2. CASE reader[g].pc = "closing"
      BY <2>2, <2>3, <3>2 DEF CancelledReader, Readers
    <3>3. CASE reader[g].pc \notin {"reading", "fatal", "closing"}
      <4>1. r = reader[g]
        BY <2>2, <3>3 DEF CancelledReader
      <4> QED BY <2>3, <3>3, <4>1
    <3> QED BY <3>1, <3>2, <3>3
  <2>5. /\ reader' \in [Gens -> Readers] /\ reader'[g] = r
        /\ \A h \in Gens : h # g => reader'[h] = reader[h]
    BY <2>1, <2>2, <2>3, <2>4
  <2>6. \A h \in Gens :
        /\ reader'[h].tok = reader[h].tok /\ reader'[h].will = reader[h].will
        /\ reader'[h].connack = reader[h].connack
    BY <2>4, <2>5
  <2>7. cut' \in {cut, cut \cup {"retire"}}
    BY <2>2
  <2>8. ASSUME cut' = {}, reader[g].pc = "closing"
        PROVE  reader'[g].pc = "closing" /\ ~(reader[g].will /\ client.intentional)
    BY <2>2, <2>4, <2>5, <2>8
  <2> QED BY <1>2, <2>4, <2>5, <2>6, <2>7, <2>8 DEF Cancels
<1> QED BY <1>1, <1>2

\* A cancelled reader never comes back to life or changes what it reports.
LEMMA CancelsKeep ==
    ASSUME NEW g, Cancels(g)
    PROVE  \A h \in Gens :
            /\ Idle(reader[h]) => Idle(reader'[h])
            /\ reader[h].pc \in {"reading", "fatal", "ending"} => reader'[h].pc \in {reader[h].pc, "ending"}
            /\ reader'[h].connack = reader[h].connack /\ reader'[h].tok = reader[h].tok
  BY LifecycleAssumption DEF Cancels, Idle, Gens

-----------------------------------------------------------------------------
(* The reader and its peer.                                                *)

\* The reader's finally, to its first await, keeps the invariant.
LEMMA ReaderRetiresStep ==
    ASSUME Inv, NEW g \in Gens, ReaderRetires(g)
    PROVE  Inv'
<1>1. TypeInv /\ LockInv /\ OrderInv /\ HoldsInv /\ TokenInv
  BY DEF Inv, BaseInv
<1>2. /\ hooks' \in Hooks /\ hooks \in Hooks /\ hooks'.token = hooks.token /\ hooks'.holds = hooks.holds
      /\ hooks'.hook.tok = hooks.hook.tok /\ (hooks'.hook.pc = "none" <=> hooks.hook.pc = "none")
      /\ hooks'.pending \in {hooks.pending, NoHook}
      /\ (hooks'.ready = TRUE => hooks.ready)
  BY <1>1, RetiringHooks DEF TypeInv, ReaderRetires
<1>3. TypeInv'
  <2>1. PcType' /\ cut' \subseteq Windows
    BY <1>1, <1>2, LifecycleAssumption DEF TypeInv, PcType, ConnectStates, DisconnectStates,
       SupervisorStates, Tasks, Attempting, Windows, ReaderRetires
  <2>2. reader' \in [Gens -> Readers]
    BY <1>1, <1>2 DEF TypeInv, Readers, ReaderRetires
  <2>3. client' \in Clients
    BY <1>1, <1>2, LifecycleAssumption DEF TypeInv, Clients, Gens, ReaderRetires
  <2> QED BY <1>2, <2>1, <2>2, <2>3 DEF TypeInv, PcType
<1>4. LockInv'
  BY <1>1, <1>2 DEF LockInv, ReaderRetires
<1>5. OrderInv'
  BY <1>1, <1>2 DEF OrderInv, TypeInv, Clients, ReaderRetires
<1>6. HoldsInv'
  BY <1>1, <1>2, LifecycleAssumption DEF HoldsInv, TypeInv, PcType, Joining, Tasks, Attempting,
     Hooks, ReaderRetires
<1>7. TokenInv'
  BY <1>1, <1>2, LifecycleAssumption DEF TokenInv, Tries, TypeInv, PcType, Trying, Tasks,
     Attempting, Hooks, NoHook, Notes, ReaderRetires
<1>8. ASSUME Protected' PROVE OwnerInv'
  <2>1. OwnerInv
    BY <1>1, <1>2, <1>8 DEF Inv, Protected, ReaderRetires
  <2>2. ReaderInv'
    BY <1>1, <1>2, <2>1, LifecycleAssumption DEF OwnerInv, TypeInv, PcType, Readers, Clients,
       ConnectStates, DisconnectStates, SupervisorStates, Tasks, Attempting, Gens, ReaderInv,
       Idle, Up, ReaderRetires
  <2>3. SupervisorInv'
    BY <1>1, <1>2, <2>1, LifecycleAssumption DEF OwnerInv, TypeInv, PcType, Readers, Clients,
       ConnectStates, DisconnectStates, SupervisorStates, Tasks, Attempting, Gens, SupervisorInv,
       ReaderInv, Idle, Up, Trying, ReaderRetires
  <2>4. WaitingInv'
    BY <1>1, <1>2, <2>1, LifecycleAssumption DEF OwnerInv, TypeInv, PcType, Readers, Clients,
       ConnectStates, DisconnectStates, SupervisorStates, Tasks, Attempting, Gens, WaitingInv,
       ReaderInv, Idle, Up, Alone, ReaderRetires
  <2>5. DisconnectInv'
    BY <1>1, <1>2, <2>1, LifecycleAssumption DEF OwnerInv, TypeInv, PcType, Readers, Clients,
       ConnectStates, DisconnectStates, SupervisorStates, Tasks, Attempting, Gens, DisconnectInv,
       ReaderInv, Idle, Up, Alone, AllIdle, Closing, ReaderRetires
  <2>6. FinalInv'
    BY <1>1, <1>2, <2>1, LifecycleAssumption DEF OwnerInv, TypeInv, PcType, Readers, Clients,
       ConnectStates, DisconnectStates, SupervisorStates, Tasks, Attempting, Gens, FinalInv,
       DisconnectInv, ReaderInv, Idle, Up, ReaderRetires
  <2> QED BY <2>2, <2>3, <2>4, <2>5, <2>6 DEF OwnerInv
<1> QED BY <1>3, <1>4, <1>5, <1>6, <1>7, <1>8 DEF Inv, BaseInv

\* _fail_pending() writes two fields of the client; the record keeps its type.
LEMMA SettledClient ==
    ASSUME NEW c \in Clients, NEW owed \in BOOLEAN, NEW latch \in BOOLEAN
    PROVE  [c EXCEPT !.owed = owed, !.latch = latch] \in Clients
BY DEF Clients

\* The reader's decision writes two more.
LEMMA DecidedClient ==
    ASSUME NEW c \in Clients, NEW cause \in {"plain", "permanent"}, NEW will \in BOOLEAN,
           NEW owed \in BOOLEAN, NEW latch \in BOOLEAN
    PROVE  [c EXCEPT !.cause = cause, !.reconnecting = will, !.owed = owed, !.latch = latch] \in Clients
<1>1. PICK d : d = [c EXCEPT !.cause = cause, !.reconnecting = will]
  OBVIOUS
<1>2. d \in Clients
  BY <1>1 DEF Clients
<1>3. [c EXCEPT !.cause = cause, !.reconnecting = will, !.owed = owed, !.latch = latch]
        = [d EXCEPT !.owed = owed, !.latch = latch]
  BY <1>1 DEF Clients
<1> QED BY <1>2, <1>3, SettledClient

\* So does its decision to reconnect or to give up,
LEMMA ReaderDecidesStep ==
    ASSUME Inv, NEW g \in Gens, ReaderDecides(g)
    PROVE  Inv'
<1>1. TypeInv /\ LockInv /\ OrderInv /\ HoldsInv /\ TokenInv
  BY DEF Inv, BaseInv
<1>2. hooks' = hooks /\ hooks \in Hooks
  BY <1>1 DEF ReaderDecides, TypeInv
<1>3. PICK cause \in {"plain", "permanent"}, will \in BOOLEAN, owed \in BOOLEAN, latch \in BOOLEAN :
        client' = [client EXCEPT !.cause = cause, !.reconnecting = will, !.owed = owed, !.latch = latch]
  <2>1. PICK c : c = _propose_disconnect_cause(client, "plain")
    OBVIOUS
  <2>2. PICK cause \in {"plain", "permanent"} : c = [client EXCEPT !.cause = cause]
    BY <1>1, <2>1 DEF TypeInv, Clients, _propose_disconnect_cause
  <2>3. c \in Clients
    BY <1>1, <2>2 DEF TypeInv, Clients
  <2>4. PICK will \in BOOLEAN : will = _will_reconnect(c)
    BY DEF _will_reconnect
  <2>5. PICK d \in Clients : d = [c EXCEPT !.reconnecting = will]
    <3>1. [c EXCEPT !.reconnecting = will] \in Clients
      BY <2>3, <2>4 DEF Clients
    <3> QED BY <3>1
  <2>6. client' = d \/ client' \in _fail_pending(d)
    BY <2>1, <2>4, <2>5 DEF ReaderDecides
  <2>7. PICK owed \in BOOLEAN, latch \in BOOLEAN : client' = [d EXCEPT !.owed = owed, !.latch = latch]
    <3>1. CASE client' = d
      <4>1. d = [d EXCEPT !.owed = d.owed, !.latch = d.latch] /\ d.owed \in BOOLEAN /\ d.latch \in BOOLEAN
        BY <2>5 DEF Clients
      <4> QED BY <3>1, <4>1
    <3>2. CASE client' \in _fail_pending(d)
      BY <2>5, <3>2, FailPending, ZenonT(60)
    <3> QED BY <2>6, <3>1, <3>2
  <2>8. client' = [client EXCEPT !.cause = cause, !.reconnecting = will, !.owed = owed, !.latch = latch]
    BY <1>1, <2>2, <2>5, <2>7 DEF TypeInv, Clients
  <2> QED BY <2>8
<1>4. TypeInv'
  <2>1. PcType' /\ cut' \subseteq Windows
    BY <1>1, <1>2, <1>3, LifecycleAssumption DEF TypeInv, PcType, ConnectStates, DisconnectStates,
       SupervisorStates, Tasks, Attempting, Windows, ReaderDecides
  <2>2. reader' \in [Gens -> Readers]
    <3>1. PICK will0 \in BOOLEAN, connack \in {"none", "wait", "ok", "refused", "plain", "permanent"} :
            reader' = [reader EXCEPT ![g].pc = "closing", ![g].will = will0, ![g].connack = connack]
      <4>1. \A c : _will_reconnect(c) \in BOOLEAN
        BY DEF _will_reconnect
      <4>2. reader[g].connack \in {"none", "wait", "ok", "refused", "plain", "permanent"}
        BY <1>1 DEF TypeInv, Readers
      <4> QED BY <4>1, <4>2 DEF ReaderDecides, Connack
    <3>2. PICK r : r = [reader[g] EXCEPT !.pc = "closing", !.will = will0, !.connack = connack]
      OBVIOUS
    <3>3. reader[g] \in Readers /\ reader \in [Gens -> Readers]
      BY <1>1 DEF TypeInv
    <3>4. r \in Readers
      BY <3>1, <3>2, <3>3 DEF Readers
    <3>5. reader' = [reader EXCEPT ![g] = r]
      BY <3>1, <3>2, <3>3
    <3> QED BY <3>3, <3>4, <3>5
  <2>3. client' \in Clients
    <3>1. client \in Clients
      BY <1>1 DEF TypeInv
    <3> QED BY <1>3, <3>1, DecidedClient
  <2> QED BY <1>2, <2>1, <2>2, <2>3 DEF TypeInv, PcType
<1>5. LockInv'
  BY <1>1, <1>2, <1>3 DEF LockInv, ReaderDecides
<1>6. OrderInv'
  BY <1>1, <1>2, <1>3 DEF OrderInv, TypeInv, Clients, ReaderDecides
<1>7. HoldsInv'
  BY <1>1, <1>2, <1>3, LifecycleAssumption DEF HoldsInv, TypeInv, PcType, Joining, Tasks,
     Attempting, Hooks, ReaderDecides
<1>8. TokenInv'
  BY <1>1, <1>2, <1>3, LifecycleAssumption DEF TokenInv, Tries, TypeInv, PcType, Trying, Tasks,
     Attempting, Hooks, NoHook, Notes, ReaderDecides
<1>9. ASSUME Protected' PROVE OwnerInv'
  <2>1. OwnerInv
    BY <1>1, <1>2, <1>3, <1>9 DEF Inv, Protected, ReaderDecides
  <2>2. ReaderInv'
    BY <1>1, <1>2, <1>3, <2>1, LifecycleAssumption DEF OwnerInv, TypeInv, PcType, Readers,
       Clients, ConnectStates, DisconnectStates, SupervisorStates, Tasks, Attempting, Gens,
       ReaderInv, Idle, Up, ReaderDecides
  <2>3. SupervisorInv'
    BY <1>1, <1>2, <1>3, <2>1, LifecycleAssumption DEF OwnerInv, TypeInv, PcType, Readers,
       Clients, ConnectStates, DisconnectStates, SupervisorStates, Tasks, Attempting, Gens,
       SupervisorInv, ReaderInv, Idle, Up, Trying, ReaderDecides
  <2>4. WaitingInv'
    BY <1>1, <1>2, <1>3, <2>1, LifecycleAssumption DEF OwnerInv, TypeInv, PcType, Readers,
       Clients, ConnectStates, DisconnectStates, SupervisorStates, Tasks, Attempting, Gens,
       WaitingInv, ReaderInv, Idle, Up, Alone, ReaderDecides
  <2>5. DisconnectInv'
    BY <1>1, <1>2, <1>3, <2>1, LifecycleAssumption, SMTT(30) DEF OwnerInv, TypeInv, PcType, Readers,
       Clients, ConnectStates, DisconnectStates, SupervisorStates, Tasks, Attempting, Gens,
       DisconnectInv, ReaderInv, Idle, Up, Alone, AllIdle, Closing, ReaderDecides
  <2>6. FinalInv'
    BY <1>1, <1>2, <1>3, <2>1, LifecycleAssumption DEF OwnerInv, TypeInv, PcType, Readers,
       Clients, ConnectStates, DisconnectStates, SupervisorStates, Tasks, Attempting, Gens,
       FinalInv, DisconnectInv, ReaderInv, Idle, Up, ReaderDecides
  <2> QED BY <2>2, <2>3, <2>4, <2>5, <2>6 DEF OwnerInv
<1> QED BY <1>4, <1>5, <1>6, <1>7, <1>8, <1>9 DEF Inv, BaseInv

\* the arrival of an accepting CONNACK,
LEMMA ConnackArrivesStep ==
    ASSUME Inv, NEW g \in Gens, ConnackArrives(g)
    PROVE  Inv'
<1>1. TypeInv /\ LockInv /\ OrderInv /\ HoldsInv /\ TokenInv
  BY DEF Inv, BaseInv
<1>2. hooks' = hooks /\ hooks \in Hooks
  BY <1>1 DEF ConnackArrives, TypeInv
<1>3. TypeInv'
  <2>1. PcType' /\ cut' \subseteq Windows
    BY <1>1, <1>2, LifecycleAssumption DEF TypeInv, PcType, ConnectStates, DisconnectStates,
       SupervisorStates, Tasks, Attempting, Windows, ConnackArrives
  <2>2. reader' \in [Gens -> Readers]
    BY <1>1, <1>2 DEF TypeInv, Readers, ConnackArrives
  <2>3. client' \in Clients
    BY <1>1, <1>2, LifecycleAssumption DEF TypeInv, Clients, Gens, ConnackArrives
  <2> QED BY <1>2, <2>1, <2>2, <2>3 DEF TypeInv, PcType
<1>4. LockInv'
  BY <1>1, <1>2 DEF LockInv, ConnackArrives
<1>5. OrderInv'
  BY <1>1, <1>2 DEF OrderInv, TypeInv, Clients, ConnackArrives
<1>6. HoldsInv'
  BY <1>1, <1>2, LifecycleAssumption DEF HoldsInv, TypeInv, PcType, Joining, Tasks, Attempting,
     Hooks, ConnackArrives
<1>7. TokenInv'
  BY <1>1, <1>2, LifecycleAssumption DEF TokenInv, Tries, TypeInv, PcType, Trying, Tasks,
     Attempting, Hooks, NoHook, Notes, ConnackArrives
<1>8. ASSUME Protected' PROVE OwnerInv'
  <2>1. OwnerInv
    BY <1>1, <1>2, <1>8 DEF Inv, Protected, ConnackArrives
  <2>2. ReaderInv'
    BY <1>1, <1>2, <2>1, LifecycleAssumption DEF OwnerInv, TypeInv, PcType, Readers, Clients,
       ConnectStates, DisconnectStates, SupervisorStates, Tasks, Attempting, Gens, ReaderInv,
       Idle, Up, ConnackArrives
  <2>3. SupervisorInv'
    BY <1>1, <1>2, <2>1, LifecycleAssumption DEF OwnerInv, TypeInv, PcType, Readers, Clients,
       ConnectStates, DisconnectStates, SupervisorStates, Tasks, Attempting, Gens, SupervisorInv,
       ReaderInv, Idle, Up, Trying, ConnackArrives
  <2>4. WaitingInv'
    BY <1>1, <1>2, <2>1, LifecycleAssumption DEF OwnerInv, TypeInv, PcType, Readers, Clients,
       ConnectStates, DisconnectStates, SupervisorStates, Tasks, Attempting, Gens, WaitingInv,
       ReaderInv, Idle, Up, Alone, ConnackArrives
  <2>5. DisconnectInv'
    BY <1>1, <1>2, <2>1, LifecycleAssumption DEF OwnerInv, TypeInv, PcType, Readers, Clients,
       ConnectStates, DisconnectStates, SupervisorStates, Tasks, Attempting, Gens, DisconnectInv,
       ReaderInv, Idle, Up, Alone, AllIdle, Closing, ConnackArrives
  <2>6. FinalInv'
    BY <1>1, <1>2, <2>1, LifecycleAssumption DEF OwnerInv, TypeInv, PcType, Readers, Clients,
       ConnectStates, DisconnectStates, SupervisorStates, Tasks, Attempting, Gens, FinalInv,
       DisconnectInv, ReaderInv, Idle, Up, ConnackArrives
  <2> QED BY <2>2, <2>3, <2>4, <2>5, <2>6 DEF OwnerInv
<1> QED BY <1>3, <1>4, <1>5, <1>6, <1>7, <1>8 DEF Inv, BaseInv

\* and the DISCONNECT sent for a peer error.
LEMMA FatalSentStep ==
    ASSUME Inv, NEW g \in Gens, FatalSent(g)
    PROVE  Inv'
<1>1. TypeInv /\ LockInv /\ OrderInv /\ HoldsInv /\ TokenInv
  BY DEF Inv, BaseInv
<1>2. hooks' = hooks /\ hooks \in Hooks
  BY <1>1 DEF FatalSent, TypeInv
<1>3. PICK owed \in BOOLEAN, latch \in BOOLEAN : client' = [client EXCEPT !.owed = owed, !.latch = latch]
  <2>1. client \in Clients
    BY <1>1 DEF TypeInv
  <2>2. CASE client' = client
    <3>1. client = [client EXCEPT !.owed = client.owed, !.latch = client.latch]
           /\ client.owed \in BOOLEAN /\ client.latch \in BOOLEAN
      BY <2>1 DEF Clients
    <3> QED BY <2>2, <3>1
  <2>3. CASE client' \in _fail_pending(client)
    BY <2>1, <2>3, FailPending
  <2> QED BY <2>2, <2>3 DEF FatalSent
<1>4. TypeInv'
  <2>1. PcType' /\ cut' \subseteq Windows
    BY <1>1, <1>2, <1>3, LifecycleAssumption DEF TypeInv, PcType, ConnectStates, DisconnectStates,
       SupervisorStates, Tasks, Attempting, Windows, FatalSent
  <2>2. reader' \in [Gens -> Readers]
    BY <1>1, <1>2, <1>3 DEF TypeInv, Readers, FatalSent
  <2>3. client' \in Clients
    <3>1. client \in Clients
      BY <1>1 DEF TypeInv
    <3> QED BY <1>3, <3>1, SettledClient
  <2> QED BY <1>2, <2>1, <2>2, <2>3 DEF TypeInv, PcType
<1>5. LockInv'
  BY <1>1, <1>2, <1>3 DEF LockInv, FatalSent
<1>6. OrderInv'
  BY <1>1, <1>2, <1>3 DEF OrderInv, TypeInv, Clients, FatalSent
<1>7. HoldsInv'
  BY <1>1, <1>2, <1>3, LifecycleAssumption DEF HoldsInv, TypeInv, PcType, Joining, Tasks,
     Attempting, Hooks, FatalSent
<1>8. TokenInv'
  BY <1>1, <1>2, <1>3, LifecycleAssumption DEF TokenInv, Tries, TypeInv, PcType, Trying, Tasks,
     Attempting, Hooks, NoHook, Notes, FatalSent
<1>9. ASSUME Protected' PROVE OwnerInv'
  <2>1. OwnerInv
    BY <1>1, <1>2, <1>3, <1>9 DEF Inv, Protected, FatalSent
  <2>2. ReaderInv'
    BY <1>1, <1>2, <1>3, <2>1, LifecycleAssumption DEF OwnerInv, TypeInv, PcType, Readers,
       Clients, ConnectStates, DisconnectStates, SupervisorStates, Tasks, Attempting, Gens,
       ReaderInv, Idle, Up, FatalSent
  <2>3. SupervisorInv'
    BY <1>1, <1>2, <1>3, <2>1, LifecycleAssumption DEF OwnerInv, TypeInv, PcType, Readers,
       Clients, ConnectStates, DisconnectStates, SupervisorStates, Tasks, Attempting, Gens,
       SupervisorInv, ReaderInv, Idle, Up, Trying, FatalSent
  <2>4. WaitingInv'
    BY <1>1, <1>2, <1>3, <2>1, LifecycleAssumption DEF OwnerInv, TypeInv, PcType, Readers,
       Clients, ConnectStates, DisconnectStates, SupervisorStates, Tasks, Attempting, Gens,
       WaitingInv, ReaderInv, Idle, Up, Alone, FatalSent
  <2>5. DisconnectInv'
    BY <1>1, <1>2, <1>3, <2>1, LifecycleAssumption DEF OwnerInv, TypeInv, PcType, Readers,
       Clients, ConnectStates, DisconnectStates, SupervisorStates, Tasks, Attempting, Gens,
       DisconnectInv, ReaderInv, Idle, Up, Alone, AllIdle, Closing, FatalSent
  <2>6. FinalInv'
    BY <1>1, <1>2, <1>3, <2>1, LifecycleAssumption DEF OwnerInv, TypeInv, PcType, Readers,
       Clients, ConnectStates, DisconnectStates, SupervisorStates, Tasks, Attempting, Gens,
       FinalInv, DisconnectInv, ReaderInv, Idle, Up, FatalSent
  <2> QED BY <2>2, <2>3, <2>4, <2>5, <2>6 DEF OwnerInv
<1> QED BY <1>4, <1>5, <1>6, <1>7, <1>8, <1>9 DEF Inv, BaseInv

\* The client is connected and nobody waits for its CONNACK.
Unanswered == client.engine = "connected" /\ \A a \in Attempting : pc[a] # "connack"

\* What every loss of a connection does.
Loses(g, r, c) ==
    /\ r \in Readers /\ c \in Clients
    /\ r.tok = reader[g].tok /\ r.will = reader[g].will
    /\ r.connack = "ok" => reader[g].connack = "ok"
    /\ r.pc = IF c.engine = "disconnecting" THEN "fatal" ELSE "ending"
    /\ c.gen = client.gen /\ c.transport = client.transport /\ c.reader = client.reader
    /\ c.old = client.old /\ c.task = client.task /\ c.bye = client.bye /\ c.intent = client.intent
    /\ c.engine \in {client.engine, "disconnecting", "disconnected"}
    /\ c.reconnecting = client.reconnecting
    /\ c.intentional = client.intentional \/ (c.intentional = TRUE /\ Unanswered)

\* A lost connection keeps the invariant.
LEMMA LostStep ==
    ASSUME Inv, NEW g \in Gens, NEW r, NEW c, Lost(g, r, c), Loses(g, r, c)
    PROVE  Inv'
<1>1. TypeInv /\ LockInv /\ OrderInv /\ HoldsInv /\ TokenInv
  BY DEF Inv, BaseInv
<1>2. hooks' = hooks /\ hooks \in Hooks
  BY <1>1 DEF Lost, Loses, TypeInv
<1>3. TypeInv'
  <2>1. PcType' /\ cut' \subseteq Windows
    BY <1>1, <1>2, LifecycleAssumption DEF TypeInv, PcType, ConnectStates, DisconnectStates,
       SupervisorStates, Tasks, Attempting, Windows, Lost, Loses
  <2>2. reader' \in [Gens -> Readers]
    BY <1>1, <1>2 DEF TypeInv, Readers, Lost, Loses
  <2>3. client' \in Clients
    BY <1>1, LifecycleAssumption DEF TypeInv, Clients, Gens, Lost, Loses
  <2> QED BY <1>2, <2>1, <2>2, <2>3 DEF TypeInv, PcType
<1>4. LockInv'
  BY <1>1, <1>2 DEF LockInv, Lost, Loses
<1>5. OrderInv'
  BY <1>1, <1>2 DEF OrderInv, TypeInv, Clients, Lost, Loses
<1>6. HoldsInv'
  BY <1>1, <1>2, LifecycleAssumption DEF HoldsInv, TypeInv, PcType, Joining, Tasks, Attempting,
     Hooks, Lost, Loses
<1>7. TokenInv'
  BY <1>1, <1>2, LifecycleAssumption DEF TokenInv, Tries, TypeInv, PcType, Trying, Tasks,
     Attempting, Hooks, NoHook, Notes, Lost, Loses
<1>8. ASSUME Protected' PROVE OwnerInv'
  <2>1. OwnerInv
    BY <1>1, <1>2, <1>8 DEF Inv, Protected, Lost, Loses
  <2>2. ReaderInv'
    BY <1>1, <1>2, <2>1, LifecycleAssumption DEF OwnerInv, TypeInv, PcType, Readers, Clients,
       ConnectStates, DisconnectStates, SupervisorStates, Tasks, Attempting, Gens, ReaderInv,
       Idle, Up, Lost, Loses
  <2>3. SupervisorInv'
    BY <1>1, <1>2, <2>1, LifecycleAssumption DEF OwnerInv, TypeInv, PcType, Readers, Clients,
       ConnectStates, DisconnectStates, SupervisorStates, Tasks, Attempting, Gens, SupervisorInv,
       ReaderInv, Idle, Up, Trying, Lost, Loses
  <2>4. WaitingInv'
    BY <1>1, <1>2, <2>1, LifecycleAssumption DEF OwnerInv, TypeInv, PcType, Readers, Clients,
       ConnectStates, DisconnectStates, SupervisorStates, Tasks, Attempting, Gens, WaitingInv,
       ReaderInv, Idle, Up, Alone, Lost, Loses
  <2>5. DisconnectInv'
    BY <1>1, <1>2, <2>1, LifecycleAssumption DEF OwnerInv, TypeInv, PcType, Readers, Clients,
       ConnectStates, DisconnectStates, SupervisorStates, Tasks, Attempting, Gens, DisconnectInv,
       ReaderInv, Idle, Up, Alone, AllIdle, Closing, Lost, Loses
  <2>6. FinalInv'
    BY <1>1, <1>2, <2>1, LifecycleAssumption DEF OwnerInv, TypeInv, PcType, Readers, Clients,
       ConnectStates, DisconnectStates, SupervisorStates, Tasks, Attempting, Gens, FinalInv,
       DisconnectInv, ReaderInv, Idle, Up, Lost, Loses
  <2> QED BY <2>2, <2>3, <2>4, <2>5, <2>6 DEF OwnerInv
<1> QED BY <1>3, <1>4, <1>5, <1>6, <1>7, <1>8 DEF Inv, BaseInv

\* So does the cancellation that follows the close of a failed connection.
LEMMA LateCancelStep ==
    ASSUME Inv, LateCancel
    PROVE  Inv'
<1>1. TypeInv /\ LockInv /\ OrderInv /\ HoldsInv /\ TokenInv
  BY DEF Inv, BaseInv
<1>2. hooks' = hooks /\ hooks \in Hooks
  BY <1>1 DEF LateCancel, Cancels, TypeInv
<1>3. Cancels(client.late) /\ client.late \in 0..MaxGens /\ client.late # 0
  BY <1>1, CancelReaderStep DEF LateCancel, TypeInv, Clients
<1>4. TypeInv'
  <2>1. PcType' /\ cut' \subseteq Windows
    BY <1>1, <1>2, <1>3, LifecycleAssumption DEF TypeInv, PcType, ConnectStates, DisconnectStates,
       SupervisorStates, Tasks, Attempting, Windows, LateCancel, Cancels
  <2>2. reader' \in [Gens -> Readers]
    BY <1>1, <1>2, <1>3 DEF TypeInv, Readers, LateCancel, Cancels
  <2>3. client' \in Clients
    BY <1>1, LifecycleAssumption, SMTT(30) DEF TypeInv, Clients, Gens, LateCancel, Cancels
  <2> QED BY <1>2, <2>1, <2>2, <2>3 DEF TypeInv, PcType
<1>5. LockInv'
  BY <1>1, <1>2, <1>3 DEF LockInv, LateCancel, Cancels
<1>6. OrderInv'
  BY <1>1, <1>2, <1>3 DEF OrderInv, TypeInv, Clients, LateCancel, Cancels
<1>7. HoldsInv'
  BY <1>1, <1>2, <1>3, LifecycleAssumption DEF HoldsInv, TypeInv, PcType, Joining, Tasks,
     Attempting, Hooks, LateCancel, Cancels
<1>8. TokenInv'
  BY <1>1, <1>2, <1>3, LifecycleAssumption DEF TokenInv, Tries, TypeInv, PcType, Trying, Tasks,
     Attempting, Hooks, NoHook, Notes, LateCancel, Cancels
<1>9. ASSUME Protected' PROVE OwnerInv'
  <2>1. OwnerInv
    BY <1>1, <1>2, <1>3, <1>9 DEF Inv, Protected, LateCancel, Cancels
  <2>2. ReaderInv'
    <3>1. \A h \in Gens : /\ Idle(reader[h]) => Idle(reader'[h])
                          /\ reader[h].pc \in {"reading", "fatal", "ending"} =>
                               reader'[h].pc \in {reader[h].pc, "ending"}
                          /\ reader'[h].connack = reader[h].connack
      BY <1>3 DEF Cancels, Idle
    <3>2. client' = [client EXCEPT !.late = 0] /\ pc' = pc /\ client \in Clients
      BY <1>1 DEF LateCancel, TypeInv
    <3> QED BY <2>1, <3>1, <3>2, LifecycleAssumption DEF OwnerInv, ReaderInv, Clients, Gens, Up
  <2>3. SupervisorInv'
    <3>1. \A h \in Gens : (Idle(reader[h]) => Idle(reader'[h])) /\ reader'[h].tok = reader[h].tok
      BY <1>3 DEF Cancels, Idle
    <3>2. /\ client'.task = client.task /\ client'.engine = client.engine
          /\ client'.intentional = client.intentional /\ pc' = pc /\ hooks' = hooks
      BY <1>1 DEF LateCancel, TypeInv, Clients
    <3> QED BY <2>1, <3>1, <3>2 DEF OwnerInv, SupervisorInv
  <2>4. WaitingInv'
    BY <1>1, <1>2, <1>3, <2>1, LifecycleAssumption DEF OwnerInv, TypeInv, PcType, Readers,
       Clients, ConnectStates, DisconnectStates, SupervisorStates, Tasks, Attempting, Gens,
       WaitingInv, ReaderInv, Idle, Up, Alone, LateCancel, Cancels
  <2>5. DisconnectInv'
    BY <1>1, <1>2, <1>3, <2>1, LifecycleAssumption DEF OwnerInv, TypeInv, PcType, Readers,
       Clients, ConnectStates, DisconnectStates, SupervisorStates, Tasks, Attempting, Gens,
       DisconnectInv, ReaderInv, Idle, Up, Alone, AllIdle, Closing, LateCancel, Cancels
  <2>6. FinalInv'
    BY <1>1, <1>2, <1>3, <2>1, LifecycleAssumption DEF OwnerInv, TypeInv, PcType, Readers,
       Clients, ConnectStates, DisconnectStates, SupervisorStates, Tasks, Attempting, Gens,
       FinalInv, DisconnectInv, ReaderInv, Idle, Up, LateCancel, Cancels
  <2> QED BY <2>2, <2>3, <2>4, <2>5, <2>6 DEF OwnerInv
<1> QED BY <1>4, <1>5, <1>6, <1>7, <1>8, <1>9 DEF Inv, BaseInv

\* What the hooks are after the reader reports its end.
LEMMA ReaderReports ==
    ASSUME hooks \in Hooks, NEW tok, hooks' = disconnected(hooks, tok)
    PROVE  /\ hooks' \in Hooks /\ hooks'.token = hooks.token /\ hooks'.holds = hooks.holds
           /\ hooks'.hook.tok = hooks.hook.tok /\ (hooks'.hook.pc = "none" <=> hooks.hook.pc = "none")
           /\ \/ hooks'.pending = hooks.pending
              \/ hooks'.pending.pc = "start" /\ hooks'.pending.tok = hooks.token
           /\ (hooks'.ready = TRUE => hooks.ready) /\ (tok = hooks.token => hooks'.ready = FALSE)
<1>1. /\ hooks' \in Hooks /\ hooks'.token = hooks.token /\ hooks'.holds = hooks.holds
      /\ hooks'.hook.tok = hooks.hook.tok
  BY DisconnectedHooks
<1>2. tok # hooks.token => hooks' = hooks
  BY DisconnectedHooks
<1>3. ASSUME tok = hooks.token
      PROVE  /\ hooks'.ready = FALSE /\ hooks'.pending.pc = "start" /\ hooks'.pending.tok = tok
             /\ hooks'.hook.pc = IF hooks.hook.pc \in {"start", "barrier"} THEN "cancelled"
                                 ELSE hooks.hook.pc
  BY <1>3, DisconnectedHooks
<1> QED BY <1>1, <1>2, <1>3

\* The reader ends and starts no supervisor.
LEMMA ReaderClosesStep ==
    ASSUME Inv, NEW g \in Gens, reader[g].pc = "closing", reader' = [reader EXCEPT ![g].pc = "done"],
           hooks' = disconnected(hooks, reader[g].tok), lock' = lock, cut' = cut, NEW closed \in BOOLEAN,
           NEW left \in 0..MaxGens, left = IF client.transport = g THEN 0 ELSE client.transport, pc' = pc,
           client' = [client EXCEPT !.transport = left, !.closed = closed]
    PROVE  Inv'
<1>1. TypeInv /\ LockInv /\ OrderInv /\ HoldsInv /\ TokenInv
  BY DEF Inv, BaseInv
<1>2. /\ hooks' \in Hooks /\ hooks \in Hooks /\ hooks'.token = hooks.token /\ hooks'.holds = hooks.holds
      /\ hooks'.hook.tok = hooks.hook.tok /\ (hooks'.hook.pc = "none" <=> hooks.hook.pc = "none")
      /\ \/ hooks'.pending = hooks.pending
         \/ hooks'.pending.pc = "start" /\ hooks'.pending.tok = hooks.token
      /\ (hooks'.ready = TRUE => hooks.ready) /\ (reader[g].tok = hooks.token => hooks'.ready = FALSE)
  BY <1>1, ReaderReports DEF TypeInv
<1>3. TypeInv'
  <2>1. PcType' /\ cut' \subseteq Windows
    BY <1>1, <1>2, LifecycleAssumption DEF TypeInv, PcType, ConnectStates, DisconnectStates,
       SupervisorStates, Tasks, Attempting, Windows, Idle
  <2>2. reader' \in [Gens -> Readers]
    BY <1>1, <1>2 DEF TypeInv, Readers, Idle
  <2>3. client' \in Clients
    BY <1>1, LifecycleAssumption DEF TypeInv, Clients, Gens, Idle
  <2> QED BY <1>2, <2>1, <2>2, <2>3 DEF TypeInv, PcType
<1>4. LockInv'
  BY <1>1, <1>2 DEF LockInv, Idle
<1>5. OrderInv'
  BY <1>1, <1>2 DEF OrderInv, TypeInv, Clients, Idle
<1>6. HoldsInv'
  BY <1>1, <1>2, LifecycleAssumption DEF HoldsInv, TypeInv, PcType, Joining, Tasks, Attempting,
     Hooks, Idle
<1>7. TokenInv'
  BY <1>1, <1>2, LifecycleAssumption DEF TokenInv, Tries, TypeInv, PcType, Trying, Tasks,
     Attempting, Hooks, NoHook, Notes, Idle
<1>8. ASSUME Protected' PROVE OwnerInv'
  <2>1. OwnerInv
    BY <1>1, <1>2, <1>8 DEF Inv, Protected, Idle
  <2>2. ReaderInv'
    BY <1>1, <1>2, <2>1, LifecycleAssumption DEF OwnerInv, TypeInv, PcType, Readers, Clients,
       ConnectStates, DisconnectStates, SupervisorStates, Tasks, Attempting, Gens, ReaderInv,
       Idle, Up
  <2>3. SupervisorInv'
    BY <1>1, <1>2, <2>1, LifecycleAssumption DEF OwnerInv, TypeInv, PcType, Readers, Clients,
       ConnectStates, DisconnectStates, SupervisorStates, Tasks, Attempting, Gens, SupervisorInv,
       ReaderInv, Idle, Up, Trying
  <2>4. WaitingInv'
    BY <1>1, <1>2, <2>1, LifecycleAssumption DEF OwnerInv, TypeInv, PcType, Readers, Clients,
       ConnectStates, DisconnectStates, SupervisorStates, Tasks, Attempting, Gens, WaitingInv,
       ReaderInv, Idle, Up, Alone
  <2>5. DisconnectInv'
    BY <1>1, <1>2, <2>1, LifecycleAssumption DEF OwnerInv, TypeInv, PcType, Readers, Clients,
       ConnectStates, DisconnectStates, SupervisorStates, Tasks, Attempting, Gens, DisconnectInv,
       ReaderInv, Idle, Up, Alone, AllIdle, Closing
  <2>6. FinalInv'
    BY <1>1, <1>2, <2>1, LifecycleAssumption DEF OwnerInv, TypeInv, PcType, Readers, Clients,
       ConnectStates, DisconnectStates, SupervisorStates, Tasks, Attempting, Gens, FinalInv,
       DisconnectInv, ReaderInv, Idle, Up
  <2> QED BY <2>2, <2>3, <2>4, <2>5, <2>6 DEF OwnerInv
<1> QED BY <1>3, <1>4, <1>5, <1>6, <1>7, <1>8 DEF Inv, BaseInv

\* The reader ends and starts a supervisor.
LEMMA ReaderRestartsStep ==
    ASSUME Inv, NEW g \in Gens, reader[g].pc = "closing", reader' = [reader EXCEPT ![g].pc = "done"],
           hooks' = disconnected(hooks, reader[g].tok), lock' = lock, NEW closed \in BOOLEAN,
           NEW left \in 0..MaxGens, left = IF client.transport = g THEN 0 ELSE client.transport, ~Live(client.task), ~client.intentional,
           NEW s \in Supervisors, pc[s] = "none", pc' = [pc EXCEPT ![s] = "ready"],
           client' = [client EXCEPT !.transport = left, !.closed = closed, !.task = s],
           cut' = IF pc["connect"] = "cancel" THEN cut \cup {"orphaned"} ELSE cut
    PROVE  Inv'
<1>1. TypeInv /\ LockInv /\ OrderInv /\ HoldsInv /\ TokenInv
  BY DEF Inv, BaseInv
<1>2. /\ hooks' \in Hooks /\ hooks \in Hooks /\ hooks'.token = hooks.token /\ hooks'.holds = hooks.holds
      /\ hooks'.hook.tok = hooks.hook.tok /\ (hooks'.hook.pc = "none" <=> hooks.hook.pc = "none")
      /\ \/ hooks'.pending = hooks.pending
         \/ hooks'.pending.pc = "start" /\ hooks'.pending.tok = hooks.token
      /\ (hooks'.ready = TRUE => hooks.ready) /\ (reader[g].tok = hooks.token => hooks'.ready = FALSE)
  BY <1>1, ReaderReports DEF TypeInv
<1>3. TypeInv'
  <2>1. PcType' /\ cut' \subseteq Windows
    BY <1>1, <1>2, LifecycleAssumption DEF TypeInv, PcType, ConnectStates, DisconnectStates,
       SupervisorStates, Tasks, Attempting, Windows, Live
  <2>2. reader' \in [Gens -> Readers]
    BY <1>1, <1>2 DEF TypeInv, Readers, Live
  <2>3. client' \in Clients
    BY <1>1, LifecycleAssumption, ZenonT(60) DEF TypeInv, Clients, Gens, Live
  <2> QED BY <1>2, <2>1, <2>2, <2>3 DEF TypeInv, PcType
<1>4. LockInv'
  <2>1. \A a \in Tasks : (Queues(pc', a) <=> Queues(pc, a)) /\ (Owns(pc', a) => Owns(pc, a))
    BY <1>1, LifecycleAssumption DEF TypeInv, PcType, Queues, Owns, Trying, Tasks
  <2> QED BY <1>1, <2>1, LockKept DEF LockInv
<1>5. OrderInv'
  BY <1>1, <1>2 DEF OrderInv, TypeInv, Clients, Live
<1>6. HoldsInv'
  BY <1>1, <1>2, LifecycleAssumption DEF HoldsInv, TypeInv, PcType, Joining, Tasks, Attempting,
     Hooks, Live
<1>7. TokenInv'
  BY <1>1, <1>2, LifecycleAssumption DEF TokenInv, Tries, TypeInv, PcType, Trying, Tasks,
     Attempting, Hooks, NoHook, Notes, Live
<1>8. ASSUME Protected' PROVE OwnerInv'
  <2>1. OwnerInv /\ pc["connect"] # "cancel"
    BY <1>8 DEF Inv, Protected
  <2>2. ReaderInv'
    BY <1>1, <1>2, <2>1, LifecycleAssumption DEF OwnerInv, TypeInv, PcType, Readers, Clients,
       ConnectStates, DisconnectStates, SupervisorStates, Tasks, Attempting, Gens, ReaderInv,
       Idle, Up, Live
  <2>3. SupervisorInv'
    BY <1>1, <1>2, <2>1, LifecycleAssumption, SMTT(30) DEF OwnerInv, TypeInv, PcType, Readers, Clients,
       ConnectStates, DisconnectStates, SupervisorStates, Tasks, Attempting, Gens, SupervisorInv,
       ReaderInv, Idle, Up, Trying, Live
  <2>4. WaitingInv'
    BY <1>1, <1>2, <2>1, LifecycleAssumption, ZenonT(60) DEF OwnerInv, TypeInv, PcType, Readers, Clients,
       ConnectStates, DisconnectStates, SupervisorStates, Tasks, Attempting, Gens, WaitingInv,
       ReaderInv, Idle, Up, Alone, Live
  <2>5. DisconnectInv'
    BY <1>1, <1>2, <2>1, LifecycleAssumption, SMTT(30) DEF OwnerInv, TypeInv, PcType, Readers, Clients,
       ConnectStates, DisconnectStates, SupervisorStates, Tasks, Attempting, Gens, DisconnectInv,
       ReaderInv, Idle, Up, Alone, AllIdle, Closing, Live
  <2>6. FinalInv'
    BY <1>1, <1>2, <2>1, LifecycleAssumption DEF OwnerInv, TypeInv, PcType, Readers, Clients,
       ConnectStates, DisconnectStates, SupervisorStates, Tasks, Attempting, Gens, FinalInv,
       DisconnectInv, ReaderInv, Idle, Up, Live
  <2> QED BY <2>2, <2>3, <2>4, <2>5, <2>6 DEF OwnerInv
<1> QED BY <1>3, <1>4, <1>5, <1>6, <1>7, <1>8 DEF Inv, BaseInv

\* The worker takes a notification.
LEMMA HookTakenStep ==
    ASSUME Inv, HookTaken
    PROVE  Inv'
<1>1. TypeInv /\ LockInv /\ OrderInv /\ HoldsInv /\ TokenInv
  BY DEF Inv, BaseInv
<1>2. /\ hooks' \in Hooks /\ hooks \in Hooks /\ hooks'.token = hooks.token /\ hooks'.holds = hooks.holds
      /\ hooks'.pending = NoHook /\ hooks.holds = 0
      /\ hooks'.hook \in {hooks.pending, NoHook} /\ hooks.pending \in Notes
  BY <1>1 DEF TypeInv, HookTaken, Hooks, Notes, NoHook
<1>3. \A a \in Attempting : pc[a] \notin Trying \cup {"force"}
  BY <1>1, LifecycleAssumption DEF LockInv, LockOK, Owns, Barrier, Woken, Attempting, Tasks,
     Trying, HookTaken
<1>4. TypeInv'
  <2>1. PcType' /\ cut' \subseteq Windows
    BY <1>1, <1>2, <1>3, LifecycleAssumption DEF TypeInv, PcType, ConnectStates, DisconnectStates,
       SupervisorStates, Tasks, Attempting, Windows, HookTaken
  <2>2. reader' \in [Gens -> Readers]
    BY <1>1, <1>2, <1>3 DEF TypeInv, Readers, HookTaken
  <2>3. client' \in Clients
    BY <1>1, LifecycleAssumption DEF TypeInv, Clients, Gens, HookTaken
  <2> QED BY <1>2, <2>1, <2>2, <2>3 DEF TypeInv, PcType
<1>5. LockInv'
  BY <1>1, <1>2, <1>3 DEF LockInv, HookTaken
<1>6. OrderInv'
  BY <1>1, <1>2, <1>3 DEF OrderInv, TypeInv, Clients, HookTaken
<1>7. HoldsInv'
  BY <1>1, <1>2, <1>3, LifecycleAssumption DEF HoldsInv, TypeInv, PcType, Joining, Tasks,
     Attempting, Hooks, HookTaken
<1>8. TokenInv'
  BY <1>1, <1>2, <1>3, LifecycleAssumption DEF TokenInv, Tries, TypeInv, PcType, Trying, Tasks,
     Attempting, Hooks, NoHook, Notes, HookTaken
<1>9. ASSUME Protected' PROVE OwnerInv'
  <2>1. OwnerInv
    BY <1>1, <1>2, <1>3, <1>9 DEF Inv, Protected, HookTaken
  <2>2. ReaderInv'
    BY <1>1, <1>2, <1>3, <2>1, LifecycleAssumption DEF OwnerInv, TypeInv, PcType, Readers,
       Clients, ConnectStates, DisconnectStates, SupervisorStates, Tasks, Attempting, Gens,
       ReaderInv, Idle, Up, HookTaken
  <2>3. SupervisorInv'
    BY <1>1, <1>2, <1>3, <2>1, LifecycleAssumption DEF OwnerInv, TypeInv, PcType, Readers,
       Clients, ConnectStates, DisconnectStates, SupervisorStates, Tasks, Attempting, Gens,
       SupervisorInv, ReaderInv, Idle, Up, Trying, HookTaken
  <2>4. WaitingInv'
    BY <1>1, <1>2, <1>3, <2>1, LifecycleAssumption DEF OwnerInv, TypeInv, PcType, Readers,
       Clients, ConnectStates, DisconnectStates, SupervisorStates, Tasks, Attempting, Gens,
       WaitingInv, ReaderInv, Idle, Up, Alone, HookTaken
  <2>5. DisconnectInv'
    BY <1>1, <1>2, <1>3, <2>1, LifecycleAssumption DEF OwnerInv, TypeInv, PcType, Readers,
       Clients, ConnectStates, DisconnectStates, SupervisorStates, Tasks, Attempting, Gens,
       DisconnectInv, ReaderInv, Idle, Up, Alone, AllIdle, Closing, HookTaken
  <2>6. FinalInv'
    BY <1>1, <1>2, <1>3, <2>1, LifecycleAssumption DEF OwnerInv, TypeInv, PcType, Readers,
       Clients, ConnectStates, DisconnectStates, SupervisorStates, Tasks, Attempting, Gens,
       FinalInv, DisconnectInv, ReaderInv, Idle, Up, HookTaken
  <2> QED BY <2>2, <2>3, <2>4, <2>5, <2>6 DEF OwnerInv
<1> QED BY <1>4, <1>5, <1>6, <1>7, <1>8, <1>9 DEF Inv, BaseInv

\* The last hold is released.
LEMMA HookReleasedStep ==
    ASSUME Inv, HookReleased
    PROVE  Inv'
<1>1. TypeInv /\ LockInv /\ OrderInv /\ HoldsInv /\ TokenInv
  BY DEF Inv, BaseInv
<1>2. /\ hooks' \in Hooks /\ hooks \in Hooks /\ hooks'.token = hooks.token /\ hooks'.holds = hooks.holds
      /\ hooks'.pending = hooks.pending
      /\ hooks'.hook.tok = hooks.hook.tok /\ hooks.hook.pc # "none" /\ hooks'.ready = hooks.ready
  BY <1>1 DEF TypeInv, HookReleased, Hooks, Notes
<1>3. TypeInv'
  <2>1. PcType' /\ cut' \subseteq Windows
    BY <1>1, <1>2, LifecycleAssumption DEF TypeInv, PcType, ConnectStates, DisconnectStates,
       SupervisorStates, Tasks, Attempting, Windows, HookReleased
  <2>2. reader' \in [Gens -> Readers]
    BY <1>1, <1>2 DEF TypeInv, Readers, HookReleased
  <2>3. client' \in Clients
    BY <1>1, LifecycleAssumption DEF TypeInv, Clients, Gens, HookReleased
  <2> QED BY <1>2, <2>1, <2>2, <2>3 DEF TypeInv, PcType
<1>4. LockInv'
  BY <1>1, <1>2 DEF LockInv, HookReleased
<1>5. OrderInv'
  BY <1>1, <1>2 DEF OrderInv, TypeInv, Clients, HookReleased
<1>6. HoldsInv'
  BY <1>1, <1>2, LifecycleAssumption DEF HoldsInv, TypeInv, PcType, Joining, Tasks, Attempting,
     Hooks, HookReleased
<1>7. TokenInv'
  BY <1>1, <1>2, LifecycleAssumption DEF TokenInv, Tries, TypeInv, PcType, Trying, Tasks,
     Attempting, Hooks, NoHook, Notes, HookReleased
<1>8. ASSUME Protected' PROVE OwnerInv'
  <2>1. OwnerInv
    BY <1>1, <1>2, <1>8 DEF Inv, Protected, HookReleased
  <2>2. ReaderInv'
    BY <1>1, <1>2, <2>1, LifecycleAssumption DEF OwnerInv, TypeInv, PcType, Readers, Clients,
       ConnectStates, DisconnectStates, SupervisorStates, Tasks, Attempting, Gens, ReaderInv,
       Idle, Up, HookReleased
  <2>3. SupervisorInv'
    BY <1>1, <1>2, <2>1, LifecycleAssumption DEF OwnerInv, TypeInv, PcType, Readers, Clients,
       ConnectStates, DisconnectStates, SupervisorStates, Tasks, Attempting, Gens, SupervisorInv,
       ReaderInv, Idle, Up, Trying, HookReleased
  <2>4. WaitingInv'
    BY <1>1, <1>2, <2>1, LifecycleAssumption DEF OwnerInv, TypeInv, PcType, Readers, Clients,
       ConnectStates, DisconnectStates, SupervisorStates, Tasks, Attempting, Gens, WaitingInv,
       ReaderInv, Idle, Up, Alone, HookReleased
  <2>5. DisconnectInv'
    BY <1>1, <1>2, <2>1, LifecycleAssumption DEF OwnerInv, TypeInv, PcType, Readers, Clients,
       ConnectStates, DisconnectStates, SupervisorStates, Tasks, Attempting, Gens, DisconnectInv,
       ReaderInv, Idle, Up, Alone, AllIdle, Closing, HookReleased
  <2>6. FinalInv'
    BY <1>1, <1>2, <2>1, LifecycleAssumption DEF OwnerInv, TypeInv, PcType, Readers, Clients,
       ConnectStates, DisconnectStates, SupervisorStates, Tasks, Attempting, Gens, FinalInv,
       DisconnectInv, ReaderInv, Idle, Up, HookReleased
  <2> QED BY <2>2, <2>3, <2>4, <2>5, <2>6 DEF OwnerInv
<1> QED BY <1>3, <1>4, <1>5, <1>6, <1>7, <1>8 DEF Inv, BaseInv

\* The hook passes the barrier.
LEMMA HookStartsStep ==
    ASSUME Inv, HookStarts
    PROVE  Inv'
<1>1. TypeInv /\ LockInv /\ OrderInv /\ HoldsInv /\ TokenInv
  BY DEF Inv, BaseInv
<1>2. /\ hooks' \in Hooks /\ hooks \in Hooks /\ hooks'.token = hooks.token /\ hooks'.holds = hooks.holds
      /\ hooks'.pending = hooks.pending
      /\ hooks'.hook.tok = hooks.hook.tok /\ hooks.hook.pc # "none"
  BY <1>1 DEF TypeInv, HookStarts, Hooks, Notes
<1>3. \A a \in Attempting : pc[a] \notin Trying \cup {"force"}
  BY <1>1, LifecycleAssumption DEF LockInv, LockOK, Owns, Barrier, Woken, Attempting, Tasks,
     Trying, HookStarts
<1>4. TypeInv'
  <2>1. PcType' /\ cut' \subseteq Windows
    BY <1>1, <1>2, <1>3, LifecycleAssumption DEF TypeInv, PcType, ConnectStates, DisconnectStates,
       SupervisorStates, Tasks, Attempting, Windows, HookStarts
  <2>2. reader' \in [Gens -> Readers]
    BY <1>1, <1>2, <1>3 DEF TypeInv, Readers, HookStarts
  <2>3. client' \in Clients
    BY <1>1, LifecycleAssumption DEF TypeInv, Clients, Gens, HookStarts
  <2> QED BY <1>2, <2>1, <2>2, <2>3 DEF TypeInv, PcType
<1>5. LockInv'
  BY <1>1, <1>2, <1>3 DEF LockInv, HookStarts
<1>6. OrderInv'
  BY <1>1, <1>2, <1>3 DEF OrderInv, TypeInv, Clients, HookStarts
<1>7. HoldsInv'
  BY <1>1, <1>2, <1>3, LifecycleAssumption DEF HoldsInv, TypeInv, PcType, Joining, Tasks,
     Attempting, Hooks, HookStarts
<1>8. TokenInv'
  BY <1>1, <1>2, <1>3, LifecycleAssumption DEF TokenInv, Tries, TypeInv, PcType, Trying, Tasks,
     Attempting, Hooks, NoHook, Notes, HookStarts
<1>9. ASSUME Protected' PROVE OwnerInv'
  <2>1. OwnerInv
    BY <1>1, <1>2, <1>3, <1>9 DEF Inv, Protected, HookStarts
  <2>2. ReaderInv'
    BY <1>1, <1>2, <1>3, <2>1, LifecycleAssumption DEF OwnerInv, TypeInv, PcType, Readers,
       Clients, ConnectStates, DisconnectStates, SupervisorStates, Tasks, Attempting, Gens,
       ReaderInv, Idle, Up, HookStarts
  <2>3. SupervisorInv'
    BY <1>1, <1>2, <1>3, <2>1, LifecycleAssumption DEF OwnerInv, TypeInv, PcType, Readers,
       Clients, ConnectStates, DisconnectStates, SupervisorStates, Tasks, Attempting, Gens,
       SupervisorInv, ReaderInv, Idle, Up, Trying, HookStarts
  <2>4. WaitingInv'
    BY <1>1, <1>2, <1>3, <2>1, LifecycleAssumption DEF OwnerInv, TypeInv, PcType, Readers,
       Clients, ConnectStates, DisconnectStates, SupervisorStates, Tasks, Attempting, Gens,
       WaitingInv, ReaderInv, Idle, Up, Alone, HookStarts
  <2>5. DisconnectInv'
    BY <1>1, <1>2, <1>3, <2>1, LifecycleAssumption DEF OwnerInv, TypeInv, PcType, Readers,
       Clients, ConnectStates, DisconnectStates, SupervisorStates, Tasks, Attempting, Gens,
       DisconnectInv, ReaderInv, Idle, Up, Alone, AllIdle, Closing, HookStarts
  <2>6. FinalInv'
    BY <1>1, <1>2, <1>3, <2>1, LifecycleAssumption DEF OwnerInv, TypeInv, PcType, Readers,
       Clients, ConnectStates, DisconnectStates, SupervisorStates, Tasks, Attempting, Gens,
       FinalInv, DisconnectInv, ReaderInv, Idle, Up, HookStarts
  <2> QED BY <2>2, <2>3, <2>4, <2>5, <2>6 DEF OwnerInv
<1> QED BY <1>4, <1>5, <1>6, <1>7, <1>8, <1>9 DEF Inv, BaseInv

\* The hook ends.
LEMMA HookEndsStep ==
    ASSUME Inv, HookEnds
    PROVE  Inv'
<1>1. TypeInv /\ LockInv /\ OrderInv /\ HoldsInv /\ TokenInv
  BY DEF Inv, BaseInv
<1>2. /\ hooks' \in Hooks /\ hooks \in Hooks /\ hooks'.token = hooks.token /\ hooks'.holds = hooks.holds
      /\ hooks'.pending = hooks.pending
      /\ hooks'.hook = NoHook
      /\ (hooks'.ready = TRUE => hooks.ready \/ (hooks.hook.pc # "none" /\ hooks.hook.tok = hooks.token))
  BY <1>1 DEF TypeInv, HookEnds, Hooks, Notes, NoHook
<1>3. TypeInv'
  <2>1. PcType' /\ cut' \subseteq Windows
    BY <1>1, <1>2, LifecycleAssumption DEF TypeInv, PcType, ConnectStates, DisconnectStates,
       SupervisorStates, Tasks, Attempting, Windows, HookEnds
  <2>2. reader' \in [Gens -> Readers]
    BY <1>1, <1>2 DEF TypeInv, Readers, HookEnds
  <2>3. client' \in Clients
    BY <1>1, LifecycleAssumption DEF TypeInv, Clients, Gens, HookEnds
  <2> QED BY <1>2, <2>1, <2>2, <2>3 DEF TypeInv, PcType
<1>4. LockInv'
  BY <1>1, <1>2 DEF LockInv, HookEnds
<1>5. OrderInv'
  BY <1>1, <1>2 DEF OrderInv, TypeInv, Clients, HookEnds
<1>6. HoldsInv'
  BY <1>1, <1>2, LifecycleAssumption DEF HoldsInv, TypeInv, PcType, Joining, Tasks, Attempting,
     Hooks, HookEnds
<1>7. TokenInv'
  BY <1>1, <1>2, LifecycleAssumption DEF TokenInv, Tries, TypeInv, PcType, Trying, Tasks,
     Attempting, Hooks, NoHook, Notes, HookEnds
<1>8. ASSUME Protected' PROVE OwnerInv'
  <2>1. OwnerInv
    BY <1>1, <1>2, <1>8 DEF Inv, Protected, HookEnds
  <2>2. ReaderInv'
    BY <1>1, <1>2, <2>1, LifecycleAssumption DEF OwnerInv, TypeInv, PcType, Readers, Clients,
       ConnectStates, DisconnectStates, SupervisorStates, Tasks, Attempting, Gens, ReaderInv,
       Idle, Up, HookEnds
  <2>3. SupervisorInv'
    BY <1>1, <1>2, <2>1, LifecycleAssumption DEF OwnerInv, TypeInv, PcType, SupervisorInv,
       TokenInv, Tries, Trying, Tasks, Attempting, Idle, Gens, HookEnds
  <2>4. WaitingInv'
    BY <1>1, <1>2, <2>1, LifecycleAssumption DEF OwnerInv, TypeInv, PcType, Readers, Clients,
       ConnectStates, DisconnectStates, SupervisorStates, Tasks, Attempting, Gens, WaitingInv,
       ReaderInv, Idle, Up, Alone, HookEnds
  <2>5. DisconnectInv'
    BY <1>1, <1>2, <2>1, LifecycleAssumption DEF OwnerInv, TypeInv, PcType, Readers, Clients,
       ConnectStates, DisconnectStates, SupervisorStates, Tasks, Attempting, Gens, DisconnectInv,
       ReaderInv, Idle, Up, Alone, AllIdle, Closing, HookEnds
  <2>6. FinalInv'
    BY <1>1, <1>2, <2>1, LifecycleAssumption DEF OwnerInv, TypeInv, PcType, Readers, Clients,
       ConnectStates, DisconnectStates, SupervisorStates, Tasks, Attempting, Gens, FinalInv,
       DisconnectInv, ReaderInv, Idle, Up, HookEnds
  <2> QED BY <2>2, <2>3, <2>4, <2>5, <2>6 DEF OwnerInv
<1> QED BY <1>3, <1>4, <1>5, <1>6, <1>7, <1>8 DEF Inv, BaseInv

\* The application publishes.
LEMMA PublishStep ==
    ASSUME Inv, Publish
    PROVE  Inv'
<1>1. TypeInv /\ LockInv /\ OrderInv /\ HoldsInv /\ TokenInv
  BY DEF Inv, BaseInv
<1>2. hooks' = hooks /\ hooks \in Hooks
  BY <1>1 DEF Publish, TypeInv
<1>3. TypeInv'
  <2>1. PcType' /\ cut' \subseteq Windows
    BY <1>1, <1>2, LifecycleAssumption DEF TypeInv, PcType, ConnectStates, DisconnectStates,
       SupervisorStates, Tasks, Attempting, Windows, Publish
  <2>2. reader' \in [Gens -> Readers]
    BY <1>1, <1>2 DEF TypeInv, Readers, Publish
  <2>3. client' \in Clients
    BY <1>1, LifecycleAssumption DEF TypeInv, Clients, Gens, Publish
  <2> QED BY <1>2, <2>1, <2>2, <2>3 DEF TypeInv, PcType
<1>4. LockInv'
  BY <1>1, <1>2 DEF LockInv, Publish
<1>5. OrderInv'
  BY <1>1, <1>2 DEF OrderInv, TypeInv, Clients, Publish
<1>6. HoldsInv'
  BY <1>1, <1>2, LifecycleAssumption DEF HoldsInv, TypeInv, PcType, Joining, Tasks, Attempting,
     Hooks, Publish
<1>7. TokenInv'
  BY <1>1, <1>2, LifecycleAssumption DEF TokenInv, Tries, TypeInv, PcType, Trying, Tasks,
     Attempting, Hooks, NoHook, Notes, Publish
<1>8. ASSUME Protected' PROVE OwnerInv'
  <2>1. OwnerInv
    BY <1>1, <1>2, <1>8 DEF Inv, Protected, Publish
  <2>2. ReaderInv'
    BY <1>1, <1>2, <2>1, LifecycleAssumption DEF OwnerInv, TypeInv, PcType, Readers, Clients,
       ConnectStates, DisconnectStates, SupervisorStates, Tasks, Attempting, Gens, ReaderInv,
       Idle, Up, Publish
  <2>3. SupervisorInv'
    BY <1>1, <1>2, <2>1, LifecycleAssumption DEF OwnerInv, TypeInv, PcType, Readers, Clients,
       ConnectStates, DisconnectStates, SupervisorStates, Tasks, Attempting, Gens, SupervisorInv,
       ReaderInv, Idle, Up, Trying, Publish
  <2>4. WaitingInv'
    BY <1>1, <1>2, <2>1, LifecycleAssumption DEF OwnerInv, TypeInv, PcType, Readers, Clients,
       ConnectStates, DisconnectStates, SupervisorStates, Tasks, Attempting, Gens, WaitingInv,
       ReaderInv, Idle, Up, Alone, Publish
  <2>5. DisconnectInv'
    BY <1>1, <1>2, <2>1, LifecycleAssumption DEF OwnerInv, TypeInv, PcType, Readers, Clients,
       ConnectStates, DisconnectStates, SupervisorStates, Tasks, Attempting, Gens, DisconnectInv,
       ReaderInv, Idle, Up, Alone, AllIdle, Closing, Publish
  <2>6. FinalInv'
    BY <1>1, <1>2, <2>1, LifecycleAssumption DEF OwnerInv, TypeInv, PcType, Readers, Clients,
       ConnectStates, DisconnectStates, SupervisorStates, Tasks, Attempting, Gens, FinalInv,
       DisconnectInv, ReaderInv, Idle, Up, Publish
  <2> QED BY <2>2, <2>3, <2>4, <2>5, <2>6 DEF OwnerInv
<1> QED BY <1>3, <1>4, <1>5, <1>6, <1>7, <1>8 DEF Inv, BaseInv

\* The broker acknowledges.
LEMMA AcknowledgedStep ==
    ASSUME Inv, Acknowledged
    PROVE  Inv'
<1>1. TypeInv /\ LockInv /\ OrderInv /\ HoldsInv /\ TokenInv
  BY DEF Inv, BaseInv
<1>2. hooks' = hooks /\ hooks \in Hooks
  BY <1>1 DEF Acknowledged, TypeInv
<1>3. TypeInv'
  <2>1. PcType' /\ cut' \subseteq Windows
    BY <1>1, <1>2, LifecycleAssumption DEF TypeInv, PcType, ConnectStates, DisconnectStates,
       SupervisorStates, Tasks, Attempting, Windows, Acknowledged
  <2>2. reader' \in [Gens -> Readers]
    BY <1>1, <1>2 DEF TypeInv, Readers, Acknowledged
  <2>3. client' \in Clients
    BY <1>1, LifecycleAssumption DEF TypeInv, Clients, Gens, Acknowledged
  <2> QED BY <1>2, <2>1, <2>2, <2>3 DEF TypeInv, PcType
<1>4. LockInv'
  BY <1>1, <1>2 DEF LockInv, Acknowledged
<1>5. OrderInv'
  BY <1>1, <1>2 DEF OrderInv, TypeInv, Clients, Acknowledged
<1>6. HoldsInv'
  BY <1>1, <1>2, LifecycleAssumption DEF HoldsInv, TypeInv, PcType, Joining, Tasks, Attempting,
     Hooks, Acknowledged
<1>7. TokenInv'
  BY <1>1, <1>2, LifecycleAssumption DEF TokenInv, Tries, TypeInv, PcType, Trying, Tasks,
     Attempting, Hooks, NoHook, Notes, Acknowledged
<1>8. ASSUME Protected' PROVE OwnerInv'
  <2>1. OwnerInv
    BY <1>1, <1>2, <1>8 DEF Inv, Protected, Acknowledged
  <2>2. ReaderInv'
    BY <1>1, <1>2, <2>1, LifecycleAssumption DEF OwnerInv, TypeInv, PcType, Readers, Clients,
       ConnectStates, DisconnectStates, SupervisorStates, Tasks, Attempting, Gens, ReaderInv,
       Idle, Up, Acknowledged
  <2>3. SupervisorInv'
    BY <1>1, <1>2, <2>1, LifecycleAssumption DEF OwnerInv, TypeInv, PcType, Readers, Clients,
       ConnectStates, DisconnectStates, SupervisorStates, Tasks, Attempting, Gens, SupervisorInv,
       ReaderInv, Idle, Up, Trying, Acknowledged
  <2>4. WaitingInv'
    BY <1>1, <1>2, <2>1, LifecycleAssumption DEF OwnerInv, TypeInv, PcType, Readers, Clients,
       ConnectStates, DisconnectStates, SupervisorStates, Tasks, Attempting, Gens, WaitingInv,
       ReaderInv, Idle, Up, Alone, Acknowledged
  <2>5. DisconnectInv'
    BY <1>1, <1>2, <2>1, LifecycleAssumption DEF OwnerInv, TypeInv, PcType, Readers, Clients,
       ConnectStates, DisconnectStates, SupervisorStates, Tasks, Attempting, Gens, DisconnectInv,
       ReaderInv, Idle, Up, Alone, AllIdle, Closing, Acknowledged
  <2>6. FinalInv'
    BY <1>1, <1>2, <2>1, LifecycleAssumption DEF OwnerInv, TypeInv, PcType, Readers, Clients,
       ConnectStates, DisconnectStates, SupervisorStates, Tasks, Attempting, Gens, FinalInv,
       DisconnectInv, ReaderInv, Idle, Up, Acknowledged
  <2> QED BY <2>2, <2>3, <2>4, <2>5, <2>6 DEF OwnerInv
<1> QED BY <1>3, <1>4, <1>5, <1>6, <1>7, <1>8 DEF Inv, BaseInv

\* What the hooks are after an accepted connection is announced.
LEMMA ReaderAnnounces ==
    ASSUME hooks \in Hooks, NEW tok, hooks' = connected(hooks, tok)
    PROVE  /\ hooks' \in Hooks /\ hooks'.token = hooks.token /\ hooks'.holds = hooks.holds
           /\ hooks'.hook = hooks.hook
           /\ \/ hooks' = hooks
              \/ hooks'.pending.pc = "start" /\ hooks'.pending.tok = hooks.token
<1>1. /\ hooks' \in Hooks /\ hooks'.token = hooks.token /\ hooks'.holds = hooks.holds
      /\ hooks'.hook = hooks.hook
  BY ConnectedHooks
<1>2. tok # hooks.token => hooks' = hooks
  BY ConnectedHooks
<1>3. ASSUME tok = hooks.token
      PROVE  hooks'.pending.pc = "start" /\ hooks'.pending.tok = tok
  BY <1>3, ConnectedHooks
<1> QED BY <1>1, <1>2, <1>3

\* A dial that succeeds is the only step that makes a reader: all others are over by then.
LEMMA OpensStep ==
    ASSUME Inv, NEW a \in Attempting, Opens(a)
    PROVE  Inv'
<1>1. TypeInv /\ LockInv /\ OrderInv /\ HoldsInv /\ TokenInv
  BY DEF Inv, BaseInv
<1>2. hooks' = hooks /\ hooks \in Hooks
  BY <1>1 DEF Opens, Dialled, TypeInv
<1>3. PICK g \in Gens :
        /\ g = client.gen + 1 /\ pc[a] = "dial"
        /\ client' = [client EXCEPT !.gen = g, !.transport = g, !.reader = g, !.closed = FALSE,
                                !.cause = "none", !.lastDisc = "none", !.bye = FALSE,
                                !.engine = "connecting"]
        /\ reader' = [reader EXCEPT ![g] = [pc |-> "reading", tok |-> hooks.token,
                                           will |-> FALSE, connack |-> "wait"]]
        /\ pc' = [pc EXCEPT ![a] = "connack"]
  <2>1. client.gen + 1 \in Gens
    BY <1>1, LifecycleAssumption DEF TypeInv, Clients, Gens, Opens
  <2> QED BY <2>1 DEF Opens, Dialled
<1>4. TypeInv'
  <2>1. PcType' /\ cut' \subseteq Windows
    BY <1>1, <1>2, <1>3, LifecycleAssumption DEF TypeInv, PcType, ConnectStates, DisconnectStates,
       SupervisorStates, Tasks, Attempting, Windows, Opens, Dialled
  <2>2. reader' \in [Gens -> Readers]
    <3>1. PICK r : r = [pc |-> "reading", tok |-> hooks.token, will |-> FALSE, connack |-> "wait"]
      OBVIOUS
    <3>2. r \in Readers
      BY <1>2, <3>1 DEF Readers, Hooks
    <3>3. reader' = [reader EXCEPT ![g] = r]
      BY <1>3, <3>1
    <3> QED BY <1>1, <3>2, <3>3 DEF TypeInv
  <2>3. client' \in Clients
    <3>1. g \in 0..MaxGens
      BY <1>3, LifecycleAssumption DEF Gens
    <3>2. client \in Clients
      BY <1>1 DEF TypeInv
    <3>3. client' = [client EXCEPT !.gen = g, !.transport = g, !.reader = g, !.closed = FALSE,
                                   !.cause = "none", !.lastDisc = "none", !.bye = FALSE,
                                   !.engine = "connecting"]
      BY <1>3
    <3>4. PICK c, d : c = client /\ d = client'
      OBVIOUS
    <3>5. d \in Clients
      BY <3>1, <3>2, <3>3, <3>4 DEF Clients
    <3> QED BY <3>4, <3>5
  <2> QED BY <1>2, <2>1, <2>2, <2>3 DEF TypeInv, PcType
<1>5. LockInv'
  <2>1. \A b \in Tasks : (Queues(pc', b) <=> Queues(pc, b)) /\ (Owns(pc', b) => Owns(pc, b))
    BY <1>1, LifecycleAssumption DEF TypeInv, PcType, Queues, Owns, Trying, Tasks, Attempting,
       Opens, Dialled
  <2> QED BY <1>1, <2>1, LockKept DEF LockInv, Opens, Dialled
<1>6. OrderInv'
  BY <1>1, <1>2, <1>3 DEF OrderInv, TypeInv, Clients, Opens, Dialled
<1>7. HoldsInv'
  BY <1>1, <1>2, <1>3, LifecycleAssumption DEF HoldsInv, TypeInv, PcType, Joining, Tasks,
     Attempting, Hooks, Opens, Dialled
<1>8. TokenInv'
  BY <1>1, <1>2, <1>3, LifecycleAssumption DEF TokenInv, Tries, TypeInv, PcType, Trying, Tasks,
     Attempting, Hooks, NoHook, Notes, Opens, Dialled
<1>9. ASSUME Protected' PROVE OwnerInv'
  <2>1. OwnerInv
    BY <1>1, <1>2, <1>3, <1>9 DEF Inv, Protected, Opens, Dialled
  <2>2. \A b \in Attempting \ {a} : pc[b] \notin Trying \cup {"force"}
    BY <1>1, LifecycleAssumption DEF LockInv, LockOK, Owns, Trying, Tasks, Attempting, Opens,
       Dialled
  <2>3. /\ client.reader = 0 /\ AllIdle /\ pc["disconnect"] \notin {"force", "shut", "flush", "ending"}
    <3>1. client.reader = 0 /\ client.transport = 0
      BY <1>3, <2>1 DEF OwnerInv, ReaderInv
    <3>2. AllIdle
      BY <2>1, <3>1, LifecycleAssumption DEF OwnerInv, ReaderInv, AllIdle, Gens
    <3>3. pc["disconnect"] # "flush"
      BY <1>1, <1>3, LifecycleAssumption DEF LockInv, LockOK, Owns, Trying, Tasks, Attempting
    <3>4. pc["disconnect"] \notin {"force", "shut"}
      BY <1>1, <3>2, LifecycleAssumption DEF Opens, Dialled, AllIdle, Gens, TypeInv, Clients
    <3>5. pc["disconnect"] # "ending"
      BY <1>1, <1>3, <2>2, <2>1, LifecycleAssumption DEF OwnerInv, DisconnectInv, Closing, Trying,
         Attempting
    <3> QED BY <3>1, <3>2, <3>3, <3>4, <3>5
  <2>4. ReaderInv'
    <3>1. /\ reader'[g].pc = "reading" /\ reader'[g].connack = "wait"
          /\ \A h \in Gens : h # g => Idle(reader'[h])
      BY <1>1, <1>3, <2>3 DEF AllIdle, Idle, TypeInv
    <3>2. /\ client'.gen = g /\ client'.reader = g /\ client'.transport = g /\ client'.engine = "connecting"
          /\ pc'[a] = "connack" /\ \A b \in Attempting \ {a} : pc'[b] = pc[b]
      BY <1>1, <1>3 DEF TypeInv, PcType, Clients, Attempting, Tasks
    <3> QED BY <1>3, <2>2, <3>1, <3>2, LifecycleAssumption DEF ReaderInv, Gens, Trying, Up
  <2>5. SupervisorInv'
    BY <1>1, <1>2, <1>3, <2>2, <2>1, <2>3, LifecycleAssumption DEF OwnerInv, TypeInv, PcType,
       Readers, Clients, ConnectStates, DisconnectStates, SupervisorStates, Tasks, Attempting,
       Gens, Trying, SupervisorInv, ReaderInv, Idle, Up, Alone, AllIdle
  <2>6. WaitingInv'
    BY <1>1, <1>2, <1>3, <2>2, <2>1, <2>3, LifecycleAssumption DEF OwnerInv, TypeInv, PcType,
       Readers, Clients, ConnectStates, DisconnectStates, SupervisorStates, Tasks, Attempting,
       Gens, WaitingInv, SupervisorInv, ReaderInv, Idle, Up, Alone, AllIdle
  <2>7. DisconnectInv'
    BY <1>1, <1>2, <1>3, <2>2, <2>1, <2>3, LifecycleAssumption DEF OwnerInv, TypeInv, PcType,
       Readers, Clients, ConnectStates, DisconnectStates, SupervisorStates, Tasks, Attempting,
       Gens, DisconnectInv, SupervisorInv, ReaderInv, Idle, Up, Alone, AllIdle
  <2>8. FinalInv'
    BY <1>1, <1>2, <1>3, <2>1, <2>2, <2>3, LifecycleAssumption DEF OwnerInv, TypeInv, PcType,
       Readers, Clients, ConnectStates, DisconnectStates, SupervisorStates, Tasks, Attempting,
       Gens, FinalInv, DisconnectInv, ReaderInv, Idle, Up, Opens, Dialled
  <2> QED BY <2>4, <2>5, <2>6, <2>7, <2>8 DEF OwnerInv
<1> QED BY <1>4, <1>5, <1>6, <1>7, <1>8, <1>9 DEF Inv, BaseInv

\* The attempt learns of disconnect().
LEMMA SeesByeStep ==
    ASSUME Inv, NEW a \in Attempting, SeesBye(a)
    PROVE  Inv'
<1>1. TypeInv /\ LockInv /\ OrderInv /\ HoldsInv /\ TokenInv
  BY DEF Inv, BaseInv
<1>2. hooks' = hooks /\ hooks \in Hooks
  BY <1>1 DEF SeesBye, TypeInv
<1>3. TypeInv'
  <2>1. PcType' /\ cut' \subseteq Windows
    BY <1>1, <1>2, LifecycleAssumption DEF TypeInv, PcType, ConnectStates, DisconnectStates,
       SupervisorStates, Tasks, Attempting, Windows, SeesBye
  <2>2. reader' \in [Gens -> Readers]
    BY <1>1, <1>2 DEF TypeInv, Readers, SeesBye
  <2>3. client' \in Clients
    BY <1>1, LifecycleAssumption DEF TypeInv, Clients, Gens, SeesBye
  <2> QED BY <1>2, <2>1, <2>2, <2>3 DEF TypeInv, PcType
<1>4. LockInv'
  <2>1. \A b \in Tasks : (Queues(pc', b) <=> Queues(pc, b)) /\ (Owns(pc', b) => Owns(pc, b))
    BY <1>1, LifecycleAssumption DEF TypeInv, PcType, Queues, Owns, Trying, Tasks, Attempting,
       SeesBye
  <2> QED BY <1>1, <2>1, LockKept DEF LockInv, SeesBye
<1>5. OrderInv'
  BY <1>1, <1>2 DEF OrderInv, TypeInv, Clients, SeesBye
<1>6. HoldsInv'
  BY <1>1, <1>2, LifecycleAssumption DEF HoldsInv, TypeInv, PcType, Joining, Tasks, Attempting,
     Hooks, SeesBye
<1>7. TokenInv'
  BY <1>1, <1>2, LifecycleAssumption DEF TokenInv, Tries, TypeInv, PcType, Trying, Tasks,
     Attempting, Hooks, NoHook, Notes, SeesBye
<1>8. ASSUME Protected' PROVE OwnerInv'
  <2>1. OwnerInv
    BY <1>1, <1>2, <1>8 DEF Inv, Protected, SeesBye
  <2>2. ReaderInv'
    BY <1>1, <1>2, <2>1, LifecycleAssumption DEF OwnerInv, TypeInv, PcType, Readers, Clients,
       ConnectStates, DisconnectStates, SupervisorStates, Tasks, Attempting, Gens, ReaderInv,
       Idle, Up, SeesBye
  <2>3. SupervisorInv'
    BY <1>1, <1>2, <2>1, LifecycleAssumption DEF OwnerInv, TypeInv, PcType, Readers, Clients,
       ConnectStates, DisconnectStates, SupervisorStates, Tasks, Attempting, Gens, SupervisorInv,
       ReaderInv, Idle, Up, Trying, SeesBye
  <2>4. WaitingInv'
    BY <1>1, <1>2, <2>1, LifecycleAssumption DEF OwnerInv, TypeInv, PcType, Readers, Clients,
       ConnectStates, DisconnectStates, SupervisorStates, Tasks, Attempting, Gens, WaitingInv,
       ReaderInv, Idle, Up, Alone, SeesBye
  <2>5. DisconnectInv'
    BY <1>1, <1>2, <2>1, LifecycleAssumption DEF OwnerInv, TypeInv, PcType, Readers, Clients,
       ConnectStates, DisconnectStates, SupervisorStates, Tasks, Attempting, Gens, DisconnectInv,
       ReaderInv, Idle, Up, Alone, AllIdle, Closing, SeesBye
  <2>6. FinalInv'
    BY <1>1, <1>2, <2>1, LifecycleAssumption DEF OwnerInv, TypeInv, PcType, Readers, Clients,
       ConnectStates, DisconnectStates, SupervisorStates, Tasks, Attempting, Gens, FinalInv,
       DisconnectInv, ReaderInv, Idle, Up, SeesBye
  <2> QED BY <2>2, <2>3, <2>4, <2>5, <2>6 DEF OwnerInv
<1> QED BY <1>3, <1>4, <1>5, <1>6, <1>7, <1>8 DEF Inv, BaseInv

\* The attempt returns its connection.
LEMMA AcceptedStep ==
    ASSUME Inv, NEW a \in Attempting, Accepted(a)
    PROVE  Inv'
<1>1. TypeInv /\ LockInv /\ OrderInv /\ HoldsInv /\ TokenInv
  BY DEF Inv, BaseInv
<1>2. /\ hooks' \in Hooks /\ hooks \in Hooks /\ hooks'.token = hooks.token /\ hooks'.holds = hooks.holds
      /\ hooks'.hook = hooks.hook
      /\ \/ hooks' = hooks
         \/ hooks'.pending.pc = "start" /\ hooks'.pending.tok = hooks.token
  BY <1>1, ReaderAnnounces DEF TypeInv, Accepted
<1>3. TypeInv'
  <2>1. PcType' /\ cut' \subseteq Windows
    BY <1>1, <1>2, LifecycleAssumption DEF TypeInv, PcType, ConnectStates, DisconnectStates,
       SupervisorStates, Tasks, Attempting, Windows, Accepted, Released
  <2>2. reader' \in [Gens -> Readers]
    BY <1>1, <1>2 DEF TypeInv, Readers, Accepted, Released
  <2>3. client' \in Clients
    BY <1>1, LifecycleAssumption DEF TypeInv, Clients, Gens, Accepted, Released
  <2> QED BY <1>2, <2>1, <2>2, <2>3 DEF TypeInv, PcType
<1>4. LockInv'
  <2>1. /\ a \in Tasks /\ ~Queues(pc', a) /\ Owns(pc, a)
        /\ \A b \in Tasks \ {a} : (Queues(pc', b) <=> Queues(pc, b)) /\ (Owns(pc', b) => Owns(pc, b))
    BY <1>1, LifecycleAssumption DEF TypeInv, PcType, Queues, Owns, Trying, Tasks, Attempting,
       Accepted, Released
  <2>2. lock # <<>> /\ Head(lock) = a /\ lock' = Tail(lock)
    BY <1>1, <2>1 DEF LockInv, LockOK, Accepted, Released
  <2> QED BY <1>1, <2>1, <2>2, LockReleased DEF LockInv
<1>5. OrderInv'
  <2>1. lock # <<>> /\ lock \in Seq(Tasks) /\ Distinct(lock) /\ lock' = Tail(lock)
    BY <1>1, LifecycleAssumption DEF LockInv, LockOK, Owns, Trying, Tasks, Attempting, Accepted,
       Released
  <2>2. client'.intent = client.intent
    BY <1>1 DEF TypeInv, Clients, Accepted, Released
  <2> QED BY <1>1, <2>1, <2>2, OrderReleased DEF OrderInv
<1>6. HoldsInv'
  BY <1>1, <1>2, LifecycleAssumption DEF HoldsInv, TypeInv, PcType, Joining, Tasks, Attempting,
     Hooks, Accepted, Released
<1>7. TokenInv'
  BY <1>1, <1>2, LifecycleAssumption DEF TokenInv, Tries, TypeInv, PcType, Trying, Tasks,
     Attempting, Hooks, NoHook, Notes, Accepted, Released
<1>8. ASSUME Protected' PROVE OwnerInv'
  <2>1. OwnerInv
    BY <1>1, <1>2, <1>8 DEF Inv, Protected, Accepted, Released
  <2>2. \A b \in Attempting \ {a} : pc[b] \notin Trying \cup {"force"}
    BY <1>1, LifecycleAssumption DEF LockInv, LockOK, Owns, Trying, Tasks, Attempting, Accepted
  <2>3. ReaderInv'
    BY <1>1, <1>2, <2>1, <2>2, LifecycleAssumption DEF OwnerInv, TypeInv, PcType, Readers,
       Clients, ConnectStates, DisconnectStates, SupervisorStates, Tasks, Attempting, Gens,
       ReaderInv, Idle, Up, Accepted, Released
  <2>4. SupervisorInv'
    BY <1>1, <1>2, <2>1, <2>2, LifecycleAssumption DEF OwnerInv, TypeInv, PcType, Readers,
       Clients, ConnectStates, DisconnectStates, SupervisorStates, Tasks, Attempting, Gens,
       SupervisorInv, ReaderInv, Idle, Up, Trying, Accepted, Released
  <2>5. WaitingInv'
    BY <1>1, <1>2, <2>1, <2>2, LifecycleAssumption DEF OwnerInv, TypeInv, PcType, Readers,
       Clients, ConnectStates, DisconnectStates, SupervisorStates, Tasks, Attempting, Gens,
       WaitingInv, ReaderInv, Idle, Up, Alone, Accepted, Released
  <2>6. DisconnectInv'
    BY <1>1, <1>2, <2>1, <2>2, LifecycleAssumption DEF OwnerInv, TypeInv, PcType, Readers,
       Clients, ConnectStates, DisconnectStates, SupervisorStates, Tasks, Attempting, Gens,
       DisconnectInv, ReaderInv, Idle, Up, Alone, AllIdle, Closing, Accepted, Released
  <2>7. FinalInv'
    BY <1>1, <1>2, <2>1, <2>2, LifecycleAssumption DEF OwnerInv, TypeInv, PcType, Readers,
       Clients, ConnectStates, DisconnectStates, SupervisorStates, Tasks, Attempting, Gens,
       FinalInv, DisconnectInv, ReaderInv, Idle, Up, Accepted, Released
  <2> QED BY <2>3, <2>4, <2>5, <2>6, <2>7 DEF OwnerInv
<1> QED BY <1>3, <1>4, <1>5, <1>6, <1>7, <1>8 DEF Inv, BaseInv

\* A proposed cause is recorded, or the recorded one stays.
LEMMA ProposeCause ==
    ASSUME NEW c \in Clients, NEW cause \in {"plain", "permanent"}
    PROVE  \E k \in {"plain", "permanent"} : _propose_disconnect_cause(c, cause) = [c EXCEPT !.cause = k]
<1>1. CASE c.cause = "none" \/ cause = "permanent"
  BY <1>1 DEF _propose_disconnect_cause
<1>2. CASE ~(c.cause = "none" \/ cause = "permanent")
  <2>1. c.cause \in {"plain", "permanent"} /\ c = [c EXCEPT !.cause = c.cause]
    BY <1>2 DEF Clients
  <2> QED BY <1>2, <2>1 DEF _propose_disconnect_cause
<1> QED BY <1>1, <1>2

\* The reader of a lost connection; it never turns a pending CONNACK into an accepting one.
LEMMA EndingReader ==
    ASSUME NEW r \in Readers, NEW to \in {"refused", "plain", "permanent"}, NEW e, e = Ending(r, to)
    PROVE  /\ e \in Readers /\ e.pc = "ending" /\ e.tok = r.tok /\ e.will = r.will
           /\ e.connack = "ok" <=> r.connack = "ok"
<1>1. PICK k \in {"none", "ok", "refused", "plain", "permanent"} : k = Connack(r, to) /\ (k = "ok" <=> r.connack = "ok")
  BY DEF Connack, Readers
<1>2. e = [r EXCEPT !.pc = "ending", !.connack = k]
  BY <1>1 DEF Ending
<1> QED BY <1>1, <1>2 DEF Readers

\* End of stream.
LEMMA StreamEndsLoses ==
    ASSUME TypeInv, NEW g \in Gens, StreamEnds(g)
    PROVE  \E r, c : Lost(g, r, c) /\ Loses(g, r, c)
<1>1. client \in Clients /\ reader[g] \in Readers
  BY DEF TypeInv
<1>2. PICK cause \in {"none", "plain"} :
        Lost(g, [reader[g] EXCEPT !.pc = "ending"],
             IF cause = "none" THEN client ELSE _propose_disconnect_cause(client, cause))
  BY DEF StreamEnds
<1>3. PICK r, c : /\ r = [reader[g] EXCEPT !.pc = "ending"]
                  /\ c = IF cause = "none" THEN client ELSE _propose_disconnect_cause(client, cause)
  OBVIOUS
<1>4. r \in Readers /\ r.pc = "ending" /\ r.tok = reader[g].tok /\ r.will = reader[g].will /\ r.connack = reader[g].connack
  BY <1>1, <1>3 DEF Readers
<1>5. \E k \in {"none", "plain", "permanent"} : c = [client EXCEPT !.cause = k]
  <2>1. CASE cause = "none"
    BY <1>1, <1>3, <2>1 DEF Clients
  <2>2. CASE cause = "plain"
    BY <1>1, <1>3, <2>2, ProposeCause
  <2> QED BY <2>1, <2>2
<1>6. /\ c \in Clients /\ c.gen = client.gen /\ c.transport = client.transport
      /\ c.reader = client.reader
      /\ c.old = client.old /\ c.task = client.task /\ c.bye = client.bye /\ c.intent = client.intent
      /\ c.engine = client.engine /\ c.intentional = client.intentional
      /\ c.reconnecting = client.reconnecting
  BY <1>1, <1>5 DEF Clients
<1>7. Lost(g, r, c) /\ client.engine \in {"connecting", "connected"}
  BY <1>2, <1>3 DEF Lost
<1>8. Loses(g, r, c)
  BY <1>4, <1>6, <1>7 DEF Loses
<1> QED BY <1>7, <1>8

\* A loss whose reader ends with a cause for the pending CONNACK.
LEMMA LostWith ==
    ASSUME TypeInv, NEW g \in Gens, NEW to \in {"refused", "plain", "permanent"}, NEW c \in Clients,
           Lost(g, Ending(reader[g], to), c),
           c.gen = client.gen, c.transport = client.transport, c.reader = client.reader,
           c.old = client.old, c.task = client.task, c.bye = client.bye, c.intent = client.intent,
           c.engine \in {client.engine, "disconnected"}, c.reconnecting = client.reconnecting,
           c.intentional = client.intentional \/ (c.intentional = TRUE /\ Unanswered)
    PROVE  \E r, d : Lost(g, r, d) /\ Loses(g, r, d)
<1>1. reader[g] \in Readers /\ client.engine \in {"connecting", "connected"}
  BY DEF TypeInv, Lost
<1>2. PICK r : r = Ending(reader[g], to)
  OBVIOUS
<1>3. /\ r \in Readers /\ r.pc = "ending" /\ r.tok = reader[g].tok /\ r.will = reader[g].will
      /\ r.connack = "ok" <=> reader[g].connack = "ok"
  BY <1>1, <1>2, EndingReader
<1>4. Lost(g, r, c)
  BY <1>2
<1>5. Loses(g, r, c)
  BY <1>1, <1>3 DEF Loses
<1> QED BY <1>4, <1>5

\* A failed writer, pump, keepalive or handler.
LEMMA TaskFailsLoses ==
    ASSUME TypeInv, NEW g \in Gens, TaskFails(g)
    PROVE  \E r, c : Lost(g, r, c) /\ Loses(g, r, c)
<1>1. client \in Clients /\ client.intentional \in BOOLEAN
  BY DEF TypeInv, Clients
<1>2. PICK late \in {0, g} :
        Lost(g, Ending(reader[g], "plain"), [_propose_disconnect_cause(client, "plain") EXCEPT !.late = late])
  BY DEF TaskFails
<1>3. PICK k \in {"plain", "permanent"} : _propose_disconnect_cause(client, "plain") = [client EXCEPT !.cause = k]
  BY <1>1, ProposeCause
<1>4. PICK c : c = [client EXCEPT !.cause = k, !.late = late]
  OBVIOUS
<1>5. late \in 0..MaxGens
  BY LifecycleAssumption DEF Gens
<1>6. Lost(g, Ending(reader[g], "plain"), c)
  <2>1. c = [_propose_disconnect_cause(client, "plain") EXCEPT !.late = late]
    BY <1>1, <1>3, <1>4 DEF Clients
  <2> QED BY <1>2, <2>1
<1>7. /\ c \in Clients /\ c.gen = client.gen /\ c.transport = client.transport
      /\ c.reader = client.reader
      /\ c.old = client.old /\ c.task = client.task /\ c.bye = client.bye /\ c.intent = client.intent
      /\ c.engine = client.engine /\ c.intentional = client.intentional
      /\ c.reconnecting = client.reconnecting
  BY <1>1, <1>4, <1>5 DEF Clients
<1> QED BY <1>6, <1>7, LostWith

\* A keepalive that gives up.
LEMMA PingImpossibleLoses ==
    ASSUME TypeInv, NEW g \in Gens, PingImpossible(g)
    PROVE  \E r, c : Lost(g, r, c) /\ Loses(g, r, c)
<1>1. client \in Clients
  BY DEF TypeInv
<1>2. PICK k \in {"plain", "permanent"} : _propose_disconnect_cause(client, "plain") = [client EXCEPT !.cause = k]
  BY <1>1, ProposeCause
<1>3. PICK c : c = [client EXCEPT !.cause = k, !.intentional = TRUE]
  OBVIOUS
<1>4. Lost(g, Ending(reader[g], "plain"), c)
  <2>1. c = [_propose_disconnect_cause(client, "plain") EXCEPT !.intentional = TRUE]
    BY <1>1, <1>2, <1>3 DEF Clients
  <2> QED BY <2>1 DEF PingImpossible
<1>5. /\ c \in Clients /\ c.gen = client.gen /\ c.transport = client.transport
      /\ c.reader = client.reader
      /\ c.old = client.old /\ c.task = client.task /\ c.bye = client.bye /\ c.intent = client.intent
      /\ c.engine = client.engine /\ c.intentional = TRUE
      /\ c.reconnecting = client.reconnecting
  BY <1>1, <1>3 DEF Clients
<1>6. Unanswered
  BY DEF PingImpossible, Unanswered
<1> QED BY <1>4, <1>5, <1>6, LostWith

\* A refusing CONNACK.
LEMMA RefusedLoses ==
    ASSUME TypeInv, NEW g \in Gens, NEW reason \in {"transient", "terminal"}, Refused(g, reason)
    PROVE  \E r, c : Lost(g, r, c) /\ Loses(g, r, c)
<1>1. client \in Clients
  BY DEF TypeInv
<1>2. PICK k \in {"plain", "permanent"} : _propose_disconnect_cause(client, "plain") = [client EXCEPT !.cause = k]
  BY <1>1, ProposeCause
<1>3. PICK c : c = [client EXCEPT !.cause = k, !.lastConnack = reason, !.engine = "disconnected"]
  OBVIOUS
<1>4. Lost(g, Ending(reader[g], "refused"), c)
  <2>1. c = [_propose_disconnect_cause(client, "plain") EXCEPT !.lastConnack = reason, !.engine = "disconnected"]
    BY <1>1, <1>2, <1>3 DEF Clients
  <2> QED BY <2>1 DEF Refused
<1>5. /\ c \in Clients /\ c.gen = client.gen /\ c.transport = client.transport
      /\ c.reader = client.reader
      /\ c.old = client.old /\ c.task = client.task /\ c.bye = client.bye /\ c.intent = client.intent
      /\ c.engine = "disconnected" /\ c.intentional = client.intentional
      /\ c.reconnecting = client.reconnecting
  BY <1>1, <1>3 DEF Clients
<1> QED BY <1>4, <1>5, LostWith

\* A DISCONNECT of the broker.
LEMMA BrokerDisconnectsLoses ==
    ASSUME TypeInv, NEW g \in Gens, NEW reason \in {"transient", "terminal"}, BrokerDisconnects(g, reason)
    PROVE  \E r, c : Lost(g, r, c) /\ Loses(g, r, c)
<1>1. client \in Clients
  BY DEF TypeInv
<1>2. PICK k \in {"plain", "permanent"} : _propose_disconnect_cause(client, "plain") = [client EXCEPT !.cause = k]
  BY <1>1, ProposeCause
<1>3. PICK c : c = [client EXCEPT !.cause = k, !.lastDisc = reason, !.engine = "disconnected"]
  OBVIOUS
<1>4. Lost(g, Ending(reader[g], "plain"), c)
  <2>1. c = [_propose_disconnect_cause(client, "plain") EXCEPT !.lastDisc = reason, !.engine = "disconnected"]
    BY <1>1, <1>2, <1>3 DEF Clients
  <2> QED BY <2>1 DEF BrokerDisconnects
<1>5. /\ c \in Clients /\ c.gen = client.gen /\ c.transport = client.transport
      /\ c.reader = client.reader
      /\ c.old = client.old /\ c.task = client.task /\ c.bye = client.bye /\ c.intent = client.intent
      /\ c.engine = "disconnected" /\ c.intentional = client.intentional
      /\ c.reconnecting = client.reconnecting
  BY <1>1, <1>3 DEF Clients
<1> QED BY <1>4, <1>5, LostWith

\* A peer error, whose DISCONNECT is flushed first.
LEMMA PeerErrorLoses ==
    ASSUME TypeInv, NEW g \in Gens, NEW kind \in {"plain", "permanent"}, PeerError(g, kind)
    PROVE  \E r, c : Lost(g, r, c) /\ Loses(g, r, c)
<1>1. client \in Clients /\ reader[g] \in Readers
  BY DEF TypeInv
<1>2. PICK k \in {"plain", "permanent"} : _propose_disconnect_cause(client, kind) = [client EXCEPT !.cause = k]
  BY <1>1, ProposeCause
<1>3. PICK e, r, c : /\ e = Ending(reader[g], kind) /\ r = [e EXCEPT !.pc = "fatal"]
                     /\ c = [client EXCEPT !.cause = k, !.engine = "disconnecting"]
  OBVIOUS
<1>4. Lost(g, r, c)
  <2>1. c = [_propose_disconnect_cause(client, kind) EXCEPT !.engine = "disconnecting"]
    BY <1>1, <1>2, <1>3 DEF Clients
  <2> QED BY <1>3, <2>1 DEF PeerError
<1>5. /\ c \in Clients /\ c.gen = client.gen /\ c.transport = client.transport
      /\ c.reader = client.reader
      /\ c.old = client.old /\ c.task = client.task /\ c.bye = client.bye /\ c.intent = client.intent
      /\ c.engine = "disconnecting" /\ c.intentional = client.intentional
      /\ c.reconnecting = client.reconnecting
  BY <1>1, <1>3 DEF Clients
<1>6. /\ e \in Readers /\ e.tok = reader[g].tok /\ e.will = reader[g].will
      /\ e.connack = "ok" <=> reader[g].connack = "ok"
  BY <1>1, <1>3, EndingReader
<1>7. /\ r \in Readers /\ r.pc = "fatal" /\ r.tok = reader[g].tok /\ r.will = reader[g].will
      /\ r.connack = "ok" <=> reader[g].connack = "ok"
  BY <1>3, <1>6 DEF Readers
<1>8. Loses(g, r, c)
  BY <1>5, <1>7 DEF Loses
<1> QED BY <1>4, <1>8

\* A response that cannot be sent.
LEMMA CannotAnswerLoses ==
    ASSUME TypeInv, NEW g \in Gens, CannotAnswer(g)
    PROVE  \E r, c : Lost(g, r, c) /\ Loses(g, r, c)
<1>1. client \in Clients
  BY DEF TypeInv
<1>2. PICK k \in {"plain", "permanent"} : _propose_disconnect_cause(client, "permanent") = [client EXCEPT !.cause = k]
  BY <1>1, ProposeCause
<1>3. PICK d : d = [client EXCEPT !.cause = k]
  OBVIOUS
<1>4. /\ d \in Clients /\ d.gen = client.gen /\ d.transport = client.transport
      /\ d.reader = client.reader
      /\ d.old = client.old /\ d.task = client.task /\ d.bye = client.bye /\ d.intent = client.intent
      /\ d.engine = client.engine /\ d.intentional = client.intentional
      /\ d.reconnecting = client.reconnecting
  BY <1>1, <1>3 DEF Clients
<1>5. PICK c \in _fail_pending(d) : Lost(g, Ending(reader[g], "permanent"), c)
  BY <1>2, <1>3 DEF CannotAnswer
<1>6. PICK latch \in BOOLEAN : c = [d EXCEPT !.owed = FALSE, !.latch = latch]
  BY <1>4, <1>5, FailPending
<1>7. /\ c \in Clients /\ c.gen = d.gen /\ c.transport = d.transport /\ c.reader = d.reader
      /\ c.old = d.old /\ c.task = d.task /\ c.bye = d.bye /\ c.intent = d.intent
      /\ c.engine = d.engine /\ c.intentional = d.intentional
      /\ c.reconnecting = d.reconnecting
  BY <1>4, <1>6 DEF Clients
<1> QED BY <1>4, <1>5, <1>7, LostWith

\* A failing store.
LEMMA StoreFailsLoses ==
    ASSUME TypeInv, NEW g \in Gens, StoreFails(g)
    PROVE  \E r, c : Lost(g, r, c) /\ Loses(g, r, c)
<1>1. client \in Clients
  BY DEF TypeInv
<1>2. PICK k \in {"plain", "permanent"} : _propose_disconnect_cause(client, "plain") = [client EXCEPT !.cause = k]
  BY <1>1, ProposeCause
<1>3. PICK c : c = [client EXCEPT !.cause = k, !.latch = TRUE, !.engine = "disconnected"]
  OBVIOUS
<1>4. Lost(g, Ending(reader[g], "plain"), c)
  <2>1. c = [_propose_disconnect_cause(client, "plain") EXCEPT !.latch = TRUE, !.engine = "disconnected"]
    BY <1>1, <1>2, <1>3 DEF Clients
  <2> QED BY <2>1 DEF StoreFails
<1>5. /\ c \in Clients /\ c.gen = client.gen /\ c.transport = client.transport
      /\ c.reader = client.reader
      /\ c.old = client.old /\ c.task = client.task /\ c.bye = client.bye /\ c.intent = client.intent
      /\ c.engine = "disconnected" /\ c.intentional = client.intentional
      /\ c.reconnecting = client.reconnecting
  BY <1>1, <1>3 DEF Clients
<1> QED BY <1>4, <1>5, LostWith

\* Whatever ends a connection that is read is such a loss.
LEMMA PeerLoses ==
    ASSUME TypeInv, NEW g \in Gens, Peer(g), ~ConnackArrives(g)
    PROVE  \E r, c : Lost(g, r, c) /\ Loses(g, r, c)
<1>1. CASE \E reason \in {"transient", "terminal"} : Refused(g, reason) \/ BrokerDisconnects(g, reason)
  BY <1>1, RefusedLoses, BrokerDisconnectsLoses
<1>2. CASE \E kind \in {"plain", "permanent"} : PeerError(g, kind)
  BY <1>2, PeerErrorLoses
<1> QED BY <1>1, <1>2, StreamEndsLoses, TaskFailsLoses, PingImpossibleLoses, CannotAnswerLoses,
           StoreFailsLoses DEF Peer

\* Whatever the peer does keeps the invariant.
LEMMA PeerStep ==
    ASSUME Inv, NEW g \in Gens, Peer(g)
    PROVE  Inv'
<1>1. CASE ConnackArrives(g)
  BY <1>1, ConnackArrivesStep
<1>2. CASE ~ConnackArrives(g)
  BY <1>2, PeerLoses, LostStep DEF Inv, BaseInv
<1> QED BY <1>1, <1>2

\* ReaderCloses is one of the two.
LEMMA ReaderHandsOver ==
    ASSUME Inv, NEW g \in Gens, ReaderCloses(g)
    PROVE  Inv'
<1>1. client \in Clients
  BY DEF Inv, BaseInv, TypeInv
<1>2. PICK left \in 0..MaxGens : left = IF client.transport = g THEN 0 ELSE client.transport
  BY <1>1, LifecycleAssumption DEF Clients, Gens
<1>3. PICK closed \in BOOLEAN : closed = (client.closed \/ ~reader[g].will)
  OBVIOUS
<1>4. PICK c : c = [client EXCEPT !.transport = left, !.closed = closed]
  OBVIOUS
<1>5. c = [client EXCEPT !.transport = IF @ = g THEN 0 ELSE @, !.closed = @ \/ ~reader[g].will]
  BY <1>1, <1>2, <1>3, <1>4 DEF Clients
<1>6. /\ reader[g].pc = "closing" /\ reader' = [reader EXCEPT ![g].pc = "done"]
      /\ hooks' = disconnected(hooks, reader[g].tok) /\ lock' = lock
  BY DEF ReaderCloses
<1>7. CASE reader[g].will /\ ~Live(client.task) /\ ~client.intentional
  <2>1. PICK s \in Supervisors :
          /\ pc[s] = "none" /\ pc' = [pc EXCEPT ![s] = "ready"] /\ client' = [c EXCEPT !.task = s]
          /\ cut' = IF pc["connect"] = "cancel" THEN cut \cup {"orphaned"} ELSE cut
    BY <1>5, <1>7 DEF ReaderCloses
  <2>2. client' = [client EXCEPT !.transport = left, !.closed = closed, !.task = s]
    BY <1>1, <1>4, <2>1 DEF Clients
  <2> QED BY <1>2, <1>6, <1>7, <2>1, <2>2, ReaderRestartsStep, ZenonT(60)
<1>8. CASE ~(reader[g].will /\ ~Live(client.task) /\ ~client.intentional)
  <2>1. client' = [client EXCEPT !.transport = left, !.closed = closed] /\ pc' = pc /\ cut' = cut
    BY <1>4, <1>5, <1>8 DEF ReaderCloses
  <2> QED BY <1>2, <1>6, <2>1, ReaderClosesStep
<1> QED BY <1>7, <1>8

-----------------------------------------------------------------------------
(* The attempts.                                                           *)

\* An attempt ends, or goes on to its backoff or to its next dial.
AttemptOver(a, to) ==
    /\ pc[a] \in {"dial", "fail", "quit", "backoff"} /\ pc' = [pc EXCEPT ![a] = to]
    /\ to \in IF a = "connect" THEN {"idle", "backoff", "dial"} ELSE {"none", "ready"}
    /\ lock' = IF to \in {"backoff", "dial"} THEN lock ELSE Tail(lock)
    /\ reader' = reader /\ cut' \in {cut, cut \cup {"backoff"}}
    /\ hooks' \in Hooks /\ hooks'.token = hooks.token /\ hooks'.hook.tok = hooks.hook.tok
    /\ hooks'.holds = hooks.holds - (IF pc[a] \in {"fail", "quit"} THEN 1 ELSE 0)
    /\ hooks'.hook.pc = "none" <=> hooks.hook.pc = "none"
    /\ \/ hooks'.pending = hooks.pending
       \/ hooks'.pending.pc = "start" /\ hooks'.pending.tok = hooks.token
    /\ hooks'.ready = TRUE => hooks.ready
    /\ client' \in Clients /\ client'.gen = client.gen /\ client'.old = client.old
    /\ client'.bye = client.bye /\ client'.intent = client.intent
    /\ client'.task = IF to = "none" THEN "none" ELSE client.task
    /\ client.intentional => client'.intentional
    /\ to \in {"backoff", "dial", "ready"} => ~client'.intentional
    /\ IF pc[a] \in {"fail", "quit"}
       THEN /\ NoReader /\ client'.reader = 0 /\ client'.transport = 0
            /\ client'.engine = "disconnected"
       ELSE /\ client'.reader = client.reader /\ client'.transport = client.transport
            /\ client'.engine = client.engine

\* An attempt that is over keeps the invariant.
LEMMA AttemptOverStep ==
    ASSUME Inv, NEW a \in Attempting, NEW to, AttemptOver(a, to)
    PROVE  Inv'
<1>1. TypeInv /\ LockInv /\ OrderInv /\ HoldsInv /\ TokenInv
  BY DEF Inv, BaseInv
<1>2. hooks' \in Hooks /\ hooks \in Hooks
  BY <1>1 DEF TypeInv, AttemptOver
<1>3. /\ pc'["disconnect"] = pc["disconnect"] /\ \A b \in Attempting : pc'[b] = IF b = a THEN to ELSE pc[b]
  BY <1>1, LifecycleAssumption DEF TypeInv, PcType, Tasks, Attempting, AttemptOver
<1>4. TypeInv'
  <2>1. PcType' /\ cut' \subseteq Windows
    BY <1>1, <1>2, <1>3, LifecycleAssumption DEF TypeInv, PcType, ConnectStates, DisconnectStates,
       SupervisorStates, Tasks, Attempting, Windows, AttemptOver
  <2>2. reader' \in [Gens -> Readers]
    BY <1>1, <1>2, <1>3 DEF TypeInv, Readers, AttemptOver
  <2>3. client' \in Clients
    BY <1>1, LifecycleAssumption DEF TypeInv, Clients, Gens, AttemptOver
  <2> QED BY <1>2, <2>1, <2>2, <2>3 DEF TypeInv, PcType
<1>5. LockInv'
  <2>1. CASE to \in {"backoff", "dial"}
    <3>1. \A b \in Tasks : (Queues(pc', b) <=> Queues(pc, b)) /\ (Owns(pc', b) => Owns(pc, b))
      BY <1>1, <2>1, LifecycleAssumption DEF TypeInv, PcType, Queues, Owns, Trying, Tasks,
         Attempting, AttemptOver
    <3> QED BY <1>1, <2>1, <3>1, LockKept DEF LockInv, AttemptOver
  <2>2. CASE to \notin {"backoff", "dial"}
    <3>1. /\ a \in Tasks /\ ~Queues(pc', a) /\ Owns(pc, a)
          /\ \A b \in Tasks \ {a} : (Queues(pc', b) <=> Queues(pc, b)) /\ (Owns(pc', b) => Owns(pc, b))
      BY <1>1, <2>2, LifecycleAssumption DEF TypeInv, PcType, Queues, Owns, Trying, Tasks,
         Attempting, AttemptOver
    <3>2. lock # <<>> /\ Head(lock) = a /\ lock' = Tail(lock)
      BY <1>1, <2>2, <3>1 DEF LockInv, LockOK, AttemptOver
    <3> QED BY <1>1, <3>1, <3>2, LockReleased DEF LockInv
  <2> QED BY <2>1, <2>2
<1>6. OrderInv'
  <2>1. lock # <<>> /\ lock \in Seq(Tasks) /\ Distinct(lock) /\ lock' \in {lock, Tail(lock)}
    BY <1>1, LifecycleAssumption DEF LockInv, LockOK, Owns, Trying, Tasks, Attempting, AttemptOver
  <2>2. client'.intent = client.intent
    BY DEF AttemptOver
  <2> QED BY <1>1, <2>1, <2>2, OrderReleased DEF OrderInv
<1>7. HoldsInv'
  <2>1. \A b \in Attempting \ {a} : pc[b] \notin Joining
    BY <1>1, LifecycleAssumption DEF LockInv, LockOK, Owns, Trying, Tasks, Attempting, Joining,
       AttemptOver
  <2>2. to \notin Joining
    BY DEF AttemptOver, Joining
  <2>3. pc[a] \in Joining <=> pc[a] \in {"fail", "quit"}
    BY DEF AttemptOver, Joining
  <2>4. PICK n \in Int : n = IF pc["disconnect"] \in {"force", "shut"} THEN 1 ELSE 0
    OBVIOUS
  <2>5. hooks.holds = (IF pc[a] \in {"fail", "quit"} THEN 1 ELSE 0) + n
    BY <1>1, <2>1, <2>3, <2>4 DEF HoldsInv
  <2>6. hooks'.holds = n
    BY <2>4, <2>5 DEF AttemptOver
  <2>7. ~\E b \in Attempting : pc'[b] \in Joining
    BY <1>3, <2>1, <2>2
  <2> QED BY <1>3, <2>4, <2>6, <2>7 DEF HoldsInv
<1>8. TokenInv'
  BY <1>1, <1>2, <1>3, LifecycleAssumption DEF TokenInv, Tries, TypeInv, PcType, Trying, Tasks,
     Attempting, Hooks, NoHook, Notes, AttemptOver
<1>9. ASSUME Protected' PROVE OwnerInv'
  <2>1. OwnerInv
    BY <1>1, <1>2, <1>3, <1>9 DEF Inv, Protected, AttemptOver
  <2>2. \A b \in Attempting \ {a} : pc[b] \notin Trying \cup {"force"}
    BY <1>1, LifecycleAssumption DEF LockInv, LockOK, Owns, Trying, Tasks, Attempting, AttemptOver
  <2>3. /\ AllIdle /\ client'.engine \notin Up \cup {"disconnecting"} /\ client'.reader = 0 /\ client'.transport = 0
        /\ pc["disconnect"] # "flush"
    <3>1. pc["disconnect"] # "flush"
      BY <1>1, LifecycleAssumption DEF LockInv, LockOK, Owns, Trying, Tasks, Attempting,
         AttemptOver
    <3>2. CASE pc[a] \in {"fail", "quit"}
      <4>1. AllIdle
        BY <1>1, <2>1, <3>2, LifecycleAssumption DEF OwnerInv, ReaderInv, AllIdle, Gens,
           AttemptOver, NoReader, Clients, TypeInv
      <4> QED BY <3>1, <3>2, <4>1 DEF AttemptOver, Up
    <3>3. CASE pc[a] \in {"dial", "backoff"}
      <4>1. client.reader = 0 /\ client.transport = 0
        BY <2>1, <3>3 DEF OwnerInv, ReaderInv
      <4>2. AllIdle
        BY <2>1, <4>1, LifecycleAssumption DEF OwnerInv, ReaderInv, AllIdle, Gens
      <4>3. client.engine \notin Up \cup {"disconnecting"}
        BY <1>1, <2>1, <4>2, LifecycleAssumption DEF OwnerInv, ReaderInv, AllIdle, Gens, Idle, Up,
           TypeInv, Clients
      <4> QED BY <3>1, <3>3, <4>1, <4>2, <4>3 DEF AttemptOver, Up
    <3> QED BY <3>2, <3>3 DEF AttemptOver
  <2>4. pc["disconnect"] = "ending" => client'.engine = "disconnected" /\ to \in {"idle", "none"}
    BY <1>1, <2>2, <2>1, LifecycleAssumption DEF OwnerInv, DisconnectInv, Closing, Trying,
       Attempting, AttemptOver
  <2>5. ReaderInv'
    BY <1>3, <2>2, <2>3, <2>1, LifecycleAssumption DEF OwnerInv, ReaderInv, AllIdle, Gens, Up,
       Trying, AttemptOver
  <2>6. SupervisorInv'
    BY <1>1, <1>2, <1>3, <2>1, <2>2, <2>3, <2>4, LifecycleAssumption DEF OwnerInv, TypeInv,
       PcType, Readers, Clients, ConnectStates, DisconnectStates, SupervisorStates, Tasks,
       Attempting, Gens, SupervisorInv, ReaderInv, Idle, Up, Trying, AttemptOver
  <2>7. WaitingInv'
    BY <1>1, <1>2, <1>3, <2>1, <2>2, <2>3, <2>4, LifecycleAssumption DEF OwnerInv, TypeInv,
       PcType, Readers, Clients, ConnectStates, DisconnectStates, SupervisorStates, Tasks,
       Attempting, Gens, WaitingInv, ReaderInv, Idle, Up, Alone, AttemptOver
  <2>8. DisconnectInv'
    <3>1. pc'["disconnect"] \in {"lock", "flush", "force", "shut"} => Alone'
      BY <1>3, <2>2, <2>3, <2>1 DEF OwnerInv, DisconnectInv, Alone, Attempting, AttemptOver
    <3>2. pc'["disconnect"] \in {"join", "lock", "ending", "flush"} => client'.intentional
      BY <1>3, <2>1 DEF OwnerInv, DisconnectInv, AttemptOver
    <3>3. AllIdle'
      BY <2>3 DEF AllIdle, AttemptOver
    <3>4. pc'["disconnect"] = "ending" =>
           /\ client'.engine = "disconnected" /\ pc'["connect"] \in {"idle", "lock", "cancel", "force"}
           /\ \A s \in Supervisors : pc'[s] \in {"none", "ready", "cancelled"}
      <4>1. SUFFICES ASSUME pc["disconnect"] = "ending"
                     PROVE  /\ client'.engine = "disconnected" /\ pc'["connect"] \in {"idle", "lock", "cancel", "force"}
                            /\ \A s \in Supervisors : pc'[s] \in {"none", "ready", "cancelled"}
        BY <1>3
      <4>2. pc'["connect"] \in {"idle", "lock", "cancel"}
        BY <1>1, <1>3, <2>2, <2>4, <4>1 DEF TypeInv, PcType, ConnectStates, Trying, Attempting,
           AttemptOver
      <4>3. ASSUME NEW s \in Supervisors PROVE pc'[s] \in {"none", "ready"}
        <5>1. s = a \/ pc'[s] = pc[s]
          BY <1>3 DEF Attempting
        <5>2. CASE s = a
          BY <1>3, <2>4, <4>1, <5>2, LifecycleAssumption DEF AttemptOver, Attempting
        <5>3. CASE s # a
          BY <1>1, <1>3, <2>2, <2>1, <4>1, <5>3, LifecycleAssumption DEF OwnerInv, SupervisorInv,
             DisconnectInv, Closing, AttemptOver, TypeInv, PcType, SupervisorStates, Attempting,
             Trying
        <5> QED BY <5>2, <5>3
      <4> QED BY <2>4, <4>1, <4>2, <4>3
    <3> QED BY <1>3, <2>3, <3>1, <3>2, <3>3, <3>4 DEF DisconnectInv, Up
  <2>9. FinalInv'
    BY <1>1, <1>2, <1>3, <2>1, <2>2, <2>3, <2>4, LifecycleAssumption DEF OwnerInv, TypeInv,
       PcType, Readers, Clients, ConnectStates, DisconnectStates, SupervisorStates, Tasks,
       Attempting, Gens, FinalInv, DisconnectInv, ReaderInv, Idle, Up, AttemptOver
  <2> QED BY <2>5, <2>6, <2>7, <2>8, <2>9 DEF OwnerInv
<1> QED BY <1>4, <1>5, <1>6, <1>7, <1>8, <1>9 DEF Inv, BaseInv

\* An attempt starts to close what it opened.
AttemptCloses(a, to) ==
    /\ pc[a] \in {"connack", "bye"} /\ to \in {"fail", "quit"} /\ pc' = [pc EXCEPT ![a] = to]
    /\ lock' = lock /\ ForceClose(hooks)
    /\ \E exc \in {"plain", "permanent"} : client' = [client EXCEPT !.exc = exc]

\* So does one that starts closing what it opened.
LEMMA AttemptClosesStep ==
    ASSUME Inv, NEW a \in Attempting, NEW to, AttemptCloses(a, to)
    PROVE  Inv'
<1>1. TypeInv /\ LockInv /\ OrderInv /\ HoldsInv /\ TokenInv
  BY DEF Inv, BaseInv
<1>2. /\ hooks' \in Hooks /\ hooks \in Hooks /\ hooks'.token = hooks.token
      /\ hooks'.pending = hooks.pending
      /\ hooks'.hook = hooks.hook /\ hooks'.ready = hooks.ready /\ hooks'.holds = hooks.holds + 1
  BY <1>1, HoldHooks DEF TypeInv, AttemptCloses, ForceClose
<1>3. PICK exc \in {"plain", "permanent"} : client' = [client EXCEPT !.exc = exc]
  BY DEF AttemptCloses
<1>4. Cancels(client.reader) /\ client.reader \in 0..MaxGens
  BY <1>1, CancelReaderStep DEF AttemptCloses, ForceClose, TypeInv, Clients
<1>5. /\ pc[a] \in {"connack", "bye"} /\ to \in {"fail", "quit"} /\ pc' = [pc EXCEPT ![a] = to]
      /\ lock' = lock
  BY DEF AttemptCloses
<1>6. TypeInv'
  <2>1. PcType' /\ cut' \subseteq Windows
    BY <1>1, <1>2, <1>3, <1>4, <1>5, LifecycleAssumption DEF TypeInv, PcType, ConnectStates,
       DisconnectStates, SupervisorStates, Tasks, Attempting, Windows, Cancels
  <2>2. reader' \in [Gens -> Readers]
    BY <1>1, <1>2, <1>3, <1>4, <1>5 DEF TypeInv, Readers, Cancels
  <2>3. client' \in Clients
    <3>1. client \in Clients
      BY <1>1 DEF TypeInv
    <3> QED BY <1>3, <3>1 DEF Clients
  <2> QED BY <1>2, <2>1, <2>2, <2>3 DEF TypeInv, PcType
<1>7. LockInv'
  <2>1. \A b \in Tasks : (Queues(pc', b) <=> Queues(pc, b)) /\ (Owns(pc', b) => Owns(pc, b))
    BY <1>1, <1>5, LifecycleAssumption DEF TypeInv, PcType, Queues, Owns, Trying, Tasks,
       Attempting, Cancels
  <2> QED BY <1>1, <1>5, <2>1, LockKept DEF LockInv, Cancels
<1>8. OrderInv'
  BY <1>1, <1>2, <1>3, <1>4, <1>5 DEF OrderInv, TypeInv, Clients, Cancels
<1>9. HoldsInv'
  <2>1. \A b \in Attempting : pc[b] \notin Joining
    BY <1>1, <1>5, LifecycleAssumption DEF LockInv, LockOK, Owns, Trying, Tasks, Attempting,
       Joining
  <2>2. pc'[a] \in Joining /\ pc'["disconnect"] = pc["disconnect"]
    BY <1>1, <1>5, LifecycleAssumption DEF TypeInv, PcType, Joining, Tasks, Attempting
  <2> QED BY <1>1, <1>2, <2>1, <2>2 DEF HoldsInv
<1>10. TokenInv'
  BY <1>1, <1>2, <1>3, <1>4, <1>5, LifecycleAssumption DEF TokenInv, Tries, TypeInv, PcType,
     Trying, Tasks, Attempting, Hooks, NoHook, Notes, Cancels
<1>11. ASSUME Protected' PROVE OwnerInv'
  <2>1. OwnerInv
    BY <1>1, <1>2, <1>3, <1>4, <1>5, <1>11 DEF Inv, Protected, Cancels
  <2>2. \A b \in Attempting \ {a} : pc[b] \notin Trying \cup {"force"}
    BY <1>1, LifecycleAssumption DEF LockInv, LockOK, Owns, Trying, Tasks, Attempting,
       AttemptCloses, ForceClose
  <2>3. ReaderInv'
    BY <1>1, <1>2, <1>3, <1>4, <1>5, <2>1, <2>2, LifecycleAssumption DEF OwnerInv, TypeInv,
       PcType, Readers, Clients, ConnectStates, DisconnectStates, SupervisorStates, Tasks,
       Attempting, Gens, ReaderInv, Idle, Up, Cancels
  <2>4. SupervisorInv'
    <3>1. \A h \in Gens : (Idle(reader[h]) => Idle(reader'[h])) /\ reader'[h].tok = reader[h].tok
      BY <1>4, CancelsKeep
    <3>2. /\ client'.task = client.task /\ client'.engine = client.engine
          /\ client'.intentional = client.intentional
      BY <1>1, <1>3 DEF TypeInv, Clients
    <3>3. \A b \in Attempting : pc'[b] = IF b = a THEN to ELSE pc[b]
      BY <1>1, <1>5, LifecycleAssumption DEF TypeInv, PcType, Attempting, Tasks
    <3> QED BY <1>2, <1>5, <2>1, <2>2, <3>1, <3>2, <3>3, LifecycleAssumption DEF OwnerInv,
               SupervisorInv, Attempting, Trying
  <2>5. WaitingInv'
    BY <1>1, <1>2, <1>3, <1>4, <1>5, <2>1, <2>2, LifecycleAssumption DEF OwnerInv, TypeInv,
       PcType, Readers, Clients, ConnectStates, DisconnectStates, SupervisorStates, Tasks,
       Attempting, Gens, WaitingInv, ReaderInv, Idle, Up, Alone, Cancels
  <2>6. DisconnectInv'
    BY <1>1, <1>2, <1>3, <1>4, <1>5, <2>1, <2>2, LifecycleAssumption, SMTT(30)
       DEF OwnerInv, TypeInv, PcType, Readers, Clients, ConnectStates, DisconnectStates, SupervisorStates, Tasks,
       Attempting, Gens, DisconnectInv, ReaderInv, Idle, Up, Alone, AllIdle, Closing, Cancels
  <2>7. FinalInv'
    BY <1>1, <1>2, <1>3, <1>4, <1>5, <2>1, <2>2, LifecycleAssumption DEF OwnerInv, TypeInv,
       PcType, Readers, Clients, ConnectStates, DisconnectStates, SupervisorStates, Tasks,
       Attempting, Gens, FinalInv, DisconnectInv, ReaderInv, Idle, Up, Cancels
  <2> QED BY <2>3, <2>4, <2>5, <2>6, <2>7 DEF OwnerInv
<1> QED BY <1>6, <1>7, <1>8, <1>9, <1>10, <1>11 DEF Inv, BaseInv

\* What _abandon_connect() leaves.
LEMMA AbandonConnect ==
    ASSUME NEW c \in Clients, NEW d \in _abandon_connect(c)
    PROVE  \E latch \in BOOLEAN :
            /\ d = [c EXCEPT !.intentional = TRUE, !.reconnecting = FALSE, !.owed = FALSE, !.latch = latch]
            /\ c.latch => latch
<1>1. PICK e : e = [c EXCEPT !.intentional = TRUE, !.reconnecting = FALSE]
  OBVIOUS
<1>2. e \in Clients /\ e.latch = c.latch
  BY <1>1 DEF Clients
<1>3. d \in _fail_pending(e)
  BY <1>1 DEF _abandon_connect
<1>4. PICK latch \in BOOLEAN : d = [e EXCEPT !.owed = FALSE, !.latch = latch] /\ (e.latch => latch)
  BY <1>2, <1>3, FailPending
<1>5. d = [c EXCEPT !.intentional = TRUE, !.reconnecting = FALSE, !.owed = FALSE, !.latch = latch]
  BY <1>1, <1>4 DEF Clients
<1> QED BY <1>2, <1>4, <1>5

\* What _terminal_shutdown() leaves.
LEMMA TerminalShutdown ==
    ASSUME NEW c \in Clients, NEW d \in _terminal_shutdown(c)
    PROVE  \E latch \in BOOLEAN :
            /\ d = [c EXCEPT !.reconnecting = FALSE, !.closed = TRUE, !.owed = FALSE, !.latch = latch]
            /\ c.latch => latch
<1>1. PICK e : e = [c EXCEPT !.reconnecting = FALSE, !.closed = TRUE]
  OBVIOUS
<1>2. e \in Clients /\ e.latch = c.latch
  BY <1>1 DEF Clients
<1>3. d \in _fail_pending(e)
  BY <1>1 DEF _terminal_shutdown
<1>4. PICK latch \in BOOLEAN : d = [e EXCEPT !.owed = FALSE, !.latch = latch] /\ (e.latch => latch)
  BY <1>2, <1>3, FailPending
<1>5. d = [c EXCEPT !.reconnecting = FALSE, !.closed = TRUE, !.owed = FALSE, !.latch = latch]
  BY <1>1, <1>4 DEF Clients
<1> QED BY <1>2, <1>4, <1>5

\* The attributes that say which connection there is.
SameLinks(c, d) ==
    /\ d.gen = c.gen /\ d.old = c.old /\ d.bye = c.bye /\ d.intent = c.intent
    /\ d.reader = c.reader /\ d.transport = c.transport /\ d.engine = c.engine
    /\ d.policy = c.policy /\ d.late = c.late

\* What a decision to reconnect implies; the next attempt is within the policy.
LEMMA WillReconnect ==
    ASSUME NEW c \in Clients, _will_reconnect(c)
    PROVE  /\ ~c.latch /\ ~c.intentional /\ c.cause # "permanent" /\ c.attempt < MaxRetries
           /\ c.attempt + 1 \in 0..MaxRetries
<1>1. ~c.latch /\ ~c.intentional /\ c.cause # "permanent" /\ c.attempt < MaxRetries
  BY DEF _will_reconnect, should_retry
<1>2. c.attempt \in 0..MaxRetries
  BY DEF Clients
<1> QED BY <1>1, <1>2, LifecycleAssumption

\* connect() after a failed attempt.
LEMMA ConnectFails ==
    ASSUME NEW c \in Clients, NEW h, ConnectFailed(c, h)
    PROVE  \E to \in {"idle", "backoff"} :
            /\ hooks' = h /\ pc' = [pc EXCEPT !["connect"] = to]
            /\ lock' = IF to = "backoff" THEN lock ELSE Tail(lock)
            /\ client' \in Clients /\ SameLinks(c, client') /\ client'.task = c.task
            /\ client'.intentional = (to = "idle") /\ client'.reconnecting = (to = "backoff")
            /\ c.intentional => to = "idle"
            /\ client'.owed = IF to = "idle" THEN FALSE ELSE c.owed
            /\ client'.cause = c.cause
            /\ to = "backoff" => _will_reconnect(c) /\ client'.latch = c.latch
<1>1. CASE ~c.asked /\ _will_reconnect(c)
  <2>1. /\ hooks' = h /\ client' = [c EXCEPT !.reconnecting = TRUE, !.attempt = c.attempt + 1]
        /\ pc' = [pc EXCEPT !["connect"] = "backoff"] /\ lock' = lock
    BY <1>1 DEF ConnectFailed
  <2>2. ~c.latch /\ ~c.intentional /\ c.attempt + 1 \in 0..MaxRetries
    BY <1>1, WillReconnect
  <2>3. /\ client' \in Clients /\ SameLinks(c, client') /\ client'.task = c.task
        /\ client'.owed = c.owed /\ client'.cause = c.cause /\ client'.latch = c.latch
    BY <2>1, <2>2 DEF Clients, SameLinks
  <2>4. client'.intentional = FALSE /\ client'.reconnecting = TRUE
    BY <2>1, <2>2 DEF Clients
  <2> QED BY <1>1, <2>1, <2>2, <2>3, <2>4
<1>2. CASE ~(~c.asked /\ _will_reconnect(c))
  <2>1. /\ hooks' = h /\ client' \in _abandon_connect(c)
        /\ pc' = [pc EXCEPT !["connect"] = "idle"] /\ lock' = Tail(lock)
    BY <1>2 DEF ConnectFailed, Released
  <2>2. PICK latch \in BOOLEAN : client' =
            [c EXCEPT !.intentional = TRUE, !.reconnecting = FALSE, !.owed = FALSE, !.latch = latch]
    BY <2>1, AbandonConnect
  <2>3. /\ client' \in Clients /\ SameLinks(c, client') /\ client'.task = c.task
        /\ client'.cause = c.cause
    BY <2>2 DEF Clients, SameLinks
  <2>4. client'.intentional = TRUE /\ client'.reconnecting = FALSE /\ client'.owed = FALSE
    BY <2>2 DEF Clients
  <2> QED BY <2>1, <2>3, <2>4
<1> QED BY <1>1, <1>2

\* How a supervisor goes on after a failed attempt.
SupervisorOver(s, c, h, to) ==
    /\ pc' = [pc EXCEPT ![s] = to] /\ lock' = Tail(lock)
    /\ client' \in Clients /\ SameLinks(c, client')
    /\ client'.task = IF to = "none" THEN "none" ELSE c.task
    /\ client'.intentional = c.intentional /\ (to = "ready" => ~c.intentional)
    /\ client'.reconnecting => c.reconnecting
    /\ hooks' = h \/ hooks' = disconnected(h, h.token)

\* The supervisor after a failed attempt.
LEMMA SupervisorFails ==
    ASSUME NEW s, NEW c \in Clients, NEW h \in Hooks, NEW opened \in BOOLEAN, SupervisorFailed(s, c, h, opened)
    PROVE  \E to \in {"none", "ready"} : SupervisorOver(s, c, h, to)
<1>1. lock' = Tail(lock)
  BY DEF SupervisorFailed, Released
<1>2. CASE c.cause = "permanent" \/ c.latch
  <2>1. PICK d \in _terminal_shutdown(c) : client' = Ended(d)
    BY <1>2 DEF SupervisorFailed
  <2>2. PICK latch \in BOOLEAN :
          d = [c EXCEPT !.reconnecting = FALSE, !.closed = TRUE, !.owed = FALSE, !.latch = latch]
    BY <2>1, TerminalShutdown
  <2>3. client' = [c EXCEPT !.reconnecting = FALSE, !.closed = TRUE, !.owed = FALSE, !.latch = latch,
                            !.task = "none"]
    BY <2>1, <2>2 DEF Ended, Clients
  <2>4. /\ client' \in Clients /\ SameLinks(c, client') /\ client'.task = "none"
        /\ client'.intentional = c.intentional /\ client'.reconnecting = FALSE
    BY <2>3 DEF Clients, SameLinks
  <2>5. pc' = [pc EXCEPT ![s] = "none"] /\ (hooks' = h \/ hooks' = disconnected(h, h.token))
    BY <1>2 DEF SupervisorFailed, SupervisorEnds
  <2> QED BY <1>1, <2>4, <2>5 DEF SupervisorOver
<1>3. CASE ~(c.cause = "permanent" \/ c.latch)
  <2>1. Loops(s, c) /\ hooks' = h
    BY <1>3 DEF SupervisorFailed
  <2>2. CASE c.intentional
    <3>1. pc' = [pc EXCEPT ![s] = "none"] /\ client' = [c EXCEPT !.task = "none"]
      BY <2>1, <2>2 DEF Loops, SupervisorEnds, Ended
    <3>2. /\ client' \in Clients /\ SameLinks(c, client') /\ client'.task = "none"
          /\ client'.intentional = c.intentional /\ client'.reconnecting = c.reconnecting
      BY <3>1 DEF Clients, SameLinks
    <3> QED BY <1>1, <2>1, <2>2, <3>1, <3>2 DEF SupervisorOver
  <2>3. CASE ~c.intentional
    <3>1. pc' = [pc EXCEPT ![s] = "ready"] /\ client' = c
      BY <2>1, <2>3 DEF Loops
    <3> QED BY <1>1, <2>1, <2>3, <3>1 DEF SameLinks, SupervisorOver
  <2> QED BY <2>2, <2>3
<1> QED BY <1>2, <1>3

\* The hooks, whether or not the failure is reported.
LEMMA ReportedHooks ==
    ASSUME NEW h \in Hooks, NEW k, k = h \/ k = disconnected(h, h.token)
    PROVE  /\ k \in Hooks /\ k.token = h.token /\ k.holds = h.holds
           /\ k.hook.tok = h.hook.tok /\ (k.hook.pc = "none" <=> h.hook.pc = "none")
           /\ k.pending = h.pending \/ (k.pending.pc = "start" /\ k.pending.tok = h.token)
           /\ (k.ready = TRUE => h.ready)
<1>1. CASE k = h
  BY <1>1 DEF Hooks
<1>2. CASE k = disconnected(h, h.token)
  <2>1. /\ k \in Hooks /\ k.token = h.token /\ k.holds = h.holds
        /\ k.hook.tok = h.hook.tok
    BY <1>2, DisconnectedHooks
  <2>2. /\ k.ready = FALSE /\ k.pending.pc = "start" /\ k.pending.tok = h.token
        /\ k.hook.pc = IF h.hook.pc \in {"start", "barrier"} THEN "cancelled" ELSE h.hook.pc
    BY <1>2, DisconnectedHooks
  <2> QED BY <2>1, <2>2
<1> QED BY <1>1, <1>2

\* A failed attempt, of connect() or of a supervisor.
LEMMA AttemptFails ==
    ASSUME TypeInv, NEW a \in Attempting, NEW c \in Clients, NEW h \in Hooks, NEW opened \in BOOLEAN,
           AttemptFailed(a, c, h, opened), reader' = reader, cut' = cut,
           pc[a] \in {"dial", "fail"},
           h.token = hooks.token, h.hook = hooks.hook, h.pending = hooks.pending, h.ready = hooks.ready,
           h.holds = hooks.holds - (IF pc[a] = "fail" THEN 1 ELSE 0),
           c.gen = client.gen, c.old = client.old, c.bye = client.bye, c.intent = client.intent,
           c.task = client.task, c.intentional = client.intentional,
           IF pc[a] = "fail"
           THEN NoReader /\ c.reader = 0 /\ c.transport = 0 /\ c.engine = "disconnected"
           ELSE c.reader = client.reader /\ c.transport = client.transport /\ c.engine = client.engine
    PROVE  \E to : AttemptOver(a, to)
<1>1. CASE a = "connect"
  <2>1. PICK to \in {"idle", "backoff"} :
            /\ hooks' = h /\ pc' = [pc EXCEPT !["connect"] = to]
            /\ lock' = IF to = "backoff" THEN lock ELSE Tail(lock)
            /\ client' \in Clients /\ SameLinks(c, client') /\ client'.task = c.task
            /\ client'.intentional = (to = "idle")
            /\ c.intentional => to = "idle"
    BY <1>1, ConnectFails DEF AttemptFailed
  <2>2. client.intentional => client'.intentional
    BY <2>1
  <2>3. to = "backoff" => ~client'.intentional
    BY <2>1
  <2> QED BY <1>1, <2>1, <2>2, <2>3 DEF AttemptOver, SameLinks
<1>2. CASE a # "connect"
  <2>1. SupervisorFailed(a, c, h, opened)
    BY <1>2 DEF AttemptFailed
  <2>2. PICK to \in {"none", "ready"} : SupervisorOver(a, c, h, to)
    BY <2>1, SupervisorFails
  <2>3. /\ hooks' \in Hooks /\ hooks'.token = h.token /\ hooks'.holds = h.holds
        /\ hooks'.hook.tok = h.hook.tok /\ (hooks'.hook.pc = "none" <=> h.hook.pc = "none")
        /\ hooks'.pending = h.pending \/ (hooks'.pending.pc = "start" /\ hooks'.pending.tok = h.token)
        /\ (hooks'.ready = TRUE => h.ready)
    BY <2>2, ReportedHooks DEF SupervisorOver
  <2> QED BY <1>2, <2>2, <2>3, ZenonT(60) DEF AttemptOver, SameLinks, SupervisorOver
<1> QED BY <1>1, <1>2

\* A dial that fails.
LEMMA DialFailsStep ==
    ASSUME Inv, NEW a \in Attempting, DialFails(a)
    PROVE  Inv'
<1>1. TypeInv
  BY DEF Inv, BaseInv
<1>2. PICK c : c = [client EXCEPT !.cause = "plain"]
  OBVIOUS
<1>3. /\ c \in Clients /\ hooks \in Hooks
      /\ c.gen = client.gen /\ c.old = client.old /\ c.bye = client.bye /\ c.intent = client.intent
      /\ c.task = client.task /\ c.intentional = client.intentional /\ c.reader = client.reader
      /\ c.transport = client.transport /\ c.engine = client.engine /\ hooks.holds \in Int
  BY <1>1, <1>2 DEF TypeInv, Clients, Hooks
<1>4. /\ AttemptFailed(a, c, hooks, FALSE) /\ reader' = reader /\ cut' = cut /\ pc[a] = "dial"
  BY <1>2 DEF DialFails, Dialled
<1>5. hooks.holds = hooks.holds - (IF pc[a] = "fail" THEN 1 ELSE 0)
  BY <1>3, <1>4
<1>6. PICK to : AttemptOver(a, to)
  BY <1>1, <1>3, <1>4, <1>5, AttemptFails
<1> QED BY <1>6, AttemptOverStep

\* The attempt's connection is closed.
LEMMA AttemptClosedStep ==
    ASSUME Inv, NEW a \in Attempting, AttemptClosed(a)
    PROVE  Inv'
<1>1. TypeInv /\ client \in Clients /\ hooks \in Hooks
  BY DEF Inv, BaseInv, TypeInv
<1>2. PICK c : c = [client EXCEPT !.reader = 0, !.transport = 0, !.engine = "disconnected"]
  OBVIOUS
<1>3. /\ c \in Clients
      /\ c.gen = client.gen /\ c.old = client.old /\ c.bye = client.bye /\ c.intent = client.intent
      /\ c.task = client.task /\ c.intentional = client.intentional /\ c.reader = 0
      /\ c.transport = 0 /\ c.engine = "disconnected"
  <2>1. 0 \in 0..MaxGens
    BY LifecycleAssumption
  <2> QED BY <1>1, <1>2, <2>1 DEF Clients
<1>4. PICK h : h = release(hooks)
  OBVIOUS
<1>5. /\ h \in Hooks /\ h.token = hooks.token /\ h.hook = hooks.hook /\ h.pending = hooks.pending
      /\ h.ready = hooks.ready /\ h.holds = hooks.holds - 1
  BY <1>1, <1>4, ReleaseHooks
<1>6. NoReader /\ reader' = reader /\ cut' = cut /\ pc[a] \in {"fail", "quit"}
  BY DEF AttemptClosed
<1>7. CASE pc[a] = "fail"
  <2>1. PICK d : d = [c EXCEPT !.cause = client.exc]
    OBVIOUS
  <2>2. /\ d \in Clients
        /\ d.gen = c.gen /\ d.old = c.old /\ d.bye = c.bye /\ d.intent = c.intent
        /\ d.task = c.task /\ d.intentional = c.intentional /\ d.reader = 0
        /\ d.transport = 0 /\ d.engine = "disconnected"
    BY <1>1, <1>3, <2>1 DEF Clients
  <2>3. AttemptFailed(a, d, h, TRUE)
    BY <1>2, <1>4, <1>7, <2>1 DEF AttemptClosed
  <2>4. PICK to : AttemptOver(a, to)
    BY <1>1, <1>3, <1>5, <1>6, <1>7, <2>2, <2>3, AttemptFails
  <2> QED BY <2>4, AttemptOverStep
<1>8. CASE pc[a] = "quit" /\ a = "connect"
  <2>1. /\ hooks' = h /\ lock' = Tail(lock) /\ client' \in _abandon_connect(c)
        /\ pc' = [pc EXCEPT !["connect"] = "idle"]
    BY <1>2, <1>4, <1>8 DEF AttemptClosed, Released
  <2>2. PICK latch \in BOOLEAN :
          client' = [c EXCEPT !.intentional = TRUE, !.reconnecting = FALSE, !.owed = FALSE, !.latch = latch]
    BY <1>3, <2>1, AbandonConnect
  <2>3. /\ client' \in Clients /\ client'.gen = c.gen /\ client'.old = c.old /\ client'.bye = c.bye
        /\ client'.intent = c.intent /\ client'.task = c.task /\ client'.intentional
        /\ client'.reader = 0 /\ client'.transport = 0 /\ client'.engine = "disconnected"
    BY <1>3, <2>2 DEF Clients
  <2>4. AttemptOver(a, "idle")
    BY <1>3, <1>5, <1>6, <1>8, <2>1, <2>3 DEF AttemptOver
  <2> QED BY <2>4, AttemptOverStep
<1>9. CASE pc[a] = "quit" /\ a # "connect"
  <2>1. /\ hooks' = h /\ lock' = Tail(lock) /\ client' = [c EXCEPT !.task = "none"]
        /\ pc' = [pc EXCEPT ![a] = "none"]
    BY <1>2, <1>4, <1>9 DEF AttemptClosed, Released, SupervisorEnds, Ended
  <2>2. /\ client' \in Clients /\ client'.gen = c.gen /\ client'.old = c.old /\ client'.bye = c.bye
        /\ client'.intent = c.intent /\ client'.task = "none" /\ client'.intentional = c.intentional
        /\ client'.reader = 0 /\ client'.transport = 0 /\ client'.engine = "disconnected"
    BY <1>3, <2>1 DEF Clients
  <2>3. AttemptOver(a, "none")
    BY <1>3, <1>5, <1>6, <1>9, <2>1, <2>2 DEF AttemptOver
  <2> QED BY <2>3, AttemptOverStep
<1> QED BY <1>6, <1>7, <1>8, <1>9

\* connect() stops in its dial or its backoff, or dials again.
LEMMA ConnectStops ==
    ASSUME Inv, pc["connect"] \in {"dial", "backoff"}, reader' = reader, hooks' = hooks,
           cut' \in {cut, cut \cup {"backoff"}}, pc' = [pc EXCEPT !["connect"] = "idle"], lock' = Tail(lock),
           client' = client \/ client' \in _abandon_connect(client)
    PROVE  Inv'
<1>1. client \in Clients /\ hooks \in Hooks /\ "connect" \in Attempting
  BY DEF Inv, BaseInv, TypeInv, Attempting
<1>2. /\ client' \in Clients /\ SameLinks(client, client') /\ client'.task = client.task
      /\ client.intentional => client'.intentional
  <2>1. CASE client' = client
    BY <1>1, <2>1 DEF SameLinks
  <2>2. CASE client' \in _abandon_connect(client)
    <3>1. PICK latch \in BOOLEAN :
            client' = [client EXCEPT !.intentional = TRUE, !.reconnecting = FALSE, !.owed = FALSE, !.latch = latch]
      BY <1>1, <2>2, AbandonConnect
    <3> QED BY <1>1, <3>1 DEF Clients, SameLinks
  <2> QED BY <2>1, <2>2
<1>3. AttemptOver("connect", "idle")
  BY <1>1, <1>2 DEF AttemptOver, SameLinks, Hooks
<1> QED BY <1>1, <1>3, AttemptOverStep

\* The backoff of connect() ends.
LEMMA BackoffEndsStep ==
    ASSUME Inv, BackoffEnds
    PROVE  Inv'
<1>1. client \in Clients /\ hooks \in Hooks /\ "connect" \in Attempting
  BY DEF Inv, BaseInv, TypeInv, Attempting
<1>2. CASE client.intentional
  BY <1>2, ConnectStops DEF BackoffEnds, Released
<1>3. CASE ~client.intentional
  <2>1. /\ client' = [client EXCEPT !.lastConnack = "none"] /\ pc["connect"] = "backoff"
        /\ pc' = [pc EXCEPT !["connect"] = "dial"] /\ lock' = lock
        /\ reader' = reader /\ hooks' = hooks /\ cut' = cut
    BY <1>3 DEF BackoffEnds
  <2>2. /\ client' \in Clients /\ SameLinks(client, client') /\ client'.task = client.task
        /\ ~client'.intentional
    BY <1>1, <1>3, <2>1 DEF Clients, SameLinks
  <2>3. AttemptOver("connect", "dial")
    BY <1>1, <1>3, <2>1, <2>2 DEF AttemptOver, SameLinks, Hooks
  <2> QED BY <1>1, <2>3, AttemptOverStep
<1> QED BY <1>2, <1>3

\* A refused, failed or ended attempt closes what it opened.
LEMMA AttemptClosesNow ==
    ASSUME Inv, NEW a \in Attempting, ConnackFails(a) \/ ByeSent(a)
    PROVE  Inv'
<1>1. PICK exc \in {"plain", "permanent"} : FailAttempt(a, exc, "fail") /\ pc[a] \in {"connack", "bye"}
  BY DEF ConnackFails, ByeSent
<1>2. AttemptCloses(a, "fail")
  BY <1>1 DEF FailAttempt, AttemptCloses
<1> QED BY <1>2, AttemptClosesStep

\* connect() is cancelled while it waits for the lock.
ConnectWaits ==
    /\ pc["connect"] = "lock" /\ pc' = [pc EXCEPT !["connect"] = "idle"] /\ lock' = Without("connect")
    /\ cut' = cut \cup {"waiting"} /\ UNCHANGED <<reader, hooks, client>>

\* It keeps the invariant.
LEMMA ConnectWaitsStep ==
    ASSUME Inv, ConnectWaits
    PROVE  Inv'
<1>1. TypeInv /\ LockInv /\ OrderInv /\ HoldsInv /\ TokenInv
  BY DEF Inv, BaseInv
<1>2. hooks' = hooks /\ hooks \in Hooks
  BY <1>1 DEF ConnectWaits, TypeInv
<1>3. TypeInv'
  <2>1. PcType' /\ cut' \subseteq Windows
    BY <1>1, <1>2, LifecycleAssumption DEF TypeInv, PcType, ConnectStates, DisconnectStates,
       SupervisorStates, Tasks, Attempting, Windows, ConnectWaits
  <2>2. reader' \in [Gens -> Readers]
    BY <1>1, <1>2 DEF TypeInv, Readers, ConnectWaits
  <2>3. client' \in Clients
    BY <1>1, LifecycleAssumption DEF TypeInv, Clients, Gens, ConnectWaits
  <2> QED BY <1>2, <2>1, <2>2, <2>3 DEF TypeInv, PcType
<1>4. LockInv'
  <2>1. /\ ~Queues(pc', "connect")
        /\ \A b \in Tasks \ {"connect"} : (Queues(pc', b) <=> Queues(pc, b)) /\ (Owns(pc', b) => Owns(pc, b))
    BY <1>1, LifecycleAssumption DEF TypeInv, PcType, Queues, Owns, Trying, Tasks, ConnectWaits
  <2> QED BY <1>1, <2>1, LockLeft DEF LockInv, ConnectWaits, Without
<1>5. OrderInv'
  <2>1. lock \in Seq(Tasks)
    BY <1>1 DEF LockInv, LockOK
  <2> QED BY <1>1, <2>1, OrderLeft DEF OrderInv, ConnectWaits, Without
<1>6. HoldsInv'
  BY <1>1, <1>2, LifecycleAssumption DEF HoldsInv, TypeInv, PcType, Joining, Tasks, Attempting,
     Hooks, ConnectWaits
<1>7. TokenInv'
  BY <1>1, <1>2, LifecycleAssumption DEF TokenInv, Tries, TypeInv, PcType, Trying, Tasks,
     Attempting, Hooks, NoHook, Notes, ConnectWaits
<1>8. ASSUME Protected' PROVE OwnerInv'
  <2>1. OwnerInv
    BY <1>1, <1>2, <1>8 DEF Inv, Protected, ConnectWaits
  <2>2. ReaderInv'
    BY <1>1, <1>2, <2>1, LifecycleAssumption DEF OwnerInv, TypeInv, PcType, Readers, Clients,
       ConnectStates, DisconnectStates, SupervisorStates, Tasks, Attempting, Gens, ReaderInv,
       Idle, Up, ConnectWaits
  <2>3. SupervisorInv'
    BY <1>1, <1>2, <2>1, LifecycleAssumption DEF OwnerInv, TypeInv, PcType, Readers, Clients,
       ConnectStates, DisconnectStates, SupervisorStates, Tasks, Attempting, Gens, SupervisorInv,
       ReaderInv, Idle, Up, Trying, ConnectWaits
  <2>4. WaitingInv'
    BY <1>1, <1>2, <2>1, LifecycleAssumption DEF OwnerInv, TypeInv, PcType, Readers, Clients,
       ConnectStates, DisconnectStates, SupervisorStates, Tasks, Attempting, Gens, WaitingInv,
       ReaderInv, Idle, Up, Alone, ConnectWaits
  <2>5. DisconnectInv'
    BY <1>1, <1>2, <2>1, LifecycleAssumption DEF OwnerInv, TypeInv, PcType, Readers, Clients,
       ConnectStates, DisconnectStates, SupervisorStates, Tasks, Attempting, Gens, DisconnectInv,
       ReaderInv, Idle, Up, Alone, AllIdle, Closing, ConnectWaits
  <2>6. FinalInv'
    BY <1>1, <1>2, <2>1, LifecycleAssumption DEF OwnerInv, TypeInv, PcType, Readers, Clients,
       ConnectStates, DisconnectStates, SupervisorStates, Tasks, Attempting, Gens, FinalInv,
       DisconnectInv, ReaderInv, Idle, Up, ConnectWaits
  <2> QED BY <2>2, <2>3, <2>4, <2>5, <2>6 DEF OwnerInv
<1> QED BY <1>3, <1>4, <1>5, <1>6, <1>7, <1>8 DEF Inv, BaseInv

\* connect() is cancelled while it joins a reader or a supervisor.
ConnectJoins ==
    /\ client' = [client EXCEPT !.asked = TRUE]
    /\ \E g \in {0, client.reader} : CancelReader(g)
    /\ UNCHANGED <<pc, lock, hooks>>

\* It keeps the invariant.
LEMMA ConnectJoinsStep ==
    ASSUME Inv, ConnectJoins
    PROVE  Inv'
<1>1. TypeInv /\ LockInv /\ OrderInv /\ HoldsInv /\ TokenInv
  BY DEF Inv, BaseInv
<1>2. hooks' = hooks /\ hooks \in Hooks
  BY <1>1 DEF Cancels, ConnectJoins, TypeInv
<1>3. PICK g \in 0..MaxGens : Cancels(g) /\ g \in {0, client.reader}
  <2>1. client.reader \in 0..MaxGens /\ 0 \in 0..MaxGens
    BY <1>1, LifecycleAssumption DEF TypeInv, Clients
  <2> QED BY <1>1, <2>1, CancelReaderStep DEF ConnectJoins
<1>4. TypeInv'
  <2>1. PcType' /\ cut' \subseteq Windows
    BY <1>1, <1>2, <1>3, LifecycleAssumption DEF TypeInv, PcType, ConnectStates, DisconnectStates,
       SupervisorStates, Tasks, Attempting, Windows, Cancels, ConnectJoins
  <2>2. reader' \in [Gens -> Readers]
    BY <1>1, <1>2, <1>3 DEF TypeInv, Readers, Cancels, ConnectJoins
  <2>3. client' \in Clients
    BY <1>1, LifecycleAssumption DEF TypeInv, Clients, Gens, Cancels, ConnectJoins
  <2> QED BY <1>2, <2>1, <2>2, <2>3 DEF TypeInv, PcType
<1>5. LockInv'
  BY <1>1, <1>2, <1>3 DEF LockInv, Cancels, ConnectJoins
<1>6. OrderInv'
  BY <1>1, <1>2, <1>3 DEF OrderInv, TypeInv, Clients, Cancels, ConnectJoins
<1>7. HoldsInv'
  BY <1>1, <1>2, <1>3, LifecycleAssumption DEF HoldsInv, TypeInv, PcType, Joining, Tasks,
     Attempting, Hooks, Cancels, ConnectJoins
<1>8. TokenInv'
  BY <1>1, <1>2, <1>3, LifecycleAssumption DEF TokenInv, Tries, TypeInv, PcType, Trying, Tasks,
     Attempting, Hooks, NoHook, Notes, Cancels, ConnectJoins
<1>9. ASSUME Protected' PROVE OwnerInv'
  <2>1. OwnerInv
    BY <1>1, <1>2, <1>3, <1>9 DEF Inv, Protected, Cancels, ConnectJoins
  <2>2. ReaderInv'
    BY <1>1, <1>2, <1>3, <2>1, LifecycleAssumption DEF OwnerInv, TypeInv, PcType, Readers,
       Clients, ConnectStates, DisconnectStates, SupervisorStates, Tasks, Attempting, Gens,
       ReaderInv, Idle, Up, Cancels, ConnectJoins
  <2>3. SupervisorInv'
    BY <1>1, <1>2, <1>3, <2>1, LifecycleAssumption DEF OwnerInv, TypeInv, PcType, Readers,
       Clients, ConnectStates, DisconnectStates, SupervisorStates, Tasks, Attempting, Gens,
       SupervisorInv, ReaderInv, Idle, Up, Trying, Cancels, ConnectJoins
  <2>4. WaitingInv'
    BY <1>1, <1>2, <1>3, <2>1, LifecycleAssumption DEF OwnerInv, TypeInv, PcType, Readers,
       Clients, ConnectStates, DisconnectStates, SupervisorStates, Tasks, Attempting, Gens,
       WaitingInv, ReaderInv, Idle, Up, Alone, Cancels, ConnectJoins
  <2>5. DisconnectInv'
    BY <1>1, <1>2, <1>3, <2>1, LifecycleAssumption DEF OwnerInv, TypeInv, PcType, Readers,
       Clients, ConnectStates, DisconnectStates, SupervisorStates, Tasks, Attempting, Gens,
       DisconnectInv, ReaderInv, Idle, Up, Alone, AllIdle, Closing, Cancels, ConnectJoins
  <2>6. FinalInv'
    BY <1>1, <1>2, <1>3, <2>1, LifecycleAssumption DEF OwnerInv, TypeInv, PcType, Readers,
       Clients, ConnectStates, DisconnectStates, SupervisorStates, Tasks, Attempting, Gens,
       FinalInv, DisconnectInv, ReaderInv, Idle, Up, Cancels, ConnectJoins
  <2> QED BY <2>2, <2>3, <2>4, <2>5, <2>6 DEF OwnerInv
<1> QED BY <1>4, <1>5, <1>6, <1>7, <1>8, <1>9 DEF Inv, BaseInv

\* A cancelled connect(), by the await it is suspended in.
LEMMA ConnectCancelledStep ==
    ASSUME Inv, ConnectCancelled
    PROVE  Inv'
<1>1. CASE ConnectWaits
  BY <1>1, ConnectWaitsStep
<1>2. CASE ConnectJoins
  BY <1>2, ConnectJoinsStep
<1>3. CASE /\ pc["connect"] \in {"dial", "backoff"} /\ reader' = reader /\ hooks' = hooks
           /\ cut' \in {cut, cut \cup {"backoff"}} /\ pc' = [pc EXCEPT !["connect"] = "idle"]
           /\ lock' = Tail(lock)
           /\ client' = client \/ client' \in _abandon_connect(client)
  BY <1>3, ConnectStops
<1>4. CASE /\ pc["connect"] \in {"connack", "bye"} /\ pc' = [pc EXCEPT !["connect"] = "quit"]
           /\ ForceClose(hooks) /\ lock' = lock /\ client' = client
  <2>1. client = [client EXCEPT !.exc = client.exc] /\ client.exc \in {"plain", "permanent"}
    BY DEF Inv, BaseInv, TypeInv, Clients
  <2>2. "connect" \in Attempting /\ AttemptCloses("connect", "quit")
    BY <1>4, <2>1 DEF AttemptCloses, Attempting
  <2> QED BY <2>2, AttemptClosesStep
<1>5. CASE /\ pc["connect"] = "cancel" /\ client' = [client EXCEPT !.asked = TRUE]
           /\ UNCHANGED <<pc, lock, reader, hooks, cut>>
  <2>1. CancelReader(0)
    BY <1>5 DEF CancelReader
  <2>2. ConnectJoins
    BY <1>5, <2>1 DEF ConnectJoins
  <2> QED BY <2>2, ConnectJoinsStep
<1> QED BY <1>1, <1>2, <1>3, <1>4, <1>5 DEF ConnectCancelled, ConnectWaits, ConnectJoins, Released

-----------------------------------------------------------------------------
(* The supervisor.                                                         *)

\* The client after a supervisor that shut it down.
LEMMA SupervisorShuts ==
    ASSUME NEW c \in Clients, NEW d \in _terminal_shutdown(c)
    PROVE  /\ Ended(d) \in Clients /\ SameLinks(c, Ended(d)) /\ Ended(d).task = "none"
           /\ Ended(d).intentional = c.intentional
<1>1. PICK latch \in BOOLEAN :
        d = [c EXCEPT !.reconnecting = FALSE, !.closed = TRUE, !.owed = FALSE, !.latch = latch]
  BY TerminalShutdown
<1>2. PICK e : e = Ended(d)
  OBVIOUS
<1>3. e = [c EXCEPT !.reconnecting = FALSE, !.closed = TRUE, !.owed = FALSE, !.latch = latch, !.task = "none"]
  BY <1>1, <1>2 DEF Ended, Clients
<1>4. e \in Clients /\ SameLinks(c, e) /\ e.task = "none" /\ e.intentional = c.intentional
  BY <1>3 DEF Clients, SameLinks
<1> QED BY <1>2, <1>4

\* The supervisor moves without the lock.
SupervisorMoves(s, to) ==
    /\ pc[s] \in {"ready", "sleep", "stable", "cancelled"} /\ pc' = [pc EXCEPT ![s] = to]
    /\ to \in {"none", "ready", "sleep"}
    /\ UNCHANGED <<lock, reader, hooks, cut>>
    /\ client' \in Clients /\ SameLinks(client, client') /\ client'.intentional = client.intentional
    /\ client'.task = IF to = "none" THEN "none" ELSE client.task
    /\ to = "sleep" => pc[s] = "ready" /\ hooks.ready
    /\ to = "ready" => pc[s] = "stable"
    /\ to # "none" => client.engine # "connected" /\ ~client.intentional
    /\ Protected /\ to = "none" /\ pc["connect"] = "lock" => client.engine \notin Up

\* It keeps the invariant: the supervisor has no part in the lock before or after.
LEMMA SupervisorMovesStep ==
    ASSUME Inv, NEW s \in Supervisors, NEW to, SupervisorMoves(s, to)
    PROVE  Inv'
<1>1. TypeInv /\ LockInv /\ OrderInv /\ HoldsInv /\ TokenInv
  BY DEF Inv, BaseInv
<1>2. hooks' = hooks /\ hooks \in Hooks
  BY <1>1 DEF SupervisorMoves, SameLinks, TypeInv
<1>3. /\ pc'["connect"] = pc["connect"] /\ pc'["disconnect"] = pc["disconnect"] /\ pc'[s] = to
      /\ \A r \in Supervisors : r # s => pc'[r] = pc[r]
  BY <1>1, LifecycleAssumption DEF TypeInv, PcType, Tasks, SupervisorMoves
<1>4. TypeInv'
  <2>1. PcType' /\ cut' \subseteq Windows
    BY <1>1, <1>3, LifecycleAssumption DEF TypeInv, PcType, ConnectStates, DisconnectStates,
       SupervisorStates, Tasks, SupervisorMoves
  <2>2. reader' \in [Gens -> Readers]
    BY <1>1, <1>2, <1>3 DEF TypeInv, Readers, SupervisorMoves, SameLinks
  <2>3. client' \in Clients
    BY <1>1, <1>3, LifecycleAssumption DEF TypeInv, Clients, Gens, SupervisorMoves, SameLinks
  <2> QED BY <1>2, <2>1, <2>2, <2>3 DEF TypeInv, PcType
<1>5. LockInv'
  <2>1. \A b \in Tasks : (Queues(pc', b) <=> Queues(pc, b)) /\ (Owns(pc', b) => Owns(pc, b))
    BY <1>1, <1>3, LifecycleAssumption DEF Queues, Owns, Trying, Tasks, SupervisorMoves
  <2> QED BY <1>1, <2>1, LockKept DEF LockInv, SupervisorMoves
<1>6. OrderInv'
  BY <1>1, <1>2, <1>3 DEF OrderInv, TypeInv, Clients, SupervisorMoves, SameLinks
<1>7. HoldsInv'
  BY <1>1, <1>2, <1>3, LifecycleAssumption DEF HoldsInv, TypeInv, PcType, Joining, Tasks,
     Attempting, Hooks, SupervisorMoves, SameLinks
<1>8. TokenInv'
  BY <1>1, <1>2, <1>3, LifecycleAssumption DEF TokenInv, Tries, TypeInv, PcType, Trying, Tasks,
     Attempting, Hooks, NoHook, Notes, SupervisorMoves, SameLinks
<1>9. ASSUME Protected' PROVE OwnerInv'
  <2>1. OwnerInv
    BY <1>1, <1>2, <1>3, <1>9 DEF Inv, Protected, SupervisorMoves, SameLinks
  <2>2. client.task = s /\ \A r \in Supervisors : r # s => pc[r] = "none"
    BY <2>1, LifecycleAssumption DEF OwnerInv, SupervisorInv, SupervisorMoves
  <2>3. to # "none" => pc["connect"] \notin Trying
    BY <2>1 DEF OwnerInv, SupervisorInv, SupervisorMoves
  <2>4. to # "none" => client.engine \notin Up
    BY <1>3, <2>1, <2>2, <2>3 DEF OwnerInv, ReaderInv, SupervisorMoves, Up, Trying, Attempting
  <2>5. pc["disconnect"] \notin {"lock", "flush", "force", "shut"}
    BY <2>1 DEF OwnerInv, DisconnectInv, Alone, SupervisorMoves
  <2>6. to = "none" /\ pc["connect"] = "lock" => client.engine \notin Up
    BY <1>9 DEF Protected, SupervisorMoves
  <2>7. ReaderInv'
    BY <1>1, <1>2, <1>3, <2>1, <2>2, <2>3, <2>4, <2>5, <2>6, LifecycleAssumption DEF OwnerInv,
       TypeInv, PcType, Readers, Clients, ConnectStates, DisconnectStates, SupervisorStates,
       Tasks, Attempting, Gens, ReaderInv, Idle, Up, SupervisorMoves, SameLinks
  <2>8. SupervisorInv'
    BY <1>1, <1>2, <1>3, <2>1, <2>2, <2>3, <2>4, <2>5, <2>6, LifecycleAssumption DEF OwnerInv,
       TypeInv, PcType, Readers, Clients, ConnectStates, DisconnectStates, SupervisorStates,
       Tasks, Attempting, Gens, SupervisorInv, ReaderInv, Idle, Up, Trying, SupervisorMoves,
       SameLinks
  <2>9. WaitingInv'
    BY <1>1, <1>2, <1>3, <2>1, <2>2, <2>3, <2>4, <2>5, <2>6, LifecycleAssumption DEF OwnerInv,
       TypeInv, PcType, Readers, Clients, ConnectStates, DisconnectStates, SupervisorStates,
       Tasks, Attempting, Gens, WaitingInv, ReaderInv, Idle, Up, Alone, SupervisorMoves, SameLinks
  <2>10. DisconnectInv'
    BY <1>1, <1>2, <1>3, <2>1, <2>2, <2>3, <2>4, <2>5, <2>6, LifecycleAssumption DEF OwnerInv,
       TypeInv, PcType, Readers, Clients, ConnectStates, DisconnectStates, SupervisorStates,
       Tasks, Attempting, Gens, DisconnectInv, ReaderInv, Idle, Up, Alone, AllIdle, Closing,
       SupervisorMoves, SameLinks
  <2>11. FinalInv'
    BY <1>1, <1>2, <1>3, <2>1, <2>2, <2>3, <2>4, <2>5, <2>6, LifecycleAssumption DEF OwnerInv,
       TypeInv, PcType, Readers, Clients, ConnectStates, DisconnectStates, SupervisorStates,
       Tasks, Attempting, Gens, FinalInv, DisconnectInv, ReaderInv, Idle, Up, SupervisorMoves,
       SameLinks
  <2> QED BY <2>7, <2>8, <2>9, <2>10, <2>11 DEF OwnerInv
<1> QED BY <1>4, <1>5, <1>6, <1>7, <1>8, <1>9 DEF Inv, BaseInv

\* A supervisor that connect() cancelled ends.
LEMMA SupervisorCancelledStep ==
    ASSUME Inv, NEW s \in Supervisors, SupervisorCancelled(s)
    PROVE  Inv'
<1>1. client \in Clients /\ client' = [client EXCEPT !.task = "none"] /\ pc[s] = "cancelled"
  BY DEF Inv, BaseInv, TypeInv, SupervisorCancelled, Ended
<1>2. /\ client' \in Clients /\ SameLinks(client, client') /\ client'.intentional = client.intentional
      /\ client'.task = "none"
  BY <1>1 DEF Clients, SameLinks
<1>3. Protected => pc["connect"] = "cancel"
  BY <1>1 DEF Inv, OwnerInv, SupervisorInv
<1>4. SupervisorMoves(s, "none")
  BY <1>1, <1>2, <1>3 DEF SupervisorCancelled, SupervisorEnds, SupervisorMoves
<1> QED BY <1>4, SupervisorMovesStep

\* The gate of the hooks opens.
LEMMA SupervisorWakesStep ==
    ASSUME Inv, NEW s \in Supervisors, SupervisorWakes(s)
    PROVE  Inv'
<1>1. client \in Clients
  BY DEF Inv, BaseInv, TypeInv
<1>2. /\ pc[s] = "ready" /\ hooks.ready /\ lock' = lock /\ reader' = reader /\ hooks' = hooks
      /\ cut' = cut
  BY DEF SupervisorWakes
<1>3. Protected /\ pc["connect"] = "lock" => client.engine \notin Up
  BY <1>2 DEF Inv, OwnerInv, WaitingInv
<1>4. CASE client.intentional \/ client.engine = "connected"
  <2>1. pc' = [pc EXCEPT ![s] = "none"] /\ client' = [client EXCEPT !.task = "none"]
    BY <1>4 DEF SupervisorWakes, SupervisorEnds, Ended
  <2>2. /\ client' \in Clients /\ SameLinks(client, client') /\ client'.task = "none"
        /\ client'.intentional = client.intentional
    BY <1>1, <2>1 DEF Clients, SameLinks
  <2>3. SupervisorMoves(s, "none")
    BY <1>2, <1>3, <2>1, <2>2 DEF SupervisorMoves
  <2> QED BY <2>3, SupervisorMovesStep
<1>5. CASE ~client.intentional /\ client.engine # "connected" /\ ~_will_reconnect(client)
  <2>1. PICK c \in _terminal_shutdown(client) : client' = Ended(c) /\ pc' = [pc EXCEPT ![s] = "none"]
    BY <1>5 DEF SupervisorWakes, SupervisorEnds
  <2>2. /\ client' \in Clients /\ SameLinks(client, client') /\ client'.task = "none"
        /\ client'.intentional = client.intentional
    BY <1>1, <2>1, SupervisorShuts
  <2>3. SupervisorMoves(s, "none")
    BY <1>2, <1>3, <2>1, <2>2 DEF SupervisorMoves
  <2> QED BY <2>3, SupervisorMovesStep
<1>6. CASE ~client.intentional /\ client.engine # "connected" /\ _will_reconnect(client)
  <2>1. pc' = [pc EXCEPT ![s] = "sleep"] /\ client' = [client EXCEPT !.attempt = client.attempt + 1]
    BY <1>6 DEF SupervisorWakes
  <2>2. client.attempt + 1 \in 0..MaxRetries
    BY <1>1, <1>6, WillReconnect
  <2>3. /\ client' \in Clients /\ SameLinks(client, client') /\ client'.task = client.task
        /\ client'.intentional = client.intentional
    BY <1>1, <2>1, <2>2 DEF Clients, SameLinks
  <2>4. SupervisorMoves(s, "sleep")
    BY <1>2, <1>6, <2>1, <2>3 DEF SupervisorMoves
  <2> QED BY <2>4, SupervisorMovesStep
<1> QED BY <1>4, <1>5, <1>6

\* The stability window ends.
LEMMA SupervisorStableStep ==
    ASSUME Inv, NEW s \in Supervisors, SupervisorStable(s)
    PROVE  Inv'
<1>1. client \in Clients /\ TypeInv /\ LockInv
  BY DEF Inv, BaseInv, TypeInv
<1>2. /\ pc[s] = "stable" /\ lock' = lock /\ reader' = reader /\ hooks' = hooks /\ cut' = cut
      /\ NoReader \/ ~(\E a \in Tasks : Woken(a))
  BY DEF SupervisorStable
<1>3. ASSUME Protected, pc["connect"] = "lock" PROVE client.engine \notin Up
  <2>1. OwnerInv
    BY <1>3 DEF Inv
  <2>2. CASE NoReader
    <3>1. AllIdle
      BY <1>1, <2>1, <2>2, LifecycleAssumption DEF OwnerInv, ReaderInv, AllIdle, Gens, NoReader,
         TypeInv, Clients
    <3> QED BY <1>1, <2>1, <3>1, LifecycleAssumption DEF OwnerInv, ReaderInv, AllIdle, Gens, Idle,
               Up, TypeInv, Clients
  <2>3. CASE ~(\E a \in Tasks : Woken(a))
    <3>1. "connect" \in Tasks /\ Queues(pc, "connect")
      BY <1>3 DEF Queues, Tasks
    <3>2. lock # <<>> /\ Has(lock, Head(lock)) /\ Head(lock) \in Tasks
      <4>1. lock # <<>> /\ lock \in Seq(Tasks) /\ Distinct(lock)
        BY <1>1, <3>1 DEF LockInv, LockOK, Has
      <4> QED BY <4>1, HasTail
    <3>3. Queues(pc, Head(lock)) /\ pc[Head(lock)] \notin {"lock", "ending"}
      BY <1>1, <2>3, <3>2 DEF LockInv, LockOK, Woken
    <3>4. \A r \in Supervisors : pc[r] \in {"none", "stable"}
      BY <1>2, <2>1 DEF OwnerInv, SupervisorInv
    <3>5. pc["disconnect"] # "flush"
      BY <1>2, <2>1 DEF OwnerInv, DisconnectInv, Alone
    <3> QED BY <1>3, <3>2, <3>3, <3>4, <3>5, LifecycleAssumption DEF Queues, Trying, Tasks
  <2> QED BY <1>2, <2>2, <2>3
<1>4. CASE client.latch
  <2>1. PICK c \in _terminal_shutdown(client) : client' = Ended(c) /\ pc' = [pc EXCEPT ![s] = "none"]
    BY <1>4 DEF SupervisorStable, SupervisorEnds
  <2>2. /\ client' \in Clients /\ SameLinks(client, client') /\ client'.task = "none"
        /\ client'.intentional = client.intentional
    BY <1>1, <2>1, SupervisorShuts
  <2>3. SupervisorMoves(s, "none")
    BY <1>2, <1>3, <2>1, <2>2 DEF SupervisorMoves
  <2> QED BY <2>3, SupervisorMovesStep
<1>5. CASE ~client.latch /\ client.engine = "connected"
  <2>1. pc' = [pc EXCEPT ![s] = "none"] /\ client' = [client EXCEPT !.task = "none", !.attempt = 0]
    BY <1>1, <1>5 DEF SupervisorStable, SupervisorEnds, Ended, Clients
  <2>2. /\ client' \in Clients /\ SameLinks(client, client') /\ client'.task = "none"
        /\ client'.intentional = client.intentional
    <3>1. 0 \in 0..MaxRetries
      BY LifecycleAssumption
    <3> QED BY <1>1, <2>1, <3>1 DEF Clients, SameLinks
  <2>3. SupervisorMoves(s, "none")
    BY <1>2, <1>3, <2>1, <2>2 DEF SupervisorMoves
  <2> QED BY <2>3, SupervisorMovesStep
<1>6. CASE ~client.latch /\ client.engine # "connected" /\ client.intentional
  <2>1. pc' = [pc EXCEPT ![s] = "none"] /\ client' = [client EXCEPT !.task = "none"]
    BY <1>6 DEF SupervisorStable, SupervisorEnds, Ended, Loops
  <2>2. /\ client' \in Clients /\ SameLinks(client, client') /\ client'.task = "none"
        /\ client'.intentional = client.intentional
    BY <1>1, <2>1 DEF Clients, SameLinks
  <2>3. SupervisorMoves(s, "none")
    BY <1>2, <1>3, <2>1, <2>2 DEF SupervisorMoves
  <2> QED BY <2>3, SupervisorMovesStep
<1>7. CASE ~client.latch /\ client.engine # "connected" /\ ~client.intentional
  <2>1. pc' = [pc EXCEPT ![s] = "ready"] /\ client' = client
    BY <1>7 DEF SupervisorStable, Loops
  <2>2. SupervisorMoves(s, "ready")
    BY <1>1, <1>2, <1>7, <2>1 DEF SupervisorMoves, SameLinks
  <2> QED BY <2>2, SupervisorMovesStep
<1> QED BY <1>4, <1>5, <1>6, <1>7

\* The supervisor queues for the lock after its delay.
SupervisorQueues(s) ==
    /\ pc[s] = "sleep" /\ pc' = [pc EXCEPT ![s] = "lock"] /\ lock' = Append(lock, s)
    /\ UNCHANGED <<client, reader, hooks, cut>>

\* It keeps the invariant.
LEMMA SupervisorQueuesStep ==
    ASSUME Inv, NEW s \in Supervisors, SupervisorQueues(s)
    PROVE  Inv'
<1>1. TypeInv /\ LockInv /\ OrderInv /\ HoldsInv /\ TokenInv
  BY DEF Inv, BaseInv
<1>2. hooks' = hooks /\ hooks \in Hooks
  BY <1>1 DEF SupervisorQueues, TypeInv
<1>3. /\ pc'["connect"] = pc["connect"] /\ pc'["disconnect"] = pc["disconnect"] /\ pc'[s] = "lock"
      /\ \A r \in Supervisors : r # s => pc'[r] = pc[r]
  BY <1>1, LifecycleAssumption DEF TypeInv, PcType, Tasks, SupervisorQueues
<1>4. TypeInv'
  <2>1. PcType' /\ cut' \subseteq Windows
    BY <1>1, <1>2, <1>3, LifecycleAssumption DEF TypeInv, PcType, ConnectStates, DisconnectStates,
       SupervisorStates, Tasks, Attempting, Windows, SupervisorQueues
  <2>2. reader' \in [Gens -> Readers]
    BY <1>1, <1>2, <1>3 DEF TypeInv, Readers, SupervisorQueues
  <2>3. client' \in Clients
    BY <1>1, <1>3, LifecycleAssumption DEF TypeInv, Clients, Gens, SupervisorQueues
  <2> QED BY <1>2, <2>1, <2>2, <2>3 DEF TypeInv, PcType
<1>5. LockInv'
  <2>1. /\ s \in Tasks /\ ~Queues(pc, s) /\ Queues(pc', s) /\ ~Owns(pc', s)
        /\ \A b \in Tasks \ {s} : (Queues(pc', b) <=> Queues(pc, b)) /\ (Owns(pc', b) => Owns(pc, b))
    BY <1>1, <1>3, LifecycleAssumption DEF Queues, Owns, Trying, Tasks, SupervisorQueues
  <2> QED BY <1>1, <2>1, LockJoined DEF LockInv, SupervisorQueues
<1>6. OrderInv'
  <2>1. lock \in Seq(Tasks) /\ s \in Tasks /\ s # "connect"
    BY <1>1, LifecycleAssumption DEF LockInv, LockOK, Tasks
  <2> QED BY <1>1, <2>1, OrderJoined DEF OrderInv, SupervisorQueues
<1>7. HoldsInv'
  BY <1>1, <1>2, <1>3, LifecycleAssumption DEF HoldsInv, TypeInv, PcType, Joining, Tasks,
     Attempting, Hooks, SupervisorQueues
<1>8. TokenInv'
  BY <1>1, <1>2, <1>3, LifecycleAssumption DEF TokenInv, Tries, TypeInv, PcType, Trying, Tasks,
     Attempting, Hooks, NoHook, Notes, SupervisorQueues
<1>9. ASSUME Protected' PROVE OwnerInv'
  <2>1. OwnerInv
    BY <1>1, <1>2, <1>3, <1>9 DEF Inv, Protected, SupervisorQueues
  <2>2. client.task = s /\ \A r \in Supervisors : r # s => pc[r] = "none"
    BY <2>1, LifecycleAssumption DEF OwnerInv, SupervisorInv, SupervisorQueues
  <2>3. pc["disconnect"] \notin {"lock", "flush", "force", "shut"}
    BY <2>1 DEF OwnerInv, DisconnectInv, Alone, SupervisorQueues
  <2>4. ReaderInv'
    BY <1>1, <1>2, <1>3, <2>1, <2>2, <2>3, LifecycleAssumption DEF OwnerInv, TypeInv, PcType,
       Readers, Clients, ConnectStates, DisconnectStates, SupervisorStates, Tasks, Attempting,
       Gens, ReaderInv, Idle, Up, SupervisorQueues
  <2>5. SupervisorInv'
    BY <1>1, <1>2, <1>3, <2>1, <2>2, <2>3, LifecycleAssumption DEF OwnerInv, TypeInv, PcType,
       Readers, Clients, ConnectStates, DisconnectStates, SupervisorStates, Tasks, Attempting,
       Gens, SupervisorInv, ReaderInv, Idle, Up, Trying, SupervisorQueues
  <2>6. WaitingInv'
    BY <1>1, <1>2, <1>3, <2>1, <2>2, <2>3, LifecycleAssumption DEF OwnerInv, TypeInv, PcType,
       Readers, Clients, ConnectStates, DisconnectStates, SupervisorStates, Tasks, Attempting,
       Gens, WaitingInv, ReaderInv, Idle, Up, Alone, SupervisorQueues
  <2>7. DisconnectInv'
    BY <1>1, <1>2, <1>3, <2>1, <2>2, <2>3, LifecycleAssumption DEF OwnerInv, TypeInv, PcType,
       Readers, Clients, ConnectStates, DisconnectStates, SupervisorStates, Tasks, Attempting,
       Gens, DisconnectInv, ReaderInv, Idle, Up, Alone, AllIdle, Closing, SupervisorQueues
  <2>8. FinalInv'
    BY <1>1, <1>2, <1>3, <2>1, <2>2, <2>3, LifecycleAssumption DEF OwnerInv, TypeInv, PcType,
       Readers, Clients, ConnectStates, DisconnectStates, SupervisorStates, Tasks, Attempting,
       Gens, FinalInv, DisconnectInv, ReaderInv, Idle, Up, SupervisorQueues
  <2> QED BY <2>4, <2>5, <2>6, <2>7, <2>8 DEF OwnerInv
<1> QED BY <1>4, <1>5, <1>6, <1>7, <1>8, <1>9 DEF Inv, BaseInv

\* The delay is over.
LEMMA SupervisorSleptStep ==
    ASSUME Inv, NEW s \in Supervisors, SupervisorSlept(s)
    PROVE  Inv'
<1>1. client \in Clients
  BY DEF Inv, BaseInv, TypeInv
<1>2. pc[s] = "sleep" /\ reader' = reader /\ hooks' = hooks /\ cut' = cut
  BY DEF SupervisorSlept
<1>3. CASE client.latch
  <2>1. PICK c \in _terminal_shutdown(client) :
            client' = Ended(c) /\ pc' = [pc EXCEPT ![s] = "none"] /\ lock' = lock
    BY <1>3 DEF SupervisorSlept, SupervisorEnds
  <2>2. /\ client' \in Clients /\ SameLinks(client, client') /\ client'.task = "none"
        /\ client'.intentional = client.intentional
    BY <1>1, <2>1, SupervisorShuts
  <2>3. Protected => client.engine \notin Up
    BY <1>2 DEF Inv, OwnerInv, SupervisorInv
  <2>4. SupervisorMoves(s, "none")
    BY <1>2, <2>1, <2>2, <2>3 DEF SupervisorMoves
  <2> QED BY <2>4, SupervisorMovesStep
<1>4. CASE ~client.latch
  <2>1. SupervisorQueues(s)
    BY <1>4 DEF SupervisorSlept, SupervisorQueues
  <2> QED BY <2>1, SupervisorQueuesStep
<1> QED BY <1>3, <1>4

\* The supervisor that gets the lock finds that it is no longer wanted.
SupervisorLeaves(s) ==
    /\ pc[s] = "lock" /\ lock # <<>> /\ Head(lock) = s
    /\ pc' = [pc EXCEPT ![s] = "none"] /\ client' = [client EXCEPT !.task = "none"] /\ lock' = Tail(lock)
    /\ UNCHANGED <<reader, hooks, cut>>

\* It keeps the invariant.
LEMMA SupervisorLeavesStep ==
    ASSUME Inv, NEW s \in Supervisors, SupervisorLeaves(s)
    PROVE  Inv'
<1>1. TypeInv /\ LockInv /\ OrderInv /\ HoldsInv /\ TokenInv
  BY DEF Inv, BaseInv
<1>2. hooks' = hooks /\ hooks \in Hooks
  BY <1>1 DEF SupervisorLeaves, TypeInv
<1>3. /\ pc'["connect"] = pc["connect"] /\ pc'["disconnect"] = pc["disconnect"] /\ pc'[s] = "none"
      /\ \A r \in Supervisors : r # s => pc'[r] = pc[r]
  BY <1>1, LifecycleAssumption DEF TypeInv, PcType, Tasks, SupervisorLeaves
<1>4. TypeInv'
  <2>1. PcType' /\ cut' \subseteq Windows
    BY <1>1, <1>2, <1>3, LifecycleAssumption DEF TypeInv, PcType, ConnectStates, DisconnectStates,
       SupervisorStates, Tasks, Attempting, Windows, SupervisorLeaves
  <2>2. reader' \in [Gens -> Readers]
    BY <1>1, <1>2, <1>3 DEF TypeInv, Readers, SupervisorLeaves
  <2>3. client' \in Clients
    BY <1>1, <1>3, LifecycleAssumption DEF TypeInv, Clients, Gens, SupervisorLeaves
  <2> QED BY <1>2, <2>1, <2>2, <2>3 DEF TypeInv, PcType
<1>5. LockInv'
  <2>1. /\ s \in Tasks /\ ~Queues(pc', s)
        /\ \A b \in Tasks \ {s} : (Queues(pc', b) <=> Queues(pc, b)) /\ (Owns(pc', b) => Owns(pc, b))
    BY <1>1, <1>3, LifecycleAssumption DEF Queues, Owns, Trying, Tasks, SupervisorLeaves
  <2> QED BY <1>1, <2>1, LockReleased DEF LockInv, SupervisorLeaves
<1>6. OrderInv'
  <2>1. lock # <<>> /\ lock \in Seq(Tasks) /\ Distinct(lock) /\ lock' = Tail(lock)
    BY <1>1 DEF LockInv, LockOK, SupervisorLeaves
  <2>2. client'.intent = client.intent
    BY <1>1 DEF TypeInv, Clients, SupervisorLeaves
  <2> QED BY <1>1, <2>1, <2>2, OrderReleased DEF OrderInv
<1>7. HoldsInv'
  BY <1>1, <1>2, <1>3, LifecycleAssumption DEF HoldsInv, TypeInv, PcType, Joining, Tasks,
     Attempting, Hooks, SupervisorLeaves
<1>8. TokenInv'
  BY <1>1, <1>2, <1>3, LifecycleAssumption DEF TokenInv, Tries, TypeInv, PcType, Trying, Tasks,
     Attempting, Hooks, NoHook, Notes, SupervisorLeaves
<1>9. ASSUME Protected' PROVE OwnerInv'
  <2>1. OwnerInv
    BY <1>1, <1>2, <1>3, <1>9 DEF Inv, Protected, SupervisorLeaves
  <2>2. client.task = s /\ \A r \in Supervisors : r # s => pc[r] = "none"
    BY <2>1, LifecycleAssumption DEF OwnerInv, SupervisorInv, SupervisorLeaves
  <2>3. pc["disconnect"] \notin {"lock", "flush", "force", "shut"}
    BY <2>1 DEF OwnerInv, DisconnectInv, Alone, SupervisorLeaves
  <2>4. client.engine \notin Up
    BY <2>1 DEF OwnerInv, SupervisorInv, SupervisorLeaves
  <2>5. ReaderInv'
    BY <1>1, <1>2, <1>3, <2>1, <2>2, <2>3, <2>4, LifecycleAssumption DEF OwnerInv, TypeInv,
       PcType, Readers, Clients, ConnectStates, DisconnectStates, SupervisorStates, Tasks,
       Attempting, Gens, ReaderInv, Idle, Up, SupervisorLeaves
  <2>6. SupervisorInv'
    BY <1>1, <1>2, <1>3, <2>1, <2>2, <2>3, <2>4, LifecycleAssumption DEF OwnerInv, TypeInv,
       PcType, Readers, Clients, ConnectStates, DisconnectStates, SupervisorStates, Tasks,
       Attempting, Gens, SupervisorInv, ReaderInv, Idle, Up, Trying, SupervisorLeaves
  <2>7. WaitingInv'
    BY <1>1, <1>2, <1>3, <2>1, <2>2, <2>3, <2>4, LifecycleAssumption DEF OwnerInv, TypeInv,
       PcType, Readers, Clients, ConnectStates, DisconnectStates, SupervisorStates, Tasks,
       Attempting, Gens, WaitingInv, ReaderInv, Idle, Up, Alone, SupervisorLeaves
  <2>8. DisconnectInv'
    BY <1>1, <1>2, <1>3, <2>1, <2>2, <2>3, <2>4, LifecycleAssumption DEF OwnerInv, TypeInv,
       PcType, Readers, Clients, ConnectStates, DisconnectStates, SupervisorStates, Tasks,
       Attempting, Gens, DisconnectInv, ReaderInv, Idle, Up, Alone, AllIdle, Closing,
       SupervisorLeaves
  <2>9. FinalInv'
    BY <1>1, <1>2, <1>3, <2>1, <2>2, <2>3, <2>4, LifecycleAssumption DEF OwnerInv, TypeInv,
       PcType, Readers, Clients, ConnectStates, DisconnectStates, SupervisorStates, Tasks,
       Attempting, Gens, FinalInv, DisconnectInv, ReaderInv, Idle, Up, SupervisorLeaves
  <2> QED BY <2>5, <2>6, <2>7, <2>8, <2>9 DEF OwnerInv
<1> QED BY <1>4, <1>5, <1>6, <1>7, <1>8, <1>9 DEF Inv, BaseInv

\* The supervisor that gets the lock closes what is left of the old connection.
SupervisorTakes(s) ==
    /\ pc[s] = "lock" /\ lock # <<>> /\ Head(lock) = s /\ ~client.intentional
    /\ pc' = [pc EXCEPT ![s] = "force"] /\ lock' = lock /\ client' = client
    /\ hooks' \in Hooks /\ hooks'.token = hooks.token + 1 /\ hooks'.pending = NoHook
    /\ hooks'.hook = hooks.hook /\ hooks'.holds = hooks.holds + 1
    /\ CancelReader(client.reader)

\* It keeps the invariant: nobody else is attempting.
LEMMA SupervisorTakesStep ==
    ASSUME Inv, NEW s \in Supervisors, SupervisorTakes(s)
    PROVE  Inv'
<1>1. TypeInv /\ LockInv /\ OrderInv /\ HoldsInv /\ TokenInv
  BY DEF Inv, BaseInv
<1>2. /\ hooks' \in Hooks /\ hooks \in Hooks /\ hooks'.token = hooks.token + 1
      /\ hooks'.pending = NoHook
      /\ hooks'.hook = hooks.hook /\ hooks'.holds = hooks.holds + 1
  BY <1>1 DEF SupervisorTakes, TypeInv
<1>3. /\ pc'["connect"] = pc["connect"] /\ pc'["disconnect"] = pc["disconnect"] /\ pc'[s] = "force"
      /\ \A r \in Supervisors : r # s => pc'[r] = pc[r]
  BY <1>1, LifecycleAssumption DEF TypeInv, PcType, Tasks, SupervisorTakes
<1>4. Cancels(client.reader) /\ client.reader \in 0..MaxGens
  BY <1>1, CancelReaderStep DEF SupervisorTakes, TypeInv, Clients
<1>5. \A a \in Attempting : pc[a] \notin Trying \cup {"force"}
  BY <1>1, LifecycleAssumption DEF LockInv, LockOK, Owns, Attempting, Tasks, Trying,
     SupervisorTakes
<1>6. TypeInv'
  <2>1. PcType' /\ cut' \subseteq Windows
    <3>1. cut' \subseteq Windows
      BY <1>1, <1>4 DEF TypeInv, Cancels, Windows
    <3> QED BY <1>1, <1>3, <3>1, LifecycleAssumption DEF TypeInv, PcType, SupervisorStates, Tasks,
               SupervisorTakes
  <2>2. reader' \in [Gens -> Readers]
    BY <1>4 DEF Cancels
  <2>3. client' \in Clients
    BY <1>1, <1>3, <1>4, <1>5, LifecycleAssumption DEF TypeInv, Clients, Gens, SupervisorTakes
  <2> QED BY <1>2, <2>1, <2>2, <2>3 DEF TypeInv, PcType
<1>7. LockInv'
  <2>1. /\ s \in Tasks /\ Queues(pc', s)
        /\ \A b \in Tasks : (Queues(pc', b) <=> Queues(pc, b)) /\ (Owns(pc', b) => Owns(pc, b) \/ b = s)
    BY <1>1, <1>3, LifecycleAssumption DEF Queues, Owns, Trying, Tasks, SupervisorTakes
  <2> QED BY <1>1, <2>1, LockTaken DEF LockInv, SupervisorTakes
<1>8. OrderInv'
  BY <1>1, <1>2, <1>3, <1>4, <1>5 DEF OrderInv, TypeInv, Clients, SupervisorTakes
<1>9. HoldsInv'
  <2>1. pc'[s] \in Joining /\ pc'["disconnect"] = pc["disconnect"] /\ s \in Attempting
    BY <1>3 DEF Joining, Attempting
  <2>2. \A a \in Attempting : pc[a] \notin Joining
    BY <1>5 DEF Joining, Trying
  <2> QED BY <1>1, <1>2, <2>1, <2>2 DEF HoldsInv
<1>10. TokenInv'
  BY <1>1, <1>2, <1>3, <1>4, <1>5, LifecycleAssumption DEF TokenInv, Tries, TypeInv, PcType,
     Trying, Tasks, Attempting, Hooks, NoHook, Notes, SupervisorTakes
<1>11. ASSUME Protected' PROVE OwnerInv'
  <2>1. OwnerInv
    BY <1>11, <1>4 DEF Inv, Protected, Cancels
  <2>2. client.task = s /\ \A r \in Supervisors : r # s => pc[r] = "none"
    BY <2>1, LifecycleAssumption DEF OwnerInv, SupervisorInv, SupervisorTakes
  <2>3. pc["disconnect"] \notin {"lock", "flush", "force", "shut"}
    BY <2>1 DEF OwnerInv, DisconnectInv, Alone, SupervisorTakes
  <2>4. \A h \in Gens :
            /\ Idle(reader[h]) => Idle(reader'[h])
            /\ reader[h].pc \in {"reading", "fatal", "ending"} => reader'[h].pc \in {reader[h].pc, "ending"}
            /\ reader'[h].connack = reader[h].connack /\ reader'[h].tok = reader[h].tok
    BY <1>4, CancelsKeep
  <2>5. client.gen \in 0..MaxGens
    BY <1>1 DEF TypeInv, Clients
  <2>6. client.engine \notin Up /\ client.task = s /\ pc["disconnect"] \notin {"join", "ending"}
    BY <2>1, <2>2 DEF OwnerInv, SupervisorInv, DisconnectInv, SupervisorTakes
  <2>7. ReaderInv'
    BY <1>5, <1>3, <2>1, <2>2, <2>4, <2>5, <2>6, LifecycleAssumption DEF OwnerInv, ReaderInv,
       Attempting, Trying, Gens, Up, SupervisorTakes
  <2>8. SupervisorInv'
    BY <1>1, <1>2, <1>3, <1>4, <1>5, <2>1, <2>2, <2>4, <2>5, <2>3, <2>6, LifecycleAssumption DEF
       OwnerInv, TypeInv, PcType, Readers, Clients, ConnectStates, DisconnectStates,
       SupervisorStates, Tasks, Attempting, Gens, SupervisorInv, ReaderInv, Idle, Up, Trying,
       SupervisorTakes
  <2>9. WaitingInv'
    BY <1>1, <1>2, <1>3, <1>4, <1>5, <2>1, <2>2, <2>4, <2>5, <2>3, <2>6, LifecycleAssumption DEF
       OwnerInv, TypeInv, PcType, Readers, Clients, ConnectStates, DisconnectStates,
       SupervisorStates, Tasks, Attempting, Gens, WaitingInv, ReaderInv, Idle, Up, Alone,
       SupervisorTakes
  <2>10. DisconnectInv'
    BY <1>1, <1>2, <1>3, <1>4, <1>5, <2>1, <2>2, <2>4, <2>5, <2>3, <2>6, LifecycleAssumption DEF
       OwnerInv, TypeInv, PcType, Readers, Clients, ConnectStates, DisconnectStates,
       SupervisorStates, Tasks, Attempting, Gens, DisconnectInv, ReaderInv, Idle, Up, Alone,
       AllIdle, Closing, SupervisorTakes
  <2>11. FinalInv'
    BY <1>1, <1>2, <1>3, <1>4, <1>5, <2>1, <2>2, <2>4, <2>5, <2>3, <2>6, LifecycleAssumption DEF
       OwnerInv, TypeInv, PcType, Readers, Clients, ConnectStates, DisconnectStates,
       SupervisorStates, Tasks, Attempting, Gens, FinalInv, DisconnectInv, ReaderInv, Idle, Up,
       SupervisorTakes
  <2> QED BY <2>7, <2>8, <2>9, <2>10, <2>11 DEF OwnerInv
<1> QED BY <1>6, <1>7, <1>8, <1>9, <1>10, <1>11 DEF Inv, BaseInv

\* The supervisor has the lock.
LEMMA SupervisorLocksStep ==
    ASSUME Inv, NEW s \in Supervisors, SupervisorLocks(s)
    PROVE  Inv'
<1>1. hooks \in Hooks /\ LockInv
  BY DEF Inv, BaseInv, TypeInv
<1>2. pc[s] = "lock" /\ lock # <<>> /\ Head(lock) = s
  <2>1. s \in Tasks /\ Queues(pc, s)
    BY LifecycleAssumption DEF SupervisorLocks, Queues, Tasks
  <2> QED BY <1>1, <2>1 DEF SupervisorLocks, Woken, LockInv, LockOK, Has
<1>3. CASE client.intentional
  <2>1. SupervisorLeaves(s)
    BY <1>2, <1>3 DEF SupervisorLocks, SupervisorLeaves, SupervisorEnds, Ended, Released
  <2> QED BY <2>1, SupervisorLeavesStep
<1>4. CASE ~client.intentional
  <2>1. PICK h : h = begin_operation(hooks, TRUE, TRUE)
    OBVIOUS
  <2>2. h \in Hooks /\ h.pending = NoHook /\ h.holds = hooks.holds
    BY <1>1, <2>1, BeginOperation
  <2>3. h.token = hooks.token + 1
    BY <1>1, <2>1, BeginOperation
  <2>4. h.hook = hooks.hook
    BY <1>1, <2>1 DEF begin_operation, Hooks
  <2>5. hooks' = hold(h) /\ CancelReader(client.reader)
    BY <1>4, <2>1 DEF SupervisorLocks, ForceClose
  <2>6. /\ hooks' \in Hooks /\ hooks'.token = h.token /\ hooks'.pending = h.pending
        /\ hooks'.hook = h.hook /\ hooks'.holds = h.holds + 1
    BY <2>2, <2>5, HoldHooks
  <2>7. SupervisorTakes(s)
    BY <1>2, <1>4, <2>2, <2>3, <2>4, <2>5, <2>6 DEF SupervisorLocks, SupervisorTakes
  <2> QED BY <2>7, SupervisorTakesStep
<1> QED BY <1>3, <1>4

\* The old connection is closed and the supervisor dials.
LEMMA SupervisorDialsStep ==
    ASSUME Inv, NEW s \in Supervisors, SupervisorDials(s)
    PROVE  Inv'
<1>1. TypeInv /\ LockInv /\ OrderInv /\ HoldsInv /\ TokenInv
  BY DEF Inv, BaseInv
<1>2. /\ hooks' \in Hooks /\ hooks \in Hooks /\ hooks'.token = hooks.token
      /\ hooks'.pending = hooks.pending
      /\ hooks'.ready = hooks.ready /\ hooks'.hook = hooks.hook /\ hooks'.holds = hooks.holds - 1
  BY <1>1, ReleaseHooks DEF SupervisorDials, TypeInv
<1>3. /\ pc'["connect"] = pc["connect"] /\ pc'["disconnect"] = pc["disconnect"] /\ pc'[s] = "dial"
      /\ \A r \in Supervisors : r # s => pc'[r] = pc[r]
  BY <1>1, LifecycleAssumption DEF TypeInv, PcType, Tasks, SupervisorDials
<1>4. \A a \in Attempting \ {s} : pc[a] \notin Trying \cup {"force"}
  BY <1>1, LifecycleAssumption DEF LockInv, LockOK, Owns, Attempting, Tasks, Trying,
     SupervisorDials
<1>5. TypeInv'
  <2>1. PcType' /\ cut' \subseteq Windows
    BY <1>1, <1>2, <1>3, <1>4, LifecycleAssumption DEF TypeInv, PcType, ConnectStates,
       DisconnectStates, SupervisorStates, Tasks, Attempting, Windows, SupervisorDials
  <2>2. reader' \in [Gens -> Readers]
    BY <1>1, <1>2, <1>3, <1>4 DEF TypeInv, Readers, SupervisorDials
  <2>3. client' \in Clients
    <3>1. client \in Clients /\ 0 \in 0..MaxGens
      BY <1>1, LifecycleAssumption DEF TypeInv
    <3> QED BY <3>1 DEF Clients, SupervisorDials
  <2> QED BY <1>2, <2>1, <2>2, <2>3 DEF TypeInv, PcType
<1>6. LockInv'
  <2>1. \A b \in Tasks : (Queues(pc', b) <=> Queues(pc, b)) /\ (Owns(pc', b) => Owns(pc, b))
    BY <1>1, <1>3, LifecycleAssumption DEF Queues, Owns, Trying, Tasks, SupervisorDials
  <2> QED BY <1>1, <2>1, LockKept DEF LockInv, SupervisorDials
<1>7. OrderInv'
  BY <1>1, <1>2, <1>3, <1>4 DEF OrderInv, TypeInv, Clients, SupervisorDials
<1>8. HoldsInv'
  <2>1. pc[s] \in Joining /\ pc'[s] \notin Joining /\ pc'["disconnect"] = pc["disconnect"] /\ s \in Attempting
    BY <1>3 DEF Joining, Attempting, SupervisorDials
  <2>2. \A a \in Attempting : pc'[a] \notin Joining
    BY <1>4, <1>3, <2>1, LifecycleAssumption DEF Joining, Trying, Attempting
  <2>3. PICK n \in Int : n = IF pc["disconnect"] \in {"force", "shut"} THEN 1 ELSE 0
    OBVIOUS
  <2>4. hooks.holds = 1 + n
    BY <1>1, <2>1, <2>3 DEF HoldsInv
  <2> QED BY <1>2, <2>1, <2>2, <2>3, <2>4 DEF HoldsInv
<1>9. TokenInv'
  BY <1>1, <1>2, <1>3, <1>4, LifecycleAssumption DEF TokenInv, Tries, TypeInv, PcType, Trying,
     Tasks, Attempting, Hooks, NoHook, Notes, SupervisorDials
<1>10. ASSUME Protected' PROVE OwnerInv'
  <2>1. OwnerInv
    BY <1>1, <1>2, <1>3, <1>4, <1>10 DEF Inv, Protected, SupervisorDials
  <2>2. client.task = s /\ \A r \in Supervisors : r # s => pc[r] = "none"
    BY <2>1, LifecycleAssumption DEF OwnerInv, SupervisorInv, SupervisorDials
  <2>3. pc["disconnect"] \notin {"lock", "flush", "force", "shut"}
    BY <2>1 DEF OwnerInv, DisconnectInv, Alone, SupervisorDials
  <2>4. AllIdle
    BY <1>1, <2>1, LifecycleAssumption DEF OwnerInv, ReaderInv, AllIdle, Gens, NoReader,
       SupervisorDials, TypeInv, Clients
  <2>5. client.engine \notin Up \cup {"disconnecting"}
    BY <1>1, <2>1, <2>4, LifecycleAssumption DEF OwnerInv, ReaderInv, AllIdle, Gens, Idle, Up,
       TypeInv, Clients
  <2>6. pc["disconnect"] # "ending"
    BY <1>4, <2>1 DEF OwnerInv, DisconnectInv, Closing, Trying, Attempting, SupervisorDials
  <2>7. /\ client'.reader = 0 /\ client'.transport = 0 /\ client'.gen = client.gen /\ client'.engine = client.engine
        /\ client'.task = client.task /\ AllIdle' /\ pc[s] = "force"
    BY <1>1, <2>4 DEF TypeInv, Clients, SupervisorDials, AllIdle
  <2>8. ReaderInv'
    BY <1>4, <1>3, <2>5, <2>7, LifecycleAssumption DEF ReaderInv, AllIdle, Up, Attempting, Trying
  <2>9. SupervisorInv'
    BY <1>4, <1>3, <2>1, <2>2, <2>5, <2>7, LifecycleAssumption DEF OwnerInv, SupervisorInv,
       AllIdle, Up, Trying, Attempting
  <2>10. WaitingInv'
    BY <1>1, <1>2, <1>3, <1>4, <2>1, <2>2, <2>4, <2>5, <2>3, <2>6, <2>7, LifecycleAssumption DEF
       OwnerInv, TypeInv, PcType, Readers, Clients, ConnectStates, DisconnectStates,
       SupervisorStates, Tasks, Attempting, Gens, WaitingInv, ReaderInv, Idle, Up, Alone,
       SupervisorDials
  <2>11. DisconnectInv'
    BY <1>1, <1>2, <1>3, <1>4, <2>1, <2>2, <2>4, <2>5, <2>3, <2>6, <2>7, LifecycleAssumption DEF
       OwnerInv, TypeInv, PcType, Readers, Clients, ConnectStates, DisconnectStates,
       SupervisorStates, Tasks, Attempting, Gens, DisconnectInv, ReaderInv, Idle, Up, Alone,
       AllIdle, Closing, SupervisorDials
  <2>12. FinalInv'
    BY <1>1, <1>2, <1>3, <1>4, <2>1, <2>2, <2>4, <2>5, <2>3, <2>6, <2>7, LifecycleAssumption DEF
       OwnerInv, TypeInv, PcType, Readers, Clients, ConnectStates, DisconnectStates,
       SupervisorStates, Tasks, Attempting, Gens, FinalInv, DisconnectInv, ReaderInv, Idle, Up,
       SupervisorDials
  <2> QED BY <2>8, <2>9, <2>10, <2>11, <2>12 DEF OwnerInv
<1> QED BY <1>5, <1>6, <1>7, <1>8, <1>9, <1>10 DEF Inv, BaseInv

-----------------------------------------------------------------------------
(* connect().                                                              *)

\* connect() joins the queue of the lock.
ConnectQueues ==
    /\ pc["connect"] = "idle" /\ lock # <<>> /\ lock' = Append(lock, "connect")
    /\ ~(client.engine = "connected" /\ _has_active_explicit_connection)
    /\ pc' = [pc EXCEPT !["connect"] = "lock"]
    /\ hooks' = begin_operation(hooks, FALSE, FALSE)
    /\ client' = [client EXCEPT !.intent = "connect"]
    /\ UNCHANGED <<reader, cut>>

\* begin_operation() at the call of connect() or disconnect().
LEMMA BeginCall ==
    ASSUME NEW h \in Hooks, NEW k, k = begin_operation(h, FALSE, FALSE)
    PROVE  /\ k \in Hooks /\ k.token = h.token /\ k.pending = NoHook /\ k.ready = TRUE
           /\ k.holds = h.holds /\ k.hook.tok = h.hook.tok /\ k.hook.up = h.hook.up
           /\ k.hook.pc = IF h.hook.pc \in {"start", "barrier"} THEN "cancelled" ELSE h.hook.pc
<1>1. /\ k \in Hooks /\ k.pending = NoHook /\ k.ready = TRUE
      /\ k.holds = h.holds /\ k.hook.tok = h.hook.tok /\ k.hook.up = h.hook.up
      /\ k.hook.pc = IF h.hook.pc \in {"start", "barrier"} /\ ~FALSE THEN "cancelled" ELSE h.hook.pc
  BY BeginOperation
<1>2. k.token = h.token
  BY BeginOperation
<1>3. k.hook.pc = IF h.hook.pc \in {"start", "barrier"} THEN "cancelled" ELSE h.hook.pc
  BY <1>1
<1> QED BY <1>1, <1>2, <1>3

\* A waiting connect() finds the connection up only in the cases WaitingInv names.
LEMMA ConnectQueuesStep ==
    ASSUME Inv, ConnectQueues
    PROVE  Inv'
<1>1. TypeInv /\ LockInv /\ OrderInv /\ HoldsInv /\ TokenInv
  BY DEF Inv, BaseInv
<1>2. /\ hooks' \in Hooks /\ hooks \in Hooks /\ hooks'.token = hooks.token /\ hooks'.pending = NoHook
      /\ hooks'.holds = hooks.holds /\ hooks'.hook.tok = hooks.hook.tok
      /\ (hooks'.hook.pc = "none" <=> hooks.hook.pc = "none")
  BY <1>1, BeginCall DEF TypeInv, ConnectQueues
<1>3. /\ pc["connect"] = "idle" /\ lock # <<>> /\ lock' = Append(lock, "connect")
      /\ ~(client.engine = "connected" /\ _has_active_explicit_connection)
      /\ pc' = [pc EXCEPT !["connect"] = "lock"]
      /\ client' = [client EXCEPT !.intent = "connect"]
      /\ reader' = reader /\ cut' = cut
  BY DEF ConnectQueues
<1>4. TypeInv'
  <2>1. PcType' /\ cut' \subseteq Windows
    BY <1>1, <1>2, <1>3, LifecycleAssumption DEF TypeInv, PcType, ConnectStates, DisconnectStates,
       SupervisorStates, Tasks, Attempting, Windows, Idle
  <2>2. reader' \in [Gens -> Readers]
    BY <1>1, <1>2, <1>3 DEF TypeInv, Readers, Idle
  <2>3. client' \in Clients
    BY <1>1, <1>3, LifecycleAssumption DEF TypeInv, Clients, Gens, Idle
  <2> QED BY <1>2, <2>1, <2>2, <2>3 DEF TypeInv, PcType
<1>5. LockInv'
  <2>1. /\ "connect" \in Tasks /\ ~Queues(pc, "connect") /\ Queues(pc', "connect") /\ ~Owns(pc', "connect")
        /\ \A b \in Tasks \ {"connect"} : (Queues(pc', b) <=> Queues(pc, b)) /\ (Owns(pc', b) => Owns(pc, b))
    BY <1>1, <1>3, LifecycleAssumption DEF TypeInv, PcType, Queues, Owns, Trying, Tasks
  <2> QED BY <1>1, <1>3, <2>1, LockJoined DEF LockInv
<1>6. OrderInv'
  BY <1>1, <1>2, <1>3 DEF OrderInv, TypeInv, Clients, Idle
<1>7. HoldsInv'
  BY <1>1, <1>2, <1>3, LifecycleAssumption DEF HoldsInv, TypeInv, PcType, Joining, Tasks,
     Attempting, Hooks, Idle
<1>8. TokenInv'
  BY <1>1, <1>2, <1>3, LifecycleAssumption DEF TokenInv, Tries, TypeInv, PcType, Trying, Tasks,
     Attempting, Hooks, NoHook, Notes, Idle
<1>9. ASSUME Protected' PROVE OwnerInv'
  <2>1. OwnerInv
    BY <1>1, <1>2, <1>3, <1>9 DEF Inv, Protected, Idle
  <2>2. PICK b \in Tasks : Queues(pc, b)
    BY <1>1, <1>3 DEF LockInv, LockOK, Has
  <2>3. client.engine \in Up => \A s \in Supervisors : pc[s] # "ready"
    BY <1>1, <1>3, <2>1, <2>2, LifecycleAssumption DEF OwnerInv, ReaderInv, SupervisorInv,
       DisconnectInv, Closing, Alone, Queues, Up, Trying, Tasks, Attempting
  <2>4. client.engine \in Up => ~Alone \/ pc["disconnect"] = "join" \/ reader[client.gen].pc = "ending"
    BY <1>1, <1>3, <2>1, LifecycleAssumption DEF OwnerInv, ReaderInv, SupervisorInv, Alone, Up,
       Attempting, Live, _has_active_explicit_connection, TypeInv, Clients
  <2>5. ReaderInv'
    BY <1>1, <1>2, <1>3, <2>1, <2>3, <2>4, LifecycleAssumption DEF OwnerInv, TypeInv, PcType,
       Readers, Clients, ConnectStates, DisconnectStates, SupervisorStates, Tasks, Attempting,
       Gens, ReaderInv, Idle, Up
  <2>6. SupervisorInv'
    BY <1>1, <1>2, <1>3, <2>1, <2>3, <2>4, LifecycleAssumption DEF OwnerInv, TypeInv, PcType,
       Readers, Clients, ConnectStates, DisconnectStates, SupervisorStates, Tasks, Attempting,
       Gens, SupervisorInv, ReaderInv, Idle, Up, Trying
  <2>7. WaitingInv'
    BY <1>1, <1>2, <1>3, <2>1, <2>3, <2>4, LifecycleAssumption DEF OwnerInv, TypeInv, PcType,
       Readers, Clients, ConnectStates, DisconnectStates, SupervisorStates, Tasks, Attempting,
       Gens, WaitingInv, ReaderInv, Idle, Up, Alone
  <2>8. DisconnectInv'
    BY <1>1, <1>2, <1>3, <2>1, <2>3, <2>4, LifecycleAssumption DEF OwnerInv, TypeInv, PcType,
       Readers, Clients, ConnectStates, DisconnectStates, SupervisorStates, Tasks, Attempting,
       Gens, DisconnectInv, ReaderInv, Idle, Up, Alone, AllIdle, Closing
  <2>9. FinalInv'
    BY <1>1, <1>2, <1>3, <2>1, <2>3, <2>4, LifecycleAssumption DEF OwnerInv, TypeInv, PcType,
       Readers, Clients, ConnectStates, DisconnectStates, SupervisorStates, Tasks, Attempting,
       Gens, FinalInv, DisconnectInv, ReaderInv, Idle, Up
  <2> QED BY <2>5, <2>6, <2>7, <2>8, <2>9 DEF OwnerInv
<1> QED BY <1>4, <1>5, <1>6, <1>7, <1>8, <1>9 DEF Inv, BaseInv

\* The tasks after the supervisor is cancelled and joined, and b goes on to a state.
CancelledBut(b, to) ==
    /\ pc' \in [Tasks -> ConnectStates \cup DisconnectStates \cup SupervisorStates]
    /\ \A a \in Tasks : pc'[a] = IF a = b THEN to ELSE IF a = client.task THEN "none" ELSE pc[a]

\* It is what Cancelled and the caller's own move amount to.
LEMMA CancelSupervisor ==
    ASSUME TypeInv, NEW b \in {"connect", "disconnect"}, NEW to \in ConnectStates \cup DisconnectStates,
           pc' = [Cancelled(pc, client.task) EXCEPT ![b] = to]
    PROVE  CancelledBut(b, to)
<1>1. PICK q : q = Cancelled(pc, client.task)
  OBVIOUS
<1>2. /\ q \in [Tasks -> ConnectStates \cup DisconnectStates \cup SupervisorStates]
      /\ \A a \in Tasks : q[a] = IF a = client.task THEN "none" ELSE pc[a]
  BY <1>1 DEF Cancelled, TypeInv, PcType, SupervisorStates
<1>3. pc' = [q EXCEPT ![b] = to] /\ b \in Tasks
  BY <1>1 DEF Tasks
<1> QED BY <1>2, <1>3 DEF CancelledBut

\* The supervisor leaves the queue of the lock with its cancellation.
LEMMA LockCancelled ==
    ASSUME TypeInv, LockInv
    PROVE  /\ LockOK(Without(client.task), Cancelled(pc, client.task))
           /\ lock # <<>> /\ Head(lock) # client.task =>
                Without(client.task) # <<>> /\ Head(Without(client.task)) = Head(lock)
<1>1. PICK q, s : q = Cancelled(pc, s) /\ s = client.task /\ s \in Supervisors \cup {"none"}
  BY DEF TypeInv, Clients
<1>2. \A a \in Tasks : q[a] = IF a = s THEN "none" ELSE pc[a]
  BY <1>1 DEF Cancelled
<1>3. /\ s \in Tasks => ~Queues(q, s)
      /\ \A a \in Tasks \ {s} : (Queues(q, a) <=> Queues(pc, a)) /\ (Owns(q, a) => Owns(pc, a))
  BY <1>1, <1>2, LifecycleAssumption DEF Queues, Owns, Trying, Tasks
<1> QED BY <1>1, <1>3, LockLeft DEF LockInv, Without

\* The supervisor's leaving keeps the order of the callers.
LEMMA OrderCancelled ==
    ASSUME TypeInv, LockInv, OrderInv, client.intent # "connect"
    PROVE  OrderOK(Without(client.task))
<1>1. lock \in Seq(Tasks) /\ OrderOK(lock) /\ client.task # "disconnect"
  BY LifecycleAssumption DEF LockInv, LockOK, OrderInv, TypeInv, Clients
<1> QED BY <1>1, OrderLeft DEF Without

\* connect() has the lock and finds no supervisor.
ConnectTakes(intent) ==
    /\ IF lock = <<>>
       THEN pc["connect"] = "idle" /\ intent = "connect" /\ lock' = <<"connect">>
       ELSE /\ pc["connect"] = "lock" /\ Head(lock) = "connect" /\ intent = client.intent
            /\ lock' = Without(client.task)
    /\ pc' = [Cancelled(pc, client.task) EXCEPT !["connect"] = "force"]
    /\ \E replacing \in BOOLEAN :
        client' = [client EXCEPT !.task = "none", !.intent = intent, !.asked = FALSE, !.replacing = replacing]
    /\ CancelReader(client.reader)
    /\ hooks' \in Hooks /\ hooks'.token = hooks.token /\ hooks'.holds = hooks.holds + 1
    /\ hooks'.pending \in {hooks.pending, NoHook} /\ hooks'.hook.tok = hooks.hook.tok
    /\ hooks'.hook.pc = "none" <=> hooks.hook.pc = "none"

\* It keeps the invariant: no attempt is under way.
LEMMA ConnectTakesStep ==
    ASSUME Inv, NEW intent, ConnectTakes(intent)
    PROVE  Inv'
<1>1. TypeInv /\ LockInv /\ OrderInv /\ HoldsInv /\ TokenInv
  BY DEF Inv, BaseInv
<1>2. /\ hooks' \in Hooks /\ hooks'.token = hooks.token /\ hooks'.holds = hooks.holds + 1
      /\ hooks'.pending \in {hooks.pending, NoHook} /\ hooks'.hook.tok = hooks.hook.tok
      /\ (hooks'.hook.pc = "none" <=> hooks.hook.pc = "none") /\ hooks \in Hooks
  BY <1>1 DEF TypeInv, ConnectTakes
<1>3. \A a \in Tasks : ~Owns(pc, a)
  <2>1. CASE lock = <<>>
    BY <1>1, <2>1 DEF LockInv, LockOK
  <2>2. CASE lock # <<>>
    BY <1>1, <2>2, LifecycleAssumption DEF LockInv, LockOK, ConnectTakes, Owns, Trying, Tasks
  <2> QED BY <2>1, <2>2
<1>4. /\ pc["connect"] \in {"idle", "lock"} /\ CancelledBut("connect", "force")
      /\ Cancels(client.reader) /\ client.reader \in 0..MaxGens
      /\ intent \in {"connect", client.intent} /\ (pc["connect"] = "idle" => intent = "connect")
  BY <1>1, CancelSupervisor, CancelReaderStep DEF ConnectTakes, ConnectStates, TypeInv, Clients
<1>5. PICK replacing \in BOOLEAN :
        client' = [client EXCEPT !.task = "none", !.intent = intent, !.asked = FALSE, !.replacing = replacing]
  BY DEF ConnectTakes
<1>6. /\ pc'["connect"] = "force" /\ pc'["disconnect"] = pc["disconnect"]
      /\ \A s \in Supervisors : pc'[s] = IF s = client.task THEN "none" ELSE pc[s]
  BY <1>1, <1>4, LifecycleAssumption DEF CancelledBut, Tasks, TypeInv, Clients
<1>7. \A a \in Attempting : pc[a] \notin Trying \cup {"force"}
  BY <1>3, LifecycleAssumption DEF Owns, Attempting, Tasks
<1>8. TypeInv'
  <2>1. PcType' /\ cut' \subseteq Windows
    <3>1. cut' \subseteq Windows
      BY <1>1, <1>4 DEF TypeInv, Cancels, Windows
    <3> QED BY <1>1, <1>4, <1>6, <3>1, LifecycleAssumption DEF TypeInv, PcType, ConnectStates,
               SupervisorStates, CancelledBut
  <2>2. reader' \in [Gens -> Readers]
    BY <1>4 DEF Cancels
  <2>3. client' \in Clients
    <3>1. client \in Clients /\ intent \in {"connect", "disconnect", "off"}
      BY <1>1, <1>4 DEF TypeInv, Clients
    <3> QED BY <1>5, <3>1, ZenonT(60) DEF Clients
  <2> QED BY <1>2, <2>1, <2>2, <2>3 DEF TypeInv, PcType
<1>9. LockInv'
  <2>1. PICK q, s : q = Cancelled(pc, s) /\ s = client.task /\ s \in Supervisors \cup {"none"}
    BY <1>1 DEF TypeInv, Clients
  <2>2. \A a \in Tasks : q[a] = IF a = s THEN "none" ELSE pc[a]
    BY <2>1 DEF Cancelled
  <2>3. \A a \in Tasks : pc'[a] = IF a = "connect" THEN "force" ELSE q[a]
    BY <1>4, <2>1, <2>2 DEF CancelledBut
  <2>4. CASE lock = <<>>
    <3>1. \A a \in Tasks : (Queues(q, a) <=> Queues(pc, a)) /\ (Owns(q, a) => Owns(pc, a))
      BY <1>1, <2>1, <2>2, <2>4, LifecycleAssumption DEF LockInv, LockOK, Has, Queues, Owns,
         Trying, Tasks
    <3>2. LockOK(lock, q)
      BY <1>1, <3>1, LockKept DEF LockInv
    <3>3. /\ "connect" \in Tasks /\ ~Queues(q, "connect") /\ Queues(pc', "connect")
          /\ \A b \in Tasks \ {"connect"} : (Queues(pc', b) <=> Queues(q, b)) /\ (Owns(pc', b) => Owns(q, b))
      BY <2>1, <2>2, <2>3, <2>4, LifecycleAssumption DEF ConnectTakes, Queues, Owns, Trying, Tasks
    <3>4. LockOK(Append(lock, "connect"), pc')
      BY <2>4, <3>2, <3>3, LockJoined
    <3>5. lock' = Append(lock, "connect")
      BY <2>4 DEF ConnectTakes
    <3> QED BY <3>4, <3>5 DEF LockInv
  <2>5. CASE lock # <<>>
    <3>1. Head(lock) = "connect" /\ lock' = Without(s) /\ s # "connect" /\ "connect" \in Tasks
      BY <2>1, <2>5, LifecycleAssumption DEF ConnectTakes, Tasks
    <3>2. LockOK(lock', q) /\ lock' # <<>> /\ Head(lock') = "connect"
      BY <1>1, <2>1, <2>5, <3>1, LockCancelled
    <3>3. /\ Queues(pc', "connect")
          /\ \A a \in Tasks : (Queues(pc', a) <=> Queues(q, a)) /\ (Owns(pc', a) => Owns(q, a) \/ a = "connect")
      BY <2>1, <2>2, <2>3, <2>5, LifecycleAssumption DEF ConnectTakes, Queues, Owns, Trying, Tasks
    <3> QED BY <3>1, <3>2, <3>3, LockTaken DEF LockInv
  <2> QED BY <2>4, <2>5
<1>10. OrderInv'
  <2>1. client'.intent = intent
    BY <1>1, <1>5 DEF TypeInv, Clients
  <2> QED BY <1>1, <2>1, OrderCancelled DEF OrderInv, ConnectTakes
<1>11. HoldsInv'
  <2>1. pc'["connect"] \in Joining /\ pc'["disconnect"] = pc["disconnect"]
    BY <1>1, <1>4, LifecycleAssumption DEF Joining, CancelledBut, Tasks, TypeInv, Clients
  <2>2. "connect" \in Attempting /\ \A a \in Attempting : pc[a] \notin Joining
    BY <1>7 DEF Joining, Trying, Attempting
  <2> QED BY <1>1, <1>2, <2>1, <2>2 DEF HoldsInv
<1>12. TokenInv'
  BY <1>1, <1>2, <1>4, <1>5, <1>7, <1>6, LifecycleAssumption DEF TokenInv, Tries, TypeInv, PcType,
     Trying, Tasks, Attempting, Hooks, NoHook, Notes, CancelledBut, Cancels
<1>13. ASSUME Protected' PROVE OwnerInv'
  <2>1. OwnerInv
    BY <1>1, <1>2, <1>4, <1>5, <1>7, <1>6, <1>13 DEF Inv, Protected, Cancels
  <2>2. /\ client'.gen = client.gen /\ client'.reader = client.reader /\ client'.transport = client.transport
        /\ client'.engine = client.engine /\ client'.task = "none"
        /\ client'.intentional = client.intentional
        /\ client'.old = client.old /\ client'.bye = client.bye /\ client'.intent = intent
    BY <1>1, <1>5 DEF TypeInv, Clients
  <2>3. \A h \in Gens :
            /\ Idle(reader[h]) => Idle(reader'[h])
            /\ reader[h].pc \in {"reading", "fatal", "ending"} => reader'[h].pc \in {reader[h].pc, "ending"}
            /\ reader'[h].connack = reader[h].connack /\ reader'[h].tok = reader[h].tok
    BY <1>4, CancelsKeep
  <2>4. Alone'
    BY <1>6, <2>1 DEF OwnerInv, SupervisorInv, Alone
  <2>5. client.gen \in 0..MaxGens
    BY <1>1 DEF TypeInv, Clients
  <2>6. ReaderInv'
    BY <1>7, <1>6, <2>1, <2>2, <2>3, <2>4, <2>5, LifecycleAssumption DEF OwnerInv, ReaderInv,
       Alone, Attempting, Trying, Gens, Up
  <2>7. SupervisorInv'
    BY <1>7, <1>6, <1>2, <2>1, <2>2, <2>3, <2>4, LifecycleAssumption, ZenonT(60) DEF OwnerInv, SupervisorInv,
       Alone, Attempting, Trying
  <2>8. WaitingInv'
    BY <1>1, <1>2, <1>4, <1>5, <1>7, <1>6, <2>1, <2>2, <2>3, <2>4, <2>5, LifecycleAssumption DEF
       OwnerInv, TypeInv, PcType, Readers, Clients, ConnectStates, DisconnectStates,
       SupervisorStates, Tasks, Attempting, Gens, WaitingInv, ReaderInv, Idle, Up, Alone,
       CancelledBut, Cancels
  <2>9. DisconnectInv'
    <3>1. \A a \in Attempting : ~Closing(a)
      BY <1>3, <1>7, <2>1 DEF OwnerInv, Closing, Trying
    <3>2. AllIdle => AllIdle'
      BY <2>3 DEF AllIdle
    <3>3. pc["disconnect"] # "flush"
      BY <1>3 DEF Owns, Tasks
    <3> QED BY <1>6, <2>1, <2>2, <2>4, <3>1, <3>2, <3>3 DEF OwnerInv, DisconnectInv, Alone, Up
  <2>10. FinalInv'
    BY <1>1, <1>2, <1>4, <1>5, <1>7, <1>6, <2>1, <2>2, <2>3, <2>4, <2>5, LifecycleAssumption DEF
       OwnerInv, TypeInv, PcType, Readers, Clients, ConnectStates, DisconnectStates,
       SupervisorStates, Tasks, Attempting, Gens, FinalInv, DisconnectInv, ReaderInv, Idle, Up,
       CancelledBut, Cancels
  <2> QED BY <2>6, <2>7, <2>8, <2>9, <2>10 DEF OwnerInv
<1> QED BY <1>8, <1>9, <1>10, <1>11, <1>12, <1>13 DEF Inv, BaseInv

\* connect() has the lock and finds a supervisor, which it cancels.
ConnectCancels(intent) ==
    /\ IF lock = <<>>
       THEN pc["connect"] = "idle" /\ intent = "connect" /\ lock' = <<"connect">>
       ELSE /\ pc["connect"] = "lock" /\ Head(lock) = "connect" /\ intent = client.intent
            /\ lock' = Without(client.task)
    /\ Live(client.task) /\ pc' = [pc EXCEPT !["connect"] = "cancel", ![client.task] = "cancelled"]
    /\ \E replacing \in BOOLEAN :
        client' = [client EXCEPT !.intent = intent, !.asked = FALSE, !.replacing = replacing]
    /\ reader' = reader /\ cut' = cut
    /\ hooks' \in Hooks /\ hooks'.token = hooks.token /\ hooks'.holds = hooks.holds
    /\ hooks'.pending \in {hooks.pending, NoHook} /\ hooks'.hook.tok = hooks.hook.tok
    /\ hooks'.hook.pc = "none" <=> hooks.hook.pc = "none"

\* It keeps the invariant: no attempt is under way.
LEMMA ConnectCancelsStep ==
    ASSUME Inv, NEW intent, ConnectCancels(intent)
    PROVE  Inv'
<1>1. TypeInv /\ LockInv /\ OrderInv /\ HoldsInv /\ TokenInv
  BY DEF Inv, BaseInv
<1>2. /\ hooks' \in Hooks /\ hooks'.token = hooks.token /\ hooks'.holds = hooks.holds
      /\ hooks'.pending \in {hooks.pending, NoHook} /\ hooks'.hook.tok = hooks.hook.tok
      /\ (hooks'.hook.pc = "none" <=> hooks.hook.pc = "none") /\ hooks \in Hooks
  BY <1>1 DEF TypeInv, ConnectCancels
<1>3. \A a \in Tasks : ~Owns(pc, a)
  <2>1. CASE lock = <<>>
    BY <1>1, <2>1 DEF LockInv, LockOK
  <2>2. CASE lock # <<>>
    BY <1>1, <2>2, LifecycleAssumption DEF LockInv, LockOK, ConnectCancels, Owns, Trying, Tasks
  <2> QED BY <2>1, <2>2
<1>4. /\ pc["connect"] \in {"idle", "lock"} /\ client.task \in Supervisors /\ pc[client.task] # "none"
      /\ reader' = reader /\ cut' = cut
      /\ intent \in {"connect", client.intent} /\ (pc["connect"] = "idle" => intent = "connect")
  BY <1>1 DEF ConnectCancels, TypeInv, Clients, Live
<1>5. PICK replacing \in BOOLEAN :
        client' = [client EXCEPT !.intent = intent, !.asked = FALSE, !.replacing = replacing]
  BY DEF ConnectCancels
<1>6. /\ pc'["connect"] = "cancel" /\ pc'["disconnect"] = pc["disconnect"]
      /\ \A s \in Supervisors : pc'[s] = IF s = client.task THEN "cancelled" ELSE pc[s]
      /\ pc' \in [Tasks -> ConnectStates \cup DisconnectStates \cup SupervisorStates]
  BY <1>1, <1>4, LifecycleAssumption DEF ConnectCancels, Tasks, TypeInv, PcType, ConnectStates,
     SupervisorStates
<1>7. \A a \in Attempting : pc[a] \notin Trying \cup {"force"}
  BY <1>3, LifecycleAssumption DEF Owns, Attempting, Tasks
<1>8. TypeInv'
  <2>1. PcType' /\ cut' \subseteq Windows
    BY <1>1, <1>4, <1>6, LifecycleAssumption DEF TypeInv, PcType, ConnectStates, SupervisorStates
  <2>2. reader' \in [Gens -> Readers]
    BY <1>1, <1>4 DEF TypeInv
  <2>3. client' \in Clients
    <3>1. client \in Clients /\ intent \in {"connect", "disconnect", "off"}
      BY <1>1, <1>4 DEF TypeInv, Clients
    <3> QED BY <1>5, <3>1, ZenonT(60) DEF Clients
  <2> QED BY <1>2, <2>1, <2>2, <2>3 DEF TypeInv, PcType
<1>9. LockInv'
  <2>1. PICK q, s : q = Cancelled(pc, s) /\ s = client.task /\ s \in Supervisors \cup {"none"}
    BY <1>1 DEF TypeInv, Clients
  <2>2. \A a \in Tasks : q[a] = IF a = s THEN "none" ELSE pc[a]
    BY <2>1 DEF Cancelled
  <2>3. \A a \in Tasks : pc'[a] = IF a = "connect" THEN "cancel" ELSE IF a = s THEN "cancelled" ELSE q[a]
    BY <1>1, <1>4, <2>1, <2>2, LifecycleAssumption DEF ConnectCancels, TypeInv, PcType, Tasks
  <2>4. CASE lock = <<>>
    <3>1. \A a \in Tasks : (Queues(q, a) <=> Queues(pc, a)) /\ (Owns(q, a) => Owns(pc, a))
      BY <1>1, <2>1, <2>2, <2>4, LifecycleAssumption DEF LockInv, LockOK, Has, Queues, Owns,
         Trying, Tasks
    <3>2. LockOK(lock, q)
      BY <1>1, <3>1, LockKept DEF LockInv
    <3>3. /\ "connect" \in Tasks /\ ~Queues(q, "connect") /\ Queues(pc', "connect")
          /\ \A b \in Tasks \ {"connect"} : (Queues(pc', b) <=> Queues(q, b)) /\ (Owns(pc', b) => Owns(q, b))
      <4>1. pc["connect"] = "idle" /\ "connect" \in Tasks /\ s \notin {"connect", "disconnect"}
        BY <2>1, <2>4, LifecycleAssumption DEF ConnectCancels, Tasks
      <4>2. \A b \in Tasks \ {"connect", s} : pc'[b] = q[b]
        BY <2>3
      <4>3. s \in Tasks => q[s] = "none" /\ pc'[s] = "cancelled"
        BY <2>2, <2>3, <4>1
      <4>4. q["connect"] = "idle" /\ pc'["connect"] = "cancel"
        BY <2>2, <2>3, <4>1
      <4> QED BY <4>1, <4>2, <4>3, <4>4 DEF Queues, Owns, Trying
    <3>4. LockOK(Append(lock, "connect"), pc')
      BY <2>4, <3>2, <3>3, LockJoined
    <3>5. lock' = Append(lock, "connect")
      BY <2>4 DEF ConnectCancels
    <3> QED BY <3>4, <3>5 DEF LockInv
  <2>5. CASE lock # <<>>
    <3>1. Head(lock) = "connect" /\ lock' = Without(s) /\ s # "connect" /\ "connect" \in Tasks
      BY <2>1, <2>5, LifecycleAssumption DEF ConnectCancels, Tasks
    <3>2. LockOK(lock', q) /\ lock' # <<>> /\ Head(lock') = "connect"
      BY <1>1, <2>1, <2>5, <3>1, LockCancelled
    <3>3. /\ Queues(pc', "connect")
          /\ \A a \in Tasks : (Queues(pc', a) <=> Queues(q, a)) /\ (Owns(pc', a) => Owns(q, a) \/ a = "connect")
      <4>1. pc["connect"] = "lock" /\ "connect" \in Tasks /\ s \notin {"connect", "disconnect"}
        BY <2>1, <2>5, LifecycleAssumption DEF ConnectCancels, Tasks
      <4>2. \A b \in Tasks \ {"connect", s} : pc'[b] = q[b]
        BY <2>3
      <4>3. s \in Tasks => q[s] = "none" /\ pc'[s] = "cancelled"
        BY <2>2, <2>3, <4>1
      <4>4. q["connect"] = "lock" /\ pc'["connect"] = "cancel"
        BY <2>2, <2>3, <4>1
      <4> QED BY <4>1, <4>2, <4>3, <4>4 DEF Queues, Owns, Trying
    <3> QED BY <3>1, <3>2, <3>3, LockTaken DEF LockInv
  <2> QED BY <2>4, <2>5
<1>10. OrderInv'
  <2>1. client'.intent = intent
    BY <1>1, <1>5 DEF TypeInv, Clients
  <2> QED BY <1>1, <2>1, OrderCancelled DEF OrderInv, ConnectCancels
<1>11. HoldsInv'
  <2>1. pc'["disconnect"] = pc["disconnect"]
    BY <1>6
  <2>2. \A a \in Attempting : pc[a] \notin Joining /\ pc'[a] \notin Joining
    BY <1>6, <1>7 DEF Joining, Trying, Attempting
  <2> QED BY <1>1, <1>2, <2>1, <2>2 DEF HoldsInv
<1>12. TokenInv'
  BY <1>1, <1>2, <1>4, <1>5, <1>7, <1>6, LifecycleAssumption DEF TokenInv, Tries, TypeInv, PcType,
     Trying, Tasks, Attempting, Hooks, NoHook, Notes
<1>13. ASSUME Protected' PROVE OwnerInv'
  <2>1. OwnerInv
    BY <1>1, <1>2, <1>4, <1>5, <1>7, <1>6, <1>13 DEF Inv, Protected
  <2>2. /\ client'.gen = client.gen /\ client'.reader = client.reader /\ client'.transport = client.transport
        /\ client'.engine = client.engine /\ client'.task = client.task
        /\ client'.intentional = client.intentional
        /\ client'.old = client.old /\ client'.bye = client.bye /\ client'.intent = intent
    BY <1>1, <1>5 DEF TypeInv, Clients
  <2>3. reader' = reader
    BY <1>4
  <2>4. /\ \A s \in Supervisors : pc'[s] = IF s = client.task THEN "cancelled" ELSE "none"
        /\ ~Alone
    BY <1>4, <1>6, <2>1 DEF OwnerInv, SupervisorInv, Alone
  <2>5. client.gen \in 0..MaxGens
    BY <1>1 DEF TypeInv, Clients
  <2>6. ReaderInv'
    BY <1>7, <1>6, <2>1, <2>2, <2>3, <2>4, <2>5, LifecycleAssumption DEF OwnerInv, ReaderInv,
       Alone, Attempting, Trying, Gens, Up
  <2>7. SupervisorInv'
    BY <1>7, <1>6, <1>2, <2>1, <2>2, <2>3, <2>4, LifecycleAssumption, ZenonT(60) DEF OwnerInv, SupervisorInv,
       Alone, Attempting, Trying
  <2>8. WaitingInv'
    BY <1>6, <2>4 DEF WaitingInv
  <2>9. DisconnectInv'
    <3>1. \A a \in Attempting : ~Closing(a)
      BY <1>3, <1>7, <2>1 DEF OwnerInv, Closing, Trying
    <3>2. pc["disconnect"] \notin {"lock", "flush", "force", "shut"}
      BY <2>1, <2>4 DEF OwnerInv, DisconnectInv
    <3> QED BY <1>6, <2>1, <2>2, <2>4, <3>1, <3>2 DEF OwnerInv, DisconnectInv, Alone, Up
  <2>10. FinalInv'
    BY <1>1, <1>2, <1>4, <1>5, <1>7, <1>6, <2>1, <2>2, <2>3, <2>4, <2>5, LifecycleAssumption DEF
       OwnerInv, TypeInv, PcType, Readers, Clients, ConnectStates, DisconnectStates,
       SupervisorStates, Tasks, Attempting, Gens, FinalInv, DisconnectInv, ReaderInv, Idle, Up
  <2> QED BY <2>6, <2>7, <2>8, <2>9, <2>10 DEF OwnerInv
<1> QED BY <1>8, <1>9, <1>10, <1>11, <1>12, <1>13 DEF Inv, BaseInv

\* The supervisor connect() cancelled has ended: connect() starts to close the
\* connection, and no supervisor is left.
LEMMA ConnectJoinedStep ==
    ASSUME Inv, ConnectJoined
    PROVE  Inv'
<1>1. TypeInv /\ LockInv /\ OrderInv /\ HoldsInv /\ TokenInv
  BY DEF Inv, BaseInv
<1>2. /\ hooks' \in Hooks /\ hooks'.token = hooks.token /\ hooks'.holds = hooks.holds + 1
      /\ hooks'.pending = hooks.pending /\ hooks'.hook = hooks.hook /\ hooks \in Hooks
  BY <1>1, HoldHooks DEF TypeInv, ConnectJoined, ForceClose
<1>3. /\ pc["connect"] = "cancel" /\ lock' = lock /\ \A s \in Supervisors : pc[s] # "cancelled"
      /\ Cancels(client.reader) /\ client.reader \in 0..MaxGens
      /\ client' = [client EXCEPT !.task = "none"]
  BY <1>1, CancelReaderStep DEF ConnectJoined, ForceClose, TypeInv, Clients
<1>4. /\ pc'["connect"] = "force" /\ pc'["disconnect"] = pc["disconnect"]
      /\ \A s \in Supervisors : pc'[s] = pc[s]
      /\ pc' \in [Tasks -> ConnectStates \cup DisconnectStates \cup SupervisorStates]
  BY <1>1, LifecycleAssumption DEF ConnectJoined, TypeInv, PcType, ConnectStates, Tasks
<1>5. /\ client' \in Clients /\ client'.gen = client.gen /\ client'.reader = client.reader
      /\ client'.transport = client.transport /\ client'.engine = client.engine /\ client'.task = "none"
      /\ client'.intentional = client.intentional /\ client'.old = client.old
      /\ client'.bye = client.bye /\ client'.intent = client.intent
  BY <1>1, <1>3 DEF TypeInv, Clients
<1>6. /\ "connect" \in Tasks /\ Owns(pc, "connect") /\ lock # <<>> /\ Head(lock) = "connect"
      /\ \A a \in Tasks \ {"connect"} : ~Owns(pc, a)
  <2>1. "connect" \in Tasks /\ Owns(pc, "connect")
    BY <1>3 DEF Owns, Tasks
  <2> QED BY <1>1, <2>1 DEF LockInv, LockOK
<1>7. \A a \in Attempting \ {"connect"} : pc[a] \notin Trying \cup {"force"}
  BY <1>6, LifecycleAssumption DEF Owns, Attempting, Tasks
<1>8. TypeInv'
  <2>1. PcType'
    BY <1>1, <1>4 DEF TypeInv, PcType, ConnectStates
  <2>2. reader' \in [Gens -> Readers] /\ cut' \subseteq Windows
    BY <1>1, <1>3 DEF Cancels, TypeInv, Windows
  <2> QED BY <1>2, <1>5, <2>1, <2>2 DEF TypeInv, PcType
<1>9. LockInv'
  <2>1. \A a \in Tasks \ {"connect"} : (Queues(pc', a) <=> Queues(pc, a)) /\ (Owns(pc', a) => Owns(pc, a))
    BY <1>4, LifecycleAssumption DEF Queues, Owns, Tasks
  <2>2. Queues(pc', "connect") /\ Queues(pc, "connect")
    BY <1>3, <1>4 DEF Queues
  <2> QED BY <1>1, <1>3, <1>6, <2>1, <2>2, LockTaken DEF LockInv
<1>10. OrderInv'
  BY <1>1, <1>3, <1>5 DEF OrderInv
<1>11. HoldsInv'
  <2>1. "connect" \in Attempting /\ pc'["connect"] \in Joining
    BY <1>4 DEF Joining, Attempting
  <2>2. \A a \in Attempting : pc[a] \notin Joining
    BY <1>3, <1>7 DEF Joining, Trying, Attempting
  <2> QED BY <1>1, <1>2, <1>4, <2>1, <2>2 DEF HoldsInv
<1>12. TokenInv'
  <2>1. \A a \in Attempting : ~Tries(a)'
    BY <1>4, <1>7, LifecycleAssumption DEF Tries, Trying, Attempting
  <2> QED BY <1>1, <1>2, <2>1 DEF TokenInv
<1>13. ASSUME Protected' PROVE OwnerInv'
  <2>1. OwnerInv
    BY <1>3, <1>13 DEF Inv, Protected, Cancels
  <2>2. \A h \in Gens :
            /\ Idle(reader[h]) => Idle(reader'[h])
            /\ reader[h].pc \in {"reading", "fatal", "ending"} => reader'[h].pc \in {reader[h].pc, "ending"}
            /\ reader'[h].connack = reader[h].connack /\ reader'[h].tok = reader[h].tok
    BY <1>3, CancelsKeep
  <2>3. Alone /\ Alone'
    BY <1>3, <1>4, <2>1 DEF OwnerInv, SupervisorInv, Alone
  <2>4. client.gen \in 0..MaxGens
    BY <1>1 DEF TypeInv, Clients
  <2>5. ReaderInv'
    BY <1>3, <1>4, <1>5, <2>1, <2>2, <2>3, <2>4, LifecycleAssumption DEF OwnerInv, ReaderInv, Alone,
       Attempting, Gens, Up
  <2>6. SupervisorInv'
    BY <1>2, <1>4, <1>5, <2>1, <2>2, <2>3 DEF OwnerInv, SupervisorInv, Alone, Trying
  <2>7. WaitingInv'
    BY <1>4, <2>3 DEF WaitingInv, Alone
  <2>8. DisconnectInv'
    <3>1. \A a \in Attempting : ~Closing(a)
      BY <1>3, <1>7 DEF Closing, Trying
    <3>2. AllIdle => AllIdle'
      BY <2>2 DEF AllIdle
    <3>3. pc["disconnect"] # "flush"
      BY <1>6, LifecycleAssumption DEF Owns, Tasks
    <3> QED BY <1>4, <1>5, <2>1, <2>3, <3>1, <3>2, <3>3 DEF OwnerInv, DisconnectInv, Alone, Up
  <2>9. FinalInv'
    BY <1>3, <1>4, <1>5, <2>1 DEF OwnerInv, FinalInv
  <2> QED BY <2>5, <2>6, <2>7, <2>8, <2>9 DEF OwnerInv
<1> QED BY <1>8, <1>9, <1>10, <1>11, <1>12, <1>13 DEF Inv, BaseInv

\* connect() has closed the old connection: it returns with the latched failure, or dials.
ConnectClosed(to) ==
    /\ pc["connect"] = "force" /\ NoReader /\ reader' = reader
    /\ pc' = [Cancelled(pc, client.task) EXCEPT !["connect"] = to]
    /\ lock' = IF to = "idle" THEN Tail(Without(client.task)) ELSE Without(client.task)
    /\ hooks' \in Hooks /\ hooks'.holds = hooks.holds - 1
    /\ hooks'.hook.tok = hooks.hook.tok /\ hooks'.pending \in {hooks.pending, NoHook}
    /\ hooks'.hook.pc = "none" <=> hooks.hook.pc = "none"
    /\ hooks'.token = IF to = "dial" THEN hooks.token + 1 ELSE hooks.token
    /\ client' \in Clients /\ client'.reader = 0 /\ client'.transport = 0 /\ client'.task = "none"
    /\ client'.gen = client.gen /\ client'.engine = client.engine /\ client'.old = client.old
    /\ client'.bye = client.bye /\ client'.intent = client.intent
    /\ to = "idle" => client'.intentional = client.intentional
    /\ cut' = IF to = "dial" /\ pc["disconnect"] \in {"join", "lock", "ending"}
              THEN cut \cup {"overtaken"} ELSE cut

\* It keeps the invariant.
LEMMA ConnectClosedStep ==
    ASSUME Inv, NEW to \in {"idle", "dial"}, ConnectClosed(to)
    PROVE  Inv'
<1>1. TypeInv /\ LockInv /\ OrderInv /\ HoldsInv /\ TokenInv
  BY DEF Inv, BaseInv
<1>2. CancelledBut("connect", to)
  BY <1>1, CancelSupervisor DEF ConnectClosed, ConnectStates
<1>3. /\ pc'["connect"] = to /\ pc'["disconnect"] = pc["disconnect"]
      /\ \A s \in Supervisors : pc'[s] = IF s = client.task THEN "none" ELSE pc[s]
  BY <1>1, <1>2, LifecycleAssumption DEF CancelledBut, Tasks, TypeInv, Clients
<1>4. pc["connect"] = "force" /\ Owns(pc, "connect") /\ "connect" \in Tasks
  BY DEF ConnectClosed, Owns, Trying, Tasks
<1>5. lock # <<>> /\ Head(lock) = "connect" /\ \A a \in Tasks \ {"connect"} : ~Owns(pc, a)
  BY <1>1, <1>4 DEF LockInv, LockOK
<1>6. \A a \in Attempting \ {"connect"} : pc[a] \notin Trying \cup {"force"}
  BY <1>5, LifecycleAssumption DEF Owns, Attempting, Tasks
<1>7. TypeInv'
  <2>1. PcType'
    BY <1>1, <1>2, <1>3, LifecycleAssumption DEF TypeInv, PcType, ConnectStates, SupervisorStates,
       CancelledBut
  <2>2. cut' \subseteq Windows
    BY <1>1 DEF TypeInv, ConnectClosed, Windows
  <2> QED BY <1>1, <2>1, <2>2 DEF TypeInv, PcType, ConnectClosed
<1>8. LockInv' /\ OrderInv'
  <2>1. PICK q, s, u : /\ q = Cancelled(pc, s) /\ s = client.task /\ s \in Supervisors \cup {"none"}
                       /\ u = Without(s)
    BY <1>1 DEF TypeInv, Clients
  <2>2. \A a \in Tasks : q[a] = IF a = s THEN "none" ELSE pc[a]
    BY <2>1 DEF Cancelled
  <2>3. \A a \in Tasks : pc'[a] = IF a = "connect" THEN to ELSE q[a]
    BY <1>2, <2>1, <2>2 DEF CancelledBut
  <2>4. LockOK(u, q) /\ u # <<>> /\ Head(u) = "connect"
    BY <1>1, <1>5, <2>1, LifecycleAssumption, LockCancelled
  <2>5. client.intent # "connect" => OrderOK(u)
    BY <1>1, <2>1, OrderCancelled
  <2>6. \A a \in Tasks \ {"connect"} : (Queues(pc', a) <=> Queues(q, a)) /\ (Owns(pc', a) => Owns(q, a))
    BY <2>3 DEF Queues, Owns
  <2>7. client'.intent = client.intent
    BY DEF ConnectClosed
  <2>8. CASE to = "idle"
    <3>1. ~Queues(pc', "connect") /\ lock' = Tail(u)
      BY <1>3, <2>1, <2>8 DEF Queues, Trying, ConnectClosed
    <3>2. LockOK(Tail(u), pc')
      BY <1>4, <2>4, <2>6, <3>1, LockReleased
    <3>3. u \in Seq(Tasks) /\ Distinct(u)
      BY <2>4 DEF LockOK
    <3>4. client.intent # "connect" => OrderOK(Tail(u))
      BY <2>4, <2>5, <3>3, OrderReleased
    <3> QED BY <2>7, <3>1, <3>2, <3>4 DEF LockInv, OrderInv
  <2>9. CASE to = "dial"
    <3>1. Queues(pc', "connect") /\ Queues(q, "connect") /\ lock' = u
      BY <1>3, <1>4, <2>1, <2>2, <2>9, LifecycleAssumption DEF Queues, Trying, ConnectClosed
    <3>2. \A a \in Tasks : (Queues(pc', a) <=> Queues(q, a)) /\ (Owns(pc', a) => Owns(q, a) \/ a = "connect")
      BY <2>6, <3>1
    <3>3. LockOK(u, pc')
      BY <1>4, <2>4, <3>1, <3>2, LockTaken
    <3> QED BY <2>5, <2>7, <3>1, <3>3 DEF LockInv, OrderInv
  <2> QED BY <2>8, <2>9
<1>9. HoldsInv'
  <2>1. pc["connect"] \in Joining /\ to \notin Joining /\ "connect" \in Attempting
    BY <1>4 DEF Joining, Attempting
  <2>2. \A a \in Attempting : pc'[a] \notin Joining
    BY <1>3, <1>6, <2>1 DEF Attempting, Joining, Trying
  <2>3. PICK n \in Int : n = IF pc["disconnect"] \in {"force", "shut"} THEN 1 ELSE 0
    OBVIOUS
  <2>4. hooks.holds = 1 + n
    BY <1>1, <2>1, <2>3 DEF HoldsInv
  <2>5. hooks'.holds = n
    BY <2>3, <2>4 DEF ConnectClosed
  <2> QED BY <1>3, <2>2, <2>3, <2>5 DEF HoldsInv
<1>10. TokenInv'
  <2>1. to = "idle" => \A a \in Attempting : ~Tries(a)'
    BY <1>3, <1>6, LifecycleAssumption DEF Tries, Trying, Attempting
  <2>2. /\ hooks.token \in Nat /\ hooks.hook.tok \in Nat /\ hooks.pending.tok \in Nat
        /\ NoHook.pc = "none" /\ NoHook.tok = 0
    BY <1>1 DEF TypeInv, Hooks, Notes, NoHook
  <2> QED BY <1>1, <2>1, <2>2 DEF TokenInv, ConnectClosed
<1>11. ASSUME Protected' PROVE OwnerInv'
  <2>1. OwnerInv /\ (to = "dial" => pc["disconnect"] \notin {"join", "lock", "ending"})
    BY <1>11 DEF Inv, Protected, ConnectClosed
  <2>2. AllIdle
    BY <1>1, <2>1, LifecycleAssumption DEF OwnerInv, ReaderInv, AllIdle, Gens, NoReader,
       ConnectClosed, TypeInv, Clients
  <2>3. client.engine \notin Up \cup {"disconnecting"} /\ client.engine \in {"new", "disconnected"}
    BY <1>1, <2>1, <2>2, LifecycleAssumption DEF OwnerInv, ReaderInv, AllIdle, Gens, Idle, Up,
       TypeInv, Clients
  <2>4. Alone' /\ AllIdle'
    BY <1>3, <2>1, <2>2 DEF OwnerInv, SupervisorInv, Alone, AllIdle, ConnectClosed
  <2>5. ReaderInv'
    BY <1>3, <2>3, <2>4, LifecycleAssumption DEF ReaderInv, Alone, AllIdle, Attempting, Up,
       ConnectClosed
  <2>6. SupervisorInv'
    BY <1>3, <2>3, <2>4, LifecycleAssumption DEF SupervisorInv, Alone, AllIdle, ConnectClosed
  <2>7. WaitingInv'
    BY <1>3, <2>4 DEF WaitingInv, Alone
  <2>8. DisconnectInv'
    <3>1. \A a \in Attempting : ~Closing(a)
      BY <1>4, <1>6 DEF Closing, Trying
    <3>2. pc["disconnect"] # "flush"
      BY <1>5, LifecycleAssumption DEF Owns, Tasks
    <3>3. pc["disconnect"] \in {"join", "lock", "ending", "flush"} => client'.intentional
      BY <2>1, <3>2 DEF OwnerInv, DisconnectInv, ConnectClosed
    <3> QED BY <1>3, <2>1, <2>3, <2>4, <3>1, <3>2, <3>3 DEF OwnerInv, DisconnectInv, Alone,
               ConnectClosed, Up
  <2>9. FinalInv'
    BY <1>3, <1>4, <2>1 DEF OwnerInv, FinalInv, ConnectClosed
  <2> QED BY <2>5, <2>6, <2>7, <2>8, <2>9 DEF OwnerInv
<1> QED BY <1>1, <1>7, <1>8, <1>9, <1>10, <1>11 DEF Inv, BaseInv

\* begin_operation() at the first attempt of connect().
LEMMA BeginAttempt ==
    ASSUME NEW h \in Hooks, NEW k, k = begin_operation(h, TRUE, FALSE)
    PROVE  /\ k \in Hooks /\ k.token = h.token + 1 /\ k.pending = NoHook
           /\ k.holds = h.holds /\ k.hook.tok = h.hook.tok
           /\ k.hook.pc = "none" <=> h.hook.pc = "none"
<1>1. k \in Hooks /\ k.pending = NoHook /\ k.holds = h.holds /\ k.hook.tok = h.hook.tok
  BY BeginOperation
<1>2. k.token = h.token + 1
  BY BeginOperation
<1>3. k.hook.pc = IF h.hook.pc \in {"start", "barrier"} /\ ~FALSE THEN "cancelled" ELSE h.hook.pc
  BY BeginOperation
<1> QED BY <1>1, <1>2, <1>3

\* The old connection is closed and connect() starts its first attempt or finds the latch.
LEMMA ConnectBeginsStep ==
    ASSUME Inv, ConnectBegins
    PROVE  Inv'
<1>1. TypeInv /\ client \in Clients /\ hooks \in Hooks
  BY DEF Inv, BaseInv, TypeInv
<1>2. PICK closed \in BOOLEAN : closed = (client.closed \/ client.replacing)
  OBVIOUS
<1>3. PICK c : c = [client EXCEPT !.reader = 0, !.transport = 0, !.task = "none", !.closed = closed,
                             !.replacing = FALSE]
  OBVIOUS
<1>4. /\ c \in Clients /\ c.reader = 0 /\ c.transport = 0 /\ c.task = "none"
      /\ c.gen = client.gen /\ c.engine = client.engine /\ c.old = client.old
      /\ c.bye = client.bye /\ c.intent = client.intent /\ c.intentional = client.intentional
  <2>1. 0 \in 0..MaxGens
    BY LifecycleAssumption
  <2> QED BY <1>1, <1>2, <1>3, <2>1 DEF Clients
<1>5. PICK h : h = release(hooks)
  OBVIOUS
<1>6. /\ h \in Hooks /\ h.token = hooks.token /\ h.pending = hooks.pending
      /\ h.hook = hooks.hook /\ h.holds = hooks.holds - 1
  BY <1>1, <1>5, ReleaseHooks
<1>7. pc["connect"] = "force" /\ NoReader /\ reader' = reader
  BY DEF ConnectBegins
<1>8. CASE client.latch
  <2>1. /\ pc' = [Cancelled(pc, client.task) EXCEPT !["connect"] = "idle"]
        /\ client' = c /\ hooks' = h /\ lock' = Tail(Without(client.task)) /\ cut' = cut
    BY <1>2, <1>3, <1>5, <1>8 DEF ConnectBegins
  <2>2. ConnectClosed("idle")
    BY <1>4, <1>6, <1>7, <2>1 DEF ConnectClosed
  <2> QED BY <2>2, ConnectClosedStep
<1>9. CASE ~client.latch
  <2>1. /\ pc' = [Cancelled(pc, client.task) EXCEPT !["connect"] = "dial"]
        /\ client' = [c EXCEPT !.intentional = FALSE, !.attempt = 0, !.lastConnack = "none"]
        /\ hooks' = begin_operation(h, TRUE, FALSE) /\ lock' = Without(client.task)
        /\ cut' = IF pc["disconnect"] \in {"join", "lock", "ending"} THEN cut \cup {"overtaken"} ELSE cut
    BY <1>2, <1>3, <1>5, <1>9 DEF ConnectBegins
  <2>2. /\ client' \in Clients /\ client'.reader = 0 /\ client'.transport = 0 /\ client'.task = "none"
        /\ client'.gen = client.gen /\ client'.engine = client.engine /\ client'.old = client.old
        /\ client'.bye = client.bye /\ client'.intent = client.intent
    <3>1. 0 \in 0..MaxRetries
      BY LifecycleAssumption
    <3> QED BY <1>4, <2>1, <3>1 DEF Clients
  <2>3. /\ hooks' \in Hooks /\ hooks'.token = h.token + 1 /\ hooks'.pending = NoHook
        /\ hooks'.holds = h.holds /\ hooks'.hook.tok = h.hook.tok
        /\ hooks'.hook.pc = "none" <=> h.hook.pc = "none"
    BY <1>6, <2>1, BeginAttempt
  <2>4. ConnectClosed("dial")
    BY <1>6, <1>7, <2>1, <2>2, <2>3 DEF ConnectClosed
  <2> QED BY <2>4, ConnectClosedStep
<1> QED BY <1>8, <1>9

\* connect() finds the client connected when it gets the lock.
LEMMA ConnectTooLate ==
    ASSUME Inv, pc["connect"] = "lock", Woken("connect"), _has_active_explicit_connection,
           ConnectFailed([client EXCEPT !.asked = FALSE, !.intentional = FALSE,
                                        !.attempt = 0, !.cause = "plain"],
                         begin_operation(hooks, TRUE, FALSE)),
           reader' = reader, cut' = cut
    PROVE  Inv'
<1>1. TypeInv /\ LockInv /\ OrderInv /\ HoldsInv /\ TokenInv /\ client \in Clients /\ hooks \in Hooks
  BY DEF Inv, BaseInv, TypeInv
<1>2. PICK c, h : /\ c = [client EXCEPT !.asked = FALSE, !.intentional = FALSE, !.attempt = 0, !.cause = "plain"]
                  /\ h = begin_operation(hooks, TRUE, FALSE)
  OBVIOUS
<1>3. c \in Clients /\ c.intent = client.intent
  <2>1. 0 \in 0..MaxRetries
    BY LifecycleAssumption
  <2> QED BY <1>1, <1>2, <2>1 DEF Clients
<1>4. PICK to \in {"idle", "backoff"} :
        /\ hooks' = h /\ pc' = [pc EXCEPT !["connect"] = to]
        /\ lock' = IF to = "backoff" THEN lock ELSE Tail(lock)
        /\ client' \in Clients /\ SameLinks(c, client')
  BY <1>2, <1>3, ConnectFails
<1>5. /\ hooks' \in Hooks /\ hooks'.token = hooks.token + 1 /\ hooks'.pending = NoHook
      /\ hooks'.holds = hooks.holds /\ hooks'.hook.tok = hooks.hook.tok
  BY <1>1, <1>2, <1>4, BeginAttempt
<1>6. /\ pc'["connect"] = to /\ \A a \in Tasks \ {"connect"} : pc'[a] = pc[a]
      /\ pc' \in [Tasks -> ConnectStates \cup DisconnectStates \cup SupervisorStates]
  BY <1>1, <1>4 DEF TypeInv, PcType, Tasks, ConnectStates
<1>7. TypeInv'
  BY <1>1, <1>4, <1>5, <1>6, LifecycleAssumption DEF TypeInv, PcType, ConnectStates, Tasks
<1>8. "connect" \in Tasks /\ Queues(pc, "connect") /\ lock # <<>> /\ Head(lock) = "connect"
  <2>1. "connect" \in Tasks /\ Queues(pc, "connect")
    BY DEF Queues, Tasks
  <2> QED BY <1>1, <2>1 DEF LockInv, LockOK, Woken, Has
<1>9. LockInv' /\ OrderInv'
  <2>1. \A a \in Tasks \ {"connect"} : (Queues(pc', a) <=> Queues(pc, a)) /\ (Owns(pc', a) => Owns(pc, a))
    BY <1>6 DEF Queues, Owns
  <2>2. client'.intent = client.intent
    BY <1>3, <1>4 DEF SameLinks
  <2>3. lock \in Seq(Tasks) /\ Distinct(lock)
    BY <1>1 DEF LockInv, LockOK
  <2>4. OrderInv'
    BY <1>1, <1>4, <1>8, <2>2, <2>3, OrderReleased DEF OrderInv
  <2>5. CASE to = "idle"
    <3>1. ~Queues(pc', "connect")
      BY <1>6, <2>5 DEF Queues, Trying
    <3>2. LockOK(Tail(lock), pc')
      BY <1>1, <1>8, <2>1, <3>1, LockReleased DEF LockInv
    <3> QED BY <1>4, <2>4, <2>5, <3>2 DEF LockInv
  <2>6. CASE to = "backoff"
    <3>1. Queues(pc', "connect")
      BY <1>6, <2>6 DEF Queues, Trying
    <3>2. LockOK(lock, pc')
      BY <1>1, <1>8, <2>1, <3>1, LockTaken DEF LockInv
    <3> QED BY <1>4, <2>4, <2>6, <3>2 DEF LockInv
  <2> QED BY <2>5, <2>6
<1>10. HoldsInv'
  <2>1. /\ \A a \in Attempting : pc'[a] \in Joining <=> pc[a] \in Joining
        /\ pc'["disconnect"] = pc["disconnect"]
    BY <1>6, LifecycleAssumption DEF Attempting, Tasks, Joining
  <2> QED BY <1>1, <1>5, <2>1 DEF HoldsInv
<1>11. TokenInv'
  <2>1. hooks.token \in Nat /\ hooks.hook.tok \in Nat /\ NoHook.pc = "none" /\ NoHook.tok = 0
    BY <1>1 DEF Hooks, Notes, NoHook
  <2> QED BY <1>1, <1>5, <2>1 DEF TokenInv
<1>12. ~Protected'
  <2>1. SUFFICES ASSUME OwnerInv PROVE FALSE
    BY DEF Inv, Protected
  <2>2. Alone
    BY <2>1, LifecycleAssumption DEF OwnerInv, SupervisorInv, Alone, Live,
       _has_active_explicit_connection
  <2> QED BY <1>8, <2>1, <2>2 DEF OwnerInv, WaitingInv, Up, _has_active_explicit_connection
<1> QED BY <1>1, <1>7, <1>9, <1>10, <1>11, <1>12 DEF Inv, BaseInv

\* TakeOver is one of the two.
LEMMA TakeOverStep ==
    ASSUME Inv, NEW h \in Hooks, NEW intent, TakeOver(h, intent),
           h.token = hooks.token, h.holds = hooks.holds, h.pending \in {hooks.pending, NoHook},
           h.hook.tok = hooks.hook.tok, h.hook.pc = "none" <=> hooks.hook.pc = "none",
           IF lock = <<>> THEN pc["connect"] = "idle" /\ intent = "connect"
           ELSE pc["connect"] = "lock" /\ Head(lock) = "connect" /\ intent = client.intent
    PROVE  Inv'
<1>1. PICK replacing \in BOOLEAN :
        client' = [client EXCEPT !.intent = intent, !.asked = FALSE,
                    !.task = IF Live(client.task) THEN client.task ELSE "none",
                    !.replacing = replacing]
  BY DEF TakeOver
<1>2. CASE ~Live(client.task)
  <2>1. /\ hooks' \in Hooks /\ hooks'.token = h.token /\ hooks'.pending = h.pending
        /\ hooks'.hook = h.hook /\ hooks'.holds = h.holds + 1
    BY <1>2, HoldHooks DEF TakeOver, ForceClose
  <2>2. client' = [client EXCEPT !.task = "none", !.intent = intent, !.asked = FALSE, !.replacing = replacing]
    BY <1>1, <1>2 DEF Inv, BaseInv, TypeInv, Clients
  <2>3. Cancelled(pc, client.task) = pc
    BY <1>2, LifecycleAssumption DEF Inv, BaseInv, TypeInv, PcType, Clients, Cancelled, Live, Tasks
  <2>4. ConnectTakes(intent)
    BY <1>2, <2>1, <2>2, <2>3 DEF TakeOver, ForceClose, ConnectTakes
  <2> QED BY <2>4, ConnectTakesStep
<1>3. CASE Live(client.task)
  <2>1. client' = [client EXCEPT !.intent = intent, !.asked = FALSE, !.replacing = replacing]
    BY <1>1, <1>3 DEF Inv, BaseInv, TypeInv, Clients
  <2>2. ConnectCancels(intent)
    BY <1>3, <2>1 DEF TakeOver, ConnectCancels
  <2> QED BY <2>2, ConnectCancelsStep
<1> QED BY <1>2, <1>3

\* A call of connect().
LEMMA ConnectCallsStep ==
    ASSUME Inv, ConnectCalls
    PROVE  Inv'
<1>1. TypeInv /\ hooks \in Hooks
  BY DEF Inv, BaseInv, TypeInv
<1>2. PICK h : h = begin_operation(hooks, FALSE, FALSE)
  OBVIOUS
<1>3. /\ h \in Hooks /\ h.token = hooks.token /\ h.pending = NoHook
      /\ h.holds = hooks.holds /\ h.hook.tok = hooks.hook.tok
      /\ h.hook.pc = "none" <=> hooks.hook.pc = "none"
  BY <1>1, <1>2, BeginCall
<1>4. CASE lock = <<>>
  <2>1. TakeOver(h, "connect") /\ pc["connect"] = "idle"
    BY <1>2, <1>4 DEF ConnectCalls
  <2> QED BY <1>3, <1>4, <2>1, TakeOverStep
<1>5. CASE lock # <<>>
  <2>1. ConnectQueues
    BY <1>5 DEF ConnectCalls, ConnectQueues
  <2> QED BY <2>1, ConnectQueuesStep
<1> QED BY <1>4, <1>5

\* connect() has the lock.
LEMMA ConnectLocksStep ==
    ASSUME Inv, ConnectLocks
    PROVE  Inv'
<1>1. TypeInv /\ LockInv /\ hooks \in Hooks
  BY DEF Inv, BaseInv, TypeInv
<1>2. CASE TakeOver(hooks, client.intent)
  <2>1. lock # <<>> /\ pc["connect"] = "lock" /\ Head(lock) = "connect"
    <3>1. "connect" \in Tasks /\ Queues(pc, "connect")
      BY DEF ConnectLocks, Queues, Tasks
    <3> QED BY <1>1, <3>1 DEF ConnectLocks, Woken, LockInv, LockOK, Has
  <2> QED BY <1>1, <1>2, <2>1, TakeOverStep
<1>3. CASE ~TakeOver(hooks, client.intent)
  BY <1>3, ConnectTooLate DEF ConnectLocks
<1> QED BY <1>2, <1>3

-----------------------------------------------------------------------------
(* disconnect().                                                           *)

\* A disconnect() that queues is behind any connect().
LEMMA OrderCalled ==
    ASSUME NEW l \in Seq(Tasks)
    PROVE  OrderOK(Append(l, "disconnect"))
<1>1. PICK u : u = Only(l, Callers) /\ u \in Seq(Callers)
  <2>1. Only(l, Callers) \in Seq(Tasks \cap Callers) /\ Tasks \cap Callers \subseteq Callers
    BY OnlyTyped
  <2> QED BY <2>1
<1>2. Only(Append(l, "disconnect"), Callers) = Append(u, "disconnect")
  BY <1>1, OnlyAppend DEF Callers, Tasks
<1>3. /\ Append(u, "disconnect")[Len(u) + 1] = "disconnect"
      /\ Len(Append(u, "disconnect")) = Len(u) + 1 /\ Len(u) \in Nat
  BY <1>1, AppendProperties DEF Callers
<1> QED BY <1>2, <1>3 DEF OrderOK, Reversed

\* Without disconnect() in the queue there is no order to keep.
LEMMA OrderAbsent ==
    ASSUME NEW l \in Seq(Tasks), ~Has(l, "disconnect")
    PROVE  OrderOK(l)
<1>1. PICK u : u = Only(l, Callers) /\ ~Has(u, "disconnect")
  BY OnlyMembers
<1> QED BY <1>1 DEF OrderOK, Reversed, Has

\* disconnect() queues for the lock at once.
DisconnectQueues(ends) ==
    /\ pc["disconnect"] = "idle" /\ lock' = Append(lock, "disconnect")
    /\ pc' = [pc EXCEPT !["disconnect"] = IF ends THEN "ending" ELSE "lock"]
    /\ IF ends THEN client.engine = "connecting" /\ \E a \in Attempting : pc[a] = "connack"
       ELSE ~Live(client.task)
    /\ client' = [client EXCEPT !.intentional = TRUE, !.reconnecting = FALSE, !.intent = "disconnect",
                                !.bye = (client.bye \/ ends)]
    /\ hooks' = begin_operation(hooks, FALSE, FALSE)
    /\ reader' = reader /\ cut' = cut

\* It keeps the invariant.
LEMMA DisconnectQueuesStep ==
    ASSUME Inv, NEW ends \in BOOLEAN, DisconnectQueues(ends)
    PROVE  Inv'
<1>1. TypeInv /\ LockInv /\ OrderInv /\ HoldsInv /\ TokenInv
  BY DEF Inv, BaseInv
<1>2. /\ hooks' \in Hooks /\ hooks \in Hooks /\ hooks'.token = hooks.token /\ hooks'.pending = NoHook
      /\ hooks'.holds = hooks.holds /\ hooks'.hook.tok = hooks.hook.tok
      /\ (hooks'.hook.pc = "none" <=> hooks.hook.pc = "none")
  BY <1>1, BeginCall DEF TypeInv, DisconnectQueues
<1>3. PICK bye \in BOOLEAN :
        /\ client' = [client EXCEPT !.intentional = TRUE, !.reconnecting = FALSE, !.intent = "disconnect", !.bye = bye]
        /\ (ends => bye) /\ (client.bye => bye)
  BY <1>1 DEF DisconnectQueues, TypeInv, Clients
<1>4. /\ pc["disconnect"] = "idle" /\ lock' = Append(lock, "disconnect") /\ reader' = reader /\ cut' = cut
      /\ pc' = [pc EXCEPT !["disconnect"] = IF ends THEN "ending" ELSE "lock"]
      /\ ends => \E a \in Attempting : pc[a] = "connack"
      /\ ~ends => ~Live(client.task)
  BY DEF DisconnectQueues
<1>5. /\ pc'["disconnect"] = (IF ends THEN "ending" ELSE "lock") /\ pc'["connect"] = pc["connect"]
      /\ \A s \in Supervisors : pc'[s] = pc[s]
  BY <1>1, <1>4, LifecycleAssumption DEF TypeInv, PcType, Tasks
<1>6. TypeInv'
  <2>1. PcType' /\ cut' \subseteq Windows
    BY <1>1, <1>2, <1>3, <1>5, <1>4, LifecycleAssumption DEF TypeInv, PcType, ConnectStates,
       DisconnectStates, SupervisorStates, Tasks, Attempting, Windows, Idle
  <2>2. reader' \in [Gens -> Readers]
    BY <1>1, <1>2, <1>3, <1>5, <1>4 DEF TypeInv, Readers, Idle
  <2>3. client' \in Clients
    <3>1. client \in Clients
      BY <1>1 DEF TypeInv
    <3>2. client' = [client EXCEPT !.intentional = TRUE, !.reconnecting = FALSE, !.intent = "disconnect", !.bye = bye]
      BY <1>3
    <3>3. bye \in BOOLEAN
      OBVIOUS
    <3> QED BY ONLY <3>1, <3>2, <3>3, ZenonT(60) DEF Clients
  <2> QED BY <1>2, <2>1, <2>2, <2>3 DEF TypeInv, PcType
<1>7. LockInv'
  <2>1. /\ "disconnect" \in Tasks /\ ~Queues(pc, "disconnect") /\ Queues(pc', "disconnect") /\ ~Owns(pc', "disconnect")
        /\ \A b \in Tasks \ {"disconnect"} : (Queues(pc', b) <=> Queues(pc, b)) /\ (Owns(pc', b) => Owns(pc, b))
    BY <1>1, <1>5, <1>4, LifecycleAssumption DEF Queues, Owns, Trying, Tasks
  <2> QED BY <1>1, <1>4, <2>1, LockJoined DEF LockInv
<1>8. OrderInv'
  <2>1. lock \in Seq(Tasks)
    BY <1>1 DEF LockInv, LockOK
  <2> QED BY <1>4, <2>1, OrderCalled DEF OrderInv
<1>9. HoldsInv'
  BY <1>1, <1>2, <1>3, <1>5, <1>4, LifecycleAssumption DEF HoldsInv, TypeInv, PcType, Joining,
     Tasks, Attempting, Hooks, Idle
<1>10. TokenInv'
  BY <1>1, <1>2, <1>3, <1>5, <1>4, LifecycleAssumption DEF TokenInv, Tries, TypeInv, PcType,
     Trying, Tasks, Attempting, Hooks, NoHook, Notes, Idle
<1>11. ASSUME Protected' PROVE OwnerInv'
  <2>1. OwnerInv
    BY <1>1, <1>2, <1>3, <1>5, <1>4, <1>11 DEF Inv, Protected, Idle
  <2>2. ~ends => Alone
    BY <1>4, <2>1, LifecycleAssumption DEF OwnerInv, SupervisorInv, Alone, Live
  <2>3. pc["connect"] = "lock" => Head(lock) # "disconnect"
    BY <1>1, <1>4 DEF LockInv, LockOK, Queues, Has, Tasks
  <2>4. /\ client'.gen = client.gen /\ client'.engine = client.engine /\ client'.reader = client.reader
        /\ client'.transport = client.transport /\ client'.task = client.task /\ client'.intentional
        /\ client'.intent = "disconnect" /\ (client.bye => client'.bye) /\ (ends => client'.bye)
    BY <1>1, <1>3 DEF TypeInv, Clients
  <2>5. \A a \in Attempting : pc'[a] = pc[a]
    BY <1>5 DEF Attempting
  <2>6. ReaderInv'
    BY <1>4, <2>1, <2>4, <2>5 DEF OwnerInv, ReaderInv
  <2>7. SupervisorInv'
    BY <1>2, <1>5, <1>4, <2>1, <2>4 DEF OwnerInv, SupervisorInv
  <2>8. WaitingInv'
    BY <1>5, <1>4, <2>1, <2>3, <2>4 DEF OwnerInv, WaitingInv, Alone
  <2>9. DisconnectInv'
    <3>1. ends => \E a \in Attempting : Closing(a)'
      BY <1>4, <2>4, <2>5 DEF Closing
    <3> QED BY <1>5, <2>2, <2>4, <3>1 DEF DisconnectInv, Alone
  <2>10. FinalInv'
    BY <1>5, <2>4 DEF FinalInv
  <2> QED BY <2>6, <2>7, <2>8, <2>9, <2>10 DEF OwnerInv
<1> QED BY <1>6, <1>7, <1>8, <1>9, <1>10, <1>11 DEF Inv, BaseInv

\* disconnect() cancels the supervisor it finds and joins it.
DisconnectJoins(s) ==
    /\ pc["disconnect"] = "idle" /\ client.task = s /\ pc[s] # "none"
    /\ pc' = [pc EXCEPT !["disconnect"] = "join", ![s] = CancelledPc(s)]
    /\ client' = [client EXCEPT !.intentional = TRUE, !.reconnecting = FALSE, !.intent = "disconnect",
                                !.task = IF CancelledPc(s) = "none" THEN "none" ELSE @]
    /\ lock' = IF CancelledPc(s) = "none" THEN Without(s) ELSE lock
    /\ IF CancelledPc(s) \in Joining THEN CancelReader(client.reader) ELSE UNCHANGED <<reader, cut>>
    /\ hooks' \in Hooks /\ hooks'.token = hooks.token /\ hooks'.pending = NoHook
    /\ hooks'.holds = hooks.holds + (IF pc[s] \in {"connack", "bye"} THEN 1 ELSE 0)
    /\ hooks'.hook.tok = hooks.hook.tok
    /\ hooks'.hook.pc = "none" <=> hooks.hook.pc = "none"

\* It keeps the invariant: the supervisor goes, or closes what it opened.
LEMMA DisconnectJoinsStep ==
    ASSUME Inv, NEW s \in Supervisors, DisconnectJoins(s)
    PROVE  Inv'
<1>1. TypeInv /\ LockInv /\ OrderInv /\ HoldsInv /\ TokenInv /\ client \in Clients
  BY DEF Inv, BaseInv, TypeInv
<1>2. PICK to \in {"none", "quit", "force", "fail", "cancelled"} :
        /\ to = CancelledPc(s)
        /\ to = "none" => pc[s] \in {"ready", "sleep", "lock", "stable", "dial"}
        /\ pc[s] \in {"connack", "bye"} => to = "quit"
        /\ to # "none" => pc[s] \in {"connack", "bye", to}
  BY <1>1 DEF CancelledPc, DisconnectJoins, TypeInv, PcType, SupervisorStates
<1>3. /\ pc'["disconnect"] = "join" /\ pc'["connect"] = pc["connect"] /\ pc'[s] = to
      /\ \A r \in Supervisors : r # s => pc'[r] = pc[r]
      /\ pc' \in [Tasks -> ConnectStates \cup DisconnectStates \cup SupervisorStates]
  <2>1. pc' = [pc EXCEPT !["disconnect"] = "join", ![s] = to]
    BY <1>2 DEF DisconnectJoins
  <2> QED BY <1>1, <1>2, <2>1, LifecycleAssumption DEF TypeInv, PcType, Tasks, DisconnectStates,
             SupervisorStates
<1>4. PICK task \in {"none", s} :
        /\ client' = [client EXCEPT !.intentional = TRUE, !.reconnecting = FALSE, !.intent = "disconnect",
                                    !.task = task]
        /\ task = IF to = "none" THEN "none" ELSE s
  BY <1>1, <1>2 DEF DisconnectJoins, Clients
<1>5. /\ client' \in Clients /\ client'.gen = client.gen /\ client'.engine = client.engine
      /\ client'.reader = client.reader /\ client'.transport = client.transport /\ client'.task = task
      /\ client'.intentional /\ client'.intent = "disconnect" /\ client'.bye = client.bye
  <2>1. client \in Clients /\ task \in Supervisors \cup {"none"}
    BY <1>1, <1>4
  <2>2. client' = [client EXCEPT !.intentional = TRUE, !.reconnecting = FALSE, !.intent = "disconnect",
                                 !.task = task]
    BY <1>4
  <2>3. client' \in Clients
    BY <2>1, <2>2, ZenonT(60) DEF Clients
  <2> QED BY <2>1, <2>2, <2>3 DEF Clients
<1>6. /\ pc["disconnect"] = "idle" /\ pc[s] # "none" /\ client.task = s
      /\ lock' = IF to = "none" THEN Without(s) ELSE lock
  BY <1>2 DEF DisconnectJoins
<1>7. /\ reader' \in [Gens -> Readers] /\ cut' \in {cut, cut \cup {"retire"}}
      /\ \A h \in Gens :
            /\ Idle(reader[h]) => Idle(reader'[h])
            /\ reader[h].pc \in {"reading", "fatal", "ending"} => reader'[h].pc \in {reader[h].pc, "ending"}
            /\ reader'[h].connack = reader[h].connack /\ reader'[h].tok = reader[h].tok
  <2>1. CASE to \in Joining
    <3>1. Cancels(client.reader)
      BY <1>1, <1>2, <2>1, CancelReaderStep DEF DisconnectJoins, Clients
    <3> QED BY <3>1, CancelsKeep DEF Cancels
  <2>2. CASE to \notin Joining
    BY <1>1, <1>2, <2>2 DEF DisconnectJoins, TypeInv
  <2> QED BY <2>1, <2>2
<1>8. TypeInv'
  <2>1. PcType'
    BY <1>1, <1>2, <1>3, LifecycleAssumption DEF TypeInv, PcType, DisconnectStates,
       SupervisorStates
  <2>2. cut' \subseteq Windows
    BY <1>1, <1>7 DEF TypeInv, Windows
  <2> QED BY <1>5, <1>7, <2>1, <2>2 DEF TypeInv, PcType, DisconnectJoins
<1>9. LockInv' /\ OrderInv'
  <2>1. lock \in Seq(Tasks) /\ ~Has(lock, "disconnect")
    BY <1>1, <1>6 DEF LockInv, LockOK, Queues, Tasks
  <2>2. OrderOK(lock)
    BY <2>1, OrderAbsent
  <2>3. CASE to = "none"
    <3>1. /\ ~Queues(pc', s)
          /\ \A a \in Tasks \ {s} : (Queues(pc', a) <=> Queues(pc, a)) /\ (Owns(pc', a) => Owns(pc, a))
      BY <1>3, <1>6, <2>3, LifecycleAssumption DEF Queues, Owns, Trying, Tasks
    <3>2. LockOK(Only(lock, Tasks \ {s}), pc')
      BY <1>1, <3>1, LockLeft DEF LockInv
    <3>3. OrderOK(Only(lock, Tasks \ {s}))
      BY <2>1, <2>2, LifecycleAssumption, OrderLeft
    <3> QED BY <1>6, <2>3, <3>2, <3>3 DEF LockInv, OrderInv, Without
  <2>4. CASE to # "none"
    <3>1. \A a \in Tasks : (Queues(pc', a) <=> Queues(pc, a)) /\ (Owns(pc', a) => Owns(pc, a))
      BY <1>2, <1>3, <1>6, <2>4, LifecycleAssumption DEF Queues, Owns, Trying, Tasks
    <3>2. LockOK(lock, pc')
      BY <1>1, <3>1, LockKept DEF LockInv
    <3> QED BY <1>6, <2>2, <2>4, <3>2 DEF LockInv, OrderInv
  <2> QED BY <2>3, <2>4
<1>10. HoldsInv'
  <2>1. s \in Attempting /\ pc'["disconnect"] \notin {"force", "shut"} /\ pc["disconnect"] \notin {"force", "shut"}
    BY <1>3, <1>6 DEF Attempting
  <2>2. CASE pc[s] \in {"connack", "bye"}
    <3>1. s \in Tasks /\ s # "disconnect"
      BY LifecycleAssumption DEF Tasks
    <3>2. Owns(pc, s) /\ \A a \in Tasks : Owns(pc, a) => a = s
      BY <1>1, <2>2, <3>1 DEF LockInv, LockOK, Owns, Trying
    <3>3. \A a \in Attempting : a \in Tasks /\ a # "disconnect"
      BY LifecycleAssumption DEF Attempting, Tasks
    <3>4. \A a \in Attempting : pc[a] \notin Joining
      BY <2>2, <3>2, <3>3 DEF Owns, Trying, Joining
    <3>5. pc'[s] \in Joining
      BY <1>2, <1>3, <2>2 DEF Joining
    <3> QED BY <1>1, <2>1, <2>2, <3>4, <3>5 DEF HoldsInv, DisconnectJoins
  <2>3. CASE pc[s] \notin {"connack", "bye"}
    <3>1. \A a \in Attempting : pc'[a] \in Joining <=> pc[a] \in Joining
      BY <1>2, <1>3, <2>3 DEF Attempting, Joining
    <3>2. hooks'.holds = hooks.holds
      BY <1>1, <2>3 DEF DisconnectJoins, TypeInv, Hooks
    <3> QED BY <1>1, <2>1, <3>1, <3>2 DEF HoldsInv
  <2> QED BY <2>2, <2>3
<1>11. TokenInv'
  <2>1. \A a \in Attempting : Tries(a)' => Tries(a)
    BY <1>2, <1>3, LifecycleAssumption DEF Tries, Trying, Attempting
  <2>2. hooks.token \in Nat /\ NoHook.pc = "none" /\ NoHook.tok = 0
    BY <1>1 DEF TypeInv, Hooks, NoHook
  <2> QED BY <1>1, <2>1, <2>2 DEF TokenInv, DisconnectJoins
<1>12. ASSUME Protected' PROVE OwnerInv'
  <2>1. OwnerInv
    BY <1>7, <1>12 DEF Inv, Protected
  <2>2. \A r \in Supervisors : r # s => pc[r] = "none"
    BY <1>6, <2>1 DEF OwnerInv, SupervisorInv
  <2>3. ReaderInv'
    <3>1. \A a \in Attempting : pc'[a] = IF a = s THEN to ELSE pc[a]
      BY <1>3, LifecycleAssumption DEF Attempting
    <3>2. client.gen \in 0..MaxGens
      BY <1>1 DEF Clients
    <3> QED BY <1>2, <1>5, <1>7, <2>1, <3>1, <3>2, LifecycleAssumption DEF OwnerInv, ReaderInv,
               Gens, Up
  <2>4. SupervisorInv'
    <3>1. hooks'.token = hooks.token
      BY DEF DisconnectJoins
    <3> QED BY <1>2, <1>3, <1>4, <1>5, <1>7, <2>1, <2>2, <3>1, LifecycleAssumption DEF OwnerInv,
               SupervisorInv, Up
  <2>5. WaitingInv'
    BY <1>2, <1>3, <2>2 DEF WaitingInv
  <2>6. DisconnectInv'
    BY <1>3, <1>5 DEF DisconnectInv
  <2>7. FinalInv'
    BY <1>3, <1>5 DEF FinalInv
  <2> QED BY <2>3, <2>4, <2>5, <2>6, <2>7 DEF OwnerInv
<1> QED BY <1>8, <1>9, <1>10, <1>11, <1>12 DEF Inv, BaseInv

\* A call of disconnect() queues for the lock or joins the supervisor,
LEMMA DisconnectCallsCases ==
    ASSUME TypeInv, DisconnectCalls
    PROVE  \/ \E ends \in BOOLEAN : DisconnectQueues(ends)
           \/ \E s \in Supervisors : DisconnectJoins(s)
<1>1. client \in Clients /\ hooks \in Hooks
  BY DEF TypeInv
<1>2. PICK s \in Supervisors \cup {"none"} : s = client.task
  BY <1>1 DEF Clients
<1>3. PICK ends \in BOOLEAN : ends = (client.engine = "connecting" /\ ~client.bye
                                      /\ \E a \in Attempting : pc[a] = "connack")
  OBVIOUS
<1>4. PICK c : c = [client EXCEPT !.intentional = TRUE, !.reconnecting = FALSE, !.intent = "disconnect"]
  OBVIOUS
<1>5. PICK h : h = begin_operation(hooks, FALSE, FALSE)
  OBVIOUS
<1>6. pc["disconnect"] = "idle"
  BY DEF DisconnectCalls
<1>7. CASE ends \/ ~Live(s)
  <2>1. /\ pc' = [pc EXCEPT !["disconnect"] = IF ends THEN "ending" ELSE "lock"]
        /\ lock' = Append(lock, "disconnect") /\ hooks' = h /\ reader' = reader /\ cut' = cut
        /\ client' = IF ends THEN [c EXCEPT !.bye = TRUE] ELSE c
    BY <1>2, <1>3, <1>4, <1>5, <1>7 DEF DisconnectCalls
  <2>2. client' = [client EXCEPT !.intentional = TRUE, !.reconnecting = FALSE, !.intent = "disconnect",
                                 !.bye = (client.bye \/ ends)]
    BY <1>1, <1>3, <1>4, <2>1 DEF Clients
  <2>3. DisconnectQueues(ends)
    BY <1>2, <1>3, <1>5, <1>6, <1>7, <2>1, <2>2 DEF DisconnectQueues
  <2> QED BY <2>3
<1>8. CASE ~ends /\ Live(s)
  <2>1. /\ pc' = [pc EXCEPT !["disconnect"] = "join", ![s] = CancelledPc(s)]
        /\ lock' = IF CancelledPc(s) = "none" THEN Without(s) ELSE lock
        /\ client' = [c EXCEPT !.task = IF CancelledPc(s) = "none" THEN "none" ELSE @]
        /\ IF CancelledPc(s) \in Joining THEN CancelReader(client.reader)
           ELSE UNCHANGED <<reader, cut>>
        /\ hooks' = IF pc[s] \in {"connack", "bye"} THEN hold(h) ELSE h
    BY <1>2, <1>3, <1>4, <1>5, <1>8 DEF DisconnectCalls
  <2>2. client' = [client EXCEPT !.intentional = TRUE, !.reconnecting = FALSE, !.intent = "disconnect",
                                 !.task = IF CancelledPc(s) = "none" THEN "none" ELSE @]
    BY <1>1, <1>4, <2>1 DEF Clients
  <2>3. /\ h \in Hooks /\ h.token = hooks.token /\ h.pending = NoHook
        /\ h.holds = hooks.holds /\ h.hook.tok = hooks.hook.tok
        /\ h.hook.pc = "none" <=> hooks.hook.pc = "none"
    BY <1>1, <1>5, BeginCall
  <2>4. /\ hold(h) \in Hooks /\ hold(h).token = h.token /\ hold(h).pending = h.pending
        /\ hold(h).hook = h.hook /\ hold(h).holds = h.holds + 1
    BY <2>3, HoldHooks
  <2>5. /\ hooks' \in Hooks /\ hooks'.token = hooks.token /\ hooks'.pending = NoHook
        /\ hooks'.holds = hooks.holds + (IF pc[s] \in {"connack", "bye"} THEN 1 ELSE 0)
        /\ hooks'.hook.tok = hooks.hook.tok
        /\ hooks'.hook.pc = "none" <=> hooks.hook.pc = "none"
    BY <1>1, <2>1, <2>3, <2>4 DEF Hooks
  <2>6. s \in Supervisors /\ pc[s] # "none"
    BY <1>2, <1>8 DEF Live
  <2>7. DisconnectJoins(s)
    BY <1>2, <1>6, <2>1, <2>2, <2>5, <2>6 DEF DisconnectJoins
  <2> QED BY <2>6, <2>7
<1> QED BY <1>7, <1>8

\* and keeps the invariant either way.
LEMMA DisconnectCallsStep ==
    ASSUME Inv, DisconnectCalls
    PROVE  Inv'
  BY DisconnectCallsCases, DisconnectQueuesStep, DisconnectJoinsStep DEF Inv, BaseInv

\* disconnect() has joined the supervisor and queues for the lock.
LEMMA DisconnectJoinedStep ==
    ASSUME Inv, DisconnectJoined
    PROVE  Inv'
<1>1. TypeInv /\ LockInv /\ OrderInv /\ HoldsInv /\ TokenInv /\ client \in Clients
  BY DEF Inv, BaseInv, TypeInv
<1>2. /\ pc["disconnect"] = "join" /\ ~Live(client.task) /\ ~(pc["connect"] = "lock" /\ Woken("connect"))
      /\ pc' = [pc EXCEPT !["disconnect"] = "lock"] /\ lock' = Append(lock, "disconnect")
      /\ client' = [client EXCEPT !.task = "none"]
      /\ reader' = reader /\ hooks' = hooks /\ cut' = cut
  BY DEF DisconnectJoined, Ended
<1>3. /\ pc'["disconnect"] = "lock" /\ pc'["connect"] = pc["connect"]
      /\ \A s \in Supervisors : pc'[s] = pc[s]
      /\ pc' \in [Tasks -> ConnectStates \cup DisconnectStates \cup SupervisorStates]
  BY <1>1, <1>2, LifecycleAssumption DEF TypeInv, PcType, Tasks, DisconnectStates
<1>4. /\ client' \in Clients /\ client'.gen = client.gen /\ client'.engine = client.engine
      /\ client'.reader = client.reader /\ client'.transport = client.transport /\ client'.task = "none"
      /\ client'.intentional = client.intentional /\ client'.intent = client.intent
      /\ client'.bye = client.bye
      /\ client'.old = client.old
  BY <1>1, <1>2 DEF Clients
<1>5. TypeInv'
  <2>1. PcType'
    BY <1>1, <1>3 DEF TypeInv, PcType, DisconnectStates
  <2> QED BY <1>1, <1>2, <1>4, <2>1 DEF TypeInv, PcType
<1>6. LockInv' /\ OrderInv'
  <2>1. /\ "disconnect" \in Tasks /\ ~Queues(pc, "disconnect") /\ Queues(pc', "disconnect") /\ ~Owns(pc', "disconnect")
        /\ \A b \in Tasks \ {"disconnect"} : (Queues(pc', b) <=> Queues(pc, b)) /\ (Owns(pc', b) => Owns(pc, b))
    BY <1>2, <1>3, LifecycleAssumption DEF Queues, Owns, Trying, Tasks
  <2>2. LockOK(lock', pc')
    BY <1>1, <1>2, <2>1, LockJoined DEF LockInv
  <2>3. OrderOK(lock')
    BY <1>1, <1>2, OrderCalled DEF LockInv, LockOK
  <2> QED BY <2>2, <2>3 DEF LockInv, OrderInv
<1>7. \A a \in Attempting : pc'[a] = pc[a]
  BY <1>3 DEF Attempting
<1>8. HoldsInv' /\ TokenInv'
  <2>1. pc'["disconnect"] \notin {"force", "shut"} /\ pc["disconnect"] \notin {"force", "shut"}
    BY <1>2, <1>3
  <2>2. HoldsInv'
    BY <1>1, <1>2, <1>7, <2>1 DEF HoldsInv
  <2> QED BY <1>1, <1>2, <1>7, <2>2 DEF TokenInv, Tries
<1>9. ASSUME Protected' PROVE OwnerInv'
  <2>1. OwnerInv
    BY <1>2, <1>9 DEF Inv, Protected
  <2>2. Alone
    BY <1>2, <2>1, LifecycleAssumption DEF OwnerInv, SupervisorInv, Alone, Live
  <2>3. pc["connect"] # "lock"
    <3>1. SUFFICES ASSUME pc["connect"] = "lock" PROVE FALSE
      OBVIOUS
    <3>2. Has(lock, "connect") /\ "connect" \in Tasks /\ lock \in Seq(Tasks) /\ Distinct(lock)
      BY <1>1, <3>1 DEF LockInv, LockOK, Queues, Tasks
    <3>3. lock # <<>>
      BY <3>2 DEF Has
    <3>4. Head(lock) \in Tasks /\ Has(lock, Head(lock))
      BY <3>2, <3>3, HasTail
    <3>5. Queues(pc, Head(lock))
      BY <1>1, <3>4 DEF LockInv, LockOK
    <3>6. Head(lock) = "connect"
      BY <1>2, <2>2, <3>4, <3>5, LifecycleAssumption DEF Alone, Queues, Tasks, Trying
    <3> QED BY <1>2, <3>1, <3>6 DEF Woken
  <2>4. client.intent # "off"
    BY <1>2, <2>1 DEF OwnerInv, FinalInv
  <2>5. ReaderInv'
    BY <1>2, <1>4, <1>7, <2>1 DEF OwnerInv, ReaderInv
  <2>6. SupervisorInv'
    BY <1>2, <1>3, <1>4, <2>1, <2>2 DEF OwnerInv, SupervisorInv, Alone
  <2>7. WaitingInv'
    BY <1>3, <2>3 DEF WaitingInv
  <2>8. DisconnectInv'
    BY <1>2, <1>3, <1>4, <2>1, <2>2 DEF OwnerInv, DisconnectInv, Alone
  <2>9. FinalInv'
    BY <1>3, <1>4, <2>4 DEF FinalInv
  <2> QED BY <2>5, <2>6, <2>7, <2>8, <2>9 DEF OwnerInv
<1> QED BY <1>5, <1>6, <1>8, <1>9 DEF Inv, BaseInv

\* What disconnect() at the head of the lock may rely on.
LEMMA DisconnectHead ==
    ASSUME Inv, lock # <<>>, Head(lock) = "disconnect"
    PROVE  /\ \A a \in Attempting : pc[a] \notin Trying \cup {"cancel", "force"}
           /\ client.intent # "connect" => pc["connect"] \notin Trying \cup {"cancel", "force", "lock"}
           /\ client.intent # "connect" => pc["connect"] = "idle"
<1>1. LockInv /\ OrderInv /\ TypeInv
  BY DEF Inv, BaseInv
<1>2. \A a \in Attempting : a \in Tasks /\ a # "disconnect"
  BY LifecycleAssumption DEF Attempting, Tasks
<1>3. \A a \in Attempting : pc[a] \notin Trying \cup {"cancel", "force"}
  BY <1>1, <1>2 DEF LockInv, LockOK, Owns
<1>4. ASSUME client.intent # "connect" PROVE pc["connect"] \notin Trying \cup {"cancel", "force", "lock"}
  <2>1. lock \in Seq(Tasks) /\ Distinct(lock) /\ OrderOK(lock)
    BY <1>1, <1>4 DEF LockInv, LockOK, OrderInv
  <2>2. ~Has(lock, "connect")
    BY <2>1, OrderUsed
  <2> QED BY <1>1, <2>2 DEF LockInv, LockOK, Queues, Tasks
<1>5. client.intent # "connect" => pc["connect"] = "idle"
  BY <1>1, <1>4 DEF TypeInv, PcType, ConnectStates, Trying
<1> QED BY <1>3, <1>4, <1>5

\* disconnect() returns, with or without the lock.
DisconnectReturns ==
    /\ pc["disconnect"] \in {"lock", "ending", "force", "shut"}
    /\ pc' = [pc EXCEPT !["disconnect"] = "idle"]
    /\ reader' = reader /\ cut' = cut
    /\ IF pc["disconnect"] \in {"lock", "ending"}
       THEN lock # <<>> /\ Head(lock) = "disconnect" /\ lock' = Tail(lock) /\ hooks' = hooks
       ELSE lock' = lock /\ hooks' = release(hooks)
    /\ client' \in Clients /\ client'.gen = client.gen /\ client'.engine = client.engine
    /\ client'.old = client.old /\ client'.bye = client.bye /\ client'.intentional = client.intentional
    /\ client'.intent = IF client.intent = "disconnect" THEN "off" ELSE client.intent
    /\ Protected =>
        /\ \/ client'.reader = client.reader /\ client'.transport = client.transport
           \/ AllIdle /\ client'.reader = 0 /\ client'.transport \in {0, client.transport}
        /\ client'.task = client.task \/ Alone
        /\ pc["disconnect"] \in {"lock", "ending"} => client.engine \notin Up
        /\ client.intent # "connect" =>
            /\ client.engine \in {"new", "disconnected"} /\ client'.transport = 0
            /\ pc["connect"] = "idle" /\ client.intentional
            /\ \A s \in Supervisors : pc[s] \in {"none", "ready"}

\* It keeps the invariant.
LEMMA DisconnectReturnsStep ==
    ASSUME Inv, DisconnectReturns
    PROVE  Inv'
<1>1. TypeInv /\ LockInv /\ OrderInv /\ HoldsInv /\ TokenInv /\ client \in Clients /\ hooks \in Hooks
  BY DEF Inv, BaseInv, TypeInv
<1>2. /\ pc["disconnect"] \in {"lock", "ending", "force", "shut"}
      /\ pc' = [pc EXCEPT !["disconnect"] = "idle"]
      /\ reader' = reader /\ cut' = cut
  BY DEF DisconnectReturns
<1>3. /\ pc'["disconnect"] = "idle" /\ pc'["connect"] = pc["connect"]
      /\ \A s \in Supervisors : pc'[s] = pc[s]
      /\ pc' \in [Tasks -> ConnectStates \cup DisconnectStates \cup SupervisorStates]
  BY <1>1, <1>2, LifecycleAssumption DEF TypeInv, PcType, Tasks, DisconnectStates
<1>4. /\ hooks' \in Hooks /\ hooks'.token = hooks.token /\ hooks'.pending = hooks.pending
      /\ hooks'.hook = hooks.hook
      /\ hooks'.ready = hooks.ready
      /\ hooks'.holds = IF pc["disconnect"] \in {"force", "shut"} THEN hooks.holds - 1 ELSE hooks.holds
  BY <1>1, <1>2, ReleaseHooks DEF DisconnectReturns
<1>5. /\ client' \in Clients /\ client'.gen = client.gen /\ client'.engine = client.engine
      /\ client'.old = client.old /\ client'.bye = client.bye
      /\ client'.intentional = client.intentional
      /\ client'.intent = IF client.intent = "disconnect" THEN "off" ELSE client.intent
  BY DEF DisconnectReturns
<1>6. TypeInv'
  <2>1. PcType'
    BY <1>1, <1>3 DEF TypeInv, PcType, DisconnectStates
  <2> QED BY <1>1, <1>2, <1>4, <1>5, <2>1 DEF TypeInv, PcType
<1>7. LockInv' /\ OrderInv'
  <2>1. /\ "disconnect" \in Tasks /\ ~Queues(pc', "disconnect")
        /\ \A b \in Tasks \ {"disconnect"} : (Queues(pc', b) <=> Queues(pc, b)) /\ (Owns(pc', b) => Owns(pc, b))
    BY <1>3, LifecycleAssumption DEF Queues, Owns, Tasks
  <2>2. CASE pc["disconnect"] \in {"lock", "ending"}
    <3>1. lock # <<>> /\ Head(lock) = "disconnect" /\ lock' = Tail(lock)
      BY <2>2 DEF DisconnectReturns
    <3>2. LockOK(lock', pc')
      BY <1>1, <2>1, <3>1, LockReleased DEF LockInv
    <3>3. client'.intent # "connect" => OrderOK(lock')
      BY <1>1, <1>5, <3>1, OrderReleased DEF OrderInv, LockInv, LockOK
    <3> QED BY <3>2, <3>3 DEF LockInv, OrderInv
  <2>3. CASE pc["disconnect"] \notin {"lock", "ending"}
    <3>1. lock' = lock
      BY <2>3 DEF DisconnectReturns
    <3>2. ~Queues(pc, "disconnect") /\ ~Owns(pc', "disconnect")
      BY <1>2, <1>3, <2>3 DEF Queues, Owns
    <3>3. LockOK(lock, pc')
      BY <1>1, <2>1, <3>2, LockKept DEF LockInv
    <3> QED BY <1>1, <1>5, <3>1, <3>3 DEF LockInv, OrderInv
  <2> QED BY <2>2, <2>3
<1>8. \A a \in Attempting : pc'[a] = pc[a]
  BY <1>3 DEF Attempting
<1>9. HoldsInv' /\ TokenInv'
  <2>1. hooks.holds \in Int /\ pc'["disconnect"] \notin {"force", "shut"}
    BY <1>1, <1>3 DEF Hooks
  <2>2. HoldsInv'
    BY <1>1, <1>4, <1>8, <2>1 DEF HoldsInv
  <2> QED BY <1>1, <1>4, <1>8, <2>2 DEF TokenInv, Tries
<1>10. ASSUME Protected' PROVE OwnerInv'
  <2>1. OwnerInv /\ Protected
    BY <1>2, <1>10 DEF Inv, Protected
  <2>2. /\ \/ client'.reader = client.reader /\ client'.transport = client.transport
           \/ AllIdle /\ client'.reader = 0 /\ client'.transport \in {0, client.transport}
        /\ client'.task = client.task \/ Alone
        /\ pc["disconnect"] \in {"lock", "ending"} => client.engine \notin Up
        /\ client.intent # "connect" =>
            /\ client.engine \in {"new", "disconnected"} /\ client'.transport = 0
            /\ pc["connect"] = "idle" /\ client.intentional
            /\ \A s \in Supervisors : pc[s] \in {"none", "ready"}
    BY <2>1 DEF DisconnectReturns
  <2>3. ReaderInv'
    BY <1>2, <1>5, <1>8, <2>1, <2>2 DEF OwnerInv, ReaderInv, AllIdle
  <2>4. SupervisorInv'
    BY <1>2, <1>3, <1>4, <1>5, <2>1, <2>2 DEF OwnerInv, SupervisorInv, Alone
  <2>5. WaitingInv'
    <3>1. ASSUME pc["connect"] = "lock", client.engine \in Up
          PROVE  reader[client.gen].pc = "ending" \/ ~Alone
      <4>1. pc["disconnect"] \in {"force", "shut"}
        BY <1>2, <2>2, <3>1
      <4>2. Head(lock) # "disconnect"
        <5>1. ~Has(lock, "disconnect") /\ lock \in Seq(Tasks) /\ Distinct(lock) /\ Has(lock, "connect")
          BY <1>1, <3>1, <4>1 DEF LockInv, LockOK, Queues, Tasks
        <5>2. lock # <<>>
          BY <5>1 DEF Has
        <5> QED BY <5>1, <5>2, HasTail
      <4> QED BY <2>1, <3>1, <4>1, <4>2 DEF OwnerInv, WaitingInv
    <3> QED BY <1>2, <1>3, <1>5, <2>1, <3>1 DEF OwnerInv, WaitingInv, Alone
  <2>6. DisconnectInv'
    BY <1>3 DEF DisconnectInv
  <2>7. FinalInv'
    BY <1>3, <1>5, <2>2 DEF FinalInv
  <2> QED BY <2>3, <2>4, <2>5, <2>6, <2>7 DEF OwnerInv
<1> QED BY <1>6, <1>7, <1>9, <1>10 DEF Inv, BaseInv

\* Without a transport every reader is over, and so is the engine.
LEMMA NoTransport ==
    ASSUME TypeInv, OwnerInv, client.transport = 0 \/ client.reader = 0
    PROVE  AllIdle /\ client.engine \in {"new", "disconnected"}
<1>1. \A g \in Gens : g # 0
  BY LifecycleAssumption DEF Gens
<1>2. AllIdle
  BY <1>1 DEF OwnerInv, ReaderInv, AllIdle
<1>3. client.gen \in 0..MaxGens /\ client.engine \in {"new", "connecting", "connected", "disconnecting", "disconnected"}
  BY DEF TypeInv, Clients
<1>4. client.gen > 0 => client.gen \in Gens
  BY <1>3, LifecycleAssumption DEF Gens
<1>5. client.engine \notin {"connecting", "connected", "disconnecting"}
  BY <1>2, <1>4 DEF OwnerInv, ReaderInv, AllIdle, Idle
<1> QED BY <1>2, <1>3, <1>5

\* The client after Returns.
LEMMA ReturnsClient ==
    ASSUME NEW c \in Clients
    PROVE  /\ Returns(c) \in Clients /\ Returns(c).gen = c.gen /\ Returns(c).engine = c.engine
           /\ Returns(c).old = c.old /\ Returns(c).bye = c.bye /\ Returns(c).intentional = c.intentional
           /\ Returns(c).reader = c.reader /\ Returns(c).transport = c.transport /\ Returns(c).task = c.task
           /\ Returns(c).intent = IF c.intent = "disconnect" THEN "off" ELSE c.intent
<1>1. PICK i \in {"connect", "disconnect", "off"} : i = IF c.intent = "disconnect" THEN "off" ELSE c.intent
  BY DEF Clients
<1>2. PICK d : d = Returns(c)
  OBVIOUS
<1>3. d = [c EXCEPT !.intent = i]
  BY <1>1, <1>2 DEF Returns
<1>4. /\ d \in Clients /\ d.gen = c.gen /\ d.engine = c.engine
      /\ d.old = c.old /\ d.bye = c.bye /\ d.intentional = c.intentional
      /\ d.reader = c.reader /\ d.transport = c.transport /\ d.task = c.task
      /\ d.intent = i
  BY <1>3 DEF Clients
<1> QED BY <1>1, <1>2, <1>4

\* disconnect() starts closing: the reader of a connection still up is told to end.
LEMMA DisconnectClosesStep ==
    ASSUME Inv, pc["disconnect"] \in {"lock", "flush"}, lock # <<>>, Head(lock) = "disconnect", DisconnectCloses
    PROVE  Inv'
<1>1. TypeInv /\ LockInv /\ OrderInv /\ HoldsInv /\ TokenInv /\ client \in Clients /\ hooks \in Hooks
  BY DEF Inv, BaseInv, TypeInv
<1>2. /\ pc' = [Cancelled(pc, client.task) EXCEPT !["disconnect"] = "force"]
      /\ client' = [client EXCEPT !.old = client.reader, !.task = "none"]
      /\ lock' = Tail(Without(client.task)) /\ hooks' = hold(hooks) /\ CancelReader(client.reader)
  BY DEF DisconnectCloses, ForceClose
<1>3. CancelledBut("disconnect", "force") /\ Cancels(client.reader) /\ client.reader \in 0..MaxGens
  BY <1>1, <1>2, CancelSupervisor, CancelReaderStep DEF DisconnectStates, Clients
<1>4. /\ pc'["disconnect"] = "force" /\ pc'["connect"] = pc["connect"]
      /\ \A s \in Supervisors : pc'[s] = IF s = client.task THEN "none" ELSE pc[s]
      /\ pc' \in [Tasks -> ConnectStates \cup DisconnectStates \cup SupervisorStates]
  BY <1>1, <1>3, LifecycleAssumption DEF CancelledBut, Tasks, Clients
<1>5. /\ client' \in Clients /\ client'.gen = client.gen /\ client'.engine = client.engine
      /\ client'.reader = client.reader /\ client'.transport = client.transport /\ client'.task = "none"
      /\ client'.intentional = client.intentional /\ client'.intent = client.intent
      /\ client'.bye = client.bye
      /\ client'.old = client.reader
  <2>1. client.reader \in 0..MaxGens /\ client \in Clients
    BY <1>1, <1>3
  <2> QED BY <1>2, <2>1 DEF Clients
<1>6. /\ hooks' \in Hooks /\ hooks'.token = hooks.token /\ hooks'.pending = hooks.pending
      /\ hooks'.hook = hooks.hook
      /\ hooks'.ready = hooks.ready /\ hooks'.holds = hooks.holds + 1
  BY <1>1, <1>2, HoldHooks
<1>7. TypeInv'
  <2>1. PcType'
    BY <1>1, <1>4 DEF TypeInv, PcType, DisconnectStates, SupervisorStates
  <2>2. reader' \in [Gens -> Readers] /\ cut' \subseteq Windows
    BY <1>1, <1>3 DEF Cancels, TypeInv, Windows
  <2> QED BY <1>5, <1>6, <2>1, <2>2 DEF TypeInv, PcType
<1>8. LockInv' /\ OrderInv'
  <2>1. PICK q, s, l : q = Cancelled(pc, s) /\ s = client.task /\ s \in Supervisors \cup {"none"} /\ l = Without(s)
    BY <1>1 DEF Clients
  <2>2. \A a \in Tasks : q[a] = IF a = s THEN "none" ELSE pc[a]
    BY <2>1 DEF Cancelled
  <2>3. \A a \in Tasks : pc'[a] = IF a = "disconnect" THEN "force" ELSE q[a]
    BY <1>3, <2>1, <2>2 DEF CancelledBut
  <2>4. LockOK(l, q) /\ l # <<>> /\ Head(l) = "disconnect"
    BY <1>1, <2>1, LockCancelled, LifecycleAssumption
  <2>5. /\ "disconnect" \in Tasks /\ ~Queues(pc', "disconnect")
        /\ \A b \in Tasks \ {"disconnect"} : (Queues(pc', b) <=> Queues(q, b)) /\ (Owns(pc', b) => Owns(q, b))
    BY <2>3 DEF Queues, Owns, Tasks
  <2>6. LockOK(Tail(l), pc')
    BY <2>4, <2>5, LockReleased
  <2>7. client.intent # "connect" => OrderOK(Tail(l))
    BY <1>1, <2>1, <2>4, OrderCancelled, OrderReleased DEF LockOK
  <2> QED BY <1>2, <1>5, <2>1, <2>6, <2>7 DEF LockInv, OrderInv
<1>9. \A a \in Attempting : pc[a] \notin Trying \cup {"force"} /\ pc'[a] \notin Trying \cup {"force"}
  <2>1. \A a \in Attempting : pc[a] \notin Trying \cup {"force"}
    BY DisconnectHead
  <2> QED BY <1>4, <2>1 DEF Attempting, Trying
<1>10. HoldsInv' /\ TokenInv'
  <2>1. \A a \in Attempting : pc[a] \notin Joining /\ pc'[a] \notin Joining /\ ~Tries(a)'
    BY <1>9 DEF Joining, Trying, Tries
  <2>2. HoldsInv'
    BY <1>1, <1>4, <1>6, <2>1 DEF HoldsInv
  <2> QED BY <1>1, <1>6, <2>1, <2>2 DEF TokenInv
<1>11. ASSUME Protected' PROVE OwnerInv'
  <2>1. OwnerInv
    BY <1>3, <1>11 DEF Inv, Protected, Cancels
  <2>2. Alone /\ Alone'
    BY <1>4, <2>1 DEF OwnerInv, DisconnectInv, Alone
  <2>3. client.intentional /\ client.intent # "off"
    BY <2>1 DEF OwnerInv, DisconnectInv, FinalInv
  <2>4. client.intent # "connect" => pc["connect"] = "idle"
    BY DisconnectHead
  <2>5. \A h \in Gens :
            /\ Idle(reader[h]) => Idle(reader'[h])
            /\ reader[h].pc \in {"reading", "fatal", "ending"} => reader'[h].pc \in {reader[h].pc, "ending"}
            /\ reader'[h].connack = reader[h].connack /\ reader'[h].tok = reader[h].tok
    BY <1>3, CancelsKeep
  <2>6. client.gen \in 0..MaxGens
    BY <1>1 DEF Clients
  <2>7. ReaderInv'
    BY <1>5, <1>9, <2>1, <2>5, <2>6, LifecycleAssumption DEF OwnerInv, ReaderInv, Attempting,
       Trying, Gens, Up
  <2>8. SupervisorInv'
    BY <1>4, <1>5, <1>6, <2>1, <2>2, <2>5 DEF OwnerInv, SupervisorInv, Alone
  <2>9. client.engine \in Up => reader'[client.gen].pc = "ending"
    <3>1. SUFFICES ASSUME client.engine \in Up PROVE reader'[client.gen].pc = "ending"
      OBVIOUS
    <3>2. client.gen > 0 /\ reader[client.gen].pc \in {"reading", "ending"}
      BY <2>1, <3>1 DEF OwnerInv, ReaderInv, Up
    <3>3. client.gen \in Gens
      BY <2>6, <3>2, LifecycleAssumption DEF Gens
    <3>4. client.reader = client.gen /\ client.reader # 0
      BY <2>1, <3>2, <3>3 DEF OwnerInv, ReaderInv, Idle
    <3> QED BY <1>3, <3>2, <3>3, <3>4 DEF Cancels
  <2>10. WaitingInv'
    BY <1>4, <1>5, <2>2, <2>9 DEF WaitingInv, Alone
  <2>11. DisconnectInv'
    <3>1. client.reader \in {0, client'.old}
      BY <1>5
    <3> QED BY <1>4, <1>5, <2>2, <2>3, <3>1 DEF DisconnectInv
  <2>12. FinalInv'
    BY <1>4, <1>5, <2>3, <2>4 DEF FinalInv
  <2> QED BY <2>7, <2>8, <2>10, <2>11, <2>12 DEF OwnerInv
<1> QED BY <1>7, <1>8, <1>10, <1>11 DEF Inv, BaseInv

\* disconnect() has the lock and lets the DISCONNECT out.
LEMMA DisconnectFlushes ==
    ASSUME Inv, pc["disconnect"] = "lock", lock # <<>>, Head(lock) = "disconnect", client.engine = "connected",
           client' = [client EXCEPT !.engine = "disconnecting"],
           pc' = [pc EXCEPT !["disconnect"] = "flush"], UNCHANGED <<lock, reader, hooks, cut>>
    PROVE  Inv'
<1>1. TypeInv /\ LockInv /\ OrderInv /\ HoldsInv /\ TokenInv /\ client \in Clients
  BY DEF Inv, BaseInv, TypeInv
<1>2. lock' = lock /\ reader' = reader /\ hooks' = hooks /\ cut' = cut
  OBVIOUS
<1>3. /\ pc'["disconnect"] = "flush" /\ pc'["connect"] = pc["connect"]
      /\ \A s \in Supervisors : pc'[s] = pc[s]
      /\ pc' \in [Tasks -> ConnectStates \cup DisconnectStates \cup SupervisorStates]
  BY <1>1, LifecycleAssumption DEF TypeInv, PcType, Tasks, DisconnectStates
<1>4. /\ client' \in Clients /\ client'.gen = client.gen /\ client'.engine = "disconnecting"
      /\ client'.reader = client.reader /\ client'.transport = client.transport
      /\ client'.task = client.task
      /\ client'.intentional = client.intentional /\ client'.intent = client.intent
      /\ client'.bye = client.bye
      /\ client'.old = client.old
  BY <1>1 DEF Clients
<1>5. TypeInv'
  <2>1. PcType'
    BY <1>1, <1>3 DEF TypeInv, PcType, DisconnectStates
  <2> QED BY <1>1, <1>2, <1>4, <2>1 DEF TypeInv, PcType
<1>6. LockInv' /\ OrderInv'
  <2>1. /\ "disconnect" \in Tasks /\ Queues(pc', "disconnect")
        /\ \A b \in Tasks : (Queues(pc', b) <=> Queues(pc, b)) /\ (Owns(pc', b) => Owns(pc, b) \/ b = "disconnect")
    BY <1>3, LifecycleAssumption DEF Queues, Owns, Tasks
  <2>2. LockOK(lock, pc')
    BY <1>1, <2>1, LockTaken DEF LockInv
  <2> QED BY <1>1, <1>2, <1>4, <2>2 DEF LockInv, OrderInv
<1>7. \A a \in Attempting : pc'[a] = pc[a]
  BY <1>3 DEF Attempting
<1>8. HoldsInv' /\ TokenInv'
  <2>1. pc'["disconnect"] \notin {"force", "shut"} /\ pc["disconnect"] \notin {"force", "shut"}
    BY <1>3
  <2>2. HoldsInv'
    BY <1>1, <1>2, <1>7, <2>1 DEF HoldsInv
  <2> QED BY <1>1, <1>2, <1>7, <2>2 DEF TokenInv, Tries
<1>9. ASSUME Protected' PROVE OwnerInv'
  <2>1. OwnerInv
    BY <1>2, <1>9 DEF Inv, Protected
  <2>2. Alone /\ client.intentional /\ client.intent # "off"
    BY <2>1 DEF OwnerInv, DisconnectInv, FinalInv
  <2>3. client.intent # "connect" => pc["connect"] = "idle"
    BY DisconnectHead
  <2>4. ReaderInv'
    BY <1>2, <1>4, <1>7, <2>1 DEF OwnerInv, ReaderInv, Up
  <2>5. SupervisorInv'
    BY <1>2, <1>3, <1>4, <2>1, <2>2 DEF OwnerInv, SupervisorInv, Alone
  <2>6. WaitingInv'
    BY <1>3, <1>4 DEF WaitingInv, Up
  <2>7. DisconnectInv'
    BY <1>3, <1>4, <2>2 DEF DisconnectInv, Alone, Up
  <2>8. FinalInv'
    BY <1>3, <1>4, <2>2, <2>3 DEF FinalInv
  <2> QED BY <2>4, <2>5, <2>6, <2>7, <2>8 DEF OwnerInv
<1> QED BY <1>5, <1>6, <1>8, <1>9 DEF Inv, BaseInv

\* disconnect() has the lock.
LEMMA DisconnectLocksStep ==
    ASSUME Inv, DisconnectLocks
    PROVE  Inv'
<1>1. TypeInv /\ LockInv /\ client \in Clients
  BY DEF Inv, BaseInv, TypeInv
<1>2. pc["disconnect"] \in {"lock", "ending"} /\ Head(lock) = "disconnect"
  BY DEF DisconnectLocks, Woken
<1>3. lock # <<>>
  BY <1>1, <1>2 DEF LockInv, LockOK, Queues, Has, Tasks
<1>4. /\ \A a \in Attempting : pc[a] \notin Trying \cup {"cancel", "force"}
      /\ client.intent # "connect" => pc["connect"] = "idle"
  BY <1>2, <1>3, DisconnectHead
<1>5. CASE /\ pc["disconnect"] = "ending" /\ pc' = [pc EXCEPT !["disconnect"] = "idle"]
           /\ client' = Returns(client) /\ Released /\ UNCHANGED <<reader, hooks, cut>>
  <2>1. ASSUME Protected
        PROVE /\ client.engine = "disconnected" /\ client.transport = 0 /\ client.intentional
              /\ \A s \in Supervisors : pc[s] \in {"none", "ready"}
    <3>1. OwnerInv
      BY <2>1 DEF Inv
    <3>2. \A a \in Attempting : ~Closing(a)
      BY <1>4 DEF Closing, Trying
    <3>3. \A s \in Supervisors : pc[s] # "cancelled"
      BY <1>4, <3>1 DEF OwnerInv, SupervisorInv, Attempting
    <3> QED BY <1>5, <3>1, <3>2, <3>3 DEF OwnerInv, DisconnectInv
  <2>2. DisconnectReturns
    BY <1>1, <1>2, <1>3, <1>4, <1>5, <2>1, ReturnsClient DEF DisconnectReturns, Released, Up
  <2> QED BY <2>2, DisconnectReturnsStep
<1>6. CASE /\ pc["disconnect"] = "lock" /\ client.transport = 0
           /\ pc' = [pc EXCEPT !["disconnect"] = "idle"]
           /\ IF _will_reconnect(client) THEN client' = Returns(client)
              ELSE client' \in {Returns(c) : c \in _terminal_shutdown(client)}
           /\ Released /\ UNCHANGED <<reader, hooks, cut>>
  <2>1. PICK c \in Clients : client' = Returns(c) /\ SameLinks(client, c) /\ c.task = client.task
                             /\ c.intentional = client.intentional
    <3>1. CASE _will_reconnect(client)
      BY <1>1, <1>6, <3>1 DEF SameLinks
    <3>2. CASE ~_will_reconnect(client)
      <4>1. PICK c \in _terminal_shutdown(client) : client' = Returns(c)
        BY <1>6, <3>2
      <4>2. PICK latch \in BOOLEAN :
              c = [client EXCEPT !.reconnecting = FALSE, !.closed = TRUE, !.owed = FALSE, !.latch = latch]
        BY <1>1, <4>1, TerminalShutdown
      <4>3. c \in Clients /\ SameLinks(client, c) /\ c.task = client.task /\ c.intentional = client.intentional
        BY <1>1, <4>2 DEF Clients, SameLinks
      <4> QED BY <4>1, <4>3
    <3> QED BY <3>1, <3>2
  <2>2. /\ client' \in Clients /\ client'.gen = client.gen /\ client'.engine = client.engine
        /\ client'.old = client.old /\ client'.bye = client.bye
        /\ client'.intentional = client.intentional
        /\ client'.reader = client.reader /\ client'.transport = client.transport
        /\ client'.task = client.task
        /\ client'.intent = IF client.intent = "disconnect" THEN "off" ELSE client.intent
    BY <2>1, ReturnsClient DEF SameLinks
  <2>3. ASSUME Protected
        PROVE  client.engine \in {"new", "disconnected"} /\ client.intentional /\ Alone
    <3>1. OwnerInv
      BY <2>3 DEF Inv
    <3>2. client.intentional /\ Alone
      BY <1>6, <3>1 DEF OwnerInv, DisconnectInv
    <3>3. client.engine \in {"new", "disconnected"}
      BY <1>1, <1>6, <3>1, NoTransport
    <3> QED BY <3>2, <3>3
  <2>4. DisconnectReturns
    BY <1>2, <1>3, <1>4, <1>6, <2>2, <2>3 DEF DisconnectReturns, Released, Up, Alone
  <2> QED BY <2>4, DisconnectReturnsStep
<1>7. CASE /\ pc["disconnect"] = "lock" /\ client.engine = "connected"
           /\ client' = [client EXCEPT !.engine = "disconnecting"]
           /\ pc' = [pc EXCEPT !["disconnect"] = "flush"]
           /\ UNCHANGED <<lock, reader, hooks, cut>>
  BY <1>2, <1>3, <1>7, DisconnectFlushes
<1>8. CASE pc["disconnect"] = "lock" /\ DisconnectCloses
  BY <1>2, <1>3, <1>8, DisconnectClosesStep
<1> QED BY <1>5, <1>6, <1>7, <1>8 DEF DisconnectLocks

\* Its DISCONNECT is out.
LEMMA DisconnectFlushedStep ==
    ASSUME Inv, DisconnectFlushed
    PROVE  Inv'
<1>1. LockInv /\ pc["disconnect"] = "flush" /\ DisconnectCloses
  BY DEF Inv, BaseInv, DisconnectFlushed
<1>2. lock # <<>> /\ Head(lock) = "disconnect"
  BY <1>1 DEF LockInv, LockOK, Owns, Tasks
<1> QED BY <1>1, <1>2, DisconnectClosesStep

\* A transport its reader did not close is left to disconnect().
LEMMA DisconnectShuts ==
    ASSUME Inv, pc["disconnect"] = "force", IF client.old = 0 THEN TRUE ELSE Idle(reader[client.old]),
           ~(client.old # 0 /\ client.reader \notin {0, client.old}),
           pc' = [pc EXCEPT !["disconnect"] = "shut"],
           client' = [client EXCEPT !.reader = 0, !.task = "none"], UNCHANGED <<lock, reader, hooks, cut>>
    PROVE  Inv'
<1>1. TypeInv /\ LockInv /\ OrderInv /\ HoldsInv /\ TokenInv /\ client \in Clients
  BY DEF Inv, BaseInv, TypeInv
<1>2. lock' = lock /\ reader' = reader /\ hooks' = hooks /\ cut' = cut
  OBVIOUS
<1>3. /\ pc'["disconnect"] = "shut" /\ pc'["connect"] = pc["connect"]
      /\ \A s \in Supervisors : pc'[s] = pc[s]
      /\ pc' \in [Tasks -> ConnectStates \cup DisconnectStates \cup SupervisorStates]
  BY <1>1, LifecycleAssumption DEF TypeInv, PcType, Tasks, DisconnectStates
<1>4. /\ client' \in Clients /\ client'.gen = client.gen /\ client'.engine = client.engine
      /\ client'.reader = 0 /\ client'.transport = client.transport /\ client'.task = "none"
      /\ client'.intentional = client.intentional /\ client'.intent = client.intent
      /\ client'.bye = client.bye
      /\ client'.old = client.old
  <2>1. 0 \in 0..MaxGens
    BY LifecycleAssumption
  <2> QED BY <1>1, <2>1 DEF Clients
<1>5. TypeInv'
  <2>1. PcType'
    BY <1>1, <1>3 DEF TypeInv, PcType, DisconnectStates
  <2> QED BY <1>1, <1>2, <1>4, <2>1 DEF TypeInv, PcType
<1>6. LockInv' /\ OrderInv'
  <2>1. \A b \in Tasks : (Queues(pc', b) <=> Queues(pc, b)) /\ (Owns(pc', b) => Owns(pc, b))
    BY <1>3, LifecycleAssumption DEF Queues, Owns, Tasks
  <2>2. LockOK(lock, pc')
    BY <1>1, <2>1, LockKept DEF LockInv
  <2> QED BY <1>1, <1>2, <1>4, <2>2 DEF LockInv, OrderInv
<1>7. \A a \in Attempting : pc'[a] = pc[a]
  BY <1>3 DEF Attempting
<1>8. HoldsInv' /\ TokenInv'
  <2>1. HoldsInv'
    BY <1>1, <1>2, <1>3, <1>7 DEF HoldsInv
  <2> QED BY <1>1, <1>2, <1>7, <2>1 DEF TokenInv, Tries
<1>9. ASSUME Protected' PROVE OwnerInv'
  <2>1. OwnerInv
    BY <1>2, <1>9 DEF Inv, Protected
  <2>2. Alone /\ client.intent # "off" /\ client.reader \in {0, client.old}
    BY <2>1 DEF OwnerInv, DisconnectInv, FinalInv
  <2>3. AllIdle
    <3>1. \A g \in Gens : g # 0
      BY LifecycleAssumption DEF Gens
    <3> QED BY <2>1, <2>2, <3>1 DEF OwnerInv, ReaderInv, AllIdle
  <2>4. ReaderInv'
    BY <1>2, <1>4, <1>7, <2>1, <2>3 DEF OwnerInv, ReaderInv, AllIdle
  <2>5. SupervisorInv'
    BY <1>2, <1>3, <1>4, <2>1, <2>2 DEF OwnerInv, SupervisorInv, Alone
  <2>6. WaitingInv'
    BY <1>2, <1>3, <1>4, <2>1 DEF OwnerInv, WaitingInv, Alone
  <2>7. DisconnectInv'
    BY <1>3, <1>4, <2>2 DEF DisconnectInv, Alone
  <2>8. FinalInv'
    BY <1>3, <1>4, <2>1, <2>2 DEF OwnerInv, FinalInv
  <2> QED BY <2>4, <2>5, <2>6, <2>7, <2>8 DEF OwnerInv
<1> QED BY <1>5, <1>6, <1>8, <1>9 DEF Inv, BaseInv

\* The tasks it waited for have ended.
LEMMA DisconnectForcedStep ==
    ASSUME Inv, DisconnectForced
    PROVE  Inv'
<1>1. TypeInv /\ client \in Clients
  BY DEF Inv, BaseInv, TypeInv
<1>2. /\ pc["disconnect"] = "force" /\ (IF client.old = 0 THEN TRUE ELSE Idle(reader[client.old]))
      /\ lock' = lock /\ reader' = reader /\ cut' = cut
  BY DEF DisconnectForced
<1>3. CASE client.old # 0 /\ client.reader \notin {0, client.old}
  <2>1. ~Protected
    BY <1>2, <1>3 DEF Inv, OwnerInv, DisconnectInv
  <2>2. pc' = [pc EXCEPT !["disconnect"] = "idle"] /\ hooks' = release(hooks) /\ client' = Returns(client)
    BY <1>3 DEF DisconnectForced
  <2>3. DisconnectReturns
    BY <1>1, <1>2, <2>1, <2>2, ReturnsClient DEF DisconnectReturns
  <2> QED BY <2>3, DisconnectReturnsStep
<1>4. CASE ~(client.old # 0 /\ client.reader \notin {0, client.old}) /\ TransportLeft
  <2>1. pc' = [pc EXCEPT !["disconnect"] = "shut"] /\ hooks' = hooks
        /\ client' = [client EXCEPT !.reader = 0, !.task = "none"]
    BY <1>4 DEF DisconnectForced
  <2> QED BY <1>2, <1>4, <2>1, DisconnectShuts
<1>5. CASE ~(client.old # 0 /\ client.reader \notin {0, client.old}) /\ ~TransportLeft
  <2>1. PICK c : c = [client EXCEPT !.reader = 0, !.task = "none", !.closed = TRUE]
    OBVIOUS
  <2>2. pc' = [pc EXCEPT !["disconnect"] = "idle"] /\ hooks' = release(hooks) /\ client' = Returns(c)
    BY <1>5, <2>1 DEF DisconnectForced
  <2>3. /\ c \in Clients /\ c.gen = client.gen /\ c.engine = client.engine /\ c.old = client.old
        /\ c.bye = client.bye /\ c.intentional = client.intentional /\ c.reader = 0
        /\ c.transport = client.transport /\ c.task = "none" /\ c.intent = client.intent
    <3>1. 0 \in 0..MaxGens
      BY LifecycleAssumption
    <3> QED BY <1>1, <2>1, <3>1 DEF Clients
  <2>4. /\ client' \in Clients /\ client'.gen = client.gen /\ client'.engine = client.engine
        /\ client'.old = client.old /\ client'.bye = client.bye
        /\ client'.intentional = client.intentional
        /\ client'.reader = 0 /\ client'.transport = client.transport /\ client'.task = "none"
        /\ client'.intent = IF client.intent = "disconnect" THEN "off" ELSE client.intent
    BY <2>2, <2>3, ReturnsClient
  <2>5. client.transport = 0
    BY <1>5 DEF TransportLeft
  <2>6. ASSUME Protected
        PROVE  /\ AllIdle /\ Alone /\ client.engine \in {"new", "disconnected"}
               /\ client.intent # "connect" => pc["connect"] = "idle" /\ client.intentional
    <3>1. OwnerInv
      BY <2>6 DEF Inv
    <3>2. AllIdle /\ client.engine \in {"new", "disconnected"}
      BY <1>1, <2>5, <3>1, NoTransport
    <3>3. Alone /\ (client.intent = "disconnect" => pc["connect"] = "idle" /\ client.intentional)
          /\ client.intent # "off"
      BY <1>2, <3>1 DEF OwnerInv, DisconnectInv, FinalInv
    <3>4. client.intent \in {"connect", "disconnect", "off"}
      BY <1>1 DEF Clients
    <3> QED BY <3>2, <3>3, <3>4
  <2>7. DisconnectReturns
    BY <1>2, <2>2, <2>4, <2>5, <2>6 DEF DisconnectReturns, Alone
  <2> QED BY <2>7, DisconnectReturnsStep
<1> QED BY <1>3, <1>4, <1>5

\* The transport it had to close itself is closed.
LEMMA DisconnectShutStep ==
    ASSUME Inv, DisconnectShut
    PROVE  Inv'
<1>1. TypeInv /\ client \in Clients
  BY DEF Inv, BaseInv, TypeInv
<1>2. PICK c : c = [client EXCEPT !.transport = 0, !.closed = TRUE]
  OBVIOUS
<1>3. /\ pc["disconnect"] = "shut" /\ lock' = lock /\ reader' = reader /\ cut' = cut
      /\ pc' = [pc EXCEPT !["disconnect"] = "idle"] /\ hooks' = release(hooks) /\ client' = Returns(c)
  BY <1>2 DEF DisconnectShut
<1>4. /\ c \in Clients /\ c.gen = client.gen /\ c.engine = client.engine /\ c.old = client.old
      /\ c.bye = client.bye /\ c.intentional = client.intentional /\ c.reader = client.reader
      /\ c.transport = 0 /\ c.task = client.task /\ c.intent = client.intent
  <2>1. 0 \in 0..MaxGens
    BY LifecycleAssumption
  <2> QED BY <1>1, <1>2, <2>1 DEF Clients
<1>5. /\ client' \in Clients /\ client'.gen = client.gen /\ client'.engine = client.engine
      /\ client'.old = client.old /\ client'.bye = client.bye
      /\ client'.intentional = client.intentional
      /\ client'.reader = client.reader /\ client'.transport = 0 /\ client'.task = client.task
      /\ client'.intent = IF client.intent = "disconnect" THEN "off" ELSE client.intent
  BY <1>3, <1>4, ReturnsClient
<1>6. ASSUME Protected
      PROVE  /\ AllIdle /\ Alone /\ client.engine \in {"new", "disconnected"} /\ client.reader = 0
             /\ client.intent # "connect" => pc["connect"] = "idle" /\ client.intentional
  <2>1. OwnerInv
    BY <1>6 DEF Inv
  <2>2. Alone /\ (client.intent = "disconnect" => pc["connect"] = "idle" /\ client.intentional)
        /\ client.intent # "off" /\ client.reader = 0
    BY <1>3, <2>1 DEF OwnerInv, DisconnectInv, FinalInv
  <2>3. AllIdle /\ client.engine \in {"new", "disconnected"}
    BY <1>1, <2>1, <2>2, NoTransport
  <2>4. client.intent \in {"connect", "disconnect", "off"}
    BY <1>1 DEF Clients
  <2> QED BY <2>2, <2>3, <2>4
<1>7. DisconnectReturns
  BY <1>3, <1>5, <1>6 DEF DisconnectReturns, Alone
<1> QED BY <1>7, DisconnectReturnsStep

-----------------------------------------------------------------------------
(* The invariant and what follows from it.                                 *)

\* The invariant holds of a new client.
LEMMA InitInv ==
    ASSUME Init
    PROVE  Inv
<1>1. pc = [a \in Tasks |-> IF a \in Supervisors THEN "none" ELSE "idle"]
  BY DEF Init
<1>2. /\ pc["connect"] = "idle" /\ pc["disconnect"] = "idle" /\ \A s \in Supervisors : pc[s] = "none"
      /\ pc \in [Tasks -> ConnectStates \cup DisconnectStates \cup SupervisorStates]
  BY <1>1, LifecycleAssumption DEF Tasks, ConnectStates, SupervisorStates
<1>3. \A a \in Attempting : pc[a] \in {"idle", "none"}
  BY <1>2 DEF Attempting
<1>4. PICK p \in Policies :
        client = [policy |-> p, engine |-> "new", gen |-> 0, transport |-> 0, reader |-> 0,
                  old |-> 0, task |-> "none", intentional |-> FALSE, reconnecting |-> FALSE,
                  latch |-> FALSE, cause |-> "none", lastDisc |-> "none",
                  lastConnack |-> "none", attempt |-> 0, closed |-> FALSE, replacing |-> FALSE,
                  owed |-> FALSE, bye |-> FALSE, asked |-> FALSE, exc |-> "plain",
                  late |-> 0, intent |-> "connect"]
  BY DEF Init
<1>5. /\ client \in Clients /\ client.engine = "new" /\ client.gen = 0 /\ client.reader = 0
      /\ client.intent = "connect"
  <2>1. 0 \in 0..MaxGens /\ 0 \in 0..MaxRetries
    BY LifecycleAssumption
  <2> QED BY <1>4, <2>1 DEF Clients
<1>6. reader \in [Gens -> Readers] /\ \A g \in Gens : reader[g].pc = "none"
  BY DEF Init, Readers
<1>7. NoHook \in Notes /\ NoHook.pc = "none" /\ NoHook.tok = 0
  BY DEF NoHook, Notes
<1>8. /\ hooks \in Hooks /\ hooks.token = 0 /\ hooks.pending = NoHook /\ hooks.hook = NoHook
      /\ hooks.holds = 0
  BY <1>7 DEF Init, Hooks
<1>9. TypeInv
  <2>1. PcType
    BY <1>2 DEF PcType, ConnectStates, DisconnectStates, SupervisorStates
  <2> QED BY <1>5, <1>6, <1>8, <2>1 DEF TypeInv, Init
<1>10. LockInv
  <2>1. lock = <<>> /\ lock \in Seq(Tasks) /\ Len(lock) = 0
    BY DEF Init
  <2>2. Distinct(lock) /\ \A a : ~Has(lock, a)
    BY <2>1 DEF Distinct, Has
  <2>3. \A a \in Tasks : ~Queues(pc, a) /\ ~Owns(pc, a)
    BY <1>2, LifecycleAssumption DEF Queues, Owns, Trying, Tasks
  <2> QED BY <2>1, <2>2, <2>3 DEF LockInv, LockOK
<1>11. OrderInv /\ HoldsInv /\ TokenInv
  <2>1. \A a \in Attempting : pc[a] \notin Joining /\ ~Tries(a)
    BY <1>3 DEF Joining, Tries, Trying
  <2>2. HoldsInv
    BY <1>2, <1>8, <2>1 DEF HoldsInv
  <2> QED BY <1>5, <1>7, <1>8, <2>1, <2>2 DEF OrderInv, TokenInv
<1>12. OwnerInv
  <2>1. AllIdle /\ Alone
    BY <1>2, <1>6 DEF AllIdle, Alone, Idle
  <2>2. ReaderInv
    BY <1>3, <1>5, <2>1 DEF ReaderInv, AllIdle, Up
  <2>3. SupervisorInv
    BY <1>2, <2>1 DEF SupervisorInv, AllIdle, Alone
  <2>4. WaitingInv /\ DisconnectInv /\ FinalInv
    BY <1>2, <1>5 DEF WaitingInv, DisconnectInv, FinalInv
  <2> QED BY <2>2, <2>3, <2>4 DEF OwnerInv
<1> QED BY <1>9, <1>10, <1>11, <1>12 DEF Inv, BaseInv

\* It survives stuttering.
LEMMA StutterInv ==
    ASSUME Inv, UNCHANGED vars
    PROVE  Inv'
<1>1. pc' = pc /\ lock' = lock /\ reader' = reader /\ hooks' = hooks /\ client' = client /\ cut' = cut
  BY DEF vars
<1>2. TypeInv' <=> TypeInv
  BY <1>1 DEF TypeInv, PcType
<1>3. (LockInv' <=> LockInv) /\ (OrderInv' <=> OrderInv)
  BY <1>1 DEF LockInv, OrderInv
<1>4. (HoldsInv' <=> HoldsInv) /\ (TokenInv' <=> TokenInv)
  BY <1>1 DEF HoldsInv, TokenInv, Tries
<1>5. (Protected' <=> Protected) /\ (ReaderInv' <=> ReaderInv) /\ (SupervisorInv' <=> SupervisorInv)
  BY <1>1 DEF Protected, ReaderInv, SupervisorInv
<1>6. (WaitingInv' <=> WaitingInv) /\ (DisconnectInv' <=> DisconnectInv) /\ (FinalInv' <=> FinalInv)
  BY <1>1 DEF WaitingInv, DisconnectInv, FinalInv, Alone, AllIdle, Closing
<1> QED BY <1>2, <1>3, <1>4, <1>5, <1>6 DEF Inv, BaseInv, OwnerInv

\* Every step of an attempt keeps it,
LEMMA AttemptsStep ==
    ASSUME Inv, NEW a \in Attempting, Attempts(a)
    PROVE  Inv'
  BY OpensStep, DialFailsStep, AcceptedStep, AttemptClosesNow, SeesByeStep, AttemptClosedStep DEF
     Attempts

\* and so does every step.
LEMMA NextInv ==
    ASSUME Inv, Next
    PROVE  Inv'
<1>1. CASE Connecting
  <2>1. "connect" \in Attempting
    BY DEF Attempting
  <2> QED BY <1>1, <2>1, ConnectLocksStep, ConnectJoinedStep, ConnectBeginsStep, BackoffEndsStep,
             AttemptsStep DEF Connecting
<1>2. CASE Disconnecting
  BY <1>2, DisconnectJoinedStep, DisconnectLocksStep, DisconnectFlushedStep, DisconnectForcedStep,
     DisconnectShutStep DEF Disconnecting
<1>3. CASE \E s \in Supervisors : Supervising(s)
  <2>1. PICK s \in Supervisors : Supervising(s)
    BY <1>3
  <2>2. s \in Attempting
    BY DEF Attempting
  <2> QED BY <2>1, <2>2, SupervisorWakesStep, SupervisorSleptStep, SupervisorLocksStep,
             SupervisorDialsStep, SupervisorStableStep, SupervisorCancelledStep, AttemptsStep
             DEF Supervising
<1>4. CASE \E g \in Gens : Retiring(g) \/ Peer(g)
  <2>1. PICK g \in Gens : Retiring(g) \/ Peer(g)
    BY <1>4
  <2>2. CASE Retiring(g)
    BY <2>2, FatalSentStep, ReaderRetiresStep, ReaderDecidesStep, ReaderHandsOver DEF Retiring
  <2>3. CASE Peer(g)
    BY <2>3, PeerStep
  <2> QED BY <2>1, <2>2, <2>3
<1>5. CASE Notifying
  BY <1>5, HookTakenStep, HookReleasedStep, HookStartsStep, HookEndsStep DEF Notifying
<1> QED BY <1>1, <1>2, <1>3, <1>4, <1>5, ConnectCallsStep, ConnectCancelledStep,
           DisconnectCallsStep, LateCancelStep, PublishStep, AcknowledgedStep DEF Next

\* The inductive invariant of connect(), disconnect(), the readers, the supervisor
\* and the hooks, for any number of supervisors, transports, retries and calls.
THEOREM LifecycleInvariant == Spec => []Inv
<1>1. Init => Inv
  BY InitInv
<1>2. Inv /\ [Next]_vars => Inv'
  BY NextInv, StutterInv
<1> QED BY <1>1, <1>2, PTL DEF Spec

\* Two tasks never work on the connection at once: at most one reader is alive,
\* _reconnect_task names the only supervisor, and a supervisor that closes or dials
\* never does so to a live connection: unless a connect() not yet at its first
\* attempt was overtaken by a disconnect(), or a supervisor was started while
\* connect() waited for the end of another.
THEOREM OneOwnerHolds == Spec => []OneOwner
<1>1. Inv => OneOwner
  <2> SUFFICES ASSUME Inv PROVE OneOwner
    OBVIOUS
  <2>1. TypeInv /\ HoldsInv
    BY DEF Inv, BaseInv
  <2>2. TypeOK
    <3>1. /\ pc["connect"] \in {"idle", "lock", "cancel", "dial", "connack", "bye", "backoff"} \cup Joining
          /\ pc["disconnect"] \in {"idle", "join", "lock", "ending", "flush", "force", "shut"}
          /\ \A s \in Supervisors :
                pc[s] \in {"none", "ready", "sleep", "lock", "dial", "connack", "bye", "stable",
                          "cancelled"} \cup Joining
      BY <2>1 DEF TypeInv, PcType, ConnectStates, DisconnectStates, SupervisorStates, Joining
    <3>2. \A g \in Gens :
            /\ reader[g].pc \in {"none", "reading", "fatal", "ending", "retiring", "closing", "cut", "done"}
            /\ reader[g].connack \in {"none", "wait", "ok", "refused", "plain", "permanent"}
      BY <2>1 DEF TypeInv, Readers
    <3>3. /\ client.engine \in {"new", "connecting", "connected", "disconnecting", "disconnected"}
          /\ client.cause \in {"none", "plain", "permanent"} /\ client.attempt \in 0..MaxRetries
      BY <2>1 DEF TypeInv, Clients
    <3>4. /\ hooks.holds \in 0..3
          /\ cut \subseteq {"retire", "overtaken", "orphaned", "waiting", "backoff", "doomed"}
      BY <2>1 DEF HoldsInv, TypeInv, Windows
    <3> QED BY <3>1, <3>2, <3>3, <3>4 DEF TypeOK
  <2>3. ASSUME Clear({"overtaken", "orphaned"})
        PROVE  /\ Cardinality({g \in Gens : ~Idle(reader[g])}) <= 1
               /\ \A s \in Supervisors : pc[s] # "none" => client.task = s
               /\ \A s \in Supervisors : pc[s] \in {"force", "dial"} => client.engine # "connected"
    <3>1. OwnerInv
      BY <2>3 DEF Inv, Protected, Clear
    <3>2. {g \in Gens : ~Idle(reader[g])} \subseteq {client.gen}
      BY <3>1 DEF OwnerInv, ReaderInv
    <3>3. IsFiniteSet({client.gen}) /\ Cardinality({client.gen}) = 1
      BY FS_Singleton
    <3>4. Cardinality({g \in Gens : ~Idle(reader[g])}) <= 1
      BY <3>2, <3>3, FS_Subset
    <3> QED BY <3>1, <3>4 DEF OwnerInv, SupervisorInv, Up
  <2> QED BY <2>2, <2>3 DEF OneOwner
<1> QED BY <1>1, LifecycleInvariant, PTL

\* After disconnect() has returned, and unless connect() was called again, there is
\* no transport, no live reader and no attempt of a supervisor, whatever was under
\* way when it was called.  The windows of OneOwner are excepted.
THEOREM DisconnectIsFinalHolds == Spec => []DisconnectIsFinal
<1>1. Inv => DisconnectIsFinal
  <2> SUFFICES ASSUME Inv, Clear({"overtaken", "orphaned"}), client.intent = "off"
               PROVE  /\ client.engine \in {"new", "disconnected"} /\ client.transport = 0
                      /\ client.intentional /\ \A s \in Supervisors : pc[s] \in {"none", "ready"}
                      /\ \A g \in Gens : Idle(reader[g])
    BY DEF DisconnectIsFinal
  <2>1. OwnerInv /\ TypeInv
    BY DEF Inv, BaseInv, Protected, Clear
  <2>2. /\ client.engine \in {"new", "disconnected"} /\ client.transport = 0
        /\ client.intentional /\ \A s \in Supervisors : pc[s] \in {"none", "ready"}
    BY <2>1 DEF OwnerInv, FinalInv
  <2>3. AllIdle
    BY <2>1, <2>2, NoTransport
  <2> QED BY <2>2, <2>3 DEF AllIdle
<1> QED BY <1>1, LifecycleInvariant, PTL

-----------------------------------------------------------------------------
(* The hand-over of pending work: the invariant.                           *)

\* The await of the reader of the newest transport,
Phase == IF client.gen = 0 THEN "none" ELSE reader[client.gen].pc
\* its decision to reconnect,
Will == client.gen # 0 /\ reader[client.gen].will
\* its CONNACK accepted, and its end.
Ok == client.gen # 0 /\ reader[client.gen].connack = "ok"
Over == Phase \in {"none", "done", "cut"}

\* Some attempt waits for its CONNACK or closes what it opened; one has failed;
\* one sends its DISCONNECT; a supervisor was cancelled in an attempt.
Answering == \E a \in Attempting : pc[a] \in {"connack", "fail", "quit"}
Failing == \E a \in Attempting : pc[a] \in {"fail", "quit"}
Leaving == \E a \in Attempting : pc[a] = "bye"
Quitting == \E s \in Supervisors : pc[s] = "quit"

\* State RECONNECTING: not after an intentional end, not while connected unless
\* an attempt is about to return, not beside a latched failure unless the reader
\* is about to see it, and not after the reader decided otherwise.
RetryInv ==
    /\ client.intentional => ~client.reconnecting
    /\ client.reconnecting /\ client.engine = "connected" => Answering
    /\ client.latch /\ client.reconnecting => Phase \in {"fatal", "ending", "retiring"}
    /\ Phase = "closing" /\ ~Will => ~client.reconnecting
\* Ends: an attempt that failed has ended its reader, one that sends DISCONNECT has
\* taken the engine down, a supervisor is only cancelled by an intentional end, an
\* intentional end of an attempt is a disconnect() still under way, and a client
\* that never connected has neither transport nor supervisor.
ClosingInv ==
    /\ Failing => Phase # "reading"
    /\ Leaving => client.engine \notin Up
    /\ Quitting => client.intentional
    /\ client.intentional /\ pc["connect"] \in Trying => pc["disconnect"] \in {"join", "lock", "ending"}
    /\ client.engine = "new" => client.gen = 0 /\ Alone

\* Who has the pending work: a reader that has not decided, one that decided to
\* retry, or a connect() that is not merely returning its CONNACK.
Undecided == Phase \in {"reading", "fatal", "ending", "retiring"}
WillRetry == Phase = "closing" /\ Will
Returning == pc["connect"] = "connack" /\ Ok
ConnectWorks == pc["connect"] # "idle" /\ ~Returning
\* A latched failure is settled by a reader still to decide; a transport has its
\* reader; work admitted after a decision to give up is that of connect(); state
\* RECONNECTING has a connect(), a supervisor or a reader that will start one; and
\* a publication with an open receipt has one of these or a disconnect() that has
\* yet to find out whether there is a transport.
WorkInv ==
    /\ client.latch /\ client.owed => Undecided
    /\ client.transport # 0 => ~Over
    /\ client.owed /\ Phase = "closing" /\ ~Will => ConnectWorks
    /\ client.reconnecting => pc["connect"] # "idle" \/ ~Alone \/ WillRetry
    /\ client.reconnecting /\ Returning => Undecided \/ WillRetry \/ ~Alone
    /\ client.owed /\ client.engine # "new" =>
        \/ ConnectWorks \/ Undecided
        \/ WillRetry /\ ~client.intentional
        \/ ~Alone /\ ~client.intentional
        \/ pc["disconnect"] \in {"join", "lock"}
\* The inductive invariant, relative to Inv.
HandInv == (Protected => RetryInv /\ ClosingInv) /\ (cut = {} => WorkInv)

\* What a step may assume, and what it must keep.
Before == TypeInv /\ LockInv /\ OwnerInv /\ RetryInv /\ ClosingInv /\ (cut' = {} => WorkInv)
After == RetryInv' /\ ClosingInv' /\ (cut' = {} => WorkInv')

-----------------------------------------------------------------------------
(* Lemmas about its parts.                                                 *)

\* It is enough to look at steps from protected states.
LEMMA Framed ==
    ASSUME Inv, HandInv, cut \subseteq cut', Protected' /\ Before => After
    PROVE  HandInv'
  BY DEF Inv, BaseInv, HandInv, Before, After, Protected

\* The awaits of the current reader.
LEMMA PhaseTyped ==
    ASSUME TypeInv
    PROVE  /\ Phase \in {"none", "reading", "fatal", "ending", "retiring", "closing", "cut", "done"}
           /\ client.gen \in Nat /\ (client.gen # 0 => client.gen \in Gens)
<1>1. client.gen \in Nat /\ (client.gen # 0 => client.gen \in Gens)
  BY LifecycleAssumption DEF TypeInv, Clients, Gens
<1> QED BY <1>1 DEF TypeInv, Readers, Phase

\* What OwnerInv says of the current reader.
LEMMA PhaseFacts ==
    ASSUME TypeInv, OwnerInv
    PROVE  /\ client.engine \in {"connecting", "connected", "disconnecting"} => Phase \in {"reading", "fatal", "ending"}
           /\ client.engine \in Up => Phase # "fatal"
           /\ client.engine = "connecting" => Answering
           /\ ~Over => client.gen # 0 /\ client.reader = client.gen /\ client.transport = client.gen
           /\ NoReader => Over
           /\ \A a \in Attempting : pc[a] \in {"dial", "backoff"} => Over /\ client.reader = 0 /\ client.transport = 0
           /\ Answering /\ ~Failing => client.gen # 0
<1>1. client.gen \in Nat /\ (client.gen # 0 => client.gen \in Gens) /\ client.reader \in Nat
  BY PhaseTyped DEF TypeInv, Clients
<1>2. ~Over => client.gen # 0 /\ client.reader = client.gen /\ client.transport = client.gen
  BY <1>1 DEF OwnerInv, ReaderInv, Over, Phase, Idle
<1>3. NoReader => Over
  BY <1>1, <1>2 DEF NoReader, Over, Phase, Idle
<1>4. \A a \in Attempting : pc[a] \in {"dial", "backoff"} => Over /\ client.reader = 0 /\ client.transport = 0
  BY <1>2 DEF OwnerInv, ReaderInv
<1>5. Answering /\ ~Failing => client.gen # 0
  BY <1>1 DEF OwnerInv, ReaderInv, Answering, Failing
<1>6. /\ client.engine \in {"connecting", "connected", "disconnecting"} => Phase \in {"reading", "fatal", "ending"}
      /\ client.engine \in Up => Phase # "fatal"
      /\ client.engine = "connecting" => Answering
  BY <1>1 DEF OwnerInv, ReaderInv, Phase, Up, Answering
<1> QED BY <1>2, <1>3, <1>4, <1>5, <1>6

\* A step that leaves the readers alone leaves the current one alone.
LEMMA PhaseSame ==
    ASSUME reader' = reader, client'.gen = client.gen
    PROVE  Phase' = Phase /\ (Will' <=> Will) /\ (Ok' <=> Ok) /\ (Over' <=> Over)
  BY DEF Phase, Will, Ok, Over

\* What a cancellation of some reader does to the current one.  In the closing of
\* its transport it may be cut short, which is one of the windows.
LEMMA PhaseCancelled ==
    ASSUME TypeInv, OwnerInv, NEW g \in 0..MaxGens, CancelReader(g), client'.gen = client.gen
    PROVE  /\ cut \subseteq cut' /\ (Protected' <=> Protected)
           /\ (Will' <=> Will) /\ (Ok' <=> Ok)
           /\ Phase \in {"reading", "fatal"} => Phase' \in {Phase, "ending"}
           /\ Phase = "closing" => Phase' \in {"closing", "cut"}
           /\ Phase \notin {"reading", "fatal", "closing"} => Phase' = Phase
           /\ cut' = {} /\ Phase = "closing" => Phase' = "closing"
           /\ g = client.reader =>
                /\ Phase' # "reading"
                /\ cut' = {} /\ Phase = "closing" /\ Will => ~client.intentional
<1>1. Cancels(g)
  BY CancelReaderStep
<1>2. client.gen \in Nat /\ (client.gen # 0 => client.gen \in Gens)
  BY PhaseTyped
<1>3. cut \subseteq cut' /\ (Protected' <=> Protected)
  BY <1>1 DEF Cancels, Protected
<1>4. (Will' <=> Will) /\ (Ok' <=> Ok)
  BY <1>1, <1>2 DEF Cancels, Will, Ok
<1>5. CASE client.gen = 0
  BY <1>3, <1>4, <1>5 DEF Phase
<1>6. CASE client.gen # 0 /\ g # client.gen
  <2>1. Phase' = Phase
    BY <1>1, <1>2, <1>6 DEF Cancels, Phase
  <2>2. g = client.reader => Over
    BY <1>6, PhaseFacts
  <2> QED BY <1>3, <1>4, <2>1, <2>2 DEF Over
<1>7. CASE client.gen # 0 /\ g = client.gen
  <2>1. Phase = reader[g].pc /\ Phase' = reader'[g].pc /\ (Will <=> reader[g].will) /\ g # 0
    BY <1>2, <1>7 DEF Phase, Will
  <2>2. Phase' = "reading" => Phase = "reading"
    BY <1>1, <2>1, PhaseTyped DEF Cancels
  <2> QED BY <1>1, <1>3, <1>4, <2>1, <2>2 DEF Cancels
<1> QED BY <1>5, <1>6, <1>7

\* A step of one attempt in which no other task moves.
LEMMA Moves ==
    ASSUME TypeInv, NEW a \in Attempting, NEW to, pc' = [pc EXCEPT ![a] = to]
    PROVE  /\ pc'["disconnect"] = pc["disconnect"] /\ pc'[a] = to
           /\ a = "connect" => (Alone' <=> Alone) /\ (Quitting' <=> Quitting)
           /\ a # "connect" =>
                /\ pc'["connect"] = pc["connect"] /\ (to # "none" => ~Alone')
                /\ pc[a] # "none" => ~Alone
                /\ Quitting' => Quitting \/ to = "quit"
           /\ Failing' => Failing \/ to \in {"fail", "quit"}
           /\ Leaving' => Leaving \/ to = "bye"
           /\ Answering => Answering' \/ pc[a] \in {"connack", "fail", "quit"}
           /\ to \in {"connack", "fail", "quit"} => Answering'
<1>1. /\ pc'["disconnect"] = pc["disconnect"] /\ pc'[a] = to
      /\ \A b \in Attempting : b # a => pc'[b] = pc[b]
  BY LifecycleAssumption DEF TypeInv, PcType, Tasks, Attempting
<1>2. a = "connect" => \A s \in Supervisors : pc'[s] = pc[s]
  BY <1>1, LifecycleAssumption DEF Attempting
<1>3. a # "connect" => a \in Supervisors /\ pc'["connect"] = pc["connect"]
  BY <1>1 DEF Attempting
<1>4. Quitting' => Quitting \/ to = "quit"
  BY <1>1 DEF Quitting, Attempting
<1>5. /\ Failing' => Failing \/ to \in {"fail", "quit"}
      /\ Leaving' => Leaving \/ to = "bye"
      /\ Answering => Answering' \/ pc[a] \in {"connack", "fail", "quit"}
      /\ to \in {"connack", "fail", "quit"} => Answering'
  BY <1>1 DEF Failing, Leaving, Answering
<1> QED BY <1>1, <1>2, <1>3, <1>4, <1>5 DEF Alone, Quitting

\* Only one task has the lock.
LEMMA Holder ==
    ASSUME LockInv, NEW a \in Tasks, Owns(pc, a) \/ Woken(a)
    PROVE  \A b \in Tasks : b # a => ~Owns(pc, b)
  BY DEF LockInv, LockOK, Woken

\* Only one supervisor is alive.
LEMMA OnlySupervisor ==
    ASSUME OwnerInv, NEW s \in Supervisors, pc[s] # "none"
    PROVE  \A r \in Supervisors : r # s => pc[r] = "none"
  BY DEF OwnerInv, SupervisorInv

\* The attributes the hand-over is about.
SameWork(c, d) ==
    /\ d.gen = c.gen /\ d.engine = c.engine /\ d.transport = c.transport
    /\ d.intentional = c.intentional /\ d.reconnecting = c.reconnecting /\ d.latch = c.latch

\* No task moves.
LEMMA SamePc ==
    ASSUME pc' = pc
    PROVE  /\ pc'["connect"] = pc["connect"] /\ pc'["disconnect"] = pc["disconnect"]
           /\ (Alone' <=> Alone) /\ (Quitting' <=> Quitting) /\ (Failing' <=> Failing)
           /\ (Leaving' <=> Leaving) /\ (Answering' <=> Answering)
  BY DEF Alone, Quitting, Failing, Leaving, Answering

-----------------------------------------------------------------------------
(* The hooks, the reader and the peer.                                     *)

\* A step that moves no task and changes nothing but a receipt that is settled.
LEMMA QuietWork ==
    ASSUME Before, pc' = pc, reader' = reader, SameWork(client, client'), client'.owed => client.owed
    PROVE  After
<1>1. Phase' = Phase /\ (Will' <=> Will) /\ (Ok' <=> Ok) /\ (Over' <=> Over)
  BY PhaseSame DEF SameWork
<1>2. RetryInv'
  BY <1>1, SamePc DEF Before, RetryInv, SameWork
<1>3. ClosingInv'
  BY <1>1, SamePc DEF Before, ClosingInv, SameWork
<1>4. ASSUME cut' = {} PROVE WorkInv'
  BY <1>1, <1>4, SamePc DEF Before, WorkInv, SameWork, Undecided, WillRetry, Returning, ConnectWorks
<1> QED BY <1>2, <1>3, <1>4 DEF After

\* A cancellation of a reader that changes nothing else of ours.
LEMMA CancelWork ==
    ASSUME Before, pc' = pc, NEW g \in 0..MaxGens, CancelReader(g), SameWork(client, client'),
           client'.owed = client.owed
    PROVE  After
<1>1. /\ (Will' <=> Will) /\ (Ok' <=> Ok)
      /\ Phase \in {"reading", "fatal"} => Phase' \in {Phase, "ending"}
      /\ Phase = "closing" => Phase' \in {"closing", "cut"}
      /\ Phase \notin {"reading", "fatal", "closing"} => Phase' = Phase
      /\ cut' = {} /\ Phase = "closing" => Phase' = "closing"
  BY PhaseCancelled DEF Before, SameWork
<1>2. RetryInv'
  BY <1>1, SamePc DEF Before, RetryInv, SameWork
<1>3. ClosingInv'
  BY <1>1, SamePc DEF Before, ClosingInv, SameWork
<1>4. ASSUME cut' = {} PROVE WorkInv'
  BY <1>1, <1>4, SamePc
     DEF Before, WorkInv, SameWork, Undecided, WillRetry, Returning, ConnectWorks, Over
<1> QED BY <1>2, <1>3, <1>4 DEF After

\* The hooks work beside all this.
LEMMA HooksWork ==
    ASSUME Inv, HandInv, Notifying
    PROVE  HandInv'
<1>1. pc' = pc /\ reader' = reader /\ client' = client /\ cut' = cut
  BY DEF Notifying, HookTaken, HookReleased, HookStarts, HookEnds
<1>2. SameWork(client, client') /\ (client'.owed => client.owed) /\ cut \subseteq cut'
  BY <1>1 DEF SameWork
<1> QED BY <1>1, <1>2, QuietWork, Framed

\* An acknowledgement settles the receipt.
LEMMA AcknowledgedWork ==
    ASSUME Inv, HandInv, Acknowledged
    PROVE  HandInv'
<1>1. pc' = pc /\ reader' = reader /\ client' = [client EXCEPT !.owed = FALSE] /\ cut' = cut
  BY DEF Acknowledged
<1>2. client \in Clients
  BY DEF Inv, BaseInv, TypeInv
<1>3. SameWork(client, client') /\ client'.owed = FALSE /\ cut \subseteq cut'
  BY <1>1, <1>2 DEF SameWork, Clients
<1> QED BY <1>1, <1>3, QuietWork, Framed

\* The windows that were hit are remembered.
LEMMA CancelGrows ==
    ASSUME NEW g, CancelReader(g)
    PROVE  cut \subseteq cut'
  BY DEF CancelReader

\* The cancellation that comes after a failed task.
LEMMA LateCancelWork ==
    ASSUME Inv, HandInv, LateCancel
    PROVE  HandInv'
<1>1. pc' = pc /\ CancelReader(client.late) /\ client' = [client EXCEPT !.late = 0]
  BY DEF LateCancel
<1>2. client \in Clients
  BY DEF Inv, BaseInv, TypeInv
<1>3. SameWork(client, client') /\ client'.owed = client.owed /\ client.late \in 0..MaxGens
  BY <1>1, <1>2 DEF SameWork, Clients
<1> QED BY <1>1, <1>3, CancelGrows, CancelWork, Framed

\* A connect() cancelled while it joins a reader passes the request on.
LEMMA ConnectJoinsWork ==
    ASSUME Inv, HandInv, ConnectJoins
    PROVE  HandInv'
<1>1. PICK g \in {0, client.reader} : pc' = pc /\ CancelReader(g) /\ client' = [client EXCEPT !.asked = TRUE]
  BY DEF ConnectJoins
<1>2. client \in Clients
  BY DEF Inv, BaseInv, TypeInv
<1>3. SameWork(client, client') /\ client'.owed = client.owed /\ g \in 0..MaxGens
  BY <1>1, <1>2, LifecycleAssumption DEF SameWork, Clients
<1> QED BY <1>1, <1>3, CancelGrows, CancelWork, Framed

\* The connection of a reader that reads ends.
LEMMA LosesWork ==
    ASSUME Before, NEW g \in Gens, NEW r, NEW c, Lost(g, r, c), Loses(g, r, c)
    PROVE  After
<1>1. /\ pc' = pc /\ cut' = cut /\ client.engine \in Up /\ reader[g].pc = "reading"
      /\ reader' = [reader EXCEPT ![g] = r] /\ r.pc \in {"fatal", "ending"} /\ client' = c
  BY DEF Lost, Loses, Up
<1>2. g = client.gen /\ g # 0 /\ reader'[g] = r
  BY <1>1, LifecycleAssumption DEF Before, TypeInv, OwnerInv, ReaderInv, Idle, Gens
<1>3. client.gen # 0 /\ Phase = "reading" /\ Phase' \in {"fatal", "ending"}
  BY <1>1, <1>2 DEF Loses, Phase
<1>4. /\ ~Failing /\ ~Leaving /\ client.engine # "new"
      /\ pc["connect"] \notin {"dial", "backoff", "fail", "quit", "bye"}
  <2>1. ~Failing /\ ~Leaving
    BY <1>1, <1>3 DEF Before, ClosingInv
  <2>2. pc["connect"] \notin {"dial", "backoff"}
    BY <1>3, PhaseFacts DEF Before, Attempting, Over
  <2> QED BY <1>1, <2>1, <2>2 DEF Up, Failing, Leaving, Attempting
<1>5. /\ client'.gen = client.gen /\ client'.transport = client.transport
      /\ client'.engine \in {client.engine, "disconnecting", "disconnected"}
      /\ client'.reconnecting = client.reconnecting
      /\ client'.intentional = client.intentional \/ (client'.intentional = TRUE /\ Unanswered)
  BY <1>1 DEF Loses
<1>6. ASSUME Unanswered PROVE ~client.reconnecting /\ pc["connect"] # "connack"
  <2>1. ~Answering
    BY <1>4, <1>6 DEF Answering, Failing, Unanswered
  <2> QED BY <1>6, <2>1 DEF Before, RetryInv, Attempting, Unanswered
<1>7. RetryInv'
  BY <1>1, <1>3, <1>5, <1>6, SamePc DEF Before, RetryInv
<1>8. ClosingInv'
  BY <1>1, <1>3, <1>4, <1>5, <1>6, SamePc DEF Before, ClosingInv, Trying
<1>9. ASSUME cut' = {} PROVE WorkInv'
  <2>1. Undecided' /\ ~Over' /\ Phase' # "closing" /\ Phase # "closing"
    BY <1>3 DEF Undecided, Over
  <2>2. client'.reconnecting => pc["connect"] # "idle" \/ ~Alone
    BY <1>5, <1>9, <2>1 DEF Before, WorkInv, WillRetry
  <2> QED BY <1>1, <2>1, <2>2, SamePc DEF WorkInv
<1> QED BY <1>7, <1>8, <1>9 DEF After

\* The CONNACK accepts: an attempt is waiting for it.
LEMMA ConnackArrivesWork ==
    ASSUME Before, NEW g \in Gens, ConnackArrives(g)
    PROVE  After
<1>1. /\ reader[g].pc = "reading" /\ client.engine = "connecting" /\ pc' = pc
      /\ reader' = [reader EXCEPT ![g].connack = "ok"]
      /\ client' = [client EXCEPT !.engine = "connected"]
  BY DEF ConnackArrives
<1>2. g = client.gen /\ g # 0 /\ reader'[g].pc = "reading"
  BY <1>1, LifecycleAssumption DEF Before, TypeInv, OwnerInv, ReaderInv, Idle, Gens, Readers
<1>3. /\ client'.gen = client.gen /\ client'.transport = client.transport
      /\ client'.engine = "connected"
      /\ client'.reconnecting = client.reconnecting /\ client'.intentional = client.intentional
      /\ client'.latch = client.latch /\ client'.owed = client.owed
  BY <1>1 DEF Before, TypeInv, Clients
<1>4. Phase = "reading" /\ Phase' = "reading"
  BY <1>1, <1>2, <1>3 DEF Phase
<1>5. Answering /\ ~Failing /\ ~Leaving
  BY <1>1, <1>4, PhaseFacts DEF Before, ClosingInv, Up
<1>6. RetryInv'
  BY <1>1, <1>3, <1>4, <1>5, SamePc DEF Before, RetryInv
<1>7. ClosingInv'
  BY <1>1, <1>3, <1>4, <1>5, SamePc DEF Before, ClosingInv
<1>8. ASSUME cut' = {} PROVE WorkInv'
  <2>1. Undecided' /\ ~Over' /\ Phase' # "closing" /\ Phase # "closing"
    BY <1>4 DEF Undecided, Over
  <2>2. client'.reconnecting => pc["connect"] # "idle" \/ ~Alone
    BY <1>3, <1>8, <2>1 DEF Before, WorkInv, WillRetry
  <2> QED BY <1>1, <2>1, <2>2, SamePc DEF WorkInv
<1> QED BY <1>6, <1>7, <1>8 DEF After

\* The peer ends the connection or accepts it.
LEMMA PeerWork ==
    ASSUME Inv, HandInv, NEW g \in Gens, Peer(g)
    PROVE  HandInv'
<1>1. CASE ConnackArrives(g)
  <2>1. cut \subseteq cut'
    BY <1>1 DEF ConnackArrives
  <2> QED BY <1>1, <2>1, ConnackArrivesWork, Framed
<1>2. CASE ~ConnackArrives(g)
  <2>1. PICK r, c : Lost(g, r, c) /\ Loses(g, r, c)
    BY <1>2, PeerLoses DEF Inv, BaseInv
  <2>2. cut \subseteq cut'
    BY <2>1 DEF Lost
  <2> QED BY <2>1, <2>2, LosesWork, Framed
<1> QED BY <1>1, <1>2

\* A step of the reader that has not decided yet.
LEMMA UndecidedWork ==
    ASSUME Before, NEW g \in Gens, pc' = pc, reader[g].pc \in {"fatal", "ending"},
           reader'[g].pc \in {"ending", "retiring"},
           client'.gen = client.gen, client'.transport = client.transport,
           client'.reconnecting = client.reconnecting, client'.intentional = client.intentional,
           client'.engine \in {client.engine, "disconnected"}
    PROVE  After
<1>1. g = client.gen /\ g # 0
  BY LifecycleAssumption DEF Before, OwnerInv, ReaderInv, Idle, Gens
<1>2. Phase \in {"fatal", "ending"} /\ Phase' \in {"ending", "retiring"}
  BY <1>1 DEF Phase
<1>3. RetryInv'
  BY <1>2, SamePc DEF Before, RetryInv
<1>4. client.engine # "new"
  BY <1>1 DEF Before, ClosingInv
<1>5. ClosingInv'
  BY <1>2, <1>4, SamePc DEF Before, ClosingInv, Up
<1>6. ASSUME cut' = {} PROVE WorkInv'
  <2>1. Undecided' /\ ~Over' /\ Phase' # "closing" /\ Phase # "closing"
    BY <1>2 DEF Undecided, Over
  <2>2. client'.reconnecting => pc["connect"] # "idle" \/ ~Alone
    BY <1>6, <2>1 DEF Before, WorkInv, WillRetry
  <2> QED BY <2>1, <2>2, SamePc DEF WorkInv
<1> QED BY <1>3, <1>5, <1>6 DEF After

\* The DISCONNECT of a peer error is out.
LEMMA FatalSentWork ==
    ASSUME Inv, HandInv, NEW g \in Gens, FatalSent(g)
    PROVE  HandInv'
<1>1. TypeInv /\ client \in Clients
  BY DEF Inv, BaseInv, TypeInv
<1>2. reader[g].pc = "fatal" /\ reader' = [reader EXCEPT ![g].pc = "ending"] /\ pc' = pc /\ cut' = cut
  BY DEF FatalSent
<1>3. reader'[g].pc = "ending"
  BY <1>1, <1>2 DEF TypeInv, Readers
<1>4. /\ client'.gen = client.gen /\ client'.transport = client.transport
      /\ client'.engine = client.engine
      /\ client'.reconnecting = client.reconnecting /\ client'.intentional = client.intentional
  <2>1. CASE client' = client
    BY <2>1
  <2>2. CASE client' \in _fail_pending(client)
    <3>1. PICK latch \in BOOLEAN : client' = [client EXCEPT !.owed = FALSE, !.latch = latch]
      BY <1>1, <2>2, FailPending
    <3> QED BY <1>1, <3>1 DEF Clients
  <2> QED BY <2>1, <2>2 DEF FatalSent
<1>5. Before => After
  BY <1>2, <1>3, <1>4, UndecidedWork
<1> QED BY <1>2, <1>5, Framed

\* The reader starts to retire.
LEMMA ReaderRetiresWork ==
    ASSUME Inv, HandInv, NEW g \in Gens, ReaderRetires(g)
    PROVE  HandInv'
<1>1. TypeInv /\ client \in Clients
  BY DEF Inv, BaseInv, TypeInv
<1>2. /\ reader[g].pc = "ending" /\ reader' = [reader EXCEPT ![g].pc = "retiring"] /\ pc' = pc
      /\ cut' = cut
      /\ client' = [client EXCEPT !.engine = "disconnected"]
  BY DEF ReaderRetires
<1>3. reader'[g].pc = "retiring"
  BY <1>1, <1>2 DEF TypeInv, Readers
<1>4. /\ client'.gen = client.gen /\ client'.transport = client.transport
      /\ client'.engine = "disconnected"
      /\ client'.reconnecting = client.reconnecting /\ client'.intentional = client.intentional
  BY <1>1, <1>2 DEF Clients
<1>5. Before => After
  BY <1>2, <1>3, <1>4, UndecidedWork
<1> QED BY <1>2, <1>5, Framed

\* What a retiring reader decides.
Decision(g, will) ==
    /\ reader'[g].pc = "closing" /\ (reader'[g].will <=> will)
    /\ reader'[g].connack = "ok" <=> reader[g].connack = "ok"
    /\ client'.gen = client.gen /\ client'.transport = client.transport
    /\ client'.engine = client.engine
    /\ client'.intentional = client.intentional /\ (client'.reconnecting <=> will)
    /\ will => ~client.intentional /\ ~client'.latch /\ client'.owed = client.owed
    /\ ~will => ~client'.owed

\* Its decision is one of the two.
LEMMA ReaderDecision ==
    ASSUME TypeInv, NEW g \in Gens, ReaderDecides(g)
    PROVE  \E will \in BOOLEAN : Decision(g, will)
<1>1. PICK c : c = _propose_disconnect_cause(client, "plain")
  OBVIOUS
<1>2. PICK cause \in {"plain", "permanent"} : c = [client EXCEPT !.cause = cause]
  BY <1>1, ProposeCause DEF TypeInv
<1>3. /\ c \in Clients /\ c.gen = client.gen /\ c.transport = client.transport
      /\ c.engine = client.engine
      /\ c.intentional = client.intentional /\ c.owed = client.owed
  BY <1>2 DEF TypeInv, Clients
<1>4. PICK will \in BOOLEAN : will = _will_reconnect(c)
  BY DEF _will_reconnect
<1>5. PICK d : d = [c EXCEPT !.reconnecting = will]
  OBVIOUS
<1>6. /\ d \in Clients /\ d.gen = c.gen /\ d.transport = c.transport /\ d.engine = c.engine
      /\ d.intentional = c.intentional /\ d.owed = c.owed /\ d.latch = c.latch /\ d.reconnecting = will
  BY <1>3, <1>4, <1>5 DEF Clients
<1>7. will => ~c.latch /\ ~c.intentional
  BY <1>3, <1>4, WillReconnect
<1>8. client' \in IF will THEN {d} ELSE _fail_pending(d)
  BY <1>1, <1>4, <1>5 DEF ReaderDecides
<1>9. /\ client'.gen = d.gen /\ client'.transport = d.transport /\ client'.engine = d.engine
      /\ client'.intentional = d.intentional /\ client'.reconnecting = will
      /\ will => client'.owed = d.owed /\ client'.latch = d.latch
      /\ ~will => client'.owed = FALSE
  <2>1. CASE will
    BY <1>6, <1>8, <2>1
  <2>2. CASE ~will
    <3>1. PICK latch \in BOOLEAN : client' = [d EXCEPT !.owed = FALSE, !.latch = latch]
      BY <1>6, <1>8, <2>2, FailPending
    <3> QED BY <1>6, <2>2, <3>1 DEF Clients
  <2> QED BY <2>1, <2>2
<1>10. PICK connack : connack = IF client.intentional THEN reader[g].connack ELSE
                        Connack(reader[g], IF c.cause = "permanent" THEN "permanent" ELSE "plain")
  OBVIOUS
<1>11. connack = "ok" <=> reader[g].connack = "ok"
  BY <1>10 DEF Connack
<1>12. reader' = [reader EXCEPT ![g].pc = "closing", ![g].will = will, ![g].connack = connack]
  BY <1>1, <1>4, <1>10 DEF ReaderDecides
<1>13. reader'[g].pc = "closing" /\ reader'[g].will = will /\ reader'[g].connack = connack
  BY <1>12 DEF TypeInv, Readers
<1>14. Decision(g, will)
  BY <1>3, <1>6, <1>7, <1>9, <1>11, <1>13 DEF Decision
<1> QED BY <1>14

\* The reader decides: it keeps the work for a retry or has settled it.
LEMMA ReaderDecidesWork ==
    ASSUME Inv, HandInv, NEW g \in Gens, ReaderDecides(g)
    PROVE  HandInv'
<1>1. TypeInv /\ reader[g].pc = "retiring" /\ pc' = pc /\ cut' = cut
  BY DEF Inv, BaseInv, ReaderDecides
<1>2. PICK will \in BOOLEAN : Decision(g, will)
  BY <1>1, ReaderDecision
<1>3. ASSUME Before PROVE After
  <2>1. g = client.gen /\ g # 0
    BY <1>1, <1>3, LifecycleAssumption DEF Before, OwnerInv, ReaderInv, Idle, Gens
  <2>2. Phase = "retiring" /\ Phase' = "closing" /\ (Will' <=> will)
    BY <1>1, <1>2, <2>1 DEF Phase, Will, Decision
  <2>3. client.engine \notin {"new", "connecting", "connected", "disconnecting"}
    BY <1>3, <2>1, <2>2, PhaseFacts DEF Before, ClosingInv
  <2>4. RetryInv'
    BY <1>1, <1>2, <2>2, <2>3 DEF RetryInv, Decision
  <2>5. ClosingInv'
    BY <1>1, <1>2, <1>3, <2>2, <2>3, SamePc DEF Before, ClosingInv, Decision, Up
  <2>6. WorkInv'
    <3>1. WillRetry' <=> will
      BY <2>2 DEF WillRetry
    <3>2. ~Over'
      BY <2>2 DEF Over
    <3> QED BY <1>1, <1>2, <2>2, <3>1, <3>2 DEF WorkInv, Decision
  <2> QED BY <2>4, <2>5, <2>6 DEF After
<1> QED BY <1>1, <1>3, Framed

\* A live supervisor is a supervisor.
LEMMA LiveNotAlone ==
    ASSUME TypeInv, Live(client.task)
    PROVE  ~Alone
  BY DEF TypeInv, Clients, Live, Alone

\* The reader has closed its transport: the work kept for a retry goes to the
\* supervisor it starts, or to the one alive.
LEMMA ReaderClosesWork ==
    ASSUME Inv, HandInv, NEW g \in Gens, ReaderCloses(g)
    PROVE  HandInv'
<1>1. TypeInv /\ client \in Clients
  BY DEF Inv, BaseInv, TypeInv
<1>2. PICK left, closed : /\ left = IF client.transport = g THEN 0 ELSE client.transport
                          /\ closed = (client.closed \/ ~reader[g].will)
  OBVIOUS
<1>3. PICK c : c = [client EXCEPT !.transport = left, !.closed = closed]
  OBVIOUS
<1>4. c = [client EXCEPT !.transport = IF @ = g THEN 0 ELSE @, !.closed = @ \/ ~reader[g].will]
  BY <1>1, <1>2, <1>3 DEF Clients
<1>5. reader[g].pc = "closing" /\ reader' = [reader EXCEPT ![g].pc = "done"] /\ cut \subseteq cut'
  BY DEF ReaderCloses
<1>6. reader'[g].pc = "done"
  BY <1>1, <1>5 DEF TypeInv, Readers
<1>7. ASSUME Before PROVE After
  <2>1. g = client.gen /\ g # 0 /\ client.transport = g
    BY <1>5, <1>7, LifecycleAssumption DEF Before, OwnerInv, ReaderInv, Idle, Gens
  <2>2. client.engine # "new"
    BY <1>7, <2>1 DEF Before, ClosingInv
  <2>3. Phase = "closing" /\ (Will <=> reader[g].will) /\ (client'.gen = client.gen => Phase' = "done")
    BY <1>5, <1>6, <2>1 DEF Phase, Will
  <2>4. CASE reader[g].will /\ ~Live(client.task) /\ ~client.intentional
    <3>1. PICK s \in Supervisors : pc[s] = "none" /\ pc' = [pc EXCEPT ![s] = "ready"] /\ client' = [c EXCEPT !.task = s]
      BY <1>4, <2>4 DEF ReaderCloses
    <3>2. client' = [client EXCEPT !.transport = left, !.closed = closed, !.task = s]
      BY <1>1, <1>3, <3>1 DEF Clients
    <3>3. /\ client'.gen = client.gen /\ client'.engine = client.engine /\ client'.transport = left
          /\ client'.intentional = client.intentional /\ client'.reconnecting = client.reconnecting
          /\ client'.latch = client.latch /\ client'.owed = client.owed
      BY <1>1, <3>2 DEF Clients
    <3>4. /\ pc'["connect"] = pc["connect"] /\ pc'["disconnect"] = pc["disconnect"] /\ ~Alone'
          /\ (Quitting' => Quitting) /\ (Failing' => Failing) /\ (Leaving' => Leaving)
          /\ (Answering => Answering')
      <4>1. s \in Attempting /\ s # "connect"
        BY LifecycleAssumption DEF Attempting
      <4> QED BY <1>1, <3>1, <4>1, Moves
    <3>5. RetryInv'
      BY <1>7, <2>3, <3>3, <3>4 DEF Before, RetryInv
    <3>6. ClosingInv'
      BY <1>7, <2>2, <2>3, <3>3, <3>4 DEF Before, ClosingInv
    <3>7. ASSUME cut' = {} PROVE WorkInv'
      BY <1>2, <1>7, <2>1, <2>3, <2>4, <3>3, <3>4, <3>7 DEF Before, WorkInv, Undecided
    <3> QED BY <3>5, <3>6, <3>7 DEF After
  <2>5. CASE ~(reader[g].will /\ ~Live(client.task) /\ ~client.intentional)
    <3>1. client' = [client EXCEPT !.transport = left, !.closed = closed] /\ pc' = pc
      BY <1>3, <1>4, <2>5 DEF ReaderCloses
    <3>2. /\ client'.gen = client.gen /\ client'.engine = client.engine /\ client'.transport = left
          /\ client'.intentional = client.intentional /\ client'.reconnecting = client.reconnecting
          /\ client'.latch = client.latch /\ client'.owed = client.owed
      BY <1>1, <3>1 DEF Clients
    <3>3. (Ok' <=> Ok) /\ (Will /\ ~client.intentional => ~Alone)
      <4>1. reader'[g].connack = reader[g].connack
        BY <1>1, <1>5 DEF TypeInv, Readers
      <4> QED BY <1>1, <2>1, <2>3, <2>5, <3>2, <4>1, LiveNotAlone DEF Ok
    <3>4. RetryInv'
      BY <1>7, <2>3, <3>1, <3>2, SamePc DEF Before, RetryInv
    <3>5. ClosingInv'
      BY <1>7, <2>2, <2>3, <3>1, <3>2, SamePc DEF Before, ClosingInv
    <3>6. ASSUME cut' = {} PROVE WorkInv'
      <4>1. client.reconnecting => ~Alone
        BY <1>7, <2>3, <3>3 DEF Before, RetryInv
      <4> QED BY <1>2, <1>7, <2>1, <2>3, <3>1, <3>2, <3>3, <3>6, <4>1, SamePc DEF Before, WorkInv,
                 Undecided, WillRetry, Returning, ConnectWorks
    <3> QED BY <3>4, <3>5, <3>6 DEF After
  <2> QED BY <2>4, <2>5
<1> QED BY <1>5, <1>7, Framed

\* The attributes that say what is pending.
SamePending(c, d) ==
    /\ d.intentional = c.intentional /\ d.reconnecting = c.reconnecting
    /\ d.latch = c.latch /\ d.owed = c.owed

-----------------------------------------------------------------------------
(* Attempts.                                                               *)

\* How the pending work is settled when an attempt that found c goes to `to':
\* settled for good, left to others by an intentional end, or kept for a retry.
Settles(c, to) ==
    \/ /\ to \in {"idle", "none"} /\ ~client'.reconnecting /\ ~client'.owed
       /\ c.intentional => client'.intentional
       /\ to = "none" => client'.intentional = c.intentional
    \/ to = "none" /\ c.intentional /\ SamePending(c, client')
    \/ to \in {"ready", "dial"} /\ ~c.intentional /\ SamePending(c, client')
    \/ to = "backoff" /\ ~c.intentional /\ ~client'.intentional /\ ~client'.latch

\* A failed connect() settles what is pending or backs off with it.
LEMMA ConnectSettles ==
    ASSUME NEW c \in Clients, NEW h, ConnectFailed(c, h)
    PROVE  \E to \in {"idle", "backoff"} :
            /\ pc' = [pc EXCEPT !["connect"] = to] /\ client' \in Clients /\ SameLinks(c, client')
            /\ Settles(c, to)
<1>1. PICK to \in {"idle", "backoff"} :
        /\ pc' = [pc EXCEPT !["connect"] = to] /\ client' \in Clients /\ SameLinks(c, client')
        /\ client'.intentional = (to = "idle") /\ client'.reconnecting = (to = "backoff")
        /\ client'.owed = IF to = "idle" THEN FALSE ELSE c.owed
        /\ to = "backoff" => _will_reconnect(c) /\ client'.latch = c.latch
  BY ConnectFails
<1>2. CASE to = "idle"
  BY <1>1, <1>2 DEF Settles
<1>3. CASE to = "backoff"
  <2>1. ~c.intentional /\ ~c.latch
    BY <1>1, <1>3, WillReconnect
  <2>2. ~client'.intentional /\ ~client'.latch
    BY <1>1, <1>3, <2>1
  <2> QED BY <1>1, <1>3, <2>1, <2>2 DEF Settles
<1> QED BY <1>2, <1>3

\* _terminal_shutdown() settles everything.
LEMMA ShutSettles ==
    ASSUME NEW c \in Clients, NEW d \in _terminal_shutdown(c)
    PROVE  /\ Ended(d) \in Clients /\ SameLinks(c, Ended(d)) /\ Ended(d).intentional = c.intentional
           /\ ~Ended(d).reconnecting /\ ~Ended(d).owed
<1>1. PICK latch \in BOOLEAN :
        d = [c EXCEPT !.reconnecting = FALSE, !.closed = TRUE, !.owed = FALSE, !.latch = latch]
  BY TerminalShutdown
<1>2. PICK e : e = Ended(d)
  OBVIOUS
<1>3. e = [c EXCEPT !.reconnecting = FALSE, !.closed = TRUE, !.owed = FALSE, !.latch = latch, !.task = "none"]
  BY <1>1, <1>2 DEF Ended, Clients
<1>4. /\ e \in Clients /\ SameLinks(c, e) /\ e.intentional = c.intentional
      /\ e.reconnecting = FALSE /\ e.owed = FALSE
  BY <1>3 DEF Clients, SameLinks
<1> QED BY <1>2, <1>4

\* A supervisor that goes on keeps what is pending, one that ends leaves it to the
\* intentional end that ended it.
LEMMA LoopsSettles ==
    ASSUME NEW s, NEW c \in Clients, Loops(s, c)
    PROVE  \E to \in {"none", "ready"} :
            /\ pc' = [pc EXCEPT ![s] = to] /\ client' \in Clients /\ SameLinks(c, client')
            /\ SamePending(c, client') /\ (c.intentional <=> to = "none")
<1>1. CASE c.intentional
  <2>1. pc' = [pc EXCEPT ![s] = "none"] /\ client' = [c EXCEPT !.task = "none"]
    BY <1>1 DEF Loops, SupervisorEnds, Ended
  <2>2. client' \in Clients /\ SameLinks(c, client') /\ SamePending(c, client')
    BY <2>1 DEF Clients, SameLinks, SamePending
  <2> QED BY <1>1, <2>1, <2>2
<1>2. CASE ~c.intentional
  <2>1. pc' = [pc EXCEPT ![s] = "ready"] /\ client' = c
    BY <1>2 DEF Loops
  <2> QED BY <1>2, <2>1 DEF SameLinks, SamePending
<1> QED BY <1>1, <1>2

\* A failed supervisor settles what is pending, goes on with it, or leaves it to an
\* intentional end.
LEMMA SupervisorSettles ==
    ASSUME NEW s, NEW c \in Clients, NEW h, NEW opened, SupervisorFailed(s, c, h, opened)
    PROVE  \E to \in {"none", "ready"} :
            /\ pc' = [pc EXCEPT ![s] = to] /\ client' \in Clients /\ SameLinks(c, client')
            /\ Settles(c, to)
<1>1. CASE c.cause = "permanent" \/ c.latch
  <2>1. PICK d \in _terminal_shutdown(c) : client' = Ended(d) /\ pc' = [pc EXCEPT ![s] = "none"]
    BY <1>1 DEF SupervisorFailed, SupervisorEnds
  <2>2. /\ client' \in Clients /\ SameLinks(c, client') /\ client'.intentional = c.intentional
        /\ ~client'.reconnecting /\ ~client'.owed
    BY <2>1, ShutSettles
  <2>3. Settles(c, "none")
    BY <2>2 DEF Settles
  <2> QED BY <2>1, <2>2, <2>3
<1>2. CASE ~(c.cause = "permanent" \/ c.latch)
  <2>1. Loops(s, c)
    BY <1>2 DEF SupervisorFailed
  <2>2. PICK to \in {"none", "ready"} :
            /\ pc' = [pc EXCEPT ![s] = to] /\ client' \in Clients /\ SameLinks(c, client')
            /\ SamePending(c, client') /\ (c.intentional <=> to = "none")
    BY <2>1, LoopsSettles
  <2>3. Settles(c, to)
    BY <2>2 DEF Settles
  <2> QED BY <2>2, <2>3
<1> QED BY <1>1, <1>2

\* An attempt is over and has settled what was pending.
Gone(a, to) ==
    /\ pc[a] \in {"dial", "fail", "quit", "backoff"} /\ pc' = [pc EXCEPT ![a] = to]
    /\ to \in IF a = "connect" THEN {"idle", "backoff", "dial"} ELSE {"none", "ready"}
    /\ Over /\ reader' = reader /\ client'.gen = client.gen /\ client'.transport = 0
    /\ client'.engine \in {client.engine, "disconnected"} /\ client'.engine \notin Up
    /\ Settles(client, to)

\* It hands on what is pending.
LEMMA SettledWork ==
    ASSUME Before, NEW a \in Attempting, NEW to, Gone(a, to)
    PROVE  After
<1>1. /\ pc[a] \in {"dial", "fail", "quit", "backoff"} /\ pc' = [pc EXCEPT ![a] = to]
      /\ to \in IF a = "connect" THEN {"idle", "backoff", "dial"} ELSE {"none", "ready"}
      /\ Over /\ reader' = reader /\ client'.gen = client.gen /\ client'.transport = 0
      /\ client'.engine \in {client.engine, "disconnected"} /\ client'.engine \notin Up
      /\ Settles(client, to)
  BY DEF Gone
<1>2. Phase' = Phase /\ (Will' <=> Will) /\ (Ok' <=> Ok) /\ (Over' <=> Over)
  BY <1>1, PhaseSame
<1>3. \A b \in Attempting : b # a => pc[b] \notin Trying
  <2>1. a \in Tasks /\ Owns(pc, a) /\ \A b \in Attempting : b \in Tasks /\ b # "disconnect"
    BY <1>1, LifecycleAssumption DEF Attempting, Tasks, Owns, Trying
  <2> QED BY <1>1, <2>1, Holder DEF Before, Owns
<1>4. /\ ~Quitting' /\ ~Failing' /\ ~Leaving'
  BY <1>1, <1>3, Moves
     DEF Before, Attempting, Trying, Quitting, Failing, Leaving, TypeInv, PcType, Tasks
<1>5. /\ pc'["disconnect"] = pc["disconnect"] /\ pc'[a] = to
      /\ a = "connect" => (Alone' <=> Alone)
      /\ a # "connect" => /\ pc'["connect"] = pc["connect"] /\ (to # "none" => ~Alone') /\ ~Alone
                          /\ pc["connect"] \notin Trying
  BY <1>1, <1>3, Moves DEF Before, Attempting
<1>6. client'.engine \notin Up /\ Phase \notin {"reading", "fatal", "ending", "retiring", "closing"}
  BY <1>1 DEF Up, Over
<1>7. (a # "connect" => client.engine # "new") /\ (client'.engine = "new" => client.engine = "new")
  BY <1>1, <1>5 DEF Before, ClosingInv
<1>8. /\ client.intentional \in BOOLEAN /\ client.reconnecting \in BOOLEAN
      /\ client.latch \in BOOLEAN /\ client.owed \in BOOLEAN
  BY <1>1 DEF Before, TypeInv, Clients
<1>9. RetryInv'
  BY <1>1, <1>2, <1>6, <1>8 DEF Before, RetryInv, Settles, SamePending, Up
<1>10. ClosingInv'
  BY <1>1, <1>2, <1>4, <1>5, <1>6, <1>7, <1>8 DEF Before, ClosingInv, Settles, SamePending, Trying
<1>11. ASSUME cut' = {} PROVE WorkInv'
  <2>1. WorkInv /\ ~Undecided /\ ~WillRetry
    BY <1>1, <1>6, <1>11 DEF Before, Undecided, WillRetry
  <2>2. ~(client.latch /\ client.owed)
    BY <1>1, <2>1 DEF WorkInv
  <2>3. CASE to = "idle"
    BY <1>1, <1>2, <1>6, <2>3, LifecycleAssumption DEF WorkInv, Settles
  <2>4. CASE to \in {"backoff", "dial"}
    <3>1. pc'["connect"] = to /\ ConnectWorks'
      BY <1>1, <1>5, <2>4, LifecycleAssumption DEF ConnectWorks, Returning, Attempting
    <3>2. ~Returning'
      BY <1>1, <2>4, <3>1 DEF Returning
    <3> QED BY <1>1, <1>2, <1>6, <1>8, <2>2, <2>4, <3>1, <3>2 DEF WorkInv, Settles, SamePending
  <2>5. CASE to = "ready"
    <3>1. ~Alone'
      BY <1>1, <1>5, <2>5
    <3> QED BY <1>1, <1>2, <1>6, <1>8, <2>2, <2>5, <3>1 DEF WorkInv, Settles, SamePending
  <2>6. CASE to = "none"
    <3>1. CASE ~client'.reconnecting /\ ~client'.owed
      BY <1>1, <1>2, <1>6, <3>1 DEF WorkInv
    <3>2. CASE client.intentional /\ SamePending(client, client')
      <4>1. ~client'.reconnecting
        BY <1>1, <3>2 DEF Before, RetryInv, SamePending
      <4>2. pc'["connect"] = pc["connect"]
        BY <1>1, <1>5, <2>6, LifecycleAssumption
      <4>3. client'.owed /\ client'.engine # "new" => ConnectWorks' \/ pc'["disconnect"] \in {"join", "lock"}
        BY <1>1, <1>2, <1>5, <1>7, <1>8, <2>1, <2>6, <3>2, <4>2
           DEF WorkInv, SamePending, ConnectWorks, Returning
      <4> QED BY <1>1, <1>2, <1>6, <2>2, <3>2, <4>1, <4>3 DEF WorkInv, SamePending
    <3> QED BY <1>1, <2>6, <3>1, <3>2 DEF Settles
  <2> QED BY <1>1, <2>3, <2>4, <2>5, <2>6, LifecycleAssumption
<1> QED BY <1>1, <1>9, <1>10, <1>11 DEF After

\* So does every failed attempt.
LEMMA AttemptSettles ==
    ASSUME NEW a \in Attempting, NEW c \in Clients, NEW h, NEW opened, AttemptFailed(a, c, h, opened)
    PROVE  \E to : /\ to \in IF a = "connect" THEN {"idle", "backoff", "dial"} ELSE {"none", "ready"}
                   /\ pc' = [pc EXCEPT ![a] = to] /\ client' \in Clients /\ SameLinks(c, client')
                   /\ Settles(c, to)
<1>1. CASE a = "connect"
  BY <1>1, ConnectSettles DEF AttemptFailed
<1>2. CASE a # "connect"
  BY <1>2, SupervisorSettles DEF AttemptFailed
<1> QED BY <1>1, <1>2

\* Only the pending work matters for how it is settled.
LEMMA SettlesSame ==
    ASSUME NEW c, NEW d, SamePending(c, d), NEW to, Settles(d, to)
    PROVE  Settles(c, to)
  BY DEF Settles, SamePending

\* The dial failed.
LEMMA DialFailsWork ==
    ASSUME Inv, HandInv, NEW a \in Attempting, DialFails(a)
    PROVE  HandInv'
<1>1. client \in Clients
  BY DEF Inv, BaseInv, TypeInv
<1>2. PICK c : c = [client EXCEPT !.cause = "plain"]
  OBVIOUS
<1>3. /\ c \in Clients /\ c.gen = client.gen /\ c.transport = client.transport
      /\ c.engine = client.engine
      /\ SamePending(client, c)
  BY <1>1, <1>2 DEF Clients, SamePending
<1>4. AttemptFailed(a, c, hooks, FALSE) /\ reader' = reader /\ cut' = cut /\ pc[a] = "dial"
  BY <1>2 DEF DialFails, Dialled
<1>5. PICK to : /\ to \in IF a = "connect" THEN {"idle", "backoff", "dial"} ELSE {"none", "ready"}
                /\ pc' = [pc EXCEPT ![a] = to] /\ SameLinks(c, client') /\ Settles(c, to)
  BY <1>3, <1>4, AttemptSettles
<1>6. Settles(client, to)
  BY <1>3, <1>5, SettlesSame
<1>7. ASSUME Before PROVE After
  <2>1. Over /\ client.transport = 0 /\ client.engine \notin Up
    BY <1>4, <1>7, PhaseFacts DEF Before, Over, Up
  <2>2. Gone(a, to)
    BY <1>3, <1>4, <1>5, <1>6, <2>1 DEF SameLinks, Gone
  <2> QED BY <1>7, <2>2, SettledWork
<1> QED BY <1>4, <1>7, Framed

\* The attempt has closed what it opened.
LEMMA AttemptClosedWork ==
    ASSUME Inv, HandInv, NEW a \in Attempting, AttemptClosed(a)
    PROVE  HandInv'
<1>1. client \in Clients
  BY DEF Inv, BaseInv, TypeInv
<1>2. PICK c : c = [client EXCEPT !.reader = 0, !.transport = 0, !.engine = "disconnected"]
  OBVIOUS
<1>3. /\ c \in Clients /\ c.gen = client.gen /\ c.transport = 0 /\ c.engine = "disconnected"
      /\ SamePending(client, c)
  <2>1. 0 \in 0..MaxGens
    BY LifecycleAssumption
  <2> QED BY <1>1, <1>2, <2>1 DEF Clients, SamePending
<1>4. NoReader /\ reader' = reader /\ cut' = cut /\ pc[a] \in {"fail", "quit"}
  BY DEF AttemptClosed
<1>5. ASSUME Before
      PROVE  \E to : /\ to \in IF a = "connect" THEN {"idle", "backoff", "dial"} ELSE {"none", "ready"}
                     /\ pc' = [pc EXCEPT ![a] = to] /\ client'.gen = client.gen /\ client'.transport = 0
                     /\ client'.engine = "disconnected" /\ Settles(client, to)
  <2>1. CASE pc[a] = "fail"
    <3>1. PICK d : d = [c EXCEPT !.cause = client.exc]
      OBVIOUS
    <3>2. /\ d \in Clients /\ d.gen = c.gen /\ d.transport = 0 /\ d.engine = "disconnected"
          /\ SamePending(client, d)
      BY <1>1, <1>3, <3>1 DEF Clients, SamePending
    <3>3. AttemptFailed(a, d, release(hooks), TRUE)
      BY <1>2, <2>1, <3>1 DEF AttemptClosed
    <3>4. PICK to : /\ to \in IF a = "connect" THEN {"idle", "backoff", "dial"} ELSE {"none", "ready"}
                    /\ pc' = [pc EXCEPT ![a] = to] /\ SameLinks(d, client') /\ Settles(d, to)
      BY <3>2, <3>3, AttemptSettles
    <3>5. Settles(client, to)
      BY <3>2, <3>4, SettlesSame
    <3> QED BY <1>3, <3>2, <3>4, <3>5 DEF SameLinks
  <2>2. CASE pc[a] = "quit" /\ a = "connect"
    <3>1. client' \in _abandon_connect(c) /\ pc' = [pc EXCEPT !["connect"] = "idle"]
      BY <1>2, <2>2 DEF AttemptClosed
    <3>2. PICK latch \in BOOLEAN :
            client' = [c EXCEPT !.intentional = TRUE, !.reconnecting = FALSE, !.owed = FALSE, !.latch = latch]
      BY <1>3, <3>1, AbandonConnect
    <3>3. /\ client'.gen = c.gen /\ client'.intentional = TRUE /\ client'.reconnecting = FALSE
          /\ client'.owed = FALSE /\ client'.transport = 0 /\ client'.engine = "disconnected"
      BY <1>3, <3>2 DEF Clients
    <3>4. Settles(client, "idle")
      BY <3>3 DEF Settles
    <3> QED BY <1>3, <2>2, <3>1, <3>3, <3>4
  <2>3. CASE pc[a] = "quit" /\ a # "connect"
    <3>1. client' = [c EXCEPT !.task = "none"] /\ pc' = [pc EXCEPT ![a] = "none"]
      BY <1>2, <2>3 DEF AttemptClosed, SupervisorEnds, Ended
    <3>2. /\ client'.gen = c.gen /\ client'.transport = 0 /\ client'.engine = "disconnected"
          /\ SamePending(client, client')
      BY <1>3, <3>1 DEF Clients, SamePending
    <3>3. client.intentional
      BY <1>5, <2>3 DEF Before, ClosingInv, Quitting, Attempting
    <3>4. Settles(client, "none")
      BY <3>2, <3>3 DEF Settles
    <3> QED BY <1>3, <2>3, <3>1, <3>2, <3>4
  <2> QED BY <1>4, <2>1, <2>2, <2>3
<1>6. ASSUME Before PROVE After
  <2>1. PICK to : /\ to \in IF a = "connect" THEN {"idle", "backoff", "dial"} ELSE {"none", "ready"}
                  /\ pc' = [pc EXCEPT ![a] = to] /\ client'.gen = client.gen /\ client'.transport = 0
                  /\ client'.engine = "disconnected" /\ Settles(client, to)
    BY <1>5, <1>6
  <2>2. Over
    BY <1>4, <1>6, PhaseFacts DEF Before
  <2>3. Gone(a, to)
    BY <1>4, <2>1, <2>2 DEF Gone, Up
  <2> QED BY <1>6, <2>3, SettledWork
<1> QED BY <1>4, <1>6, Framed

\* connect() gives up in its dial or its backoff.
LEMMA AbandonWork ==
    ASSUME Before, pc["connect"] \in {"dial", "backoff"}, reader' = reader,
           pc' = [pc EXCEPT !["connect"] = "idle"], client' \in _abandon_connect(client)
    PROVE  After
<1>1. client \in Clients /\ "connect" \in Attempting
  BY DEF Before, TypeInv, Attempting
<1>2. PICK latch \in BOOLEAN :
        client' = [client EXCEPT !.intentional = TRUE, !.reconnecting = FALSE, !.owed = FALSE, !.latch = latch]
  BY <1>1, AbandonConnect
<1>3. /\ client'.gen = client.gen /\ client'.intentional = TRUE /\ client'.reconnecting = FALSE
      /\ client'.owed = FALSE /\ client'.transport = client.transport /\ client'.engine = client.engine
  BY <1>1, <1>2 DEF Clients
<1>4. Over /\ client.transport = 0 /\ client.engine \notin Up
  BY <1>1, PhaseFacts DEF Before, Over, Up
<1>5. Settles(client, "idle")
  BY <1>3 DEF Settles
<1>6. Gone("connect", "idle")
  BY <1>3, <1>4, <1>5 DEF Gone
<1> QED BY <1>1, <1>6, SettledWork

\* The backoff of connect() ends, by time or by disconnect().
LEMMA BackoffEndsWork ==
    ASSUME Inv, HandInv, BackoffEnds
    PROVE  HandInv'
<1>1. pc["connect"] = "backoff" /\ reader' = reader /\ cut' = cut
  BY DEF BackoffEnds
<1>2. ASSUME Before, client.intentional PROVE After
  <2>1. pc' = [pc EXCEPT !["connect"] = "idle"] /\ client' \in _abandon_connect(client)
    BY <1>2 DEF BackoffEnds
  <2> QED BY <1>1, <1>2, <2>1, AbandonWork
<1>3. ASSUME Before, ~client.intentional PROVE After
  <2>1. pc' = [pc EXCEPT !["connect"] = "dial"] /\ client' = [client EXCEPT !.lastConnack = "none"]
    BY <1>3 DEF BackoffEnds
  <2>2. /\ client'.gen = client.gen /\ client'.transport = client.transport /\ client'.engine = client.engine
        /\ SamePending(client, client')
    BY <1>3, <2>1 DEF Before, TypeInv, Clients, SamePending
  <2>3. "connect" \in Attempting
    BY DEF Attempting
  <2>4. Over /\ client.transport = 0 /\ client.engine \notin Up
    BY <1>1, <1>3, <2>3, PhaseFacts DEF Before, Over, Up
  <2>5. Settles(client, "dial")
    BY <1>3, <2>2 DEF Settles
  <2>6. Gone("connect", "dial")
    BY <1>1, <2>1, <2>2, <2>4, <2>5 DEF Gone
  <2> QED BY <1>3, <2>3, <2>6, SettledWork
<1> QED BY <1>1, <1>2, <1>3, Framed

\* Only one task attempts or closes under the lock.
LEMMA AttemptHolds ==
    ASSUME LockInv, NEW a \in Attempting, pc[a] \in Trying \cup {"force"}
    PROVE  \A b \in Attempting : b # a => pc[b] \notin Trying \cup {"force"}
<1>1. a \in Tasks /\ Owns(pc, a) /\ \A b \in Attempting : b \in Tasks /\ b # "disconnect"
  BY LifecycleAssumption DEF Attempting, Tasks, Owns
<1> QED BY <1>1, Holder DEF Owns

\* A transport is open: its reader has the work.
LEMMA OpensWork ==
    ASSUME Inv, HandInv, NEW a \in Attempting, Opens(a)
    PROVE  HandInv'
<1>1. TypeInv /\ client \in Clients /\ client.gen \in Nat
  BY DEF Inv, BaseInv, TypeInv, Clients
<1>2. PICK g : g = client.gen + 1
  OBVIOUS
<1>3. /\ pc[a] = "dial" /\ pc' = [pc EXCEPT ![a] = "connack"] /\ cut' = cut /\ client.gen < MaxGens
      /\ reader' = [reader EXCEPT ![g] = [pc |-> "reading", tok |-> hooks.token, will |-> FALSE, connack |-> "wait"]]
      /\ client' = [client EXCEPT !.gen = g, !.transport = g, !.reader = g, !.closed = FALSE,
                                !.cause = "none", !.lastDisc = "none", !.bye = FALSE,
                                !.engine = "connecting"]
  BY <1>2 DEF Opens, Dialled
<1>4. g \in Gens /\ g # 0
  BY <1>1, <1>2, <1>3, LifecycleAssumption DEF Gens
<1>5. /\ client'.gen = g /\ client'.engine = "connecting" /\ client'.transport = g
      /\ SamePending(client, client')
  BY <1>1, <1>3 DEF Clients, SamePending
<1>6. Phase' = "reading"
  BY <1>1, <1>3, <1>4, <1>5 DEF TypeInv, Phase
<1>7. ASSUME Before PROVE After
  <2>1. Over
    BY <1>3, <1>7, PhaseFacts DEF Before
  <2>2. \A b \in Attempting : b # a => pc[b] \notin Trying
    BY <1>3, <1>7, AttemptHolds DEF Before, Trying
  <2>3. ~Failing' /\ ~Leaving' /\ ~Quitting'
    BY <1>1, <1>3, <2>2, Moves DEF Failing, Leaving, Quitting, Attempting, Trying
  <2>4. /\ pc'["disconnect"] = pc["disconnect"] /\ pc'[a] = "connack"
        /\ a = "connect" => (Alone' <=> Alone) /\ pc'["connect"] # "idle"
        /\ a # "connect" => pc'["connect"] = pc["connect"] /\ ~Alone'
    BY <1>1, <1>3, Moves
  <2>5. pc'["connect"] \in Trying => pc["connect"] \in Trying
    BY <1>3, <2>4 DEF Trying
  <2>6. RetryInv'
    BY <1>5, <1>6, <1>7, <2>1 DEF Before, RetryInv, SamePending, Over
  <2>7. ClosingInv'
    BY <1>5, <1>6, <1>7, <2>3, <2>4, <2>5 DEF Before, ClosingInv, SamePending
  <2>8. WorkInv'
    <3>1. Undecided' /\ ~Over' /\ Phase' # "closing"
      BY <1>6 DEF Undecided, Over
    <3>2. pc'["connect"] # "idle" \/ ~Alone'
      BY <2>4
    <3> QED BY <3>1, <3>2 DEF WorkInv
  <2> QED BY <2>6, <2>7, <2>8 DEF After
<1> QED BY <1>3, <1>7, Framed

\* The attempt returns its CONNACK: the work is that of the reader, if it was not
\* decided about already.
LEMMA AcceptedWork ==
    ASSUME Inv, HandInv, NEW a \in Attempting, Accepted(a)
    PROVE  HandInv'
<1>1. TypeInv /\ client \in Clients
  BY DEF Inv, BaseInv, TypeInv
<1>2. PICK to \in {"idle", "stable"} : to = IF a = "connect" THEN "idle" ELSE "stable"
  OBVIOUS
<1>3. /\ pc[a] = "connack" /\ pc' = [pc EXCEPT ![a] = to] /\ cut' = cut /\ reader' = reader
      /\ reader[client.gen].connack = "ok" /\ client' = [client EXCEPT !.reconnecting = FALSE]
  BY <1>2 DEF Accepted
<1>4. /\ client'.gen = client.gen /\ client'.engine = client.engine
      /\ client'.transport = client.transport
      /\ client'.reconnecting = FALSE /\ client'.intentional = client.intentional
      /\ client'.latch = client.latch /\ client'.owed = client.owed
  BY <1>1, <1>3 DEF Clients
<1>5. Phase' = Phase /\ (Will' <=> Will) /\ (Ok' <=> Ok) /\ (Over' <=> Over)
  BY <1>3, <1>4, PhaseSame
<1>6. /\ pc'["disconnect"] = pc["disconnect"] /\ pc'[a] = to
      /\ a = "connect" => (Alone' <=> Alone) /\ (Quitting' <=> Quitting)
      /\ a # "connect" => pc'["connect"] = pc["connect"] /\ ~Alone' /\ ~Alone /\ (Quitting' => Quitting)
      /\ (Failing' => Failing) /\ (Leaving' => Leaving)
  <2>1. to \notin {"none", "fail", "quit", "bye"} /\ pc[a] # "none"
    BY <1>2, <1>3
  <2> QED BY <1>1, <1>3, <2>1, Moves
<1>7. ASSUME Before PROVE After
  <2>1. client.gen # 0
    BY <1>1, <1>3, <1>7 DEF Before, OwnerInv, ReaderInv
  <2>2. a = "connect" => pc'["connect"] = "idle" /\ Returning
    BY <1>2, <1>3, <1>6, <2>1 DEF Returning, Ok
  <2>3. RetryInv'
    BY <1>4 DEF RetryInv
  <2>4. ClosingInv'
    BY <1>4, <1>5, <1>6, <1>7, <2>1, <2>2 DEF Before, ClosingInv, Trying
  <2>5. ASSUME cut' = {} PROVE WorkInv'
    <3>1. WorkInv /\ (ConnectWorks => ConnectWorks')
      BY <1>5, <1>6, <1>7, <2>2, <2>5 DEF Before, ConnectWorks, Returning
    <3> QED BY <1>4, <1>5, <1>6, <3>1 DEF WorkInv, Undecided, WillRetry
  <2> QED BY <2>3, <2>4, <2>5 DEF After
<1> QED BY <1>3, <1>7, Framed

\* The attempt sees the disconnect() and sends DISCONNECT.
LEMMA SeesByeWork ==
    ASSUME Inv, HandInv, NEW a \in Attempting, SeesBye(a)
    PROVE  HandInv'
<1>1. TypeInv /\ client \in Clients
  BY DEF Inv, BaseInv, TypeInv
<1>2. PICK e : e = IF client.engine \in {"connecting", "connected"} THEN "disconnecting" ELSE client.engine
  OBVIOUS
<1>3. /\ pc[a] = "connack" /\ pc' = [pc EXCEPT ![a] = "bye"] /\ cut' = cut /\ reader' = reader
      /\ client' = [client EXCEPT !.engine = e]
  BY <1>1, <1>2 DEF SeesBye, Clients
<1>4. /\ client'.gen = client.gen /\ client'.engine = e /\ client'.transport = client.transport
      /\ SamePending(client, client')
  BY <1>1, <1>3 DEF Clients, SamePending
<1>5. Phase' = Phase /\ (Will' <=> Will) /\ (Ok' <=> Ok) /\ (Over' <=> Over)
  BY <1>3, <1>4, PhaseSame
<1>6. /\ pc'["disconnect"] = pc["disconnect"] /\ pc'[a] = "bye"
      /\ a = "connect" => (Alone' <=> Alone) /\ (Quitting' <=> Quitting)
      /\ a # "connect" => pc'["connect"] = pc["connect"] /\ ~Alone' /\ ~Alone /\ (Quitting' => Quitting)
      /\ (Failing' => Failing)
  BY <1>1, <1>3, Moves
<1>7. ASSUME Before PROVE After
  <2>1. client.gen # 0 /\ e \notin Up /\ (e = "new" <=> client.engine = "new")
    BY <1>1, <1>2, <1>3, <1>7 DEF Before, OwnerInv, ReaderInv, Up
  <2>2. a = "connect" => ConnectWorks' /\ ~Returning' /\ pc["connect"] \in Trying
    BY <1>3, <1>6 DEF Returning, ConnectWorks, Trying
  <2>3. RetryInv'
    BY <1>4, <1>5, <1>7, <2>1 DEF Before, RetryInv, SamePending, Up
  <2>4. ClosingInv'
    BY <1>4, <1>5, <1>6, <1>7, <2>1, <2>2 DEF Before, ClosingInv, SamePending
  <2>5. ASSUME cut' = {} PROVE WorkInv'
    <3>1. WorkInv /\ (ConnectWorks => ConnectWorks') /\ (Returning' => Returning)
          /\ (pc["connect"] # "idle" => pc'["connect"] # "idle")
      BY <1>5, <1>6, <1>7, <2>2, <2>5 DEF Before, ConnectWorks, Returning
    <3> QED BY <1>4, <1>5, <1>6, <2>1, <3>1 DEF WorkInv, SamePending, Undecided, WillRetry
  <2> QED BY <2>3, <2>4, <2>5 DEF After
<1> QED BY <1>3, <1>7, Framed

\* An attempt starts to close what it opened.
LEMMA AttemptClosesWork ==
    ASSUME Inv, HandInv, NEW a \in Attempting, NEW to, AttemptCloses(a, to),
           to = "quit" => a = "connect"
    PROVE  HandInv'
<1>1. TypeInv /\ client \in Clients /\ client.reader \in 0..MaxGens
  BY DEF Inv, BaseInv, TypeInv, Clients
<1>2. /\ pc[a] \in {"connack", "bye"} /\ to \in {"fail", "quit"} /\ pc' = [pc EXCEPT ![a] = to]
      /\ CancelReader(client.reader)
  BY DEF AttemptCloses, ForceClose
<1>3. PICK exc : client' = [client EXCEPT !.exc = exc]
  BY DEF AttemptCloses
<1>4. /\ client'.gen = client.gen /\ client'.engine = client.engine
      /\ client'.transport = client.transport
      /\ SamePending(client, client')
  BY <1>1, <1>3 DEF Clients, SamePending
<1>5. /\ pc'["disconnect"] = pc["disconnect"] /\ pc'[a] = to
      /\ a = "connect" => (Alone' <=> Alone) /\ (Quitting' <=> Quitting)
      /\ a # "connect" => pc'["connect"] = pc["connect"] /\ ~Alone' /\ ~Alone /\ (Quitting' => Quitting)
      /\ Answering' /\ (Leaving' => Leaving)
  BY <1>1, <1>2, Moves
<1>6. ASSUME Before PROVE After
  <2>1. /\ (Will' <=> Will) /\ (Ok' <=> Ok)
        /\ Phase \in {"reading", "fatal"} => Phase' \in {Phase, "ending"}
        /\ Phase = "closing" => Phase' \in {"closing", "cut"}
        /\ Phase \notin {"reading", "fatal", "closing"} => Phase' = Phase
        /\ cut' = {} /\ Phase = "closing" => Phase' = "closing"
        /\ Phase' # "reading"
    BY <1>1, <1>2, <1>4, <1>6, PhaseCancelled DEF Before
  <2>2. a = "connect" => ConnectWorks' /\ ~Returning' /\ pc["connect"] \in Trying
    BY <1>2, <1>5 DEF Returning, ConnectWorks, Trying
  <2>3. RetryInv'
    BY <1>4, <1>5, <1>6, <2>1 DEF Before, RetryInv, SamePending
  <2>4. ClosingInv'
    BY <1>4, <1>5, <1>6, <2>1, <2>2 DEF Before, ClosingInv, SamePending
  <2>5. ASSUME cut' = {} PROVE WorkInv'
    <3>1. WorkInv /\ (ConnectWorks => ConnectWorks') /\ (Returning' => Returning)
          /\ (pc["connect"] # "idle" => pc'["connect"] # "idle")
      BY <1>5, <1>6, <2>1, <2>2, <2>5 DEF Before, ConnectWorks, Returning
    <3>2. (Undecided => Undecided') /\ (WillRetry <=> WillRetry') /\ (Over' <=> Over) /\ (Phase' = "closing" => Phase = "closing")
      BY <2>1, <2>5 DEF Undecided, WillRetry, Over
    <3> QED BY <1>4, <1>5, <2>1, <3>1, <3>2 DEF WorkInv, SamePending
  <2> QED BY <2>3, <2>4, <2>5 DEF After
<1> QED BY <1>2, <1>6, CancelGrows, Framed

\* connect() is cancelled while it waits for the lock or backs off.
LEMMA ConnectLeavesWork ==
    ASSUME Inv, HandInv, pc["connect"] \in {"lock", "backoff"}, pc' = [pc EXCEPT !["connect"] = "idle"],
           reader' = reader, client' = client, NEW w, cut' = cut \cup {w}
    PROVE  HandInv'
<1>1. TypeInv /\ "connect" \in Attempting
  BY DEF Inv, BaseInv, Attempting
<1>2. Phase' = Phase /\ (Will' <=> Will) /\ (Ok' <=> Ok) /\ (Over' <=> Over)
  BY PhaseSame
<1>3. /\ pc'["disconnect"] = pc["disconnect"] /\ pc'["connect"] = "idle"
      /\ (Alone' <=> Alone) /\ (Quitting' <=> Quitting)
      /\ (Failing' => Failing) /\ (Leaving' => Leaving) /\ (Answering => Answering')
  BY <1>1, Moves
<1>4. ASSUME Before PROVE After
  <2>1. RetryInv'
    BY <1>2, <1>3, <1>4 DEF Before, RetryInv
  <2>2. ClosingInv'
    BY <1>2, <1>3, <1>4 DEF Before, ClosingInv, Trying
  <2> QED BY <2>1, <2>2 DEF After
<1> QED BY <1>4, Framed

\* The caller cancels connect().
LEMMA ConnectCancelledWork ==
    ASSUME Inv, HandInv, ConnectCancelled
    PROVE  HandInv'
<1>1. CASE ConnectJoins
  BY <1>1, ConnectJoinsWork
<1>2. CASE /\ pc["connect"] \in {"lock", "backoff"} /\ pc' = [pc EXCEPT !["connect"] = "idle"]
           /\ reader' = reader /\ client' = client /\ \E w : cut' = cut \cup {w}
  BY <1>2, ConnectLeavesWork
<1>3. CASE /\ pc["connect"] = "dial" /\ reader' = reader /\ cut' = cut
           /\ pc' = [pc EXCEPT !["connect"] = "idle"] /\ client' \in _abandon_connect(client)
  BY <1>3, AbandonWork, Framed
<1>4. CASE /\ pc["connect"] \in {"connack", "bye"} /\ pc' = [pc EXCEPT !["connect"] = "quit"]
           /\ ForceClose(hooks) /\ lock' = lock /\ client' = client
  <2>1. client = [client EXCEPT !.exc = client.exc] /\ client.exc \in {"plain", "permanent"}
    BY DEF Inv, BaseInv, TypeInv, Clients
  <2>2. "connect" \in Attempting /\ AttemptCloses("connect", "quit")
    BY <1>4, <2>1 DEF AttemptCloses, Attempting
  <2> QED BY <2>2, AttemptClosesWork
<1>5. CASE /\ pc["connect"] = "cancel" /\ client' = [client EXCEPT !.asked = TRUE]
           /\ UNCHANGED <<pc, lock, reader, hooks, cut>>
  <2>1. CancelReader(0)
    BY <1>5 DEF CancelReader
  <2>2. ConnectJoins
    BY <1>5, <2>1 DEF ConnectJoins
  <2> QED BY <2>2, ConnectJoinsWork
<1> QED BY <1>1, <1>2, <1>3, <1>4, <1>5 DEF ConnectCancelled, ConnectJoins

\* Every step of an attempt.
LEMMA AttemptsWork ==
    ASSUME Inv, HandInv, NEW a \in Attempting, Attempts(a)
    PROVE  HandInv'
<1>1. CASE ConnackFails(a) \/ ByeSent(a)
  <2>1. AttemptCloses(a, "fail")
    BY <1>1 DEF ConnackFails, ByeSent, FailAttempt, AttemptCloses
  <2> QED BY <2>1, AttemptClosesWork
<1> QED BY <1>1, OpensWork, DialFailsWork, AcceptedWork, SeesByeWork, AttemptClosedWork DEF Attempts

-----------------------------------------------------------------------------
(* _reconnect_loop().                                                      *)

\* A supervisor outside an attempt goes on or ends.
Goes(s, to) ==
    /\ pc[s] \in {"ready", "sleep", "stable", "lock"} /\ pc' = [pc EXCEPT ![s] = to]
    /\ to \in {"none", "ready", "sleep", "lock"} /\ reader' = reader /\ cut' = cut
    /\ client'.gen = client.gen /\ client'.engine = client.engine
    /\ client'.transport = client.transport
    /\ \/ ~client'.reconnecting /\ ~client'.owed /\ client'.intentional = client.intentional
       \/ /\ SamePending(client, client')
          /\ to = "none" => client.intentional \/ client.engine = "connected"

\* It keeps or settles what is pending; an end without either is an intentional
\* one or finds the client connected.
LEMMA GoesWork ==
    ASSUME Inv, HandInv, NEW s \in Supervisors, NEW to, Goes(s, to)
    PROVE  HandInv'
<1>1. TypeInv /\ client \in Clients /\ s \in Attempting /\ s # "connect"
  BY LifecycleAssumption DEF Inv, BaseInv, TypeInv, Attempting
<1>2. /\ pc[s] \in {"ready", "sleep", "stable", "lock"} /\ pc' = [pc EXCEPT ![s] = to]
      /\ to \in {"none", "ready", "sleep", "lock"} /\ reader' = reader /\ cut' = cut
      /\ client'.gen = client.gen /\ client'.engine = client.engine
      /\ client'.transport = client.transport
      /\ \/ ~client'.reconnecting /\ ~client'.owed /\ client'.intentional = client.intentional
         \/ /\ SamePending(client, client')
            /\ to = "none" => client.intentional \/ client.engine = "connected"
  BY DEF Goes
<1>3. Phase' = Phase /\ (Will' <=> Will) /\ (Ok' <=> Ok) /\ (Over' <=> Over)
  BY <1>2, PhaseSame
<1>4. /\ pc'["disconnect"] = pc["disconnect"] /\ pc'["connect"] = pc["connect"]
      /\ ~Alone /\ (to # "none" => ~Alone')
      /\ (Quitting' => Quitting) /\ (Failing' => Failing) /\ (Leaving' => Leaving) /\ (Answering => Answering')
  BY <1>1, <1>2, Moves
<1>5. client'.intentional = client.intentional
  BY <1>2 DEF SamePending
<1>6. ASSUME Before PROVE After
  <2>1. client.engine # "new"
    BY <1>4, <1>6 DEF Before, ClosingInv
  <2>2. RetryInv'
    BY <1>2, <1>3, <1>4, <1>6 DEF Before, RetryInv, SamePending
  <2>3. ClosingInv'
    BY <1>2, <1>3, <1>4, <1>5, <1>6, <2>1 DEF Before, ClosingInv
  <2>4. ASSUME cut' = {} PROVE WorkInv'
    <3>1. WorkInv /\ (ConnectWorks' <=> ConnectWorks) /\ (Returning' <=> Returning)
          /\ (Undecided' <=> Undecided) /\ (WillRetry' <=> WillRetry)
      BY <1>3, <1>4, <1>6, <2>4 DEF Before, ConnectWorks, Returning, Undecided, WillRetry
    <3>2. CASE ~client'.reconnecting /\ ~client'.owed
      BY <1>2, <1>3, <3>1, <3>2 DEF WorkInv
    <3>3. CASE SamePending(client, client') /\ to # "none"
      BY <1>2, <1>3, <1>4, <3>1, <3>3 DEF WorkInv, SamePending
    <3>4. CASE SamePending(client, client') /\ client.intentional
      <4>1. ~client.reconnecting
        BY <1>6, <3>4 DEF Before, RetryInv
      <4> QED BY <1>2, <1>3, <1>4, <3>1, <3>4, <4>1 DEF WorkInv, SamePending
    <3>5. CASE SamePending(client, client') /\ client.engine = "connected"
      <4>1. Undecided
        BY <1>6, <3>5, PhaseFacts DEF Before, Undecided
      <4>2. client.reconnecting => pc["connect"] # "idle"
        <5>1. SUFFICES ASSUME client.reconnecting PROVE pc["connect"] # "idle"
          OBVIOUS
        <5>2. PICK a \in Attempting : pc[a] \in {"connack", "fail", "quit"}
          BY <1>6, <3>5, <5>1 DEF Before, RetryInv, Answering
        <5>3. a = "connect"
          BY <1>2, <1>6, <5>2, OnlySupervisor DEF Before, Attempting
        <5> QED BY <5>2, <5>3
      <4> QED BY <1>2, <1>3, <1>4, <3>1, <3>5, <4>1, <4>2 DEF WorkInv, SamePending
    <3> QED BY <1>2, <3>2, <3>3, <3>4, <3>5
  <2> QED BY <2>2, <2>3, <2>4 DEF After
<1> QED BY <1>2, <1>6, Framed

\* A supervisor that gives up settles everything.
LEMMA ShutGoes ==
    ASSUME TypeInv, NEW s, NEW c \in _terminal_shutdown(client), client' = Ended(c), SupervisorEnds(s),
           pc[s] \in {"ready", "sleep", "stable", "lock"}, reader' = reader, cut' = cut
    PROVE  Goes(s, "none")
<1>1. client \in Clients
  BY DEF TypeInv
<1>2. /\ SameLinks(client, client') /\ client'.intentional = client.intentional
      /\ ~client'.reconnecting /\ ~client'.owed
  BY <1>1, ShutSettles
<1> QED BY <1>2 DEF Goes, SameLinks, SupervisorEnds

\* A supervisor that is not needed ends.
LEMMA EndedGoes ==
    ASSUME TypeInv, NEW s, client' = Ended(client), SupervisorEnds(s), client.intentional \/ client.engine = "connected",
           pc[s] \in {"ready", "sleep", "stable", "lock"}, reader' = reader, cut' = cut
    PROVE  Goes(s, "none")
<1>1. client' = [client EXCEPT !.task = "none"] /\ client \in Clients
  BY DEF TypeInv, Ended
<1>2. /\ client'.gen = client.gen /\ client'.engine = client.engine
      /\ client'.transport = client.transport
      /\ SamePending(client, client')
  BY <1>1 DEF Clients, SamePending
<1> QED BY <1>2 DEF Goes, SupervisorEnds

\* A supervisor that connect() cancelled ends; connect() has the work.
LEMMA SupervisorCancelledWork ==
    ASSUME Inv, HandInv, NEW s \in Supervisors, SupervisorCancelled(s)
    PROVE  HandInv'
<1>1. TypeInv /\ client \in Clients /\ s \in Attempting /\ s # "connect"
  BY LifecycleAssumption DEF Inv, BaseInv, TypeInv, Attempting
<1>2. /\ pc[s] = "cancelled" /\ pc' = [pc EXCEPT ![s] = "none"] /\ reader' = reader /\ cut' = cut
      /\ client' = [client EXCEPT !.task = "none"]
  BY DEF SupervisorCancelled, SupervisorEnds, Ended
<1>3. /\ client'.gen = client.gen /\ client'.engine = client.engine
      /\ client'.transport = client.transport
      /\ SamePending(client, client')
  BY <1>1, <1>2 DEF Clients, SamePending
<1>4. Phase' = Phase /\ (Will' <=> Will) /\ (Ok' <=> Ok) /\ (Over' <=> Over)
  BY <1>2, <1>3, PhaseSame
<1>5. /\ pc'["disconnect"] = pc["disconnect"] /\ pc'["connect"] = pc["connect"] /\ ~Alone
      /\ (Quitting' => Quitting) /\ (Failing' => Failing) /\ (Leaving' => Leaving)
      /\ (Answering => Answering')
  BY <1>1, <1>2, Moves
<1>6. ASSUME Before PROVE After
  <2>1. pc["connect"] = "cancel" /\ client.engine # "new"
    BY <1>2, <1>5, <1>6 DEF Before, OwnerInv, SupervisorInv, ClosingInv
  <2>2. RetryInv'
    BY <1>3, <1>4, <1>5, <1>6 DEF Before, RetryInv, SamePending
  <2>3. ClosingInv'
    BY <1>3, <1>4, <1>5, <1>6, <2>1 DEF Before, ClosingInv, SamePending
  <2>4. ASSUME cut' = {} PROVE WorkInv'
    <3>1. ConnectWorks' /\ ~Returning' /\ (Undecided' <=> Undecided)
      BY <1>4, <1>5, <2>1 DEF ConnectWorks, Returning, Undecided
    <3> QED BY <1>3, <1>4, <1>5, <1>6, <2>1, <2>4, <3>1 DEF Before, WorkInv, SamePending
  <2> QED BY <2>2, <2>3, <2>4 DEF After
<1> QED BY <1>2, <1>6, Framed

\* The hook has let the supervisor go on.
LEMMA SupervisorWakesWork ==
    ASSUME Inv, HandInv, NEW s \in Supervisors, SupervisorWakes(s)
    PROVE  HandInv'
<1>1. TypeInv /\ client \in Clients
  BY DEF Inv, BaseInv, TypeInv
<1>2. pc[s] = "ready" /\ reader' = reader /\ cut' = cut
  BY DEF SupervisorWakes
<1>3. CASE client.intentional \/ client.engine = "connected"
  <2>1. SupervisorEnds(s) /\ client' = Ended(client)
    BY <1>3 DEF SupervisorWakes
  <2>2. Goes(s, "none")
    BY <1>1, <1>2, <1>3, <2>1, EndedGoes
  <2> QED BY <2>2, GoesWork
<1>4. CASE ~(client.intentional \/ client.engine = "connected") /\ ~_will_reconnect(client)
  <2>1. PICK c \in _terminal_shutdown(client) : SupervisorEnds(s) /\ client' = Ended(c)
    BY <1>4 DEF SupervisorWakes
  <2>2. Goes(s, "none")
    BY <1>1, <1>2, <2>1, ShutGoes
  <2> QED BY <2>2, GoesWork
<1>5. CASE ~(client.intentional \/ client.engine = "connected") /\ _will_reconnect(client)
  <2>1. pc' = [pc EXCEPT ![s] = "sleep"] /\ client' = [client EXCEPT !.attempt = client.attempt + 1]
    BY <1>5 DEF SupervisorWakes
  <2>2. /\ client'.gen = client.gen /\ client'.engine = client.engine /\ client'.transport = client.transport
        /\ SamePending(client, client')
    BY <1>1, <2>1 DEF Clients, SamePending
  <2>3. Goes(s, "sleep")
    BY <1>2, <2>1, <2>2 DEF Goes
  <2> QED BY <2>3, GoesWork
<1> QED BY <1>3, <1>4, <1>5

\* Its backoff is over.
LEMMA SupervisorSleptWork ==
    ASSUME Inv, HandInv, NEW s \in Supervisors, SupervisorSlept(s)
    PROVE  HandInv'
<1>1. TypeInv /\ client \in Clients
  BY DEF Inv, BaseInv, TypeInv
<1>2. pc[s] = "sleep" /\ reader' = reader /\ cut' = cut
  BY DEF SupervisorSlept
<1>3. CASE client.latch
  <2>1. PICK c \in _terminal_shutdown(client) : SupervisorEnds(s) /\ client' = Ended(c)
    BY <1>3 DEF SupervisorSlept
  <2>2. Goes(s, "none")
    BY <1>1, <1>2, <2>1, ShutGoes
  <2> QED BY <2>2, GoesWork
<1>4. CASE ~client.latch
  <2>1. pc' = [pc EXCEPT ![s] = "lock"] /\ client' = client
    BY <1>4 DEF SupervisorSlept
  <2>2. Goes(s, "lock")
    BY <1>2, <2>1 DEF Goes, SamePending
  <2> QED BY <2>2, GoesWork
<1> QED BY <1>3, <1>4

\* Its stability window is over.
LEMMA SupervisorStableWork ==
    ASSUME Inv, HandInv, NEW s \in Supervisors, SupervisorStable(s)
    PROVE  HandInv'
<1>1. TypeInv /\ client \in Clients
  BY DEF Inv, BaseInv, TypeInv
<1>2. pc[s] = "stable" /\ reader' = reader /\ cut' = cut
  BY DEF SupervisorStable
<1>3. CASE client.latch
  <2>1. PICK c \in _terminal_shutdown(client) : SupervisorEnds(s) /\ client' = Ended(c)
    BY <1>3 DEF SupervisorStable
  <2>2. Goes(s, "none")
    BY <1>1, <1>2, <2>1, ShutGoes
  <2> QED BY <2>2, GoesWork
<1>4. CASE ~client.latch /\ client.engine = "connected"
  <2>1. SupervisorEnds(s) /\ client' = [Ended(client) EXCEPT !.attempt = 0]
    BY <1>4 DEF SupervisorStable
  <2>2. client' = [client EXCEPT !.task = "none", !.attempt = 0]
    BY <1>1, <2>1 DEF Ended, Clients
  <2>3. /\ client'.gen = client.gen /\ client'.engine = client.engine /\ client'.transport = client.transport
        /\ SamePending(client, client')
    BY <1>1, <2>2 DEF Clients, SamePending
  <2>4. Goes(s, "none")
    BY <1>2, <1>4, <2>1, <2>3 DEF Goes, SupervisorEnds
  <2> QED BY <2>4, GoesWork
<1>5. CASE ~client.latch /\ client.engine # "connected"
  <2>1. Loops(s, client)
    BY <1>5 DEF SupervisorStable
  <2>2. PICK to \in {"none", "ready"} :
            /\ pc' = [pc EXCEPT ![s] = to] /\ SameLinks(client, client')
            /\ SamePending(client, client') /\ (client.intentional <=> to = "none")
    BY <1>1, <2>1, LoopsSettles
  <2>3. Goes(s, to)
    BY <1>2, <2>2 DEF Goes, SameLinks
  <2> QED BY <2>3, GoesWork
<1> QED BY <1>3, <1>4, <1>5

\* It has the lock.
LEMMA SupervisorLocksWork ==
    ASSUME Inv, HandInv, NEW s \in Supervisors, SupervisorLocks(s)
    PROVE  HandInv'
<1>1. TypeInv /\ client \in Clients /\ s \in Attempting /\ s # "connect" /\ client.reader \in 0..MaxGens
  BY LifecycleAssumption DEF Inv, BaseInv, TypeInv, Attempting, Clients
<1>2. pc[s] = "lock"
  BY DEF SupervisorLocks
<1>3. CASE client.intentional
  <2>1. SupervisorEnds(s) /\ client' = Ended(client) /\ reader' = reader /\ cut' = cut
    BY <1>3 DEF SupervisorLocks
  <2>2. Goes(s, "none")
    BY <1>1, <1>2, <1>3, <2>1, EndedGoes
  <2> QED BY <2>2, GoesWork
<1>4. CASE ~client.intentional
  <2>1. pc' = [pc EXCEPT ![s] = "force"] /\ CancelReader(client.reader) /\ client' = client
    BY <1>4 DEF SupervisorLocks, ForceClose
  <2>2. /\ pc'["disconnect"] = pc["disconnect"] /\ pc'["connect"] = pc["connect"] /\ ~Alone /\ ~Alone'
        /\ (Quitting' => Quitting) /\ (Failing' => Failing) /\ (Leaving' => Leaving) /\ (Answering => Answering')
    BY <1>1, <1>2, <2>1, Moves
  <2>3. ASSUME Before PROVE After
    <3>1. /\ (Will' <=> Will) /\ (Ok' <=> Ok)
          /\ Phase \in {"reading", "fatal"} => Phase' \in {Phase, "ending"}
          /\ Phase = "closing" => Phase' \in {"closing", "cut"}
          /\ Phase \notin {"reading", "fatal", "closing"} => Phase' = Phase
          /\ cut' = {} /\ Phase = "closing" => Phase' = "closing"
          /\ Phase' # "reading"
      BY <1>1, <2>1, <2>3, PhaseCancelled DEF Before
    <3>2. RetryInv'
      BY <2>1, <2>2, <2>3, <3>1 DEF Before, RetryInv
    <3>3. ClosingInv'
      BY <2>1, <2>2, <2>3, <3>1 DEF Before, ClosingInv
    <3>4. ASSUME cut' = {} PROVE WorkInv'
      <4>1. WorkInv /\ (ConnectWorks' <=> ConnectWorks) /\ (Undecided => Undecided') /\ (Over' <=> Over)
            /\ (Phase' = "closing" => Phase = "closing")
        BY <2>2, <2>3, <3>1, <3>4 DEF Before, ConnectWorks, Returning, Undecided, Over
      <4> QED BY <1>4, <2>1, <2>2, <3>1, <4>1 DEF WorkInv
    <3> QED BY <3>2, <3>3, <3>4 DEF After
  <2> QED BY <2>1, <2>3, CancelGrows, Framed
<1> QED BY <1>3, <1>4

\* It has closed the old connection.
LEMMA SupervisorDialsWork ==
    ASSUME Inv, HandInv, NEW s \in Supervisors, SupervisorDials(s)
    PROVE  HandInv'
<1>1. TypeInv /\ client \in Clients /\ s \in Attempting /\ s # "connect"
  BY LifecycleAssumption DEF Inv, BaseInv, TypeInv, Attempting
<1>2. /\ pc[s] = "force" /\ NoReader /\ pc' = [pc EXCEPT ![s] = "dial"] /\ reader' = reader
      /\ cut' = cut
      /\ client' = [client EXCEPT !.reader = 0, !.transport = 0, !.lastConnack = "none"]
  BY DEF SupervisorDials
<1>3. /\ client'.gen = client.gen /\ client'.engine = client.engine /\ client'.transport = 0
      /\ SamePending(client, client')
  BY <1>1, <1>2 DEF Clients, SamePending
<1>4. /\ pc'["disconnect"] = pc["disconnect"] /\ pc'["connect"] = pc["connect"] /\ ~Alone /\ ~Alone'
      /\ (Quitting' => Quitting) /\ (Failing' => Failing) /\ (Leaving' => Leaving) /\ (Answering => Answering')
  BY <1>1, <1>2, Moves
<1>5. Phase' = Phase /\ (Will' <=> Will) /\ (Ok' <=> Ok) /\ (Over' <=> Over)
  BY <1>2, <1>3, PhaseSame
<1>6. ASSUME Before PROVE After
  <2>1. RetryInv'
    BY <1>3, <1>4, <1>5, <1>6 DEF Before, RetryInv, SamePending
  <2>2. ClosingInv'
    BY <1>3, <1>4, <1>5, <1>6 DEF Before, ClosingInv, SamePending
  <2>3. ASSUME cut' = {} PROVE WorkInv'
    BY <1>3, <1>4, <1>5, <1>6, <2>3 DEF Before, WorkInv, SamePending, ConnectWorks, Returning,
       Undecided, WillRetry
  <2> QED BY <2>1, <2>2, <2>3 DEF After
<1> QED BY <1>2, <1>6, Framed

-----------------------------------------------------------------------------
(* connect().                                                              *)

\* The supervisor is cancelled and joined by connect() or disconnect(), which holds the lock.
LEMMA Supersedes ==
    ASSUME TypeInv, OwnerInv, NEW b \in Callers, NEW to, CancelledBut(b, to), to \notin {"bye", "fail", "quit"},
           \A a \in Attempting : a # b => pc[a] \notin Trying \cup {"force"}
    PROVE  /\ pc'[b] = to /\ \A a \in Callers : a # b => pc'[a] = pc[a]
           /\ Alone' /\ ~Failing' /\ ~Leaving' /\ ~Quitting'
<1>1. /\ pc'[b] = to /\ \A a \in Callers : a # b => pc'[a] = pc[a]
      /\ \A s \in Supervisors : pc'[s] = IF s = client.task THEN "none" ELSE pc[s]
  BY LifecycleAssumption DEF CancelledBut, Tasks, TypeInv, Clients, Callers
<1>2. Alone'
  BY <1>1 DEF OwnerInv, SupervisorInv, Alone
<1>3. \A a \in Attempting : pc'[a] \notin {"bye", "fail", "quit"}
  BY <1>1, <1>2 DEF Attempting, Alone, Callers, Trying
<1> QED BY <1>1, <1>2, <1>3 DEF Failing, Leaving, Quitting, Attempting

\* A step of disconnect() alone.
LEMMA DisconnectMoves ==
    ASSUME TypeInv, NEW to, pc' = [pc EXCEPT !["disconnect"] = to]
    PROVE  /\ pc'["disconnect"] = to /\ pc'["connect"] = pc["connect"]
           /\ (Alone' <=> Alone) /\ (Quitting' <=> Quitting) /\ (Failing' <=> Failing)
           /\ (Leaving' <=> Leaving) /\ (Answering' <=> Answering)
<1>1. pc'["disconnect"] = to /\ \A a \in Attempting : pc'[a] = pc[a]
  BY LifecycleAssumption DEF TypeInv, PcType, Tasks, Attempting
<1> QED BY <1>1 DEF Alone, Quitting, Failing, Leaving, Answering, Attempting

\* A call of connect() that queues for the lock has the work from then on.
LEMMA ConnectQueuesWork ==
    ASSUME Inv, HandInv, ConnectQueues
    PROVE  HandInv'
<1>1. TypeInv /\ client \in Clients /\ "connect" \in Attempting
  BY DEF Inv, BaseInv, TypeInv, Attempting
<1>2. /\ pc["connect"] = "idle" /\ pc' = [pc EXCEPT !["connect"] = "lock"] /\ reader' = reader
      /\ cut' = cut
      /\ client' = [client EXCEPT !.intent = "connect"]
  BY DEF ConnectQueues
<1>3. /\ client'.gen = client.gen /\ client'.engine = client.engine
      /\ client'.transport = client.transport
      /\ SamePending(client, client')
  BY <1>1, <1>2 DEF Clients, SamePending
<1>4. Phase' = Phase /\ (Will' <=> Will) /\ (Ok' <=> Ok) /\ (Over' <=> Over)
  BY <1>2, <1>3, PhaseSame
<1>5. /\ pc'["disconnect"] = pc["disconnect"] /\ pc'["connect"] = "lock"
      /\ (Alone' <=> Alone) /\ (Quitting' <=> Quitting)
      /\ (Failing' => Failing) /\ (Leaving' => Leaving) /\ (Answering => Answering')
  BY <1>1, <1>2, Moves
<1>6. ASSUME Before PROVE After
  <2>1. RetryInv'
    BY <1>3, <1>4, <1>5, <1>6 DEF Before, RetryInv, SamePending
  <2>2. ClosingInv'
    BY <1>3, <1>4, <1>5, <1>6 DEF Before, ClosingInv, SamePending, Trying
  <2>3. ASSUME cut' = {} PROVE WorkInv'
    <3>1. ConnectWorks' /\ ~Returning' /\ (Undecided' <=> Undecided)
      BY <1>4, <1>5 DEF ConnectWorks, Returning, Undecided
    <3> QED BY <1>3, <1>4, <1>5, <1>6, <2>3, <3>1 DEF Before, WorkInv, SamePending
  <2> QED BY <2>1, <2>2, <2>3 DEF After
<1> QED BY <1>2, <1>6, Framed

\* connect() has the lock: nothing is under way, and it will settle what is pending.
LEMMA ConnectTakesWork ==
    ASSUME Before, NEW g \in 0..MaxGens, CancelReader(g), ~Answering,
           pc'["connect"] \in {"cancel", "force"}, pc'["disconnect"] = pc["disconnect"],
           ~Failing', ~Leaving', ~Quitting', client.engine = "new" => Alone',
           client'.gen = client.gen, client'.engine = client.engine,
           client'.transport = client.transport, SamePending(client, client')
    PROVE  After
<1>1. /\ (Will' <=> Will)
      /\ Phase \in {"reading", "fatal"} => Phase' \in {Phase, "ending"}
      /\ Phase = "closing" => Phase' \in {"closing", "cut"}
      /\ Phase \notin {"reading", "fatal", "closing"} => Phase' = Phase
      /\ cut' = {} /\ Phase = "closing" => Phase' = "closing"
  BY PhaseCancelled DEF Before
<1>2. RetryInv'
  BY <1>1 DEF Before, RetryInv, SamePending
<1>3. ClosingInv'
  BY <1>1 DEF Before, ClosingInv, SamePending, Trying
<1>4. ASSUME cut' = {} PROVE WorkInv'
  <2>1. ConnectWorks' /\ ~Returning' /\ (Undecided => Undecided') /\ (Over' => Over)
    BY <1>1, <1>4 DEF ConnectWorks, Returning, Undecided, Over
  <2> QED BY <1>4, <2>1 DEF Before, WorkInv, SamePending
<1> QED BY <1>2, <1>3, <1>4 DEF After

\* It cancels the supervisor, or starts closing the connection,
LEMMA TakeOverWork ==
    ASSUME Inv, HandInv, NEW h, NEW intent, TakeOver(h, intent), \A a \in Tasks : ~Owns(pc, a)
    PROVE  HandInv'
<1>1. TypeInv /\ client \in Clients /\ client.reader \in 0..MaxGens /\ 0 \in 0..MaxGens
  BY LifecycleAssumption DEF Inv, BaseInv, TypeInv, Clients
<1>2. PICK replacing, task :
        client' = [client EXCEPT !.intent = intent, !.asked = FALSE, !.task = task, !.replacing = replacing]
  BY DEF TakeOver
<1>3. /\ client'.gen = client.gen /\ client'.engine = client.engine
      /\ client'.transport = client.transport
      /\ SamePending(client, client')
  BY <1>1, <1>2 DEF Clients, SamePending
<1>4. \A a \in Attempting : pc[a] \notin Trying \cup {"force"}
  BY LifecycleAssumption DEF Owns, Attempting, Tasks
<1>5. ~Answering
  BY <1>4 DEF Answering, Trying
<1>6. CASE ~Live(client.task)
  <2>1. pc' = [pc EXCEPT !["connect"] = "force"] /\ CancelReader(client.reader)
    BY <1>6 DEF TakeOver, ForceClose
  <2>2. /\ pc'["connect"] = "force" /\ pc'["disconnect"] = pc["disconnect"]
        /\ \A s \in Supervisors : pc'[s] = pc[s]
    BY <1>1, <2>1, LifecycleAssumption DEF TypeInv, PcType, Tasks
  <2>3. ~Failing' /\ ~Leaving' /\ ~Quitting' /\ (Alone => Alone')
    BY <1>4, <2>2 DEF Failing, Leaving, Quitting, Alone, Attempting, Trying
  <2>4. ASSUME Before PROVE After
    <3>1. client.engine = "new" => Alone'
      BY <2>3, <2>4 DEF Before, ClosingInv
    <3> QED BY <1>1, <1>3, <1>5, <2>1, <2>2, <2>3, <2>4, <3>1, ConnectTakesWork
  <2> QED BY <2>1, <2>4, CancelGrows, Framed
<1>7. CASE Live(client.task)
  <2>1. /\ pc' = [pc EXCEPT !["connect"] = "cancel", ![client.task] = "cancelled"]
        /\ UNCHANGED <<reader, cut>> /\ client.task \in Supervisors
    BY <1>1, <1>7 DEF TakeOver, Live, Clients
  <2>2. /\ pc'["connect"] = "cancel" /\ pc'["disconnect"] = pc["disconnect"]
        /\ \A s \in Supervisors : pc'[s] = IF s = client.task THEN "cancelled" ELSE pc[s]
    BY <1>1, <2>1, LifecycleAssumption DEF TypeInv, PcType, Tasks
  <2>3. ~Failing' /\ ~Leaving' /\ ~Quitting' /\ ~Alone
    <3>1. \A a \in Attempting : pc'[a] \in {"cancel", "cancelled", pc[a]}
      BY <2>2 DEF Attempting
    <3>2. \A a \in Attempting : pc'[a] \notin {"bye", "fail", "quit"}
      BY <1>4, <3>1 DEF Trying
    <3> QED BY <1>1, <1>7, <3>2, LiveNotAlone DEF Failing, Leaving, Quitting, Attempting
  <2>4. CancelReader(0) /\ cut \subseteq cut'
    BY <2>1 DEF CancelReader
  <2>5. ASSUME Before PROVE After
    <3>1. client.engine # "new"
      BY <2>3, <2>5 DEF Before, ClosingInv
    <3> QED BY <1>1, <1>3, <1>5, <2>2, <2>3, <2>4, <2>5, <3>1, ConnectTakesWork
  <2> QED BY <2>4, <2>5, Framed
<1> QED BY <1>6, <1>7

\* and the latter once the supervisor has ended.
LEMMA ConnectJoinedWork ==
    ASSUME Inv, HandInv, ConnectJoined
    PROVE  HandInv'
<1>1. TypeInv /\ LockInv /\ client \in Clients /\ client.reader \in 0..MaxGens
  BY DEF Inv, BaseInv, TypeInv, Clients
<1>2. /\ pc["connect"] = "cancel" /\ pc' = [pc EXCEPT !["connect"] = "force"]
      /\ client' = [client EXCEPT !.task = "none"] /\ CancelReader(client.reader)
  BY DEF ConnectJoined, ForceClose
<1>3. /\ client'.gen = client.gen /\ client'.engine = client.engine
      /\ client'.transport = client.transport
      /\ SamePending(client, client')
  BY <1>1, <1>2 DEF Clients, SamePending
<1>4. \A a \in Attempting : pc[a] \notin Trying
  <2>1. "connect" \in Tasks /\ Owns(pc, "connect")
    BY <1>2 DEF Owns, Tasks
  <2>2. \A a \in Attempting : a \in Tasks /\ a # "disconnect"
    BY LifecycleAssumption DEF Attempting, Tasks
  <2>3. \A a \in Attempting : a # "connect" => pc[a] \notin Trying
    BY <1>1, <2>1, <2>2, Holder DEF Owns
  <2> QED BY <1>2, <2>3 DEF Trying
<1>5. /\ pc'["connect"] = "force" /\ pc'["disconnect"] = pc["disconnect"]
      /\ \A s \in Supervisors : pc'[s] = pc[s]
  BY <1>1, <1>2, LifecycleAssumption DEF TypeInv, PcType, Tasks
<1>6. ~Answering /\ ~Failing' /\ ~Leaving' /\ ~Quitting' /\ (Alone => Alone')
  BY <1>4, <1>5 DEF Answering, Failing, Leaving, Quitting, Alone, Attempting, Trying
<1>7. ASSUME Before PROVE After
  <2>1. client.engine = "new" => Alone'
    BY <1>6, <1>7 DEF Before, ClosingInv
  <2> QED BY <1>1, <1>2, <1>3, <1>5, <1>6, <1>7, <2>1, ConnectTakesWork
<1> QED BY <1>2, <1>7, CancelGrows, Framed

\* A call of connect().
LEMMA ConnectCallsWork ==
    ASSUME Inv, HandInv, ConnectCalls
    PROVE  HandInv'
<1>1. CASE lock = <<>>
  <2>1. TakeOver(begin_operation(hooks, FALSE, FALSE), "connect")
    BY <1>1 DEF ConnectCalls
  <2>2. \A a \in Tasks : ~Owns(pc, a)
    BY <1>1 DEF Inv, BaseInv, LockInv, LockOK
  <2> QED BY <2>1, <2>2, TakeOverWork
<1>2. CASE lock # <<>>
  <2>1. ConnectQueues
    BY <1>2 DEF ConnectCalls, ConnectQueues
  <2> QED BY <2>1, ConnectQueuesWork
<1> QED BY <1>1, <1>2

\* connect() has the lock; that it finds the client connected by another attempt
\* is ruled out by WaitingInv.
LEMMA ConnectLocksWork ==
    ASSUME Inv, HandInv, ConnectLocks
    PROVE  HandInv'
<1>1. TypeInv /\ LockInv /\ pc["connect"] = "lock" /\ Head(lock) = "connect"
  BY DEF Inv, BaseInv, ConnectLocks, Woken
<1>2. CASE TakeOver(hooks, client.intent)
  <2>1. \A a \in Tasks : ~Owns(pc, a)
    BY <1>1 DEF LockInv, LockOK, Owns, Trying
  <2> QED BY <1>2, <2>1, TakeOverWork
<1>3. CASE ~TakeOver(hooks, client.intent)
  <2>1. _has_active_explicit_connection /\ cut' = cut
    BY <1>3 DEF ConnectLocks
  <2>2. ~Protected'
    <3>1. SUFFICES ASSUME OwnerInv PROVE FALSE
      BY <2>1 DEF Inv, Protected
    <3>2. Alone
      BY <2>1, <3>1, LifecycleAssumption DEF OwnerInv, SupervisorInv, Alone, Live,
         _has_active_explicit_connection
    <3> QED BY <1>1, <2>1, <3>1, <3>2 DEF OwnerInv, WaitingInv, Up, _has_active_explicit_connection
  <2> QED BY <2>2 DEF HandInv, Protected
<1> QED BY <1>2, <1>3

\* The old connection is closed: connect() starts its first attempt, or finds a
\* latched failure, which has settled everything.
LEMMA ConnectBeginsWork ==
    ASSUME Inv, HandInv, ConnectBegins
    PROVE  HandInv'
<1>1. TypeInv /\ LockInv /\ client \in Clients
  BY DEF Inv, BaseInv, TypeInv
<1>2. PICK closed \in BOOLEAN, to \in {"idle", "dial"} :
        closed = (client.closed \/ client.replacing) /\ (to = "idle" <=> client.latch)
  <2>1. client.latch \in BOOLEAN /\ (client.closed \/ client.replacing) \in BOOLEAN
    BY <1>1 DEF Clients
  <2>2. CASE client.latch
    BY <2>1, <2>2
  <2>3. CASE ~client.latch
    BY <2>1, <2>3
  <2> QED BY <2>2, <2>3
<1>3. PICK c : c = [client EXCEPT !.reader = 0, !.transport = 0, !.task = "none", !.closed = closed,
                             !.replacing = FALSE]
  OBVIOUS
<1>4. c.gen = client.gen /\ c.engine = client.engine /\ c.transport = 0 /\ SamePending(client, c)
  BY <1>1, <1>3 DEF Clients, SamePending
<1>5. /\ pc["connect"] = "force" /\ NoReader /\ reader' = reader /\ cut \subseteq cut'
      /\ pc' = [Cancelled(pc, client.task) EXCEPT !["connect"] = to]
      /\ client' = IF to = "idle" THEN c
                   ELSE [c EXCEPT !.intentional = FALSE, !.attempt = 0, !.lastConnack = "none"]
  BY <1>2, <1>3 DEF ConnectBegins
<1>6. /\ client'.gen = client.gen /\ client'.engine = client.engine /\ client'.transport = 0
      /\ client'.reconnecting = client.reconnecting /\ client'.latch = client.latch
      /\ client'.owed = client.owed
      /\ client'.intentional = IF to = "idle" THEN client.intentional ELSE FALSE
  BY <1>1, <1>3, <1>5 DEF Clients
<1>7. CancelledBut("connect", to)
  BY <1>1, <1>5, CancelSupervisor DEF ConnectStates
<1>8. "connect" \in Attempting /\ \A a \in Attempting : a # "connect" => pc[a] \notin Trying \cup {"force"}
  <2>1. "connect" \in Attempting
    BY DEF Attempting
  <2> QED BY <1>1, <1>5, <2>1, AttemptHolds
<1>9. Phase' = Phase /\ (Will' <=> Will) /\ (Ok' <=> Ok) /\ (Over' <=> Over)
  BY <1>5, <1>6, PhaseSame
<1>10. ASSUME Before PROVE After
  <2>1. /\ pc'["connect"] = to /\ pc'["disconnect"] = pc["disconnect"]
        /\ Alone' /\ ~Failing' /\ ~Leaving' /\ ~Quitting'
    BY <1>1, <1>7, <1>8, <1>10, Supersedes DEF Before, Callers
  <2>2. Over /\ Phase \in {"none", "done", "cut"} /\ client.engine # "connected"
    BY <1>5, <1>10, PhaseFacts DEF Before, Over
  <2>3. client.latch => ~client.reconnecting
    BY <1>10, <2>2 DEF Before, RetryInv
  <2>4. RetryInv'
    BY <1>2, <1>6, <1>9, <1>10, <2>2, <2>3 DEF Before, RetryInv
  <2>5. ClosingInv'
    BY <1>2, <1>6, <1>9, <1>10, <2>1, <2>2 DEF Before, ClosingInv, Trying
  <2>6. ASSUME cut' = {} PROVE WorkInv'
    <3>1. WorkInv /\ ~Undecided
      BY <1>10, <2>2, <2>6 DEF Before, Undecided
    <3>2. CASE client.latch
      BY <1>6, <1>9, <2>3, <3>1, <3>2 DEF WorkInv
    <3>3. CASE ~client.latch
      <4>1. ConnectWorks' /\ ~Returning' /\ pc'["connect"] # "idle"
        BY <1>2, <2>1, <3>3 DEF ConnectWorks, Returning
      <4> QED BY <1>6, <3>3, <4>1 DEF WorkInv
    <3> QED BY <3>2, <3>3
  <2> QED BY <2>4, <2>5, <2>6 DEF After
<1> QED BY <1>5, <1>10, Framed

-----------------------------------------------------------------------------
(* disconnect().                                                           *)

\* disconnect() is called: from here on it is the one to settle what is pending.
Calls(to) ==
    /\ to \in {"join", "lock", "ending"} /\ pc'["disconnect"] = to /\ pc'["connect"] = pc["connect"]
    /\ client'.gen = client.gen /\ client'.engine = client.engine
    /\ client'.transport = client.transport
    /\ client'.intentional /\ ~client'.reconnecting
    /\ client'.latch = client.latch /\ client'.owed = client.owed
    /\ (Leaving' => Leaving) /\ (client.engine = "new" => (Alone' <=> Alone))
    /\ (Will' <=> Will) /\ (Ok' <=> Ok) /\ (Undecided => Undecided')
    /\ Failing' => Phase' # "reading"
    /\ Phase' = "closing" => Phase = "closing"
    /\ cut' = {} => (Over' => Over)
    /\ to = "ending" => Undecided

\* It takes RECONNECTING back and looks after the publications.
LEMMA CallsWork ==
    ASSUME Before, NEW to, Calls(to)
    PROVE  After
<1>1. RetryInv'
  BY DEF RetryInv, Calls
<1>2. ClosingInv'
  BY DEF Before, ClosingInv, Calls
<1>3. ASSUME cut' = {} PROVE WorkInv'
  <2>1. WorkInv /\ (ConnectWorks' <=> ConnectWorks)
    BY <1>3 DEF Before, ConnectWorks, Returning, Calls
  <2> QED BY <1>3, <2>1 DEF WorkInv, Calls
<1> QED BY <1>1, <1>2, <1>3 DEF After

\* disconnect() queues for the lock.
LEMMA DisconnectQueuesWork ==
    ASSUME Inv, HandInv, NEW ends \in BOOLEAN, DisconnectQueues(ends)
    PROVE  HandInv'
<1>1. TypeInv /\ client \in Clients
  BY DEF Inv, BaseInv, TypeInv
<1>2. PICK to \in {"ending", "lock"}, bye \in BOOLEAN :
        /\ to = (IF ends THEN "ending" ELSE "lock") /\ bye = (client.bye \/ ends)
  <2>1. (client.bye \/ ends) \in BOOLEAN
    OBVIOUS
  <2> QED BY <2>1
<1>3. /\ pc' = [pc EXCEPT !["disconnect"] = to] /\ reader' = reader /\ cut' = cut
      /\ client' = [client EXCEPT !.intentional = TRUE, !.reconnecting = FALSE, !.intent = "disconnect",
                                  !.bye = bye]
      /\ to = "ending" => client.engine = "connecting"
  BY <1>2 DEF DisconnectQueues
<1>4. /\ client'.gen = client.gen /\ client'.engine = client.engine
      /\ client'.transport = client.transport
      /\ client'.intentional = TRUE /\ client'.reconnecting = FALSE
      /\ client'.latch = client.latch /\ client'.owed = client.owed
  BY <1>1, <1>3 DEF Clients
<1>5. /\ pc'["disconnect"] = to /\ pc'["connect"] = pc["connect"]
      /\ (Alone' <=> Alone) /\ (Failing' <=> Failing) /\ (Leaving' <=> Leaving)
  BY <1>1, <1>3, DisconnectMoves
<1>6. Phase' = Phase /\ (Will' <=> Will) /\ (Ok' <=> Ok) /\ (Over' <=> Over)
  BY <1>3, <1>4, PhaseSame
<1>7. ASSUME Before PROVE After
  <2>1. /\ to = "ending" => Undecided
        /\ Failing => Phase # "reading"
    BY <1>3, <1>7, PhaseFacts DEF Before, ClosingInv, Undecided
  <2>2. Calls(to)
    BY <1>2, <1>4, <1>5, <1>6, <2>1 DEF Calls, Undecided
  <2> QED BY <1>7, <2>2, CallsWork
<1> QED BY <1>3, <1>7, Framed

\* disconnect() cancels the supervisor and joins it.
LEMMA DisconnectJoinsWork ==
    ASSUME Inv, HandInv, NEW s \in Supervisors, DisconnectJoins(s)
    PROVE  HandInv'
<1>1. TypeInv /\ client \in Clients /\ client.reader \in 0..MaxGens
  BY DEF Inv, BaseInv, TypeInv, Clients
<1>2. PICK to \in {"none", "quit", "force", "fail", "cancelled"} :
        to = CancelledPc(s) /\ (to = "fail" => pc[s] = "fail")
  BY <1>1 DEF CancelledPc, DisconnectJoins, TypeInv, PcType, SupervisorStates
<1>3. pc[s] # "none" /\ pc' = [pc EXCEPT !["disconnect"] = "join", ![s] = to]
  BY <1>2 DEF DisconnectJoins
<1>4. /\ pc'["disconnect"] = "join" /\ pc'["connect"] = pc["connect"] /\ pc'[s] = to
      /\ \A r \in Supervisors : r # s => pc'[r] = pc[r]
  BY <1>1, <1>3, LifecycleAssumption DEF TypeInv, PcType, Tasks
<1>5. PICK task :
        client' = [client EXCEPT !.intentional = TRUE, !.reconnecting = FALSE, !.intent = "disconnect",
                                 !.task = task]
  BY <1>1 DEF DisconnectJoins, Clients
<1>6. /\ client'.gen = client.gen /\ client'.engine = client.engine
      /\ client'.transport = client.transport
      /\ client'.intentional = TRUE /\ client'.reconnecting = FALSE
      /\ client'.latch = client.latch /\ client'.owed = client.owed
  BY <1>1, <1>5 DEF Clients
<1>7. (Leaving' => Leaving) /\ (Failing' => Failing \/ to = "quit") /\ ~Alone
  BY <1>2, <1>3, <1>4 DEF Leaving, Failing, Alone, Attempting
<1>8. cut \subseteq cut'
  BY CancelGrows DEF DisconnectJoins
<1>9. ASSUME Before PROVE After
  <2>1. (Failing => Phase # "reading") /\ client.engine # "new"
    BY <1>7, <1>9 DEF Before, ClosingInv
  <2>2. /\ (Will' <=> Will) /\ (Ok' <=> Ok)
        /\ Phase \in {"reading", "fatal"} => Phase' \in {Phase, "ending"}
        /\ Phase = "closing" => Phase' \in {"closing", "cut"}
        /\ Phase \notin {"reading", "fatal", "closing"} => Phase' = Phase
        /\ cut' = {} /\ Phase = "closing" => Phase' = "closing"
        /\ to \in Joining => Phase' # "reading"
    <3>1. CASE to \notin Joining
      <4>1. reader' = reader
        BY <1>2, <3>1 DEF DisconnectJoins
      <4> QED BY <1>6, <3>1, <4>1, PhaseSame
    <3>2. CASE to \in Joining
      <4>1. CancelReader(client.reader)
        BY <1>2, <3>2 DEF DisconnectJoins
      <4> QED BY <1>1, <1>6, <1>9, <4>1, PhaseCancelled DEF Before
    <3> QED BY <3>1, <3>2
  <2>3. /\ Undecided => Undecided'
        /\ Failing' => Phase' # "reading"
        /\ Phase' = "closing" => Phase = "closing"
        /\ cut' = {} => (Over' => Over)
    BY <1>7, <2>1, <2>2 DEF Undecided, Over, Joining
  <2>4. Calls("join")
    BY <1>4, <1>6, <1>7, <2>1, <2>2, <2>3 DEF Calls
  <2> QED BY <1>9, <2>4, CallsWork
<1> QED BY <1>8, <1>9, Framed

\* A call of disconnect().
LEMMA DisconnectCallsWork ==
    ASSUME Inv, HandInv, DisconnectCalls
    PROVE  HandInv'
<1>1. CASE \E ends \in BOOLEAN : DisconnectQueues(ends)
  BY <1>1, DisconnectQueuesWork
<1>2. CASE \E s \in Supervisors : DisconnectJoins(s)
  BY <1>2, DisconnectJoinsWork
<1> QED BY <1>1, <1>2, DisconnectCallsCases DEF Inv, BaseInv

\* The supervisor has ended.
LEMMA DisconnectJoinedWork ==
    ASSUME Inv, HandInv, DisconnectJoined
    PROVE  HandInv'
<1>1. TypeInv /\ client \in Clients
  BY DEF Inv, BaseInv, TypeInv
<1>2. /\ pc' = [pc EXCEPT !["disconnect"] = "lock"] /\ reader' = reader /\ cut' = cut
      /\ client' = [client EXCEPT !.task = "none"] /\ pc["disconnect"] = "join"
  BY DEF DisconnectJoined, Ended
<1>3. /\ client'.gen = client.gen /\ client'.engine = client.engine
      /\ client'.transport = client.transport
      /\ SamePending(client, client')
  BY <1>1, <1>2 DEF Clients, SamePending
<1>4. /\ pc'["disconnect"] = "lock" /\ pc'["connect"] = pc["connect"]
      /\ (Alone' <=> Alone) /\ (Quitting' <=> Quitting) /\ (Failing' <=> Failing)
      /\ (Leaving' <=> Leaving) /\ (Answering' <=> Answering)
  BY <1>1, <1>2, DisconnectMoves
<1>5. Phase' = Phase /\ (Will' <=> Will) /\ (Ok' <=> Ok) /\ (Over' <=> Over)
  BY <1>2, <1>3, PhaseSame
<1>6. ASSUME Before PROVE After
  <2>1. RetryInv'
    BY <1>3, <1>4, <1>5, <1>6 DEF Before, RetryInv, SamePending
  <2>2. ClosingInv'
    BY <1>3, <1>4, <1>5, <1>6 DEF Before, ClosingInv, SamePending
  <2>3. ASSUME cut' = {} PROVE WorkInv'
    BY <1>3, <1>4, <1>5, <1>6, <2>3 DEF Before, WorkInv, SamePending, ConnectWorks, Returning,
       Undecided, WillRetry
  <2> QED BY <2>1, <2>2, <2>3 DEF After
<1> QED BY <1>2, <1>6, Framed

\* Returning changes nothing that is pending.
LEMMA ReturnsPending ==
    ASSUME NEW c \in Clients
    PROVE  SamePending(c, Returns(c))
<1>1. PICK i : i = IF c.intent = "disconnect" THEN "off" ELSE c.intent
  OBVIOUS
<1>2. Returns(c) = [c EXCEPT !.intent = i]
  BY <1>1 DEF Returns
<1> QED BY <1>2 DEF SamePending, Clients

\* disconnect() returns: it has settled what is pending, or others have it.
Returned ==
    /\ pc["disconnect"] \in {"lock", "ending", "force", "shut"}
    /\ pc' = [pc EXCEPT !["disconnect"] = "idle"]
    /\ reader' = reader /\ cut' = cut
    /\ client'.gen = client.gen /\ client'.engine = client.engine
    /\ client'.transport \in {0, client.transport} /\ client'.intentional = client.intentional
    /\ pc["disconnect"] \in {"lock", "ending"} => pc["connect"] \notin Trying
    /\ IF pc["disconnect"] = "lock" THEN ~client'.reconnecting /\ ~client'.owed
       ELSE SamePending(client, client')

\* It was not the one to look after the work, or has settled it.
LEMMA ReturnedWork ==
    ASSUME Before, Returned
    PROVE  After
<1>1. /\ pc["disconnect"] \in {"lock", "ending", "force", "shut"}
      /\ pc' = [pc EXCEPT !["disconnect"] = "idle"]
      /\ reader' = reader
      /\ client'.gen = client.gen /\ client'.engine = client.engine
      /\ client'.transport \in {0, client.transport} /\ client'.intentional = client.intentional
      /\ pc["disconnect"] \in {"lock", "ending"} => pc["connect"] \notin Trying
      /\ pc["disconnect"] = "lock" => ~client'.reconnecting /\ ~client'.owed
      /\ pc["disconnect"] # "lock" => SamePending(client, client')
  BY DEF Returned
<1>2. /\ pc'["disconnect"] = "idle" /\ pc'["connect"] = pc["connect"]
      /\ (Alone' <=> Alone) /\ (Quitting' <=> Quitting) /\ (Failing' <=> Failing)
      /\ (Leaving' <=> Leaving) /\ (Answering' <=> Answering)
  BY <1>1, DisconnectMoves DEF Before
<1>3. Phase' = Phase /\ (Will' <=> Will) /\ (Ok' <=> Ok) /\ (Over' <=> Over)
  BY <1>1, PhaseSame
<1>4. RetryInv'
  BY <1>1, <1>2, <1>3 DEF Before, RetryInv, SamePending
<1>5. ClosingInv'
  BY <1>1, <1>2, <1>3 DEF Before, ClosingInv
<1>6. ASSUME cut' = {} PROVE WorkInv'
  <2>1. WorkInv /\ (ConnectWorks' <=> ConnectWorks) /\ (Returning' <=> Returning)
        /\ (Undecided' <=> Undecided) /\ (WillRetry' <=> WillRetry)
    BY <1>2, <1>3, <1>6 DEF Before, ConnectWorks, Returning, Undecided, WillRetry
  <2>2. CASE pc["disconnect"] = "lock"
    BY <1>1, <1>2, <1>3, <2>1, <2>2 DEF WorkInv
  <2>3. CASE pc["disconnect"] # "lock"
    BY <1>1, <1>2, <1>3, <2>1, <2>3 DEF WorkInv, SamePending
  <2> QED BY <2>2, <2>3
<1> QED BY <1>4, <1>5, <1>6 DEF After

\* disconnect() starts to close what there is: the reader has what is pending, or connect().
LEMMA DisconnectClosesWork ==
    ASSUME Inv, HandInv, DisconnectCloses,
           pc["disconnect"] = "flush" \/ (pc["disconnect"] = "lock" /\ client.transport # 0),
           \A a \in Attempting : pc[a] \notin Trying \cup {"force"}
    PROVE  HandInv'
<1>1. TypeInv /\ client \in Clients /\ client.reader \in 0..MaxGens
  BY DEF Inv, BaseInv, TypeInv, Clients
<1>2. /\ pc' = [Cancelled(pc, client.task) EXCEPT !["disconnect"] = "force"] /\ CancelReader(client.reader)
      /\ client' = [client EXCEPT !.old = client.reader, !.task = "none"]
  BY DEF DisconnectCloses, ForceClose
<1>3. CancelledBut("disconnect", "force")
  BY <1>1, <1>2, CancelSupervisor DEF DisconnectStates
<1>4. /\ client'.gen = client.gen /\ client'.engine = client.engine
      /\ client'.transport = client.transport
      /\ SamePending(client, client')
  BY <1>1, <1>2 DEF Clients, SamePending
<1>5. ASSUME Before PROVE After
  <2>1. /\ pc'["disconnect"] = "force" /\ pc'["connect"] = pc["connect"]
        /\ Alone' /\ ~Failing' /\ ~Leaving' /\ ~Quitting'
    BY <1>1, <1>3, <1>5, Supersedes DEF Before, Callers
  <2>2. ~Answering /\ pc["connect"] \notin Trying
    BY DEF Answering, Trying, Attempting
  <2>3. /\ (Will' <=> Will) /\ (Ok' <=> Ok)
        /\ Phase \in {"reading", "fatal"} => Phase' \in {Phase, "ending"}
        /\ Phase = "closing" => Phase' \in {"closing", "cut"}
        /\ Phase \notin {"reading", "fatal", "closing"} => Phase' = Phase
        /\ cut' = {} /\ Phase = "closing" => Phase' = "closing"
        /\ cut' = {} /\ Phase = "closing" /\ Will => ~client.intentional
    BY <1>1, <1>2, <1>4, <1>5, PhaseCancelled DEF Before
  <2>4. client.intentional /\ ~client.reconnecting
    BY <1>5 DEF Before, OwnerInv, DisconnectInv, RetryInv
  <2>5. RetryInv'
    BY <1>4, <2>4 DEF RetryInv, SamePending
  <2>6. ClosingInv'
    BY <1>4, <1>5, <2>1, <2>2 DEF Before, ClosingInv, SamePending
  <2>7. ASSUME cut' = {} PROVE WorkInv'
    <3>1. WorkInv /\ (ConnectWorks' <=> ConnectWorks) /\ (Undecided => Undecided') /\ (Over' => Over)
          /\ (Phase' = "closing" => Phase = "closing")
      BY <1>5, <2>1, <2>3, <2>7 DEF Before, ConnectWorks, Returning, Undecided, Over
    <3>2. client.owed /\ client.engine # "new" => ConnectWorks \/ Undecided
      <4>1. CASE pc["disconnect"] = "flush"
        BY <2>4, <3>1, <4>1 DEF WorkInv
      <4>2. CASE client.transport # 0
        <5>1. Undecided \/ Phase = "closing"
          BY <1>1, <3>1, <4>2, PhaseTyped DEF WorkInv, Undecided, Over
        <5> QED BY <2>3, <2>4, <2>7, <3>1, <5>1 DEF WorkInv
      <4> QED BY <4>1, <4>2
    <3> QED BY <1>4, <2>3, <2>4, <3>1, <3>2 DEF WorkInv, SamePending
  <2> QED BY <2>5, <2>6, <2>7 DEF After
<1> QED BY <1>2, <1>5, CancelGrows, Framed

\* disconnect() lets its DISCONNECT out: the reader has what is pending.
LEMMA DisconnectFlushesWork ==
    ASSUME Inv, HandInv, pc["disconnect"] = "lock", client.engine = "connected", pc["connect"] \notin Trying,
           client' = [client EXCEPT !.engine = "disconnecting"],
           pc' = [pc EXCEPT !["disconnect"] = "flush"], reader' = reader, cut' = cut
    PROVE  HandInv'
<1>1. TypeInv /\ client \in Clients
  BY DEF Inv, BaseInv, TypeInv
<1>2. /\ client'.gen = client.gen /\ client'.engine = "disconnecting"
      /\ client'.transport = client.transport
      /\ SamePending(client, client')
  BY <1>1 DEF Clients, SamePending
<1>3. /\ pc'["disconnect"] = "flush" /\ pc'["connect"] = pc["connect"]
      /\ (Alone' <=> Alone) /\ (Quitting' <=> Quitting) /\ (Failing' <=> Failing) /\ (Leaving' <=> Leaving)
  BY <1>1, DisconnectMoves
<1>4. Phase' = Phase /\ (Will' <=> Will) /\ (Ok' <=> Ok) /\ (Over' <=> Over)
  BY <1>2, PhaseSame
<1>5. ASSUME Before PROVE After
  <2>1. Phase \in {"reading", "fatal", "ending"}
    BY <1>5, PhaseFacts DEF Before
  <2>2. client.intentional /\ ~client.reconnecting
    BY <1>5 DEF Before, OwnerInv, DisconnectInv, RetryInv
  <2>3. RetryInv'
    BY <1>2, <2>2 DEF RetryInv, SamePending
  <2>4. ClosingInv'
    BY <1>2, <1>3, <1>4, <1>5 DEF Before, ClosingInv, SamePending, Up
  <2>5. WorkInv'
    <3>1. Undecided' /\ ~Over' /\ Phase' # "closing"
      BY <1>4, <2>1 DEF Undecided, Over
    <3> QED BY <1>2, <2>2, <3>1 DEF WorkInv, SamePending
  <2> QED BY <2>3, <2>4, <2>5 DEF After
<1> QED BY <1>5, Framed

\* disconnect() has the lock: without a transport it settles what is pending.
LEMMA DisconnectLocksWork ==
    ASSUME Inv, HandInv, DisconnectLocks
    PROVE  HandInv'
<1>1. TypeInv /\ LockInv /\ client \in Clients
  BY DEF Inv, BaseInv, TypeInv
<1>2. pc["disconnect"] \in {"lock", "ending"} /\ Head(lock) = "disconnect"
  BY DEF DisconnectLocks, Woken
<1>3. lock # <<>>
  BY <1>1, <1>2 DEF LockInv, LockOK, Queues, Has, Tasks
<1>4. \A a \in Attempting : pc[a] \notin Trying \cup {"force"}
  BY <1>2, <1>3, DisconnectHead
<1>5. pc["connect"] \notin Trying
  BY <1>4 DEF Attempting
<1>6. CASE /\ pc["disconnect"] = "ending" /\ pc' = [pc EXCEPT !["disconnect"] = "idle"]
           /\ client' = Returns(client) /\ reader' = reader /\ cut' = cut
  <2>1. /\ client'.gen = client.gen /\ client'.engine = client.engine /\ client'.transport = client.transport
        /\ client'.intentional = client.intentional /\ SamePending(client, client')
    BY <1>1, <1>6, ReturnsClient, ReturnsPending
  <2>2. Returned
    BY <1>5, <1>6, <2>1 DEF Returned
  <2> QED BY <1>6, <2>2, ReturnedWork, Framed
<1>7. CASE /\ pc["disconnect"] = "lock" /\ client.transport = 0
           /\ pc' = [pc EXCEPT !["disconnect"] = "idle"] /\ reader' = reader /\ cut' = cut
           /\ IF _will_reconnect(client) THEN client' = Returns(client)
              ELSE client' \in {Returns(c) : c \in _terminal_shutdown(client)}
  <2>1. ASSUME Before PROVE After
    <3>1. client.intentional
      BY <1>7, <2>1 DEF Before, OwnerInv, DisconnectInv
    <3>2. PICK c \in _terminal_shutdown(client) : client' = Returns(c)
      BY <1>1, <1>7, <3>1, WillReconnect
    <3>3. PICK latch \in BOOLEAN :
            c = [client EXCEPT !.reconnecting = FALSE, !.closed = TRUE, !.owed = FALSE, !.latch = latch]
      BY <1>1, <3>2, TerminalShutdown
    <3>4. /\ c \in Clients /\ c.gen = client.gen /\ c.engine = client.engine /\ c.transport = client.transport
          /\ c.intentional = client.intentional /\ c.reconnecting = FALSE /\ c.owed = FALSE
      BY <1>1, <3>3 DEF Clients
    <3>5. /\ client'.gen = client.gen /\ client'.engine = client.engine /\ client'.transport = client.transport
          /\ client'.intentional = client.intentional /\ ~client'.reconnecting /\ ~client'.owed
      BY <3>2, <3>4, ReturnsClient, ReturnsPending DEF SamePending
    <3>6. Returned
      BY <1>5, <1>7, <3>5 DEF Returned
    <3> QED BY <2>1, <3>6, ReturnedWork
  <2> QED BY <1>7, <2>1, Framed
<1>8. CASE /\ pc["disconnect"] = "lock" /\ client.engine = "connected"
           /\ client' = [client EXCEPT !.engine = "disconnecting"]
           /\ pc' = [pc EXCEPT !["disconnect"] = "flush"] /\ reader' = reader /\ cut' = cut
  BY <1>5, <1>8, DisconnectFlushesWork
<1>9. CASE pc["disconnect"] = "lock" /\ client.transport # 0 /\ DisconnectCloses
  BY <1>4, <1>9, DisconnectClosesWork
<1> QED BY <1>6, <1>7, <1>8, <1>9 DEF DisconnectLocks

\* Its DISCONNECT is out.
LEMMA DisconnectFlushedWork ==
    ASSUME Inv, HandInv, DisconnectFlushed
    PROVE  HandInv'
<1>1. LockInv /\ pc["disconnect"] = "flush" /\ DisconnectCloses
  BY DEF Inv, BaseInv, DisconnectFlushed
<1>2. lock # <<>> /\ Head(lock) = "disconnect"
  BY <1>1 DEF LockInv, LockOK, Owns, Tasks
<1>3. \A a \in Attempting : pc[a] \notin Trying \cup {"force"}
  BY <1>2, DisconnectHead
<1> QED BY <1>1, <1>3, DisconnectClosesWork

\* The tasks it waited for have ended.  That their transport is still open means
\* that a window was hit.
LEMMA DisconnectForcedWork ==
    ASSUME Inv, HandInv, DisconnectForced
    PROVE  HandInv'
<1>1. TypeInv /\ client \in Clients
  BY DEF Inv, BaseInv, TypeInv
<1>2. /\ pc["disconnect"] = "force" /\ (IF client.old = 0 THEN TRUE ELSE Idle(reader[client.old]))
      /\ reader' = reader /\ cut' = cut
  BY DEF DisconnectForced
<1>3. ASSUME Before PROVE After
  <2>1. client.reader \in {0, client.old}
    BY <1>2, <1>3 DEF Before, OwnerInv, DisconnectInv
  <2>2. CASE TransportLeft
    <3>1. /\ pc' = [pc EXCEPT !["disconnect"] = "shut"]
          /\ client' = [client EXCEPT !.reader = 0, !.task = "none"]
      BY <2>1, <2>2 DEF DisconnectForced
    <3>2. /\ client'.gen = client.gen /\ client'.engine = client.engine /\ client'.transport = client.transport
          /\ SamePending(client, client')
      BY <1>1, <3>1 DEF Clients, SamePending
    <3>3. /\ pc'["disconnect"] = "shut" /\ pc'["connect"] = pc["connect"]
          /\ (Alone' <=> Alone) /\ (Quitting' <=> Quitting) /\ (Failing' <=> Failing)
          /\ (Leaving' <=> Leaving) /\ (Answering' <=> Answering)
      BY <1>1, <3>1, DisconnectMoves
    <3>4. Phase' = Phase /\ (Will' <=> Will) /\ (Ok' <=> Ok) /\ (Over' <=> Over)
      BY <1>2, <3>2, PhaseSame
    <3>5. RetryInv'
      BY <1>3, <3>2, <3>3, <3>4 DEF Before, RetryInv, SamePending
    <3>6. ClosingInv'
      BY <1>2, <1>3, <3>2, <3>3, <3>4 DEF Before, ClosingInv, SamePending
    <3>7. cut' # {}
      <4>1. NoReader
        BY <1>2, <2>1 DEF NoReader
      <4>2. Over /\ client.transport # 0
        BY <1>3, <2>2, <4>1, PhaseFacts DEF Before, TransportLeft
      <4> QED BY <1>3, <4>2 DEF Before, WorkInv
    <3> QED BY <3>5, <3>6, <3>7 DEF After
  <2>3. CASE ~TransportLeft
    <3>1. PICK c : c = [client EXCEPT !.reader = 0, !.task = "none", !.closed = TRUE]
      OBVIOUS
    <3>2. pc' = [pc EXCEPT !["disconnect"] = "idle"] /\ client' = Returns(c)
      BY <2>1, <2>3, <3>1 DEF DisconnectForced
    <3>3. /\ c \in Clients /\ c.gen = client.gen /\ c.engine = client.engine /\ c.transport = client.transport
          /\ SamePending(client, c)
      <4>1. 0 \in 0..MaxGens
        BY LifecycleAssumption
      <4> QED BY <1>1, <3>1, <4>1 DEF Clients, SamePending
    <3>4. /\ client'.gen = client.gen /\ client'.engine = client.engine /\ client'.transport = client.transport
          /\ SamePending(client, client') /\ client'.intentional = client.intentional
      BY <3>2, <3>3, ReturnsClient, ReturnsPending DEF SamePending
    <3>5. Returned
      BY <1>2, <3>2, <3>4 DEF Returned
    <3> QED BY <1>3, <3>5, ReturnedWork
  <2> QED BY <2>2, <2>3
<1> QED BY <1>2, <1>3, Framed

\* That transport is closed.
LEMMA DisconnectShutWork ==
    ASSUME Inv, HandInv, DisconnectShut
    PROVE  HandInv'
<1>1. TypeInv /\ client \in Clients
  BY DEF Inv, BaseInv, TypeInv
<1>2. PICK c : c = [client EXCEPT !.transport = 0, !.closed = TRUE]
  OBVIOUS
<1>3. /\ pc["disconnect"] = "shut" /\ reader' = reader /\ cut' = cut
      /\ pc' = [pc EXCEPT !["disconnect"] = "idle"] /\ client' = Returns(c)
  BY <1>2 DEF DisconnectShut
<1>4. /\ c \in Clients /\ c.gen = client.gen /\ c.engine = client.engine /\ c.transport = 0
      /\ SamePending(client, c)
  <2>1. 0 \in 0..MaxGens
    BY LifecycleAssumption
  <2> QED BY <1>1, <1>2, <2>1 DEF Clients, SamePending
<1>5. /\ client'.gen = client.gen /\ client'.engine = client.engine /\ client'.transport = 0
      /\ SamePending(client, client') /\ client'.intentional = client.intentional
  BY <1>3, <1>4, ReturnsClient, ReturnsPending DEF SamePending
<1>6. Returned
  BY <1>3, <1>5 DEF Returned
<1> QED BY <1>3, <1>6, ReturnedWork, Framed

-----------------------------------------------------------------------------
(* Publications, and the theorem.                                          *)

\* A publication is admitted: whoever made it count as pending has it, unless it
\* was doomed, which is one of the windows.
LEMMA PublishWork ==
    ASSUME Inv, HandInv, Publish
    PROVE  HandInv'
<1>1. TypeInv /\ client \in Clients
  BY DEF Inv, BaseInv, TypeInv
<1>2. /\ ~client.latch /\ (client.engine = "disconnected" => _connection_pending)
      /\ client' = [client EXCEPT !.owed = TRUE] /\ pc' = pc /\ reader' = reader
      /\ cut \subseteq cut' /\ (cut' = {} => ~Doomed)
  BY DEF Publish
<1>3. /\ client'.gen = client.gen /\ client'.engine = client.engine
      /\ client'.transport = client.transport
      /\ client'.intentional = client.intentional /\ client'.reconnecting = client.reconnecting
      /\ client'.latch = client.latch
  BY <1>1, <1>2 DEF Clients
<1>4. Phase' = Phase /\ (Will' <=> Will) /\ (Ok' <=> Ok) /\ (Over' <=> Over)
  BY <1>2, <1>3, PhaseSame
<1>5. ASSUME Before PROVE After
  <2>1. RetryInv'
    BY <1>2, <1>3, <1>4, <1>5, SamePc DEF Before, RetryInv
  <2>2. ClosingInv'
    BY <1>2, <1>3, <1>4, <1>5, SamePc DEF Before, ClosingInv
  <2>3. ASSUME cut' = {} PROVE WorkInv'
    <3>1. WorkInv /\ (ConnectWorks' <=> ConnectWorks) /\ (Returning' <=> Returning)
          /\ (Undecided' <=> Undecided) /\ (WillRetry' <=> WillRetry)
      BY <1>2, <1>4, <1>5, <2>3, SamePc DEF Before, ConnectWorks, Returning, Undecided, WillRetry
    <3>2. client.engine \in {"new", "disconnected"} \/ Undecided
      BY <1>1, <1>5, PhaseFacts DEF Before, Undecided, Clients
    <3>3. ASSUME client.engine = "disconnected", ~client.reconnecting
          PROVE  ConnectWorks \/ (pc["connect"] = "idle" /\ ~Alone /\ ~client.intentional /\ Phase # "closing")
      <4>1. ~Doomed /\ (pc["connect"] # "idle" \/ Live(client.task))
        BY <1>2, <2>3, <3>3 DEF _connection_pending
      <4>2. CASE pc["connect"] # "idle"
        <5>1. ~Returning
          BY <3>3, <4>1 DEF Doomed, Returning, Ok
        <5> QED BY <4>2, <5>1 DEF ConnectWorks
      <4>3. CASE pc["connect"] = "idle"
        <5>1. ~client.intentional /\ reader[client.gen].pc # "closing"
          BY <3>3, <4>1, <4>3 DEF Doomed
        <5> QED BY <1>1, <4>1, <4>3, <5>1, LiveNotAlone DEF Phase
      <4> QED BY <4>2, <4>3
    <3>4. ASSUME Phase = "closing", ~Will PROVE ConnectWorks
      <4>1. client.engine # "new" /\ ~client.reconnecting
        <5>1. client.gen # 0
          BY <3>4 DEF Phase
        <5> QED BY <1>5, <3>4, <5>1 DEF Before, RetryInv, ClosingInv
      <4>2. client.engine = "disconnected"
        BY <3>2, <3>4, <4>1 DEF Undecided
      <4> QED BY <3>3, <3>4, <4>1, <4>2
    <3>5. ASSUME client.engine # "new"
          PROVE  ConnectWorks \/ Undecided \/ (WillRetry /\ ~client.intentional) \/ (~Alone /\ ~client.intentional)
      <4>1. CASE client.reconnecting
        <5>1. ~client.intentional
          BY <1>5, <4>1 DEF Before, RetryInv
        <5> QED BY <3>1, <4>1, <5>1 DEF WorkInv, ConnectWorks
      <4>2. CASE ~client.reconnecting
        <5>1. CASE Undecided
          BY <5>1
        <5>2. CASE client.engine = "disconnected"
          BY <3>3, <4>2, <5>2
        <5> QED BY <3>2, <3>5, <5>1, <5>2
      <4> QED BY <4>1, <4>2
    <3> QED BY <1>2, <1>3, <1>4, <3>1, <3>4, <3>5, SamePc DEF WorkInv
  <2> QED BY <2>1, <2>2, <2>3 DEF After
<1> QED BY <1>2, <1>5, Framed

\* The invariant holds of a new client,
LEMMA InitWork ==
    ASSUME Init
    PROVE  HandInv
<1>1. /\ client.engine = "new" /\ client.gen = 0 /\ client.transport = 0 /\ ~client.reconnecting
      /\ ~client.latch /\ ~client.intentional /\ ~client.owed
  BY DEF Init
<1>2. pc["connect"] = "idle" /\ Alone
  BY LifecycleAssumption DEF Init, Tasks, Alone
<1>3. Phase = "none" /\ ~Failing /\ ~Leaving /\ ~Quitting
  BY <1>1, <1>2 DEF Phase, Failing, Leaving, Quitting, Alone, Attempting
<1>4. RetryInv /\ WorkInv
  BY <1>1, <1>3 DEF RetryInv, WorkInv
<1>5. ClosingInv
  BY <1>1, <1>2, <1>3 DEF ClosingInv
<1> QED BY <1>4, <1>5 DEF HandInv

\* survives stuttering,
LEMMA StutterWork ==
    ASSUME Inv, HandInv, UNCHANGED vars
    PROVE  HandInv'
<1>1. pc' = pc /\ reader' = reader /\ client' = client /\ cut' = cut
  BY DEF vars
<1>2. SameWork(client, client') /\ (client'.owed => client.owed) /\ cut \subseteq cut'
  BY <1>1 DEF SameWork
<1> QED BY <1>1, <1>2, QuietWork, Framed

\* and every step.
LEMMA NextWork ==
    ASSUME Inv, HandInv, Next
    PROVE  HandInv'
<1>1. CASE Connecting
  <2>1. "connect" \in Attempting
    BY DEF Attempting
  <2> QED BY <1>1, <2>1, ConnectLocksWork, ConnectJoinedWork, ConnectBeginsWork, BackoffEndsWork,
             AttemptsWork DEF Connecting
<1>2. CASE Disconnecting
  BY <1>2, DisconnectJoinedWork, DisconnectLocksWork, DisconnectFlushedWork, DisconnectForcedWork,
     DisconnectShutWork DEF Disconnecting
<1>3. CASE \E s \in Supervisors : Supervising(s)
  <2>1. PICK s \in Supervisors : Supervising(s)
    BY <1>3
  <2>2. s \in Attempting
    BY DEF Attempting
  <2> QED BY <2>1, <2>2, SupervisorWakesWork, SupervisorSleptWork, SupervisorLocksWork,
             SupervisorDialsWork, SupervisorStableWork, SupervisorCancelledWork, AttemptsWork
             DEF Supervising
<1>4. CASE \E g \in Gens : Retiring(g) \/ Peer(g)
  <2>1. PICK g \in Gens : Retiring(g) \/ Peer(g)
    BY <1>4
  <2>2. CASE Retiring(g)
    BY <2>2, FatalSentWork, ReaderRetiresWork, ReaderDecidesWork, ReaderClosesWork DEF Retiring
  <2>3. CASE Peer(g)
    BY <2>3, PeerWork
  <2> QED BY <2>1, <2>2, <2>3
<1>5. CASE Notifying
  BY <1>5, HooksWork
<1> QED BY <1>1, <1>2, <1>3, <1>4, <1>5, ConnectCallsWork, ConnectCancelledWork,
           DisconnectCallsWork, LateCancelWork, PublishWork, AcknowledgedWork DEF Next

\* The inductive invariant of the hand-over of pending work between the reader, the
\* supervisor, connect() and disconnect().
THEOREM HandOverInvariant == Spec => []HandInv
<1>1. Init => HandInv
  BY InitWork
<1>2. Inv /\ HandInv /\ [Next]_vars => HandInv'
  BY NextWork, StutterWork
<1> QED BY <1>1, <1>2, LifecycleInvariant, PTL DEF Spec

\* Nothing is left to nobody: state RECONNECTING has a task that will retry, a
\* publication that was admitted has a task that will send it or fail its receipt,
\* and a connected engine has the reader and the transport the client names, in
\* every interleaving that hits none of the six windows.
THEOREM WorkIsOwnedHolds == Spec => []WorkIsOwned
<1>1. Inv /\ HandInv => WorkIsOwned
  <2> SUFFICES ASSUME Inv, HandInv, cut = {}
               PROVE  /\ client.reconnecting =>
                            \/ pc["connect"] # "idle" \/ \E s \in Supervisors : pc[s] # "none"
                            \/ \E g \in Gens : reader[g].pc = "closing" /\ reader[g].will
                      /\ client.owed /\ client.engine # "new" => Working
                      /\ client.engine = "connected" =>
                            /\ client.reader = client.gen /\ client.transport = client.gen
                            /\ ~Idle(reader[client.gen])
    BY DEF WorkIsOwned
  <2>1. TypeInv /\ OwnerInv /\ WorkInv
    BY DEF Inv, BaseInv, Protected, HandInv
  <2>2. client.gen # 0 => client.gen \in Gens
    BY <2>1, PhaseTyped
  <2>3. WillRetry => \E g \in Gens : reader[g].pc = "closing" /\ reader[g].will
    BY <2>2 DEF WillRetry, Phase, Will
  <2>4. Undecided \/ WillRetry => \E g \in Gens : ~Idle(reader[g])
    BY <2>2 DEF Undecided, WillRetry, Phase, Idle
  <2>5. client.reconnecting =>
            \/ pc["connect"] # "idle" \/ \E s \in Supervisors : pc[s] # "none"
            \/ \E g \in Gens : reader[g].pc = "closing" /\ reader[g].will
    BY <2>1, <2>3 DEF WorkInv, Alone
  <2>6. client.owed /\ client.engine # "new" => Working
    BY <2>1, <2>4 DEF WorkInv, Working, ConnectWorks, Alone
  <2>7. client.engine = "connected" =>
            /\ client.reader = client.gen /\ client.transport = client.gen /\ ~Idle(reader[client.gen])
    <3>1. client.engine = "connected" => Phase \in {"reading", "fatal", "ending"}
      BY <2>1, PhaseFacts
    <3>2. client.engine = "connected" => ~Over
      BY <3>1 DEF Over
    <3> QED BY <2>1, <3>1, <3>2, PhaseFacts DEF Phase, Idle
  <2> QED BY <2>5, <2>6, <2>7
<1> QED BY <1>1, LifecycleInvariant, HandOverInvariant, PTL
=============================================================================
