------------------------------ MODULE Lifecycle ------------------------------
(***************************************************************************)
(* The connection lifecycle of AsyncClient: connect(), disconnect(), the   *)
(* reader that owns a connection and retires it, the reconnect supervisor, *)
(* and the LifecycleHooks that run on_connect and on_disconnect.           *)
(*                                                                         *)
(* Every task of the event loop is a process that runs from one await to   *)
(* the next in one step.  Cancelling a task is part of the step that       *)
(* cancels it; what the cancelled task does then depends on the await it   *)
(* is suspended in, as in the code: a join passes it on to the task        *)
(* joined, an attempt closes what it opened, and a reader that is closing  *)
(* its transport drops the rest of its retirement.                         *)
(***************************************************************************)
EXTENDS Integers, Sequences, FiniteSets, SeqFolds

CONSTANTS
    Supervisors,     \* task identities for _reconnect_loop()
    Policies,        \* reconnect policies: "off", "on" or "refused" (retry_refused)
    MaxRetries,      \* the policy's max_retries
    MaxGens,         \* bound: transports opened
    MaxConnects,     \* bound: calls of connect()
    MaxDisconnects,  \* bound: calls of disconnect()
    MaxLosses,       \* bound: connections ended by the peer or a failure
    MaxCancels,      \* bound: cancellations of a connect() by its caller
    SealFails        \* whether sealing failed publications can fail

ASSUME LifecycleAssumption ==
    /\ {"connect", "disconnect", "none"} \cap Supervisors = {}
    /\ MaxRetries \in Nat /\ MaxGens \in Nat \ {0}
    /\ SealFails \in BOOLEAN

VARIABLES
    pc,      \* the await each task is suspended in
    lock,    \* _lifecycle_lock: its holder, then its waiters in order
    reader,  \* per transport: the task running _read_loop() and its locals
    hooks,   \* LifecycleHooks
    client,  \* the attributes of AsyncClient
    budget,  \* what the environment may still do
    cut      \* history: the unprotected windows that were hit

vars == <<pc, lock, reader, hooks, client, budget, cut>>

Tasks == {"connect", "disconnect"} \cup Supervisors
Gens == 1..MaxGens

Idle(r) == r.pc \in {"none", "done", "cut"}
Released == lock' = Tail(lock)
Live(s) == s # "none" /\ pc[s] # "none"
-----------------------------------------------------------------------------
(* LifecycleHooks: one record, one operator per method.                    *)

NoHook == [pc |-> "none", tok |-> 0, up |-> FALSE]
Note(tok, up) == [pc |-> "start", tok |-> tok, up |-> up]

_cancel_obsolete(h) ==
    IF h.hook.pc \in {"start", "barrier"} THEN [h EXCEPT !.hook.pc = "cancelled"] ELSE h

\* As begin_operation, but the retry gate stays closed.
begin_operation_gated(h, replace, preserve) ==
    LET kept == IF preserve THEN h ELSE _cancel_obsolete(h)
    IN  [kept EXCEPT !.token = @ + (IF replace THEN 1 ELSE 0), !.pending = NoHook]

begin_operation(h, replace, preserve) ==
    LET kept == IF preserve THEN h ELSE _cancel_obsolete(h)
    IN  [kept EXCEPT !.token = @ + (IF replace THEN 1 ELSE 0),
                     !.pending = NoHook, !.ready = TRUE]

hold(h) == [h EXCEPT !.holds = @ + 1]
release(h) == [h EXCEPT !.holds = @ - 1]

connected(h, tok) ==
    IF tok # h.token THEN h ELSE [h EXCEPT !.ready = TRUE, !.pending = Note(tok, TRUE)]

disconnected(h, tok) ==
    IF tok # h.token THEN h
    ELSE [_cancel_obsolete(h) EXCEPT !.ready = FALSE, !.pending = Note(tok, FALSE)]

\* As retiring, but a pending on_connect stays queued.
retiring_keeps(h, tok) ==
    IF tok # h.token THEN h ELSE [_cancel_obsolete(h) EXCEPT !.ready = FALSE]

retiring(h, tok) ==
    IF tok # h.token THEN h
    ELSE [_cancel_obsolete(h) EXCEPT !.ready = FALSE, !.pending = NoHook]
-----------------------------------------------------------------------------
(* Decisions and settlements of the client.                                *)

_retry_reason(c) == IF c.lastDisc # "none" THEN c.lastDisc ELSE c.lastConnack

should_retry(c) ==
    /\ c.policy # "off"
    /\ c.attempt < MaxRetries
    /\ \/ _retry_reason(c) # "terminal"
       \/ c.policy = "refused" /\ c.lastConnack # "none"

_will_reconnect(c) ==
    ~c.latch /\ c.cause # "permanent" /\ ~c.intentional /\ should_retry(c)

\* Protocol and local causes outrank transport and broker causes; only the
\* former are permanent, so a permanent cause replaces a plain one, never the
\* other way round.
_propose_disconnect_cause(c, cause) ==
    IF c.cause = "none" \/ cause = "permanent" THEN [c EXCEPT !.cause = cause] ELSE c

\* The outcomes of failing every pending receipt: sealing the abandoned
\* publications can fail, which latches a local failure.
_fail_pending(c) ==
    {[c EXCEPT !.owed = FALSE]}
        \cup (IF c.owed /\ SealFails THEN {[c EXCEPT !.owed = FALSE, !.latch = TRUE]} ELSE {})

_terminal_shutdown(c) ==
    _fail_pending([c EXCEPT !.reconnecting = FALSE, !.closed = TRUE])

\* As _abandon_connect, but the pending reconnection is not taken back.
abandon_pending(c) == _fail_pending([c EXCEPT !.intentional = TRUE])

_abandon_connect(c) ==
    _fail_pending([c EXCEPT !.intentional = TRUE, !.reconnecting = FALSE])

_connection_pending ==
    client.reconnecting \/ pc["connect"] # "idle" \/ Live(client.task)

\* What a reader does when it is cancelled, by the await it is suspended in.
\* While it retires it swallows the request, except that one arriving while it
\* closes the transport ends it.  (It has always run its first step: that step
\* is scheduled before anything can be woken that would cancel it.)
CancelledReader(r) ==
    CASE r.pc \in {"reading", "fatal"} -> {[r EXCEPT !.pc = "ending"]}
      [] r.pc = "closing"              -> {r, [r EXCEPT !.pc = "cut"]}
      [] OTHER                         -> {r}

\* Cancel the reader of transport g; remember a retirement cut short, or one
\* that decided to reconnect before an intentional close.
CancelReader(g) ==
    IF g = 0 THEN UNCHANGED <<reader, cut>>
    ELSE \E r \in CancelledReader(reader[g]) :
            /\ reader' = [reader EXCEPT ![g] = r]
            /\ cut' = IF r.pc = "cut" \/ (r.pc = "closing" /\ r.will /\ client.intentional)
                      THEN cut \cup {"retire"} ELSE cut

\* _cancel_automatic_reconnect() and the same lines of disconnect(): where the
\* supervisor goes.  A wait ends it; a CONNACK wait first closes the connection
\* it opened; joining a reader, it passes the request on to the reader.
CancelledPc(s) ==
    CASE pc[s] \in {"ready", "sleep", "lock", "stable", "dial"} -> "none"
      [] pc[s] \in {"connack", "bye"} -> "quit"
      [] OTHER -> pc[s]
Joining == {"force", "fail", "quit"}

\* A release of the lock has woken this task.
Woken(a) == pc[a] \in {"lock", "ending"} /\ Head(lock) = a

\* As Cancelled, but the supervisor goes on.
Uncancelled(p, s) == p

\* A supervisor is cancelled and joined where nothing can come between.
Cancelled(p, s) == [a \in Tasks |-> IF a = s THEN "none" ELSE p[a]]

Without(s) == Only(lock, Tasks \ {s})

\* _force_close(), its first part: hold the hooks, cancel the reader.  Its
\* second part waits for the reader.
ForceClose(h) == hooks' = hold(h) /\ CancelReader(client.reader)
NoReader == IF client.reader = 0 THEN TRUE ELSE Idle(reader[client.reader])
-----------------------------------------------------------------------------
Init ==
    /\ pc = [a \in Tasks |-> IF a \in Supervisors THEN "none" ELSE "idle"]
    /\ lock = <<>>
    /\ reader = [g \in Gens |-> [pc |-> "none", tok |-> 0, will |-> FALSE, connack |-> "none"]]
    /\ hooks = [token |-> 0, pending |-> NoHook, hook |-> NoHook, ready |-> TRUE, holds |-> 0]
    /\ \E p \in Policies :
        client = [policy |-> p, engine |-> "new", gen |-> 0, transport |-> 0, reader |-> 0,
                  old |-> 0, task |-> "none", intentional |-> FALSE, reconnecting |-> FALSE,
                  latch |-> FALSE, cause |-> "none", lastDisc |-> "none",
                  lastConnack |-> "none", attempt |-> 0, closed |-> FALSE, replacing |-> FALSE,
                  owed |-> FALSE, bye |-> FALSE, asked |-> FALSE, exc |-> "plain",
                  late |-> 0, intent |-> "connect"]
    /\ budget = [connects |-> MaxConnects, disconnects |-> MaxDisconnects,
                 losses |-> MaxLosses, cancels |-> MaxCancels]
    /\ cut = {}
-----------------------------------------------------------------------------
(* connect()                                                               *)

\* (A supervisor that disconnect() joins counts as alive until it is joined.)
_has_active_explicit_connection ==
    /\ client.engine \in {"connected", "connecting"}
    /\ ~Live(client.task) /\ pc["disconnect"] # "join"
    /\ reader[client.gen].pc # "ending"

\* connect() after a failed attempt: back off and retry, or give up.
ConnectFailed(c, h) ==
    /\ hooks' = h
    /\ IF ~c.asked /\ _will_reconnect(c)
       THEN /\ client' = [c EXCEPT !.reconnecting = TRUE, !.attempt = @ + 1]
            /\ pc' = [pc EXCEPT !["connect"] = "backoff"]
            /\ UNCHANGED lock
       ELSE /\ client' \in _abandon_connect(c)
            /\ pc' = [pc EXCEPT !["connect"] = "idle"]
            /\ Released

\* connect() has the lock: _prepare_explicit_connect() cancels the supervisor and
\* waits for its end; without one it starts closing whatever connection there is.
TakeOver(h, intent) ==
    LET s == client.task IN
    /\ lock' = IF lock = <<>> THEN <<"connect">> ELSE Without(s)
    /\ client' = [client EXCEPT !.intent = intent, !.asked = FALSE,
                    !.task = IF Live(s) THEN s ELSE "none",
                    !.replacing = s # "none" \/ client.transport # 0 \/ client.closed]
    /\ IF ~Live(s)
       THEN pc' = [pc EXCEPT !["connect"] = "force"] /\ ForceClose(h)
       ELSE /\ pc' = [pc EXCEPT !["connect"] = "cancel", ![s] = "cancelled"]
            /\ hooks' = h
            /\ UNCHANGED <<reader, cut>>

\* connect() is called.  An uncontended lock is taken without suspending.
ConnectCalls ==
    /\ pc["connect"] = "idle" /\ budget.connects > 0
    /\ ~client.latch
    /\ ~(client.engine = "connected" /\ _has_active_explicit_connection)
    /\ budget' = [budget EXCEPT !.connects = @ - 1]
    /\ LET h == begin_operation(hooks, FALSE, FALSE) IN
       IF lock = <<>> THEN TakeOver(h, "connect")
       ELSE /\ lock' = Append(lock, "connect")
            /\ pc' = [pc EXCEPT !["connect"] = "lock"]
            /\ hooks' = h
            /\ client' = [client EXCEPT !.intent = "connect"]
            /\ UNCHANGED <<reader, cut>>

\* The lock is ours: take over, unless the client is connected by then, which
\* fails the attempt.
ConnectLocks ==
    /\ pc["connect"] = "lock" /\ Woken("connect")
    /\ UNCHANGED budget
    /\ \/ ~_has_active_explicit_connection /\ TakeOver(hooks, client.intent)
       \/ /\ _has_active_explicit_connection /\ ~client.latch
          /\ ConnectFailed([client EXCEPT !.asked = FALSE, !.intentional = FALSE,
                                          !.attempt = 0, !.cause = "plain"],
                           begin_operation(hooks, TRUE, FALSE))
          /\ UNCHANGED <<reader, cut>>

\* The supervisor has ended: whatever _reconnect_task names by now is dropped, and
\* the connection is closed.
ConnectJoined ==
    /\ pc["connect"] = "cancel" /\ \A s \in Supervisors : pc[s] # "cancelled"
    /\ pc' = [pc EXCEPT !["connect"] = "force"]
    /\ client' = [client EXCEPT !.task = "none"]
    /\ ForceClose(hooks)
    /\ UNCHANGED <<lock, budget>>

\* The old connection is closed: cancel a supervisor its reader started, renew
\* the stream, look at the latch again, and start the first attempt.
ConnectBegins ==
    LET closed == [client EXCEPT !.reader = 0, !.transport = 0, !.task = "none",
                                 !.closed = @ \/ client.replacing, !.replacing = FALSE]
        quiet == Cancelled(pc, client.task)
    IN
    /\ pc["connect"] = "force" /\ NoReader
    /\ IF client.latch
       THEN /\ pc' = [quiet EXCEPT !["connect"] = "idle"]
            /\ client' = closed
            /\ hooks' = release(hooks)
            /\ lock' = Tail(Without(client.task))
            /\ UNCHANGED cut
       ELSE /\ pc' = [quiet EXCEPT !["connect"] = "dial"]
            /\ client' = [closed EXCEPT !.intentional = FALSE, !.attempt = 0,
                                        !.lastConnack = "none"]
            /\ hooks' = begin_operation(release(hooks), TRUE, FALSE)
            /\ lock' = Without(client.task)
            /\ cut' = IF pc["disconnect"] \in {"join", "lock", "ending"}
                      THEN cut \cup {"overtaken"} ELSE cut
    /\ UNCHANGED <<reader, budget>>
-----------------------------------------------------------------------------
(* _connect_once_locked(), for connect() and for the supervisor.           *)

Attempting == {"connect"} \cup Supervisors

\* A dial takes at least one turn of the event loop, and a disconnect() already
\* woken by the end of the old reader runs before it.  One that closes the old
\* transport waits for the same close as the attempt before its dial did.
Dialled(a) ==
    /\ a \in Attempting /\ pc[a] = "dial" /\ pc["disconnect"] # "shut"
    /\ pc["disconnect"] = "force" => (IF client.old = 0 THEN FALSE ELSE ~Idle(reader[client.old]))

\* The transport is open: CONNECT is queued and the reader created.
Opens(a) ==
    LET g == client.gen + 1 IN
    /\ Dialled(a) /\ client.gen < MaxGens
    /\ client.engine \notin {"connecting", "connected"}
    /\ client' = [client EXCEPT !.gen = g, !.transport = g, !.reader = g, !.closed = FALSE,
                                !.cause = "none", !.lastDisc = "none", !.bye = FALSE,
                                !.engine = "connecting"]
    /\ reader' = [reader EXCEPT ![g] = [pc |-> "reading", tok |-> hooks.token,
                                        will |-> FALSE, connack |-> "wait"]]
    /\ pc' = [pc EXCEPT ![a] = "connack"]
    /\ UNCHANGED <<lock, hooks, budget, cut>>

\* How a supervisor ends: its finally clears the task reference.
SupervisorEnds(s) == pc' = [pc EXCEPT ![s] = "none"]
Ended(c) == [c EXCEPT !.task = "none"]
Loops(s, c) ==
    IF c.intentional THEN SupervisorEnds(s) /\ client' = Ended(c)
    ELSE pc' = [pc EXCEPT ![s] = "ready"] /\ client' = c

\* The supervisor after a failed attempt: a permanent or local failure is
\* final, and is reported here when no reader of this attempt will report it.
SupervisorFailed(s, c, h, opened) ==
    /\ Released
    /\ IF c.cause = "permanent" \/ c.latch
       THEN /\ client' \in {Ended(d) : d \in _terminal_shutdown(c)}
            /\ SupervisorEnds(s)
            /\ hooks' = IF opened THEN h ELSE disconnected(h, h.token)
       ELSE Loops(s, c) /\ hooks' = h

AttemptFailed(a, c, h, opened) ==
    IF a = "connect" THEN ConnectFailed(c, h) ELSE SupervisorFailed(a, c, h, opened)

\* The transport factory raises or times out: nothing to close.
DialFails(a) ==
    /\ Dialled(a)
    /\ AttemptFailed(a, [client EXCEPT !.cause = "plain"], hooks, FALSE)
    /\ UNCHANGED <<reader, budget, cut>>

\* The attempt will fail with exc: close what it opened, then see AttemptClosed.
FailAttempt(a, exc, to) ==
    /\ pc' = [pc EXCEPT ![a] = to]
    /\ client' = [client EXCEPT !.exc = exc]
    /\ ForceClose(hooks)
    /\ UNCHANGED <<lock, budget>>

\* _await_connack_or_disconnect() returns an accepting CONNACK.
Accepted(a) ==
    /\ a \in Attempting /\ pc[a] = "connack" /\ ~client.bye
    /\ reader[client.gen].connack = "ok"
    /\ client' = [client EXCEPT !.reconnecting = FALSE]
    /\ pc' = [pc EXCEPT ![a] = IF a = "connect" THEN "idle" ELSE "stable"]
    /\ Released
    /\ hooks' = IF client.engine = "connected"
                THEN connected(hooks, reader[client.gen].tok) ELSE hooks
    /\ UNCHANGED <<reader, budget, cut>>

\* The CONNACK refuses, its future failed, or the deadline passed.
ConnackFails(a) ==
    /\ a \in Attempting /\ pc[a] = "connack" /\ ~client.bye
    /\ reader[client.gen].connack # "ok"
    /\ FailAttempt(a, IF reader[client.gen].connack = "permanent" THEN "permanent"
                      ELSE "plain", "fail")

\* disconnect() ends the attempt: the DISCONNECT goes out first.
SeesBye(a) ==
    /\ a \in Attempting /\ pc[a] = "connack" /\ client.bye
    /\ pc' = [pc EXCEPT ![a] = "bye"]
    /\ client' = [client EXCEPT !.engine = IF @ \in {"connecting", "connected"}
                                            THEN "disconnecting" ELSE @]
    /\ UNCHANGED <<lock, reader, hooks, budget, cut>>

ByeSent(a) ==
    /\ a \in Attempting /\ pc[a] = "bye"
    /\ FailAttempt(a, "plain", "fail")

\* The attempt's connection is closed and the engine retired.
AttemptClosed(a) ==
    LET c == [client EXCEPT !.reader = 0, !.transport = 0,
                            !.engine = "disconnected"]
    IN
    /\ a \in Attempting /\ pc[a] \in {"fail", "quit"} /\ NoReader
    /\ IF pc[a] = "fail"
       THEN AttemptFailed(a, [c EXCEPT !.cause = client.exc], release(hooks), TRUE)
       ELSE /\ hooks' = release(hooks)
            /\ Released
            /\ IF a = "connect"
               THEN /\ client' \in _abandon_connect(c)
                    /\ pc' = [pc EXCEPT !["connect"] = "idle"]
               ELSE SupervisorEnds(a) /\ client' = Ended(c)
    /\ UNCHANGED <<reader, budget, cut>>

\* The backoff of connect() is over, by time or by disconnect().
BackoffEnds ==
    /\ pc["connect"] = "backoff"
    /\ IF client.intentional
       THEN /\ client' \in _abandon_connect(client)
            /\ pc' = [pc EXCEPT !["connect"] = "idle"]
            /\ Released
       ELSE /\ client' = [client EXCEPT !.lastConnack = "none"]
            /\ pc' = [pc EXCEPT !["connect"] = "dial"]
            /\ UNCHANGED lock
    /\ UNCHANGED <<reader, hooks, budget, cut>>

\* The caller cancels connect(), by the await it is suspended in.  Waiting for
\* the lock or backing off, connect() just ends; joining a supervisor or a
\* reader, it passes the request on and goes on.
ConnectCancelled ==
    /\ budget.cancels > 0
    /\ budget' = [budget EXCEPT !.cancels = @ - 1]
    /\ \/ /\ pc["connect"] = "lock"
          /\ pc' = [pc EXCEPT !["connect"] = "idle"]
          /\ lock' = Without("connect")
          /\ cut' = cut \cup {"waiting"}
          /\ UNCHANGED <<reader, hooks, client>>
       \/ /\ pc["connect"] = "backoff"
          /\ pc' = [pc EXCEPT !["connect"] = "idle"]
          /\ Released
          /\ cut' = cut \cup {"backoff"}
          /\ UNCHANGED <<reader, hooks, client>>
       \/ /\ pc["connect"] = "cancel"
          /\ client' = [client EXCEPT !.asked = TRUE]
          /\ UNCHANGED <<pc, lock, reader, hooks, cut>>
       \/ /\ pc["connect"] \in Joining /\ ~NoReader
          /\ client' = [client EXCEPT !.asked = TRUE]
          /\ CancelReader(client.reader)
          /\ UNCHANGED <<pc, lock, hooks>>
       \/ /\ pc["connect"] = "dial"
          /\ client' \in _abandon_connect(client)
          /\ pc' = [pc EXCEPT !["connect"] = "idle"]
          /\ Released
          /\ UNCHANGED <<reader, hooks, cut>>
       \/ /\ pc["connect"] \in {"connack", "bye"}
          /\ pc' = [pc EXCEPT !["connect"] = "quit"]
          /\ ForceClose(hooks)
          /\ UNCHANGED <<lock, client>>
-----------------------------------------------------------------------------
(* disconnect()                                                            *)

\* The synchronous part, to the first await.
DisconnectCalls ==
    LET s == client.task
        ends == client.engine = "connecting" /\ ~client.bye
                    /\ \E a \in Attempting : pc[a] = "connack"
        c == [client EXCEPT !.intentional = TRUE, !.reconnecting = FALSE, !.intent = "disconnect"]
    IN
    /\ pc["disconnect"] = "idle" /\ budget.disconnects > 0
    /\ budget' = [budget EXCEPT !.disconnects = @ - 1]
    /\ LET h == begin_operation(hooks, FALSE, FALSE) IN
       IF ends \/ ~Live(s)
       THEN /\ pc' = [pc EXCEPT !["disconnect"] = IF ends THEN "ending" ELSE "lock"]
            /\ lock' = Append(lock, "disconnect")
            /\ client' = IF ends THEN [c EXCEPT !.bye = TRUE] ELSE c
            /\ hooks' = h
            /\ UNCHANGED <<reader, cut>>
       ELSE /\ pc' = [pc EXCEPT !["disconnect"] = "join", ![s] = CancelledPc(s)]
            /\ lock' = IF CancelledPc(s) = "none" THEN Without(s) ELSE lock
            /\ client' = [c EXCEPT !.task = IF CancelledPc(s) = "none" THEN "none" ELSE @]
            /\ IF CancelledPc(s) \in Joining THEN CancelReader(client.reader)
               ELSE UNCHANGED <<reader, cut>>
            /\ hooks' = IF pc[s] \in {"connack", "bye"} THEN hold(h) ELSE h

\* The supervisor has ended.  A connect() its end has given the lock, that had it
\* before, or that joined the same supervisor, runs first.
DisconnectJoined ==
    /\ pc["disconnect"] = "join" /\ ~Live(client.task)
    /\ ~(pc["connect"] = "lock" /\ Woken("connect")) /\ pc["connect"] # "cancel"
    /\ pc' = [pc EXCEPT !["disconnect"] = "lock"]
    /\ lock' = Append(lock, "disconnect")
    /\ client' = Ended(client)
    /\ UNCHANGED <<reader, hooks, budget, cut>>

\* disconnect() returns, and no connect() was called since it was.
Returns(c) == [c EXCEPT !.intent = IF @ = "disconnect" THEN "off" ELSE @]

\* _force_close() of disconnect(), outside the lock; it also cancels and drops
\* the supervisor known when it starts.
DisconnectCloses ==
    LET s == client.task IN
    /\ pc' = [Cancelled(pc, s) EXCEPT !["disconnect"] = "force"]
    /\ client' = [client EXCEPT !.old = client.reader, !.task = "none"]
    /\ lock' = Tail(Without(s))
    /\ ForceClose(hooks)

DisconnectLocks ==
    /\ pc["disconnect"] \in {"lock", "ending"} /\ Woken("disconnect")
    /\ UNCHANGED budget
    /\ \/ /\ pc["disconnect"] = "ending"
          /\ pc' = [pc EXCEPT !["disconnect"] = "idle"]
          /\ client' = Returns(client)
          /\ Released
          /\ UNCHANGED <<reader, hooks, cut>>
       \/ /\ pc["disconnect"] = "lock" /\ client.transport = 0
          /\ pc' = [pc EXCEPT !["disconnect"] = "idle"]
          /\ IF _will_reconnect(client) THEN client' = Returns(client)
             ELSE client' \in {Returns(c) : c \in _terminal_shutdown(client)}
          /\ Released
          /\ UNCHANGED <<reader, hooks, cut>>
       \/ /\ pc["disconnect"] = "lock" /\ client.transport # 0
          /\ client.engine = "connected"
          /\ client' = [client EXCEPT !.engine = "disconnecting"]
          /\ pc' = [pc EXCEPT !["disconnect"] = "flush"]
          /\ UNCHANGED <<lock, reader, hooks, cut>>
       \/ /\ pc["disconnect"] = "lock" /\ client.transport # 0
          /\ DisconnectCloses

\* The DISCONNECT packet left, or its drain timed out.
DisconnectFlushed ==
    /\ pc["disconnect"] = "flush"
    /\ DisconnectCloses
    /\ UNCHANGED budget

\* As TransportLeft, but the reader is trusted to have closed its transport.
NoTransportLeft == FALSE

TransportLeft == client.transport # 0

\* The tasks have ended.  A replacement reader is left alone; a transport the
\* reader did not close is closed here.
DisconnectForced ==
    /\ pc["disconnect"] = "force"
    /\ IF client.old = 0 THEN TRUE ELSE Idle(reader[client.old])
    /\ UNCHANGED <<lock, reader, budget, cut>>
    /\ IF client.old # 0 /\ client.reader \notin {0, client.old}
       THEN /\ pc' = [pc EXCEPT !["disconnect"] = "idle"]
            /\ hooks' = release(hooks)
            /\ client' = Returns(client)
       ELSE IF TransportLeft
       THEN /\ pc' = [pc EXCEPT !["disconnect"] = "shut"]
            /\ client' = [client EXCEPT !.reader = 0, !.task = "none"]
            /\ UNCHANGED hooks
       ELSE /\ pc' = [pc EXCEPT !["disconnect"] = "idle"]
            /\ hooks' = release(hooks)
            /\ client' = Returns([client EXCEPT !.reader = 0, !.task = "none", !.closed = TRUE])

DisconnectShut ==
    /\ pc["disconnect"] = "shut"
    /\ pc' = [pc EXCEPT !["disconnect"] = "idle"]
    /\ hooks' = release(hooks)
    /\ client' = Returns([client EXCEPT !.transport = 0, !.closed = TRUE])
    /\ UNCHANGED <<lock, reader, budget, cut>>
-----------------------------------------------------------------------------
(* The reader: _read_loop() and _retire_reader_connection().               *)

\* An accepting CONNACK.
ConnackArrives(g) ==
    /\ reader[g].pc = "reading" /\ client.engine = "connecting"
    /\ reader' = [reader EXCEPT ![g].connack = "ok"]
    /\ client' = [client EXCEPT !.engine = "connected"]
    /\ UNCHANGED <<pc, lock, hooks, budget, cut>>

\* What ends a connection while the reader reads: the reader's new record and
\* the outcomes for the client.  A pending CONNACK wait fails with the cause.
Connack(r, to) == IF r.connack = "wait" THEN to ELSE r.connack
Ending(r, to) == [r EXCEPT !.pc = "ending", !.connack = Connack(r, to)]

Lost(g, r, c) ==
    /\ reader[g].pc = "reading" /\ budget.losses > 0
    /\ client.engine \in {"connecting", "connected"}
    /\ budget' = [budget EXCEPT !.losses = @ - 1]
    /\ reader' = [reader EXCEPT ![g] = r]
    /\ client' = c
    /\ UNCHANGED <<pc, lock, hooks, cut>>

\* End of stream, or a failing read: the finally follows without an await.  What
\* the except clauses fail when there will be no reconnection, ReaderDecides
\* fails.
StreamEnds(g) ==
    \E cause \in {"none", "plain"} :
        Lost(g, [reader[g] EXCEPT !.pc = "ending"],
             IF cause = "none" THEN client ELSE _propose_disconnect_cause(client, cause))

\* The writer, the effect pump, the keepalive or an auth handler fails:
\* _close_transport_after_connection_failure() closes the transport and then
\* cancels the reader, which may have seen the end of the stream by then.
TaskFails(g) ==
    \E late \in {0, g} :
        Lost(g, Ending(reader[g], "plain"),
             [_propose_disconnect_cause(client, "plain") EXCEPT !.late = late])

LateCancel ==
    /\ client.late # 0
    /\ CancelReader(client.late)
    /\ client' = [client EXCEPT !.late = 0]
    /\ UNCHANGED <<pc, lock, hooks, budget>>

\* A keepalive that cannot send its PINGREQ gives up for good.
PingImpossible(g) ==
    /\ client.engine = "connected" /\ \A a \in Attempting : pc[a] # "connack"
    /\ Lost(g, Ending(reader[g], "plain"),
            [_propose_disconnect_cause(client, "plain") EXCEPT !.intentional = TRUE])

\* A CONNACK that refuses, or a broker DISCONNECT: the engine is done at once.
Refused(g, reason) ==
    /\ client.engine = "connecting"
    /\ Lost(g, Ending(reader[g], "refused"),
            [_propose_disconnect_cause(client, "plain") EXCEPT
                !.lastConnack = reason, !.engine = "disconnected"])

BrokerDisconnects(g, reason) ==
    /\ client.engine = "connected"
    /\ Lost(g, Ending(reader[g], "plain"),
            [_propose_disconnect_cause(client, "plain") EXCEPT
                !.lastDisc = reason, !.engine = "disconnected"])

\* A peer error: the normative DISCONNECT is flushed before the finally.
PeerError(g, kind) ==
    Lost(g, [Ending(reader[g], kind) EXCEPT !.pc = "fatal"],
         [_propose_disconnect_cause(client, kind) EXCEPT !.engine = "disconnecting"])

FatalSent(g) ==
    /\ reader[g].pc = "fatal"
    /\ reader' = [reader EXCEPT ![g].pc = "ending"]
    /\ IF _will_reconnect(client) THEN UNCHANGED client
       ELSE client' \in _fail_pending(client)
    /\ UNCHANGED <<pc, lock, hooks, budget, cut>>

\* A session that cannot be resumed, a mandatory response that cannot be sent.
CannotAnswer(g) ==
    \E c \in _fail_pending(_propose_disconnect_cause(client, "permanent")) :
        Lost(g, Ending(reader[g], "permanent"), c)

\* The store fails: the failure is latched and the engine retired in one step.
StoreFails(g) ==
    Lost(g, Ending(reader[g], "plain"),
         [_propose_disconnect_cause(client, "plain") EXCEPT
            !.latch = TRUE, !.engine = "disconnected"])

\* The finally, to its first await: hooks, epoch and engine in one step.
ReaderRetires(g) ==
    /\ reader[g].pc = "ending"
    /\ reader' = [reader EXCEPT ![g].pc = "retiring"]
    /\ hooks' = retiring(hooks, reader[g].tok)
    /\ client' = [client EXCEPT !.engine = "disconnected"]
    /\ UNCHANGED <<pc, lock, budget, cut>>

\* Keepalive joined and effects drained: settle the cause and decide.
ReaderDecides(g) ==
    LET c == _propose_disconnect_cause(client, "plain")
        will == _will_reconnect(c)
        d == [c EXCEPT !.reconnecting = will]
    IN
    /\ reader[g].pc = "retiring"
    /\ reader' = [reader EXCEPT ![g].pc = "closing", ![g].will = will,
                    ![g].connack = IF client.intentional THEN @ ELSE
                        Connack(reader[g], IF c.cause = "permanent" THEN "permanent" ELSE "plain")]
    /\ client' \in IF will THEN {d} ELSE _fail_pending(d)
    /\ UNCHANGED <<pc, lock, hooks, budget, cut>>

\* Writer stopped and transport closed: release, report, hand over.  The new
\* supervisor runs its first step, up to wait_reconnect(), before the tasks that
\* join this reader; it ends there when the disconnection is intentional.  One
\* started while connect() waits for the end of another will not be known to
\* anybody.
ReaderCloses(g) ==
    LET r == reader[g]
        c == [client EXCEPT !.transport = IF @ = g THEN 0 ELSE @, !.closed = @ \/ ~r.will]
    IN
    /\ r.pc = "closing"
    /\ reader' = [reader EXCEPT ![g].pc = "done"]
    /\ hooks' = disconnected(hooks, r.tok)
    /\ IF r.will /\ ~Live(client.task) /\ ~client.intentional
       THEN \E s \in Supervisors :
                /\ pc[s] = "none"
                /\ pc' = [pc EXCEPT ![s] = "ready"]
                /\ client' = [c EXCEPT !.task = s]
                /\ cut' = IF pc["connect"] = "cancel" THEN cut \cup {"orphaned"} ELSE cut
       ELSE client' = c /\ UNCHANGED <<pc, cut>>
    /\ UNCHANGED <<lock, budget>>
-----------------------------------------------------------------------------
(* _reconnect_loop()                                                       *)

\* connect() has cancelled it; its finally clears the reference.
SupervisorCancelled(s) ==
    /\ pc[s] = "cancelled"
    /\ SupervisorEnds(s) /\ client' = Ended(client)
    /\ UNCHANGED <<lock, reader, hooks, budget, cut>>

\* wait_reconnect() returned: re-check intent and cause, then sleep.  A
\* connect() already woken by the end of another supervisor runs before it.
SupervisorWakes(s) ==
    /\ pc[s] = "ready" /\ hooks.ready
    /\ pc["connect"] = "cancel" => client.task # s
    /\ IF client.intentional \/ client.engine = "connected"
       THEN SupervisorEnds(s) /\ client' = Ended(client)
       ELSE IF ~_will_reconnect(client)
       THEN /\ SupervisorEnds(s)
            /\ client' \in {Ended(c) : c \in _terminal_shutdown(client)}
       ELSE /\ pc' = [pc EXCEPT ![s] = "sleep"]
            /\ client' = [client EXCEPT !.attempt = @ + 1]
    /\ UNCHANGED <<lock, reader, hooks, budget, cut>>

SupervisorSlept(s) ==
    /\ pc[s] = "sleep"
    /\ IF client.latch
       THEN /\ SupervisorEnds(s)
            /\ client' \in {Ended(c) : c \in _terminal_shutdown(client)}
            /\ UNCHANGED lock
       ELSE /\ pc' = [pc EXCEPT ![s] = "lock"]
            /\ lock' = Append(lock, s)
            /\ UNCHANGED client
    /\ UNCHANGED <<reader, hooks, budget, cut>>

\* The lock is held: re-check intent, supersede notifications, close.
SupervisorLocks(s) ==
    /\ pc[s] = "lock" /\ Woken(s)
    /\ IF client.intentional
       THEN /\ SupervisorEnds(s) /\ client' = Ended(client)
            /\ Released
            /\ UNCHANGED <<reader, hooks, cut>>
       ELSE /\ pc' = [pc EXCEPT ![s] = "force"]
            /\ ForceClose(begin_operation(hooks, TRUE, TRUE))
            /\ UNCHANGED <<lock, client>>
    /\ UNCHANGED budget

SupervisorDials(s) ==
    /\ pc[s] = "force" /\ NoReader
    /\ pc' = [pc EXCEPT ![s] = "dial"]
    /\ hooks' = release(hooks)
    /\ client' = [client EXCEPT !.reader = 0, !.transport = 0,
                                !.lastConnack = "none"]
    /\ UNCHANGED <<lock, reader, budget, cut>>

\* The stability window ends, by the reader's end or by time.  A timer fires
\* after the tasks already woken have run, the next holder of the lock included.
SupervisorStable(s) ==
    /\ pc[s] = "stable"
    /\ NoReader \/ ~(\E a \in Tasks : Woken(a))
    /\ IF client.latch
       THEN /\ SupervisorEnds(s)
            /\ client' \in {Ended(c) : c \in _terminal_shutdown(client)}
       ELSE IF client.engine = "connected"
       THEN SupervisorEnds(s) /\ client' = [Ended(client) EXCEPT !.attempt = 0]
       ELSE Loops(s, client)
    /\ UNCHANGED <<lock, reader, hooks, budget, cut>>
-----------------------------------------------------------------------------
(* LifecycleHooks._run() and _invoke(): one hook at a time.                *)

\* The lock barrier passes when the lock is free, or between its last holder and
\* the next, which has not run yet.
Barrier == IF lock = <<>> THEN TRUE ELSE Woken(Head(lock))

\* The worker takes a notification; the application may have set no callback.
HookTaken ==
    LET event == hooks.pending
        current == event.tok = hooks.token
    IN
    /\ event # NoHook /\ hooks.hook = NoHook /\ hooks.holds = 0 /\ Barrier
    /\ \E callback \in BOOLEAN :
        hooks' = [hooks EXCEPT !.pending = NoHook,
                    !.hook = IF current /\ callback THEN event ELSE NoHook,
                    !.ready = @ \/ (current /\ ~callback /\ ~event.up)]
    /\ UNCHANGED <<pc, lock, reader, client, budget, cut>>

HookReleased ==
    /\ hooks.hook.pc = "start" /\ hooks.holds = 0
    /\ hooks' = [hooks EXCEPT !.hook.pc = "barrier"]
    /\ UNCHANGED <<pc, lock, reader, client, budget, cut>>

\* The lock barrier passed: user code starts, unless it was superseded.
HookStarts ==
    /\ hooks.hook.pc = "barrier" /\ Barrier
    /\ hooks' = IF hooks.hook.tok # hooks.token THEN [hooks EXCEPT !.hook.pc = "cancelled"]
                ELSE [hooks EXCEPT !.hook.pc = "run", !.ready = @ \/ ~hooks.hook.up]
    /\ UNCHANGED <<pc, lock, reader, client, budget, cut>>

HookEnds ==
    /\ hooks.hook.pc \in {"run", "cancelled"}
    /\ hooks' = [hooks EXCEPT !.hook = NoHook,
                    !.ready = @ \/ (/\ ~hooks.hook.up /\ hooks.hook.tok = hooks.token
                                    /\ hooks.pending = NoHook)]
    /\ UNCHANGED <<pc, lock, reader, client, budget, cut>>
-----------------------------------------------------------------------------
(* The application's publications.                                         *)

\* A connection counts as pending although nobody will make it: the supervisor
\* will see that retrying was given up, or connect() is about to return the
\* CONNACK of a connection that is already gone.
Doomed ==
    /\ client.engine = "disconnected" /\ ~client.reconnecting
    /\ \/ /\ pc["connect"] = "idle"
          /\ client.intentional \/ reader[client.gen].pc = "closing"
       \/ pc["connect"] = "connack" /\ reader[client.gen].connack = "ok"

\* _commit_publish() for QoS > 0: admitted unless nothing will ever send it.
Publish ==
    /\ ~client.owed /\ ~client.latch
    /\ client.engine = "disconnected" => _connection_pending
    /\ client' = [client EXCEPT !.owed = TRUE]
    /\ cut' = IF Doomed THEN cut \cup {"doomed"} ELSE cut
    /\ UNCHANGED <<pc, lock, reader, hooks, budget>>

\* The broker acknowledges it.
Acknowledged ==
    /\ client.owed /\ client.engine = "connected"
    /\ reader[client.gen].pc = "reading"
    /\ client' = [client EXCEPT !.owed = FALSE]
    /\ UNCHANGED <<pc, lock, reader, hooks, budget, cut>>
-----------------------------------------------------------------------------
Attempts(a) ==
    \/ Opens(a) \/ DialFails(a) \/ Accepted(a) \/ ConnackFails(a) \/ SeesBye(a) \/ ByeSent(a)
    \/ AttemptClosed(a)

Connecting == ConnectLocks \/ ConnectJoined \/ ConnectBegins \/ BackoffEnds \/ Attempts("connect")

Disconnecting ==
    DisconnectJoined \/ DisconnectLocks \/ DisconnectFlushed \/ DisconnectForced \/ DisconnectShut

Supervising(s) ==
    \/ SupervisorWakes(s) \/ SupervisorSlept(s) \/ SupervisorLocks(s) \/ SupervisorDials(s)
    \/ SupervisorStable(s) \/ SupervisorCancelled(s) \/ Attempts(s)

Retiring(g) ==
    FatalSent(g) \/ ReaderRetires(g) \/ ReaderDecides(g) \/ ReaderCloses(g)

Notifying == HookTaken \/ HookReleased \/ HookStarts \/ HookEnds

Peer(g) ==
    \/ ConnackArrives(g) \/ StreamEnds(g) \/ TaskFails(g) \/ PingImpossible(g)
    \/ \E reason \in {"transient", "terminal"} : Refused(g, reason) \/ BrokerDisconnects(g, reason)
    \/ \E kind \in {"plain", "permanent"} : PeerError(g, kind)
    \/ CannotAnswer(g) \/ StoreFails(g)

Next ==
    \/ ConnectCalls \/ ConnectCancelled \/ Connecting
    \/ DisconnectCalls \/ Disconnecting
    \/ \E s \in Supervisors : Supervising(s)
    \/ \E g \in Gens : Retiring(g) \/ Peer(g)
    \/ LateCancel \/ Notifying \/ Publish \/ Acknowledged

Spec == Init /\ [][Next]_vars
-----------------------------------------------------------------------------
TypeOK ==
    /\ pc["connect"] \in {"idle", "lock", "cancel", "dial", "connack", "bye", "backoff"} \cup Joining
    /\ pc["disconnect"] \in {"idle", "join", "lock", "ending", "flush", "force", "shut"}
    /\ \A s \in Supervisors :
        pc[s] \in {"none", "ready", "sleep", "lock", "dial", "connack", "bye", "stable",
                  "cancelled"} \cup Joining
    /\ \A g \in Gens :
        /\ reader[g].pc \in {"none", "reading", "fatal", "ending", "retiring", "closing",
                             "cut", "done"}
        /\ reader[g].connack \in {"none", "wait", "ok", "refused", "plain", "permanent"}
    /\ client.engine \in {"new", "connecting", "connected", "disconnecting", "disconnected"}
    /\ client.cause \in {"none", "plain", "permanent"}
    /\ client.attempt \in 0..MaxRetries
    /\ hooks.holds \in 0..3
    /\ cut \subseteq {"retire", "overtaken", "orphaned", "waiting", "backoff", "doomed"}

\* None of these windows was hit: the code does not protect them, and a property
\* that fails in one of them says so.
Clear(windows) == cut \cap windows = {}

\* Two tasks never work on the connection at once: at most one reader is alive,
\* _reconnect_task names the only supervisor, and a supervisor that tears down or
\* dials never does so to a live connection.  A supervisor nobody can cancel, or
\* two connections of one session, need a connect(), a retirement and a
\* supervisor in one order.  Excused: a connect() not yet at its first attempt
\* when disconnect() was called, and a supervisor started while connect() waits
\* for the end of the one before it, whose reference it then drops.
OneOwner ==
    /\ TypeOK
    /\ Clear({"overtaken", "orphaned"}) =>
        /\ Cardinality({g \in Gens : ~Idle(reader[g])}) <= 1
        /\ \A s \in Supervisors : pc[s] # "none" => client.task = s
        /\ \A s \in Supervisors : pc[s] \in {"force", "dial"} => client.engine # "connected"

Working ==
    \/ pc["connect"] # "idle" \/ pc["disconnect"] # "idle"
    \/ \E s \in Supervisors : pc[s] # "none"
    \/ \E g \in Gens : ~Idle(reader[g])

\* Nothing is left to nobody: state RECONNECTING has a task that will retry, a
\* publication that was admitted has a task that will send it or fail its
\* receipt, and a connected engine has the reader and the transport the client
\* names.  _read_loop(), _reconnect_loop(), connect() and disconnect() hand the
\* pending work to each other between awaits; this says that no interleaving of
\* them drops it.  Excused: the six windows in which the code does drop it.
WorkIsOwned ==
    cut = {} =>
        /\ client.reconnecting =>
            \/ pc["connect"] # "idle" \/ \E s \in Supervisors : pc[s] # "none"
            \/ \E g \in Gens : reader[g].pc = "closing" /\ reader[g].will
        /\ client.owed /\ client.engine # "new" => Working
        /\ client.engine = "connected" =>
            /\ client.reader = client.gen /\ client.transport = client.gen
            /\ ~Idle(reader[client.gen])

\* The steps the client takes on its own, without its caller or its peer.
Internal ==
    \/ Connecting \/ Disconnecting \/ LateCancel \/ Notifying
    \/ \E s \in Supervisors : Supervising(s)
    \/ \E g \in Gens : Retiring(g)

\* When the client can take no step on its own, it has none to take: no call of
\* connect() or disconnect() hangs, no supervisor waits for a wake-up that never
\* comes, no notification is stranded, and the lifecycle lock and the holds on
\* the hooks are released.  The lock, the joins of reader and supervisor, the
\* hook barrier (which takes the lock) and wait_reconnect() (which waits for a
\* hook) could close a cycle of waits.  Excused: a retirement cut short, whose
\* notification never comes.
NobodyStuck ==
    Clear({"retire"}) /\ ~ENABLED Internal =>
        /\ pc["connect"] = "idle" /\ pc["disconnect"] = "idle"
        /\ \A s \in Supervisors : pc[s] = "none"
        /\ \A g \in Gens : Idle(reader[g]) \/ reader[g].pc = "reading"
        /\ hooks.pending = NoHook /\ hooks.hook = NoHook /\ hooks.holds = 0 /\ lock = <<>>

\* Once disconnect() has returned and connect() was not called again, the client
\* is down and stays down: no transport, no reader, no attempt of a supervisor,
\* whatever connect(), retirement or retry was under way when it was called.
\* Excused: a connect() not yet at its first attempt takes the intent back, and a
\* supervisor whose reference was dropped is not known to disconnect().
DisconnectIsFinal ==
    Clear({"overtaken", "orphaned"}) /\ client.intent = "off" =>
        /\ client.engine \in {"new", "disconnected"} /\ client.transport = 0
        /\ client.intentional /\ \A s \in Supervisors : pc[s] \in {"none", "ready"}
        /\ \A g \in Gens : Idle(reader[g])

\* on_connect starts only while the accepted connection it announces is not yet
\* retired; on_disconnect starts only while the client is not connected and, if
\* RECONNECTING, with a supervisor at work.  Between the event and the hook lie
\* the queue, the holds, the lock barrier and the token check.  Excused: a
\* connect() not yet at its first attempt when disconnect() was called.
HooksMatchState ==
    [][Clear({"overtaken"}) /\ HookStarts /\ hooks'.hook.pc = "run" =>
        IF hooks.hook.up
        THEN /\ reader[client.gen].tok = hooks.hook.tok /\ reader[client.gen].connack = "ok"
             /\ reader[client.gen].pc \in {"reading", "fatal", "ending"}
        ELSE /\ client.engine # "connected"
             /\ client.transport # 0 => reader[client.gen].pc \in {"fatal", "ending"}
             /\ client.reconnecting =>
                    ~client.intentional /\ \E s \in Supervisors : pc[s] # "none"]_vars
-----------------------------------------------------------------------------
(* The same without the excuses; TLC finds each violated.                  *)

\* A publication that was admitted has a task that will send it or fail its
\* receipt.  A disconnect() or a cancelled connect() that meets one of the
\* windows leaves one unsettled.
ReceiptsSettled == client.owed /\ client.engine # "new" => Working

\* After disconnect() no supervisor goes on.  A connect() called before it
\* resets the intent when it starts its first attempt.
DisconnectNotReversed ==
    client.intent = "off" => \A s \in Supervisors : pc[s] \in {"none", "ready"}

\* A supervisor never tears down a live connection.  One that a retiring reader
\* starts while connect() waits for the end of the supervisor before it loses its
\* reference when connect() goes on; it outlives the takeover, which was to cancel
\* "that successor as part of the same takeover boundary", and closes the
\* connection that connect() made.
LiveConnectionKept ==
    \A s \in Supervisors : pc[s] \in {"force", "dial"} => client.engine # "connected"

\* The docstring of state: RECONNECTING while the policy will retry.  A connect()
\* cancelled in its backoff leaves it RECONNECTING for good.
ReconnectingIsTrue ==
    client.reconnecting =>
        \/ pc["connect"] # "idle" \/ \E s \in Supervisors : pc[s] # "none"
        \/ \E g \in Gens : reader[g].pc = "closing"
=============================================================================
