---------------------------- MODULE PacketReceive ----------------------------
(***************************************************************************)
(* From the socket to frames: class IncrementalDecoder of codec/buffer.py, *)
(* the Variable Byte Integers of codec/vbi.py, the receiving protocol of   *)
(* transport/_push.py, and the part of the client's reader that asks for   *)
(* bytes and takes frames.                                                 *)
(*                                                                         *)
(* Three parties share the decoder's slab: the event loop's receive        *)
(* callback writes into it, the reader takes frames out of it, and a       *)
(* teardown clears it.  A step runs from one await to the next.            *)
(*                                                                         *)
(* Abstractions.  A Variable Byte Integer has base Base instead of 128, so *)
(* that all its lengths occur: a byte is a digit below Base, or Base plus  *)
(* a digit when more follow.  As a header, 0 stands for every byte whose   *)
(* type nibble is 0, which is no packet type, and any other byte for a     *)
(* packet type.  Sizes are scaled down and keep their order.               *)
(***************************************************************************)
EXTENDS Integers, Sequences, FiniteSets, FiniteSetsExt, SequencesExt

CONSTANTS
    Base,           \* 128
    MinCapacity,    \* _MIN_CAPACITY, also the _MIN_WINDOW a receiver asks for
    InitialWindow,  \* _INITIAL_WINDOW
    Quantum,        \* RECEIVE_QUANTUM = DEFAULT_CAPACITY = _LARGE_FRAME
    PromoteAfter,   \* _PROMOTE_AFTER
    Retention,      \* _OVERSIZE_RETENTION
    MaxPacket,      \* max_packet_size
    HighWater,      \* _HIGH_WATER
    LowWater,       \* _LOW_WATER
    BatchLimit,     \* packets of one ingress batch
    Kinds,          \* transports: TRUE pushes into the decoder, FALSE is read
    Wires,          \* what the peer may send, for each connection
    MaxConnections  \* bound: connections

ASSUME ReceiveAssumptions ==
    /\ Base \in Nat \ {0, 1}
    /\ {MinCapacity, PromoteAfter, Retention, MaxPacket, BatchLimit} \subseteq Nat \ {0}
    /\ {InitialWindow, Quantum, HighWater, LowWater, MaxConnections} \subseteq Nat
    /\ MinCapacity <= InitialWindow /\ InitialWindow <= Quantum
    /\ LowWater <= HighWater /\ Kinds \subseteq BOOLEAN

VARIABLES
    d,      \* the IncrementalDecoder
    net,    \* the connection: its protocol object, and how far its wire was read
    reader, \* the reader task
    out     \* history: frames taken from this connection, in order

vars == <<d, net, reader, out>>

Byte == 0 .. 2 * Base - 1
None == -1

-----------------------------------------------------------------------------
(* Variable Byte Integers *)

MaxVbi == Base ^ 4 - 1
VbiLen(v) == Min({n \in 1..4 : v < Base ^ n})

\* encode_vbi, append_vbi: the digits of v, least first, all but the last marked
EncodeVbi(v) ==
    [i \in 1..VbiLen(v) |->
        LET digit == (v \div Base ^ (i - 1)) % Base IN
        IF i < VbiLen(v) THEN Base + digit ELSE digit]

Undecoded == [value |-> 0, end |-> None]
More(b, offset) == b[offset + 1] >= Base

\* decode_vbi of the bytes offset..end-1 of b: its value and the offset behind
\* it, or Undecoded for all it calls malformed, the incomplete ones included.
DecodeVbi(b, offset, end) ==
    LET last == {n \in 1..4 : /\ offset + n <= end /\ ~More(b, offset + n - 1)
                              /\ \A k \in 1..(n - 1) : More(b, offset + k - 1)}
        n == CHOOSE k \in last : TRUE
        value == FoldSet(LAMBDA k, sum : sum + (b[offset + k] % Base) * Base ^ (k - 1), 0, 1..n) IN
    IF last = {} THEN Undecoded
    ELSE IF n # VbiLen(value) THEN Undecoded ELSE [value |-> value, end |-> offset + n]

-----------------------------------------------------------------------------
(* The decoder's slab *)

Zeros(n) == [i \in 1..n |-> 0]
Capacity(x) == Len(x.buf)
Buffered(x) == x.end - x.start
Live(x) == SubSeq(x.buf, x.start + 1, x.end)

NewDecoder ==
    [buf |-> <<>>, start |-> 0, end |-> 0, idle |-> 0, peak |-> 0, large |-> FALSE,
     offered |-> 0, target |-> InitialWindow, fills |-> 0]

Reallocate(x, capacity) ==
    [x EXCEPT !.buf = Live(x) \o Zeros(capacity - Buffered(x)), !.start = 0, !.end = Buffered(x)]

\* In-place memmove: what lies behind the moved bytes stays as it was.
Compact(x) ==
    [x EXCEPT !.buf = Live(x) \o SubSeq(x.buf, Buffered(x) + 1, Capacity(x)),
              !.start = 0, !.end = Buffered(x)]

\* _known_frame_total
KnownTotal(x) ==
    LET vbi == DecodeVbi(x.buf, x.start + 1, x.end)
        total == vbi.end - x.start + vbi.value IN
    IF Buffered(x) < 2 \/ vbi = Undecoded THEN None
    ELSE IF total <= Buffered(x) \/ total > MaxPacket THEN None ELSE total

\* _ensure
Grown(x, need, exact) ==
    LET required == Buffered(x) + need
        amortised == Max({2 * Capacity(x), MinCapacity, required})
        capped == IF exact = None THEN amortised ELSE Max({required, Min({amortised, exact})})
        ceiling == MaxPacket + Quantum IN
    IF required <= ceiling /\ ceiling < capped THEN ceiling ELSE capped
Ensure(x, need, exact) ==
    IF Capacity(x) - x.end >= need THEN x
    ELSE IF Capacity(x) - Buffered(x) >= need THEN Compact(x)
    ELSE Reallocate(x, Grown(x, need, exact))

\* _retire_oversize, of a drained slab
RetireTarget(x) ==
    LET floor == Max({MinCapacity, x.target}) IN
    Min({floor * 2 ^ k : k \in {j \in 0..x.peak : floor * 2 ^ j >= x.peak}})
RetireOversize(x) ==
    IF x.large THEN [x EXCEPT !.large = FALSE, !.idle = 0, !.peak = 0]
    ELSE IF x.idle + 1 < Retention THEN [x EXCEPT !.idle = @ + 1]
    ELSE LET y == [x EXCEPT !.idle = 0, !.peak = 0] IN
         IF RetireTarget(x) < Capacity(x) THEN Reallocate(y, RetireTarget(x)) ELSE y

Rewound(x) ==
    LET y == [x EXCEPT !.start = 0, !.end = 0] IN
    IF Capacity(x) > x.target THEN RetireOversize(y) ELSE y

\* The frame at the head, of total bytes, leaves the slab.
Consumed(x, total) ==
    LET y == [x EXCEPT !.start = @ + total, !.large = @ \/ total > Quantum] IN
    IF y.start = y.end THEN Rewound(y) ELSE y

\* Bytes arrived behind end: the tail of feed() and of commit()
Written(x, bytes) ==
    LET end == x.end + Len(bytes) IN
    [x EXCEPT !.buf = [i \in DOMAIN @ |-> IF i \in (x.end + 1)..end THEN bytes[i - x.end] ELSE @[i]],
              !.end = end, !.peak = Max({@, end - x.start})]

Feed(x, bytes) == Written(Ensure(x, Len(bytes), KnownTotal(x)), bytes)

\* writable_window
Window(x) ==
    LET want == x.target
        short == Capacity(x) - x.end < want
        exact == IF short THEN KnownTotal(x) ELSE None
        size == IF exact # None THEN Min({want, exact - Buffered(x)}) ELSE want
        y == Ensure(x, size, exact) IN
    [y EXCEPT !.offered = Min({y.end + size, Capacity(y)}) - y.end]

\* commit, of bytes received into the window
Commit(x, bytes) ==
    LET full == Len(bytes) = x.offered /\ x.target < Quantum
        promoted == full /\ x.fills + 1 >= PromoteAfter IN
    [Written(x, bytes) EXCEPT
        !.offered = 0,
        !.fills = IF full /\ ~promoted THEN @ + 1 ELSE 0,
        !.target = IF promoted THEN 2 * @ ELSE @]

Clear(x) ==
    LET y == [NewDecoder EXCEPT !.buf = x.buf] IN
    IF Capacity(x) > InitialWindow THEN Reallocate(y, InitialWindow) ELSE y

-----------------------------------------------------------------------------
(* Framing *)

Answer(kind) == [kind |-> kind, total |-> 0, header |-> 0, body |-> <<>>]

\* What follows once the Remaining Length is known
Framed(x, vbi) ==
    LET total == vbi.end - x.start + vbi.value IN
    IF total > MaxPacket THEN Answer("too large")
    ELSE IF Buffered(x) < total THEN Answer("none")
    ELSE [kind |-> "frame", total |-> total, header |-> x.buf[x.start + 1],
          body |-> SubSeq(x.buf, vbi.end + 1, x.start + total)]

\* An undecodable Remaining Length may only be incomplete.
Undecodable(x) ==
    IF Buffered(x) < 5 /\ \A i \in 1..(Buffered(x) - 1) : More(x.buf, x.start + i)
    THEN Answer("none") ELSE Answer("malformed")

\* The framing that next_packet and peek_packet_bounds have in common
Bounds(x) ==
    LET vbi == DecodeVbi(x.buf, x.start + 1, x.end) IN
    IF Buffered(x) < 2 THEN Answer("none")
    ELSE IF vbi = Undecoded THEN Undecodable(x) ELSE Framed(x, vbi)

\* PacketType.from_byte: the one nibble that names no packet type
Untyped(header) == header = 0

\* next_packet, before it consumes: a complete frame of no known type is an
\* error that leaves the frame where it is.
NextPacket(x) ==
    LET answer == Bounds(x) IN
    IF answer.kind = "frame" /\ Untyped(answer.header) THEN Answer("malformed") ELSE answer

\* peek_packet_bounds, with its two short cuts; it never looks at the header.
PeekPacket(x) ==
    LET first == x.buf[x.start + 2]
        second == x.buf[x.start + 3] IN
    IF Buffered(x) < 2 THEN Answer("none")
    ELSE IF first < Base THEN Framed(x, [value |-> first, end |-> x.start + 2])
    ELSE IF Buffered(x) >= 3 /\ second < Base
         THEN LET value == (first % Base) + second * Base IN
              IF value < Base THEN Answer("malformed")
              ELSE Framed(x, [value |-> value, end |-> x.start + 3])
    ELSE Bounds(x)

HeadFrameReady(x) == PeekPacket(x).kind # "none"

-----------------------------------------------------------------------------
(* The receiving protocol *)

\* As ResumeIfDrained, only below the low watermark.
ResumeBelowLowWater(n, x) == [n EXCEPT !.paused = @ /\ Buffered(x) > LowWater]

\* connection_made, and attach to a decoder x
ResumeIfDrained(n, x) ==
    [n EXCEPT !.paused = @ /\ ~(Buffered(x) <= LowWater \/ ~HeadFrameReady(x))]
Connected(w, push, x, k) ==
    ResumeIfDrained([wire |-> w, push |-> push, read |-> 0, paused |-> TRUE, fresh |-> FALSE,
                     eof |-> FALSE, lost |-> FALSE, count |-> k], x)

MayPause(x) == Buffered(x) > HighWater /\ HeadFrameReady(x)

Woken(r) == IF r.at = "waiting" THEN [r EXCEPT !.at = "woken"] ELSE r

Unread(n) == SubSeq(n.wire, n.read + 1, Len(n.wire))

\* get_buffer, recv_into, buffer_updated: one callback of the event loop.  What
\* receive() compares is whether the receive counter moved since it looked.
Receiving == net.push /\ ~net.paused /\ ~net.eof /\ reader.at # "closed" /\ Unread(net) # <<>>
ReceiveCallback ==
    /\ Receiving
    /\ \E x \in {Window(d)} : \E k \in 1..Min({x.offered, Len(Unread(net))}) :
       \E y \in {Commit(x, SubSeq(Unread(net), 1, k))} :
         /\ d' = y
         /\ net' = [net EXCEPT !.read = @ + k, !.fresh = TRUE, !.paused = MayPause(y)]
    /\ reader' = Woken(reader)
    /\ UNCHANGED out

\* recv_into had nothing after all; the window is not committed.
UnusedWindow ==
    /\ Receiving
    /\ d' = Window(d)
    /\ UNCHANGED <<net, reader, out>>

\* eof_received, and connection_lost with an error
Eof ==
    /\ ~net.paused /\ ~net.eof /\ Unread(net) = <<>>
    /\ net' = [net EXCEPT !.eof = TRUE] /\ reader' = Woken(reader)
    /\ UNCHANGED <<d, out>>
Lost ==
    /\ ~net.lost
    /\ net' = [net EXCEPT !.eof = TRUE, !.lost = TRUE] /\ reader' = Woken(reader)
    /\ UNCHANGED <<d, out>>

-----------------------------------------------------------------------------
(* The reader *)

Reading == reader.at \in {"receive", "waiting", "woken", "batch", "ended"}
NewReader == [at |-> "receive", terminal |-> FALSE]
Reader(at) == [reader EXCEPT !.at = at]

\* The loop of receive(): edge-triggered on the receive counter
Awaited(n) ==
    IF n.lost THEN Reader("ended")
    ELSE IF n.fresh THEN Reader("batch")
    ELSE IF n.eof THEN Reader("ended") ELSE Reader("waiting")

Asking == net.push /\ reader.at \in {"receive", "woken"}
Receive ==
    /\ Asking
    /\ LET n == IF reader.at = "receive" /\ ~net.eof THEN ResumeIfDrained(net, d) ELSE net IN
       /\ reader' = Awaited(n)
       /\ net' = [n EXCEPT !.fresh = @ /\ n.lost]
    /\ UNCHANGED <<d, out>>

\* read() and feed() of the transports that are read
CanRead == ~net.push /\ reader.at = "receive" /\ (net.lost \/ net.eof \/ Unread(net) # <<>>)
ReadAndFeed ==
    /\ CanRead
    /\ \/ /\ net.lost \/ net.eof
          /\ reader' = Reader("ended") /\ UNCHANGED <<d, net>>
       \/ /\ ~net.lost
          /\ \E k \in 1..Len(Unread(net)) :
               /\ d' = Feed(d, SubSeq(Unread(net), 1, k))
               /\ net' = [net EXCEPT !.read = @ + k]
               /\ reader' = Reader("batch")
    /\ UNCHANGED out

\* One ingress batch takes frames until none is complete, a count, byte or
\* handoff limit is reached, or one is an error.  In a terminal engine state an
\* error only ends the batch.
Taken(s, answer) ==
    IF answer.kind = "frame"
    THEN [s EXCEPT !.x = Consumed(s.x, answer.total), !.n = @ + 1,
                   !.frames = Append(@, [header |-> answer.header, body |-> answer.body])]
    ELSE [s EXCEPT !.stop = answer.kind]
BatchOf(x, limit) ==
    LET after[n \in 0..limit] ==
          IF n = 0 THEN [x |-> x, n |-> 0, frames |-> <<>>, stop |-> "limit"]
          ELSE LET s == after[n - 1] IN
               IF s.stop = "limit" THEN Taken(s, NextPacket(s.x)) ELSE s
    IN after[limit]
\* As AfterBatch, asking for bytes after a full batch.
AfterBatchReceive(stop) ==
    IF stop \in {"none", "limit"} \/ reader.terminal THEN Reader("receive") ELSE Reader("ended")

AfterBatch(stop) ==
    CASE stop = "limit" -> reader                                 \* a yield, and on
      [] stop = "none" -> Reader("receive")
      [] OTHER -> Reader(IF reader.terminal THEN "receive" ELSE "ended")
TakeBatch ==
    /\ reader.at = "batch"
    /\ \E s \in {BatchOf(d, limit) : limit \in 1..BatchLimit} :
         /\ d' = s.x /\ out' = out \o s.frames
         /\ reader' = AfterBatch(s.stop)
    /\ UNCHANGED net

-----------------------------------------------------------------------------
(* The client *)

\* A DISCONNECT was handled or sent; the transport is going to be closed.
Disconnecting ==
    /\ Reading /\ ~reader.terminal
    /\ reader' = [reader EXCEPT !.terminal = TRUE]
    /\ UNCHANGED <<d, net, out>>

\* _force_close_transport cancels the reader and clears the decoder; the old
\* transport may go on receiving until it is closed.
ForceClose ==
    /\ reader.at \notin {"cleared", "closed"}
    /\ d' = Clear(d) /\ reader' = Reader("cleared")
    /\ UNCHANGED <<net, out>>

\* close(): detach, after which a late callback finds no decoder
CloseTransport ==
    /\ reader.at = "cleared"
    /\ reader' = Reader("closed")
    /\ UNCHANGED <<d, net, out>>

\* _connect_once_locked: the decoder is cleared before it is attached.
Prepared(x) == Clear(x)
Connect ==
    /\ reader.at = "closed" /\ net.count < MaxConnections
    /\ d' = Prepared(d)
    /\ \E w \in Wires[net.count + 1], push \in Kinds : net' = Connected(w, push, d', net.count + 1)
    /\ reader' = NewReader
    /\ out' = <<>>

-----------------------------------------------------------------------------
Init ==
    /\ d = NewDecoder
    /\ \E w \in Wires[1], push \in Kinds : net = Connected(w, push, NewDecoder, 1)
    /\ reader = NewReader
    /\ out = <<>>

Next ==
    \/ ReceiveCallback \/ UnusedWindow \/ Eof \/ Lost
    \/ Receive \/ ReadAndFeed \/ TakeBatch
    \/ Disconnecting \/ ForceClose \/ CloseTransport \/ Connect

Spec == Init /\ [][Next]_vars

\* The event loop calls back for a readable socket it may read, and runs a
\* reader that can go on: weak fairness of four actions.  Receive and
\* ReadAndFeed end the condition that enables them.
Fairness ==
    /\ []<>(~Receiving) \/ []<><<ReceiveCallback>>_vars
    /\ []<>(reader.at # "batch") \/ []<><<TakeBatch>>_vars
    /\ []<>(~Asking) /\ []<>(~CanRead)
LiveSpec == Spec /\ Fairness

-----------------------------------------------------------------------------
(* Properties *)

\* The types
TypeOK ==
    /\ d.buf \in Seq(Byte) /\ 0 <= d.start /\ d.start <= d.end /\ d.end <= Capacity(d)
    /\ d.target \in InitialWindow..Quantum /\ d.offered \in 0..Capacity(d)
    /\ d.fills < PromoteAfter /\ d.idle < Retention
    /\ net.read \in 0..Len(net.wire) /\ net.paused \in BOOLEAN
    /\ reader.at \in {"receive", "waiting", "woken", "batch", "ended", "cleared", "closed"}

\* However the bytes of a connection arrive, and however the slab is moved,
\* grown, shrunk and rewound under them, the frames taken and the bytes still
\* held are exactly what this connection sent, in order.
Encoded(frame) == <<frame.header>> \o EncodeVbi(Len(frame.body)) \o frame.body
StreamExact ==
    Reading => FlattenSeq([i \in DOMAIN out |-> Encoded(out[i])]) \o Live(d)
               = SubSeq(net.wire, 1, net.read)

\* The answer to "is there a frame" depends on the bytes held alone, never on
\* what an earlier frame left in the slab behind them: too large as soon as a
\* length beyond the limit is complete; when the shortest encoding of a length
\* within it and that many bytes follow the header, a frame if the header names
\* a packet type and malformed if not (no sooner: next_packet looks at the type
\* of complete frames only); malformed when no continuation makes the bytes
\* behind the header a length; nothing otherwise.
Announced(s) == {v \in 0..MaxVbi : IsPrefix(EncodeVbi(v), s)}
Expected(bytes) ==
    LET length == Tail(bytes)
        v == CHOOSE n \in Announced(length) : TRUE
        size == 1 + VbiLen(v) + v IN
    IF Len(bytes) < 2 THEN "none"
    ELSE IF Announced(length) # {}
         THEN CASE size > MaxPacket -> "too large"
                [] size <= MaxPacket /\ size > Len(bytes) -> "none"
                [] OTHER -> IF Untyped(Head(bytes)) THEN "malformed" ELSE "frame"
    ELSE IF \E n \in 0..MaxVbi : IsPrefix(length, EncodeVbi(n)) THEN "none" ELSE "malformed"
AnswerExact == NextPacket(d).kind = Expected(Live(d))

\* The two framing paths of the decoder, of which one repeats the other with
\* short cuts, agree on every content of the slab, with one exception: a whole
\* frame of no packet type is bounds to peek_packet_bounds and an error to
\* next_packet.  Both call it progress, so that head_frame_ready, on which
\* pausing turns, says exactly when the reader would not wait.
PathsAgree ==
    LET peeked == PeekPacket(d)
        next == NextPacket(d) IN
    /\ next = peeked \/ (/\ next.kind = "malformed" /\ peeked.kind = "frame"
                         /\ peeked.total <= Buffered(d) /\ Untyped(peeked.header))
    /\ HeadFrameReady(d) <=> next.kind # "none"

\* The reader of a live session never waits for bytes of a socket that was
\* paused: only it could resume it.
NoPausedWait == reader.at = "waiting" /\ ~reader.terminal => ~net.paused

\* Backpressure: whatever the peer sends, what a pushed connection holds stays
\* within a window of the watermark, or of one frame that is still incomplete;
\* the slab within twice that.
BacklogBound ==
    LET most == Max({HighWater, MaxPacket - 1}) + Quantum IN
    net.push => Buffered(d) <= most /\ Capacity(d) <= 2 * most

\* What is received is what was sent: the slab keeps it (StreamExact), framing
\* is a function of the bytes held (AnswerExact), which pausing foresees
\* (PathsAgree), and reading is paused soon enough and never for good.
ReceiveExact ==
    TypeOK /\ StreamExact /\ AnswerExact /\ PathsAgree /\ NoPausedWait /\ BacklogBound

\* Everything complete that was sent is taken, or the reader has ended.
Settled == net.read = Len(net.wire) /\ NextPacket(d).kind = "none"
FramesTaken ==
    <>[](Settled \/ reader.terminal \/ reader.at \notin {"receive", "waiting", "woken", "batch"})
=============================================================================
