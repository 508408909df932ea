---- MODULE MCPacketReceive ----
(* Instances of PacketReceive for TLC. *)
EXTENDS PacketReceive

\* Streams of whole frames long enough for the watermarks and the retention of
\* an oversized slab, in two orders of small and large ones, one that ends in
\* a length beyond the limit, and one in which a frame of no packet type comes
\* between others;
Small == <<1, 0>>
Large == <<1, 2, 1, 3, 3>>
NoType == <<0, 1, 1>>
LongWires ==
    {Small \o Small \o Small \o Small \o Small \o Small,
     Large \o Small \o Small \o Small,
     Small \o Large \o Large,
     Small \o <<1, 1, 1>> \o <<1, 2, 2, 1>>,
     Small \o NoType \o Large}

\* and a header of either sort before all that may follow it.  What a
\* connection leaves to the next shows with any wire there.
AnyWires ==
    {<<1>> \o s : s \in [1..4 -> Byte]} \cup {<<0>> \o s : s \in [1..3 -> Byte]}
MCWires == <<LongWires \cup AnyWires, {Large, Small \o Small}>>
MCKinds == BOOLEAN
====
