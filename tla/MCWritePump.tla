---------------------------- MODULE MCWritePump ----------------------------
(* Small instances of WritePump for TLC. *)
EXTENDS WritePump

\* Frames a producer sends: one that fits, and one that only fits alone
AckAndSegments == {[kind |-> "ack", size |-> 1], [kind |-> "seg", size |-> 4]}

\* As above, with the ordinary permit and within the limit
TwoSizes == {[kind |-> "data", size |-> 1], [kind |-> "seg", size |-> 2]}
=============================================================================
