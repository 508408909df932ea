------------------------- MODULE MCIteratorDelivery -------------------------
(* Small instances of IteratorDelivery for TLC. *)
EXTENDS IteratorDelivery, TLC

CONSTANTS i1, i2, i3
MCIterator == {i1, i2, i3}
TwoIterators == {i1, i2}
IteratorSymmetry == Permutations(Iterator)
Either == BOOLEAN
=============================================================================
