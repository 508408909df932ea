------------------------------ MODULE SeqFolds ------------------------------
(***************************************************************************)
(* Two ways to go through a sequence.  Only(s, S) is SelectSeq(s, test)    *)
(* for the test of membership in S, TotalSize(s) a sum over its elements.  *)
(* They are recursive functions, and S is a set, so that SeqFoldsProofs    *)
(* can prove their algebra.                                                *)
(***************************************************************************)
EXTENDS Naturals, Sequences

\* The elements of s that are in S, in their order
Only(s, S) ==
    LET upTo[n \in 0..Len(s)] ==
            IF n = 0 THEN <<>>
            ELSE IF s[n] \in S THEN Append(upTo[n - 1], s[n]) ELSE upTo[n - 1]
    IN  upTo[Len(s)]

\* The sum of the sizes of the elements of s
TotalSize(s) ==
    LET upTo[n \in 0..Len(s)] == IF n = 0 THEN 0 ELSE upTo[n - 1] + s[n].size
    IN  upTo[Len(s)]
=============================================================================
