------------------------------ MODULE MCStore ------------------------------
EXTENDS Store
Openings == Permutations(Conn)

Budget(ops, faults, opens, pages, depth, two) ==
  [ops |-> ops, faults |-> faults, opens |-> opens, pages |-> pages,
   depth |-> depth, shared |-> two]

SmallBudgets == {Budget(4, 2, 2, 0, 2, FALSE), Budget(4, 0, 2, 0, 1, TRUE),
                 Budget(4, 0, 1, 1, 1, FALSE), Budget(3, 0, 2, 1, 1, TRUE),
                 Budget(2, 1, 2, 0, 2, TRUE)}
=============================================================================
