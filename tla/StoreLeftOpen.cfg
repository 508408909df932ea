SPECIFICATION Spec
CONSTANTS
  Conn = {c1, c2}
  OutMid = {1}
  InMid = {1, 2}
  State = {s1, s2}
  NewState = {s1}
  Size = {1}
  PageMessages = 2
  PageBytes = 1
  Budgets <- SmallBudgets
SYMMETRY Openings
INVARIANT NoTransactionLeftOpen
CHECK_DEADLOCK FALSE
