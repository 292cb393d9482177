SPECIFICATION Spec
CONSTANTS
  Goals = {g1}
  Messages = {m1, m2}
  IterationBudget = 2
  MaxRestarts = 0
INVARIANT ParksOnlyWithoutPending
CHECK_DEADLOCK FALSE
