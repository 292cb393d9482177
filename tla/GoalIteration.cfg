\* Two requests of any kind, or one and a crash, at two iterations; or a model that always calls
\* mark_done, and a reviewer that may always reject.  The caps are 2 and 4
\* instead of 3 and 10.  The bound on the turns of the second scenario is above
\* what the gates allow: 2 rejections, 4 continuations, the completing turn and
\* one turn lost to a crash.  A token is a hundred tokens of the program: a
\* turn of the first scenario spends the budget.
SPECIFICATION MCFairSpec
CONSTANTS
  r1 = r1
  r2 = r2
  TokensMax = 60
  RoundsMax = Unlimited
  Unlimited = Unlimited
  IsSubGoal = FALSE
  RejectCap = 2
  HardCap = 4
  Diminishing = 5
  DiminishingFrom = 3
  Requests = {r1, r2}
  Endpoints = {"pause", "cancel", "abort", "interrupt", "resume", "resurrect", "send", "revive"}
  Outcomes = {"done", "give_up", "tools", "natural"}
  TurnTokens = {60}
  ReviewOn = TRUE
  MaxEvents = 0
  MaxTurns = 2
  MaxCrashes = 1
INVARIANTS RecordCoherent TurnHasBudget
PROPERTIES ClaimsEndTheGoal
CONSTRAINT Bound
CHECK_DEADLOCK FALSE
