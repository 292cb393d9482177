\* One pause at any moment of an iteration.
SPECIFICATION Spec
CONSTANTS
  TokensMax = 3
  RoundsMax = 2
  Unlimited = Unlimited
  IsSubGoal = FALSE
  RejectCap = 1
  HardCap = 1
  Diminishing = 1
  DiminishingFrom = 1
  Requests = {r1}
  Endpoints = {"pause"}
  Outcomes = {"done", "tools"}
  TurnTokens = {1}
  ReviewOn = TRUE
  MaxEvents = 0
  MaxTurns = 1
  MaxCrashes = 0
INVARIANTS PauseSticks
CHECK_DEADLOCK FALSE
