\* One goal, one round of each kind, two steers and one stream.  Requests are
\* bounded, status changes are not: the model never deadlocks.
SPECIFICATION FairRoundsSpec
CONSTANTS
  Goals = {g1}
  Messages = {}
  IterationBudget = 2
  MaxRestarts = 0
  RunCalls = {run}
  AutoCalls = {auto}
  Streams = {c1}
  Steers = {s1, s2}
  None = None
INVARIANTS EntryIsRunning
PROPERTIES SteerSurvives StreamsEnd
