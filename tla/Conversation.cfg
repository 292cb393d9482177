\* Two questions; two messages, an answer, the timers and an annotation race,
\* through a crash or a failed write.
CONSTANTS
  NoAsk = NoAsk
  Sends = {s1, s2}
  Answers = {a1}
  Annotators = {n1}
  Viewers = {n1}
  Asks = {q1, q2}
  MaxCrashes = 1
  MaxFailures = 1
  t1 = t1
  t2 = t2
  f1 = f1
  f2 = f2
  c1 = c1
  c2 = c2
  Existing = {a, b}
  Streams = {t1, t2}
  Blank = blank
  MaxMoves = 2
  Files = {f1, f2}
  Callers = {c1, c2}
  MaxCalls = 3
  MaxRewinds = 2
  MaxFaults = 1
  TurnRequests = {t1, t2}
  KeepRounds = 1
  MaxBatch = 2
  MaxRounds = 1
  MaxTurns = 2
  MaxSteers = 1
  MaxCompacts = 1
  MaxDeaths = 1
SPECIFICATION MCSpec
SYMMETRY Symmetry
CONSTRAINT Bound
CHECK_DEADLOCK FALSE
INVARIANTS
  AcceptedAnswerIsKept
  RecordedAskSurvives
  SteerHasReader
  RequestsAreValid
  TurnIsKept
  NoForeignBubbles
  BusyMeansWorking
  StopFindsStream
PROPERTIES
  FirstAnswerWins
  RewindRestores
