\* No symmetry: temporal properties are checked.  Once the calls have settled
\* nothing is left to do: no deadlock check.
SPECIFICATION MCSpec
CONSTANTS
  c1 = c1
  c2 = c2
  c3 = c3
  c4 = c4
  profile = profile
  todos = todos
  w1 = w1
  w2 = w2
  s1 = s1
  s2 = s2
  Writes = {w1, w2}
  MaxCrashes = 2
  Clients = {c1, c2}
  Streams = {s1, s2}
  MaxTokens = 2
  MaxDeaths = 2
  Calls <- MCCalls
  Keys <- MCKeys
  Key <- MCKey
INVARIANTS NeverTorn
PROPERTIES QueuedCallsRun RefinesAtomicStore PlanStreamsComplete
CHECK_DEADLOCK FALSE
