\* Three phases stand for the pipeline's: before, at and after the spine.  Once
\* a run has ended nothing is left to do: no deadlock check.
SPECIFICATION MCSpec
CONSTANTS
  Callers = {k1, k2}
  Configs <- MCConfigs
  MaxRetries = 1
  MaxDeaths = 1
  Phases = 3
  First = f
  Resumes = {r1}
  Flushes = {1, 2}
  MaxFailures = 1
  MaxCrashes = 1
CONSTRAINT Bound
INVARIANTS ResumeIsSound
PROPERTIES TailEnds RemovedStaysDown RestartSettles
CHECK_DEADLOCK FALSE
