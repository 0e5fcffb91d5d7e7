\* Three steps, two iterations of plateau, two ticks of watchdog.
SPECIFICATION FairSpec
CONSTANTS
  s1 = s1 s2 = s2 s3 = s3
  Steps = {s1, s2, s3}
  Needs <- Chain
  Plateau = 2
  NoImprovement = 2
  Timeout = TRUE
  Horizon = 9
INVARIANTS OneScoring IterationsBounded BestReported
PROPERTY LiveEnds
