\* Four ticks of cap and two of no-progress window at most, three scores.
SPECIFICATION PollFairSpec
CONSTANTS
  Readiness <- MCReadiness
  Fallback <- MCFallback
  Deadlines = {0, 2}
  Scores = {0, 1, 2}
  Horizon = 14
INVARIANTS StallJust FlapStalls CapBound
PROPERTY Ends
