SPECIFICATION Spec
CONSTANTS
  d1 = d1 d2 = d2 d3 = d3 c1 = c1 c3 = c3 f1 = f1 f2 = f2 f3 = f3 u1 = u1 u2 = u2
  p1 = p1 p2 = p2 p3 = p3 p4 = p4 p5 = p5
  None = None
  Procs = {p1, p2, p3}
  Children = {}
  Deploys = {d1}
  Candies = {c1}
  CandyOf <- OneCandyOf
  Files = {f1}
  Units = {u1}
  Lifecycle = {}
  Plans <- OnePlans
  Members <- NoMembers
  Envd <- NoEnvd
  Base = {}
  Faults = {}
  Overlapping = TRUE
  MaxCrashes = 0
CHECK_DEADLOCK FALSE
INVARIANT StaysWhole
