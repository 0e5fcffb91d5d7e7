SPECIFICATION Spec
CONSTANTS
  d1 = d1 d2 = d2 d3 = d3 c1 = c1 c3 = c3 f1 = f1 f2 = f2 f3 = f3 u1 = u1 u2 = u2
  p1 = p1 p2 = p2 p3 = p3 p4 = p4 p5 = p5
  None = None
  Procs = {p1, p2, p3, p4}
  Children = {p5}
  Deploys = {d1, d2, d3}
  Candies = {c1, c3}
  CandyOf <- ThreeCandyOf
  Files = {f1, f2, f3}
  Units = {u1, u2}
  Lifecycle = {d3}
  Plans <- ThreePlans
  Members <- ThreeMembers
  Envd <- ThreeEnvd
  Base = {u2}
  Faults = {"walk", "undo", "post"}
  Overlapping = FALSE
  MaxCrashes = 1
CHECK_DEADLOCK FALSE
INVARIANTS NoOrphan StaysWhole
