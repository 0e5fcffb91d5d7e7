\* One deployment; the add is killed once.
SPECIFICATION FairSpec
CONSTANTS
  d1 = d1 d2 = d2 d3 = d3 s1 = s1
  p1 = p1 p2 = p2 p3 = p3 q1 = q1 q2 = q2 q3 = q3
  Procs = {p1, p2}
  Agents = {q1, q2}
  AgentOf <- TwoAgents
  Deploys = {d1}
  Snaps = {s1}
  From <- OneDeploy
  Marked = {d1}
  Commands = {"add", "create"}
  Overlapping = FALSE
  Faults = {"kill"}
  MaxFaults = 1
  None = None
PROPERTIES EphemeralEnds
