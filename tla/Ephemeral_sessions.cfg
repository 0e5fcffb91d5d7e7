\* Three deployments of one snapshot, one with its ephemeral block in the project only.
SPECIFICATION FairSpec
CONSTANTS
  d1 = d1 d2 = d2 d3 = d3 s1 = s1
  p1 = p1 p2 = p2 p3 = p3 q1 = q1 q2 = q2 q3 = q3
  Procs = {p1, p2, p3}
  Agents = {q1, q2, q3}
  AgentOf <- ThreeAgents
  Deploys = {d1, d2, d3}
  Snaps = {s1}
  From <- OneSnap
  Marked = {d1, d2}
  Commands = {"add", "del", "destroy", "create", "promote", "delete", "force"}
  Overlapping = FALSE
  Faults = {"systemd", "boot", "walk", "kill"}
  MaxFaults = 1
  None = None
INVARIANTS SnapshotKept NoLostCount
PROPERTIES TtlEnds
