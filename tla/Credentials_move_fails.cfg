SPECIFICATION Spec
CONSTANTS
  p1 = p1 p2 = p2 p3 = p3
  Procs = {p1, p2}
  Boxes = {"vault", "token"}
  Volumes = {1, 2}
  BoxOf <- TwoVolumes
  Backends = {"auto", "keyring", "config"}
  Providers = {"answers", "blocks"}
  Menu <- Moves
  Faults = {"away", "setfails"}
  MaxKills = 0
  MaxChanges = 2
  MaxTries = 1
INVARIANT Openable
CHECK_DEADLOCK FALSE
