SPECIFICATION Spec
CONSTANTS
  Procs = {1, 2}
  Boxes = {1, 2, 3}
  Projects <- ThreeBoxes
  Versions = {1, 2, 3}
  Ver <- SameVersion
  Staged = {1}
  Keep = 1
  Jobs = 2
INVARIANTS OrderSound DepsFirst ColdOnce CopyWhole
