\* A `charly config` overlaps a command that takes the flock.
SPECIFICATION Spec
CONSTANTS
  pod = pod
  inst = inst
  vm = vm
  xref = xref
  vm2 = vm2
  Procs = {p1, p2}
  Keys = {pod, inst}
  BaseOf <- TwoBase
  VmOf <- TwoVm
  Exposes = {pod}
  Provides = {}
  Ports = {1, 2}
  Ephemerals = {}
  Pins = {}
  Authored = {}
  Commands = {"config", "save"}
  Overlap = {"unlocked"}
  MaxFaults = 0
  None = None
PROPERTY NoLostUpdate
SYMMETRY Symmetry
