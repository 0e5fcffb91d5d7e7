\* Commands that write under the flock overlap, the others run alone.
SPECIFICATION Spec
CONSTANTS
  pod = pod
  inst = inst
  vm = vm
  xref = xref
  vm2 = vm2
  Procs = {p1, p2, p3}
  Keys = {pod, inst, vm, xref}
  BaseOf <- FourBase
  VmOf <- FourVm
  Exposes = {pod, inst}
  Provides = {pod}
  Ports = {1, 2}
  Ephemerals = {inst, xref}
  Pins = {1}
  Authored = {xref}
  Commands = {"config", "save", "add", "remove", "vm create", "vm add", "vm del", "vm destroy", "import", "import box", "replace", "reset", "reset all"}
  Overlap = {}
  MaxFaults = 1
  None = None
INVARIANTS AllocatedApart NoStaleVm
PROPERTY NoLostUpdate
SYMMETRY Symmetry
