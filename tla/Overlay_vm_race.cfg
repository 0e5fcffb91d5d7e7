\* Two `charly vm create` at once, of two VMs with ssh.port_auto.
SPECIFICATION Spec
CONSTANTS
  pod = pod
  inst = inst
  vm = vm
  xref = xref
  vm2 = vm2
  Procs = {p1, p2}
  Keys = {vm, vm2}
  BaseOf <- TwoVms
  VmOf <- TwoVms
  Exposes = {}
  Provides = {}
  Ports = {1, 2}
  Ephemerals = {}
  Pins = {}
  Authored = {}
  Commands = {"vm create"}
  Overlap = {"vms"}
  MaxFaults = 0
  None = None
INVARIANT NoStaleVm
SYMMETRY Symmetry
