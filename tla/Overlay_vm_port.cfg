\* `charly bundle add vm:<entity>` of a VM with ssh.port_auto, alone.
SPECIFICATION Spec
CONSTANTS
  pod = pod
  inst = inst
  vm = vm
  xref = xref
  vm2 = vm2
  Procs = {p1}
  Keys = {vm}
  BaseOf <- OneBase
  VmOf <- OneBase
  Exposes = {}
  Provides = {}
  Ports = {1, 2}
  Ephemerals = {}
  Pins = {}
  Authored = {}
  Commands = {"vm add"}
  Overlap = {}
  MaxFaults = 0
  None = None
INVARIANT SshPortRecorded
