SPECIFICATION Spec
CONSTANTS
  vm = vm vm2 = vm2 pod = pod pod2 = pod2 vmh = vmh podh = podh
  gpu = gpu usb = usb p1 = p1 p2 = p2 p3 = p3 p4 = p4
  NoProc = NoProc NoLease = NoLease
  Procs = {p1, p2, p3}
  Deploys <- OneGpuDeploys
  Tokens = {gpu}
  GpuTokens = {gpu}
  Requires <- OneGpuRequires
  SharedClaim = {pod, pod2}
  Holds <- OneGpuHolds
  OnSuccess = {vmh}
  Workload <- Mixed
  Faults = {"linger", "late", "down", "opstart", "stall", "recover", "halt", "keep", "bringup", "unflip", "restore", "rollback", "bedfail", "wedge"}
  MaxCrashes = 0
  MaxReboots = 1
SYMMETRY Sym3
INVARIANTS TypeOK LeaseExclusion NoRewedge
