SPECIFICATION Spec
CONSTANTS
  vm = vm vm2 = vm2 pod = pod pod2 = pod2 vmh = vmh podh = podh
  gpu = gpu usb = usb p1 = p1 p2 = p2 p3 = p3 p4 = p4
  NoProc = NoProc NoLease = NoLease
  Procs = {p1, p2, p3, p4}
  Deploys <- TwoTokDeploys
  Tokens = {gpu, usb}
  GpuTokens = {gpu}
  Requires <- TwoTokRequires
  SharedClaim = {pod, pod2}
  Holds <- TwoTokHolds
  OnSuccess = {}
  Workload <- Mixed
  Faults = {}
  MaxCrashes = 1
  MaxReboots = 0
SYMMETRY Sym4
INVARIANTS NoStrandedHolder ClaimKept
PROPERTIES RestoreRespectsClaims ImplementsClaimTable
