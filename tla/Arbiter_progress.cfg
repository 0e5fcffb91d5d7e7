SPECIFICATION FairSpec
CONSTANTS
  vm = vm vm2 = vm2 pod = pod pod2 = pod2 vmh = vmh podh = podh
  gpu = gpu usb = usb p1 = p1 p2 = p2 p3 = p3 p4 = p4
  NoProc = NoProc NoLease = NoLease
  Procs = {p1, p2, p3}
  Deploys <- OneGpuDeploys
  Tokens = {gpu}
  GpuTokens = {gpu}
  Requires <- OneGpuRequires
  SharedClaim = {pod, pod2}
  Holds <- OneGpuHolds
  OnSuccess = {}
  Workload <- AllChecks
  Faults = {"wedge"}
  MaxCrashes = 0
  MaxReboots = 0
INVARIANTS ClaimMode
PROPERTIES EveryCommandEnds EveryHolderComesBack
