# charly, specified

This directory is a TLA+ development of `charly`, the command-line tool of this repository: state machines
translated from the Go sources, TLC configurations that check them on small instances, and proofs, checked by
TLAPS, of what matters most for every instance. Paths below are relative to the repository's root without `src/`.

`charly` has no server. Every invocation is a process of its own; what the invocations share is the file system
(ledgers, overlays, registries, lock files) and the host (VMs, containers, GPUs, systemd, the keyring). The hard
behaviour is therefore that of **independent processes that read and write shared files, take advisory locks, stop and
start each other's deployments, and may be killed anywhere**.

## Inventory

| Component | State | Operations | Hard behaviour | What makes it correct | Module |
|---|---|---|---|---|---|
| **Resource arbiter** `candy/plugin-preempt/{arbiter,arbiter_support}.go`, seams in `charly/{preempt,arbiter_host}.go` | `leases.yml`, `poison-*.id`, a flock; on the host: which deployments run, the driver mode of each GPU | AcquireExclusive, AcquireShared, ReleaseClaimant, reconcileStranded, clearPoison, Status | kills between ledger write and effects; stale leases; carried restore obligations; failing stops, starts and switches; a switch stuck on `device_lock`; reconcile without the lock | exclusive claims exclude; no holder is forgotten, none is started under a claim; a wedged card is left alone; everybody gets a turn | `Arbiter` |
| **Commands that claim** `charly/{start,commands,vm,check_bed_run}.go` | bed lock, process environment, the deployment | start, stop, remove, vm create/stop/destroy, check run | the order of stop and release; deferred releases on failure; a bed left up on purpose | holders come back when, and only when, the claimant is gone | `Arbiter` |
| **GPU driver switch** `candy/plugin-gpu/switch.go`, `charly/vm_gpu_cmd.go` | driver of each function of the IOMMU group | switch, recover | stuck switches, half-switched groups | never a second switch behind a stuck one | `Arbiter`, as one step |
| **Install ledger and host teardown** `charly/{install_ledger,deploy_host_helpers,deploy_target_external,bundle_add_cmd}.go` | `deploys/*.json`, `layers/*.json`, a flock | bundle add, update, del | `add` takes no lock; `del` holds it while it waits for the `charly bundle del` of its members, which wait for it; kills between the effects and the records, and between the two records; the order of the replay | whatever was put on a venue can be taken off it; what a deployment uses stays; a unit gets its prior state back; `del` ends | `InstallLedger` |
| **Deploy overlay** `charly/{deploy,ports,bundle_add_cmd_vm}.go` and its callers | `~/.config/charly/charly.yml` | config, start, remove, vm create/destroy, bundle add/del/import/reset | the whole file is loaded, changed and saved, with or without `acquireDeployConfigLock` (without it also by `bundle add` and `del` of an ephemeral deployment); host ports are allocated against what is recorded; the file may not load | no entry or field of another deployment is lost; no port is given twice; what was noted for a VM goes with it | `Overlay` |
| **Ephemeral lifecycle** `charly/ephemeral_lifecycle.go` | overlay entry, systemd timer, snapshot reference | register, teardown, TTL expiry | the timer against commands and other timers; an add that fails or is killed after the timer is armed | every ephemeral deployment is torn down after its TTL | `Ephemeral` |
| **VM snapshots** `charly/vmshared/vm_snapshot.go`, `charly/vm_clone.go` | registry file per VM with reference counts | create, delete, promote, revert; increment and decrement by ephemeral deployments | read-modify-write of counts without a lock | no snapshot goes while a deployment refers to it; no reference gets lost | `Ephemeral` |
| **Poll primitive** `charly/vmshared/poll.go` | deadline, high-water mark, last advance | Wait, WaitCapped, WatchProgress, stop gate | cap, stall and progress rules together; unset bounds | ends by its cap; a progressing wait is not cut; a flapping one is | `Poll` |
| **Check runner, AI loop** `charly/{check_loop,check_watchdog,check_runner_live,check_score}.go` | score, best iteration, plateau counter | iterate, score, watch | agent, what it leaves running, watchdog goroutine and harness; scores that fall; an agent that never ends | one scoring at a time; bounded iterations; the best is reported; the run ends | `CheckLoop` |
| **Bed acceptance sequence** `charly/{check_bed_run,bundle_members}.go` | bed lock, what is up, the summary | check run of a pod, VM, in-place or group bed | parallel runs; failing steps and tear-downs; a rebuild that drops what is nested | nobody wipes another's live target; a pass means all of the bed was checked | `CheckBed` |
| **Builds** `charly/{build,build_stage_atomic,generate,clean}.go` | staged candies, per-image flock, images | box build | parallel workers and processes, a failing build, pruning, kills | nothing is built before what it needs, no image cold twice at a time, copies are whole | `Build` |
| **Dependency graph** `charly/graph.go` | none (pure) | direct dependencies, order, levels, filter | dependencies of different kinds, cycles | order respects dependencies; a cycle is found | `Build` |
| **Credentials, encrypted volumes** `candy/plugin-secrets`, `candy/plugin-enc`, `charly/{enc,layer_secrets,secrets}.go` | keyring, `config.yml`, ciphers, mounts | secrets set/delete/migrate, config, start, mount, unmount, passwd | a locked or absent keyring; a store and its index in two steps; waiting mounts; unlocked read-modify-write | every volume opens with what the stores answer; nothing is generated over what is stored; a mount ends | `Credentials` |
| **File locks** `charly/filelock.go` and the flocks of the components | - | acquire, release by death | blocking and fail-fast | with each component | all |
| Containerfile generation, configuration and validation, deploy targets, intermediates, plugin transport, candy data | - | - | mostly text, parsing and calls to other programs | - | not modelled, see the end |

The components meet in few places. A claiming command calls the arbiter in-process through `arbiterInvoke`; the
arbiter calls back for everything it does to the host (gather, running, stop-and-wait, start, switch). A check run
executes nested `charly` commands and sets `CHARLY_PREEMPT_LEASE` so that they leave the lease alone. `bundle add` of a
VM writes the overlay, the snapshot registry and the install ledger one after the other; every step of a bed is such a
command. No file is in two modules' care at the same level of detail: `Ephemeral` reads of the overlay only the runtime
entry of an ephemeral VM and of the ledger only whether a record is there; `CheckBed` takes its commands as steps.

## Modules

| Module | What it is |
|---|---|
| `ClaimTable` | what the arbiter promises, with no process, lock, file or crash: claims that are granted and retired, and the holders the table answers for |
| `Arbiter`, `MCArbiter` | the arbiter and the commands that drive it, process by process; three small projects and workloads. `Arbiter` implements `ClaimTable` |
| `InstallLedger`, `MCInstallLedger` | `bundle add` and `bundle del` with their records, kind:local members and the flock |
| `Overlay`, `MCOverlay` | the commands that rewrite the per-host overlay, with port allocation |
| `Ephemeral`, `MCEphemeral` | ephemeral VMs, their timers, and the reference-counted snapshots they refer to |
| `Poll`, `MCPoll` | `pollUntil` and the four builders of its configuration |
| `CheckLoop`, `MCCheckLoop` | the AI iteration loop with the agent and its children, watchdog, scoring and plateau rule |
| `CheckBed`, `MCCheckBed` | the acceptance sequence of `charly check run <bed>`, several runs at a time |
| `Build`, `MCBuild` | `charly box build` by several processes: order, levels, image locks, staging, pruning |
| `Vault` | what the credential stores promise the volumes, with no process, store, lookup or migration: one answer for each box, and volumes that open with it or with what the operator has typed |
| `Credentials`, `MCCredentials` | the credential stores, and the encrypted volumes set up, mounted and re-keyed with them. `Credentials` implements `Vault` |
| `ArbiterProofs`, `CheckLoopProofs`, `CheckBedProofs`, `BuildProofs`, `OverlayProofs`, `EphemeralProofs`, `InstallLedgerProofs`, `CredentialsProofs` | what is proved of them; `CheckBedProofs` has the theorems about `Poll` too, whose operators are therefore named `PollInit`, `PollSpec` and so on |

Every module follows one pattern. Processes run one command each; `pc` and `job` (or a record per process) are the local
state of the Go functions, and **one action is one access to something shared** - a file, a flock, the host - with all
the code up to the next access in it. Operators whose name ends in `_bug` are the code with one plausible mistake; no
action uses them, they are there to show that the properties notice.

### How `Arbiter` corresponds to the code

*State.* `ledger` is `leases.yml`: for each claimant its lease or `NoLease`. Of a `PreemptLease` the model keeps
`Transient`, the owner (`OwnerPID`, `OwnerStart`: together one process of the model) and `Preempted` (each holder
with the tokens it was stopped for); `Tokens`, `Shared`, `Mode`, `Claim` are functions of the claimant. The orders of
the leases and of the holders are arbitrary in the model. `poison` is the set of GPU tokens with a marker of the
current boot, `lock` the flock. `running`, `mode`, `wedges` are the host. `pc` and `job` are the local state of the
processes: the in-memory ledger, the lease being released, the holders still to start or stop, the tokens still to
be switched. `owed` is a history variable: holders that were stopped for a claim and not started since, by a release,
a rollback, the operator, or a command that is run on the holder itself.

*Steps.* One action is one access to shared state (a read or write of the ledger, one stop, one start, one switch,
lock and unlock); all the code between two of these is in the same action.

| Code | Actions |
|---|---|
| `acquireArbiterLock` + `loadLedger` | `LockAcquire`, `LockRelease` |
| `reconcileStranded` | `Visit`, then `Restore`.. `Released`, `Unflip`.. `UnflipEnd` for each stale lease, or `Retain`; `ScanEnd`, `Flush` |
| `ReleaseClaimant` | `LockRelease`, `Restore`.., `Retain` or `Released`, `Unflip`.., `UnflipEnd`, `Commit` |
| `AcquireExclusive`, `AcquireShared` | `Reacquire`, `Refuse`, or `DecideExclusive`/`DecideShared`, `Append`, `Stop`.., `StopsEnd`, `Flip`.., `FlipEnd`; on failure `StopFails` or `FlipFails`, `Rollback`.., `Drop` |
| `StartCmd`, `VmCreateCmd` | `Begin("start")`, acquire, `BringUp` |
| `StopCmd`, `RemoveCmd`, `VmDestroyCmd` / `VmStopCmd` | `Begin("stop")` / `Begin("vmstop")`, `Halt`, release |
| `runCheckBed` | `Begin("check")`, acquire, `ClearBed`, `BootBed`, `CheckEnd`, release |
| `charly preempt restore [claimant]` | `Begin("restore")`, release / `Begin("reconcile")`, reconcile without the lock |
| `charly vm gpu recover` | `GpuRecover` |

*The world.* `Crash` kills a process anywhere (the kernel drops its flock), `Reboot` ends everything that runs and
makes the poison markers stale, `GoesDown`, `OperatorStart` and `StallEnds` are deployments and drivers acting on
their own. What may fail is chosen by the constant `Faults`; each element is one error of a seam or one outcome of a
command, described at `AllFaults`.

*Abstractions.* A process is never reused, so a PID with its start time is unique, as the code intends. Two commands
do not work on one deployment at the same time (`Sole`): the bed lock for check runs; for the others nothing in the
code, and the model does not claim anything about it. File writes are atomic (temporary file and rename). Reads of
configuration are constant. A seam answers truthfully or with the error the model has for it; the seams whose errors
read as an empty answer (`hostGather`, `hostResources`, `hostRunning`) do not fail in the model.

### How `InstallLedger` corresponds to the code

*State.* `deploys` is the directory `deploys/`, a record per deployment with the candy it names; `candy` is
`layers/`, a record with `DeployedBy` and the reverse operations, or none; `lock` is the flock. `host` is everything
on the venues that a step leaves there and a reverse operation takes away: a file (which stands for a package, a
repository, an env.d file, a custom unit), an enabled packaged unit, a substrate that is up. `pc` and `job` are the
local state of the processes: the plan still to be walked, the units found enabled, the operations collected or still
to be run, the record as it was read. `stray` and `whole` are history, explained at the properties that use them.

*Steps.* One action is one access to a record file, to the flock, or one step or reverse operation on the venue.

| Code | Actions |
|---|---|
| `externalDeployTarget.Add`, `applyExternal` | `StartAdd`, `Prepare` (`PrepareVenue`, `prepareReverseState`), `Walk` per step, `AddFails` on an error |
| `AddCandyDeployment`, `WriteDeployRecord` | `RecordRead`, `RecordWrite`, `RecordDeploy` |
| `BundleDelCmd.Run`, `tearDownMembers` | `StartDel`, `LedgerLock`, `SpawnDel` and `ReapDel` per member |
| `externalDeployTarget.Del` | `ReadDeploy`, `DropRef` (`RemoveCandyDeployment`), `UndoOp` per operation (`runReverseOps`), `ForgetCandy` (`RemoveEnvdFile`, `DeleteCandyRecord`), `ForgetDeploy`, `PostTeardown` |
| SIGKILL | `Crash`: whatever was in hand is done or not, the kernel drops the flock, children go on |

*Abstractions.* A step is one of two kinds, those whose reverse is one removal and `ServicePackagedStep`, whose reverse
is two or three operations whose order matters. A deployment is compiled to one fixed plan. A failing reverse operation is
logged and the replay goes on; a failing walk ends the command with nothing recorded, as in the code. Left out:
the venue's own provenance ledger, nested trees, dry runs, secrets, artifacts and `--verify`. `Lifecycle` (a substrate
that `PostTeardown` takes down) are pods only: `bundle del` of a VM never destroys the domain.

### How `Overlay` corresponds to the code

*State.* `file` is `charly.yml` as far as it matters: for each deployment key an entry or none, and the keys that
provide env or MCP entries to others. An entry is its pinned port, its `ResolvedPort`, the ssh port of its VM state, and
a set of facts (`FactSet`) that stand for the fields one kind of writer notes. `loadable` says whether `LoadBundleConfig`
accepts the file, `lock` is the flock of `filelock.go`, `domain` the port a running VM forwards.

| Code | Actions |
|---|---|
| `saveDeployState`, `cleanDeployEntry`, `saveVmDeployState`, `removeVmDeployEntry` under `acquireDeployConfigLock` | `Lock`, `LockedLoad`, `LockedSave` with the change `Update` of the command |
| `charly config`: `MigratePlaintextEnvSecret` and `persistResourceCaps`, `ResolveDeployPorts`, `injectEnvProvides`, then the locked save, the reload and the save after `provisionData` | `ConfigLoad`, `ConfigEarly`, `ConfigPorts`, `ConfigInject`, `ConfigInjected`, `Lock`.., `ConfigReload`, `ConfigSeed` |
| `bundle import`, with `--box` ("import box") or `--replace`, `reset` | `BundleLoad`, `BundleSave` |
| `registerEphemeralIfMarked` of `bundle add` and the teardown of `bundle del`: `persistEphemeralRuntime`, `clearEphemeralRuntime`, without the flock | `EphemeralLoad`, `EphemeralSave` |
| `bundle add` of a pod: a locked save of the overlay image, if it has one | `Lock`.., or `NoOverlayImage` |
| `PrepareVenue`, `autoBootVmIfNeeded`, `runVmSpecCreate`, `vm destroy` | `VmVenue`, `VmDial`, `VmCreate`, `VmBoot`, `VmGone`, with the locked saves between |
| a kill or an error; an edit that breaks the file, and its repair | `Crash`; `Spoil`, `Repair` |

*Abstractions.* A deployment has one container port at most. `ResolveDeployPorts` picks any free port. The merge of
single fields and the project-level configuration are left out; a command runs on one deployment. Two commands are
on one VM at a time only with `"vm"` in `Overlap`, and two commands on different VMs only with `"vms"`. A session that
saves without the flock (`NoLock`: config, import, reset, and an add or del of one of the `Ephemerals`) overlaps others
only with `"unlocked"`. Of the record of an ephemeral deployment this module has the write of the whole file, which can
undo what others wrote, and not the record, which `Ephemeral` has. `BundleSave` drops every provides entry in a plain
import, as `MergeDeployConfigs` (`deploy.go:1114-1126`) returns entries only, and keeps them with `--box`.

### How `Ephemeral` corresponds to the code

*State.* `registry` is `registry.json` of the VM, `disks` the snapshots that have a disk of their own, `runtime` the
`vm_state.ephemeral` of the overlay entries, `recorded` the deploy records, `timers` the armed `systemd-run` units, each
named for the process that armed it. `count` and `missed` are history: the references taken and not given back, and the
deployments that did not find their snapshot when they were added, or lost it to a `delete --force`.

| Code | Actions |
|---|---|
| `RegisterEphemeralLifecycle` | `ArmTimer`, `RegisterRef`, `Persist` |
| `PrepareVenue`: the vm_state is read, `autoBootVmIfNeeded`, `saveVmDeployState`; the walk, the record | `Venue`, `Boot`, `SaveState`, `Walk`, `RecordDeploy` |
| `bundle del`, by the operator or by the timer; `TeardownEphemeralLifecycle` | `Start` or `Fire`, `LedgerLock`, `ReadRecord`, `PostTeardown`, `CancelTimer`, `DropRef`, `ClearRuntime`, `ForgetEntry` |
| `vm destroy` | `ForgetEntry` |
| `vm snapshot create`, `promote`, `delete`, `delete --force` | `Look` (with `Verdict`), `MakeDisk`, `Promote`, `RemoveDisk` |
| `IncrementSnapshotRefcount`, `DecrementSnapshotRefcount` | `Increment` in `RegisterRef`, `Decrement` in `DropRef`; like the snapshot commands they end in `SaveRegistry` |

An add takes its reference to `from` and `from_snapshot` of the deployment, and its del gives one back to the same
snapshot; the registry does not say whose a reference is. An add that finds no snapshot only warns.

*Abstractions.* The nested teardown is left out: no code sets `CHARLY_EPHEMERAL_PARENT`, so an ephemeral deployment never
has children. Clones are left out too: `BuildClone` (`vm_clone.go:36`), which would promote a snapshot, make an overlay
of it and take a reference of its own, has no caller, and `charly vm clone` only writes a declaration
(`vm_clone_cmd.go:47`). So nothing depends on the disk of a snapshot but the entry that names it. Naming patterns and the
arithmetic of the TTL are left out; a timer fires some time after it is armed. `Marked` are the deployments
whose ephemeral block is in the per-host overlay: only there does `PostTeardown` find it. `Overlapping = FALSE` keeps
every session but `bundle del` apart from the others.

### How `Poll` corresponds to the code

`Configs` is everything `Wait`, `WaitCapped`, `WatchProgress` and `StopGate` make of the configured bounds (0 for unset)
and of the cap a caller asks for. `Probe`, `Check` and `Pause` are the three parts of the loop of `pollUntil`; time is in
ticks and passes in the probe (at most `perAttempt`) and in the pause. `obs` is history, the clean observations with
their times: the code keeps only the high-water mark and when it was raised, and `Advances` says from `obs` what progress
is. The clock stops at `Horizon`, beyond every deadline.

### How `CheckLoop` corresponds to the code

`pc` is where `RunHarness` is, `wd` where the goroutine of `ProgressWatchdog.Run` is, `agent` the agent process,
`children` whether processes it started still hold its output, `cancelled` the context they share. `good` is the truth
the agent works on: the steps whose check would succeed now. `mode` is how a plan is scored: live, live but *refused*
(`RunCheckLive` returns an error, always, for a plan with a scored step without a venue, `check_runner_live.go:63`, and
for nothing else), on an image, or not at all; `stream` is `output_format: stream-json`.

| Code | Actions |
|---|---|
| `RunHarness` | `Top`, `Dispatch`, `RunnerReturns`, `Join`, `Score`, `Book` |
| `ProgressWatchdog.Run` | `WatchdogProbes`, `WatchdogSees`, `WatchdogErrs`, `WatchdogLate`, `WatchdogStops` |
| the agent and what it starts; `runRunnerFn` | `Work`, `AgentExits`, `AgentKilled`, `AgentTimeout`; `RunReturns` |
| `RunCheckLive`, `Classify`, `stillUnsolved`, the topological order of the steps | `Passing`, `Classify`, `StillUnsolved`, `Cyclic` |

`RunReturns` is when `cmd.Run` does: with the output in a file, when the agent itself has ended; with a stream, when
nobody holds the pipe any more, since there is no `WaitDelay` and no kill of the process group. What the agent leaves
behind works on, during the scoring too; `killOrphanLoopBashes` (line 991) comes after it, in a pod only and for some.

*Abstractions.* What a step checks is not modelled, only whether it passes. A build or test of the image that fails, and
a plan that is refused, leave the verdicts of the iteration before, as in the code. The prompts, notes, sandbox and report are left out.

### How `CheckBed` corresponds to the code

`Sequence(b, o)` is the list of steps `runCheckBed` takes for a bed of a kind at a check level with its options, built
the way the function is: `Build`, `Deploy`, `Peers` (`bringUpMembers`), `CheckLive`, `Feature`, `Rebuild`, `Cleanup`.
A run takes the lock of the bed (`Lock`), claims its resources (`Acquire`) and then its steps one by one: `Passes`,
`Clear`, `Create`, `DeployRoot`, `Child`, `Peer`, `CheckPasses`, `RebuildBegins`, `Update`, `CleanupRoot`, or `StepFails`
and `PeerFails`; then `Summary`, `Release`, `Unlock`. `Kill` ends it anywhere; what it has up stays.

`up` and `kids` say of each target and nested deployment which run brought it up, and whether before or after the
rebuild. `mine` and `seen` are history: what a run has up, and what was up when its last check passed. Every step is
one `charly` command and one action; what happens inside is in the other modules.

### How `Build` corresponds to the code

`project` is what the boxes depend on: base, bootstrap builder, format builders, and whether a box needs one.
`DirectDeps`, `TopoSort`, `TopoLevels`, `CycleError` and `Filter` are `boxDirectDeps`, `topoSort`, `topoLevels`, their
cycle error and `filterBox`. `staged` are the versions with a directory under `.build/_candy`, `lock` the flock of
each image, `images` what is in local storage, at which version.

| Code | Actions |
|---|---|
| `createRemoteCandyCopies`, `installDirAtomic` | `Start`, `Exchange`, `Rename` |
| `buildImages` | `Order`, `NextLevel`, `Take`, `Fails`, `Finish` (with `pruneBuildCandyDirs`) |
| `buildImage` under `acquireImageBuildLock` | `BuildBegins`, `BuildEnds` |
| a kill | `Kill`: the kernel drops its flocks |

*Abstractions.* A version stands for all a process takes from its configuration, and an image is there at a version.
`topoSort` and `topoLevels` are loops over counters in the code and recursive functions here; `needed` of
`filterBox`, a worklist in the code, is the least set closed under dependencies. Left out: push and merge, image
retention, the privileged nested build of a missing bootstrap builder, the order of candies. A kill leaves a
`.name.tmp.*` directory that pruning skips; nothing reads it.

### How `Credentials` corresponds to the code

*State.* `setting` is the configured `secret_backend` and what a locked keyring does to a probe; `ring` the keyring
service (open, locked, absent), `stored` its items, `file` the plaintext credentials and the shadow index in
`config.yml`, `cipher` the passphrase each volume was initialised with, `mounted` the mounts. Passphrases are numbers,
`fresh` is the next new one, `known` are those the operator has typed.

| Code | Actions |
|---|---|
| `encPlanFor` of config, start, mount, unmount, passwd | `Plan`; `Ready` when nothing is left to do |
| `DefaultCredentialStore`, `KeyringStore.Probe` | `Select` |
| `resolveStoreChain`, `resolveEncPassphrase`, `resolveEncPassphraseForMount`, `ensureCandySecret` | `Get`, `Fallback`, `Prompt`; a missing one is generated and `Put` |
| `awaitUnlock`, `retryUnavailable` | `Again` |
| `Set`, `Delete` of both stores, `addKeyringIndex`, `SaveRuntimeConfig` | `Put`, `Load`, `Save` |
| `ConfigMigrateSecretsCmd` | `MigrateRead`, `MigrateProbe`, `MigrateNext`, `Put`.., `Save` |
| `ensureVolumes`, `mountVolumes`, `unmountVolumes`, `passwdVolumes` | `Exec`, a volume at a time |
| a kill; the keyring comes up, is locked, unlocked | `Crash`; `KeyringChanges` |

*Abstractions.* What a command found initialised and mounted is read once (`Plan`) and acted on later, as in the code.
`MaxTries` stands for the two minutes of `encMountDeadline`.

`Vault` is the abstract specification. The answer of a box is `Resolved(b)`, what a lookup would find with the keyring
open; `cipher`, `mounted` and `known` are the same in both. Of all that the commands do, `Vault` knows six things: a
box gets another answer (`Store`), which it may only when it has none or nothing is encrypted with it; the operator
types a passphrase; a volume is encrypted, gets a new passphrase, is mounted or unmounted. Selecting a store, looking
up, waiting, generating, the index and the migration of a value from one store to the other change nothing of it.
Left out of `Credentials`: import, export and list, the GPG files, podman
secrets, the backup copy of `config.yml`, a torn write of it, the check of the mounts before a container starts, a
timed-out `keyring.Set` that completes later, `settings reset` without a key (it clears the plaintext credentials).

## Runs

`tlc -config <cfg> <module>` in this directory. Bounds are the constants: the processes (one command each), the
number of kills, faults or changes, and the instance; the clocks of `Poll` and `CheckLoop` stop at `Horizon`. Nothing
else is bounded.

| Run | Instance and faults | Shows |
|---|---|---|
| `sharing` | four processes, two tokens, two pods that share, a VM that wants both; start, stop, check, restore; one kill | `NoStrandedHolder`, `ClaimKept`, `RestoreRespectsClaims`, and that `Arbiter` implements `ClaimTable` |
| `exclusive` | four processes, two VMs, two holders; failing stops and switches, wedges | `SoleUse`, `HoldersYield`, `RestoreAfterTeardown` |
| `world` | three processes, one GPU; all other faults, a reboot, an on-success holder | `TypeOK`, `LeaseExclusion`, `NoRewedge` |
| `progress` | three check runs on one GPU, wedges, fair | `ClaimMode`, `EveryCommandEnds`, `EveryHolderComesBack` |
| `ledger_sessions` | two deployments with one candy record, a third with a substrate, a member and a unit that was enabled before; four sessions and one child; all faults, one kill | `NoOrphan`, `StaysWhole` |
| `overlay_writers` | three processes, a pod, an ephemeral instance of it, a VM and an ephemeral bundle that names it; two ports, one of which may be pinned; all thirteen commands; one kill or unloadable file | `NoLostUpdate`, `AllocatedApart`, `NoStaleVm` |
| `ephemeral` | three commands of all seven and three timers' commands, three VMs that refer to one snapshot, one with its ephemeral block in the project only; one fault of four kinds | `SnapshotKept`, `NoLostCount`, `TtlEnds` |
| `poll` | unset bounds and a cap below the no-progress window, all four configurations, caps of callers 0 and 2, three scores, all probe times | `StallJust`, `FlapStalls`, `CapBound`, `Ends` |
| `check_loop` | three steps, two of them in a chain, a plateau of two, a watchdog of two ticks, every behaviour of the agent and of what it starts; output to a file or a stream; live, refused, image and dry | `OneScoring`, `IterationsBounded`, `BestReported`, `LiveEnds` |
| `bed` | two runs on four beds: a pod with a nested device and a peer, a VM with a nested pod and a nested local deployment, a group of a VM and a pod, a local deployment; levels build and noagent, with and without `--keep` and `--no-rebuild`; failures and kills anywhere | `NoWipe`, `PassIsTested` |
| `build` | two processes at one version on three boxes, every choice of bases, a bootstrap builder and a format builder, every request, two workers each, an older staged version, pruning to one; failures and kills | `OrderSound`, `DepsFirst`, `ColdOnce`, `CopyWhole` |
| `secrets` | two commands of all ten, each backend, both kinds of provider, two volumes of one box and a secret without volumes, one possibly encrypted before with a plaintext passphrase; one kill, two changes of the keyring | `Openable`, `GeneratedWhenMissing`, `TerminalJust`, `MountsEnd`, and that `Credentials` implements `Vault` |

*Why these bounds.* Three processes are the smallest number with a claimant, a competitor and a third that finds what
the two left; `sharing` and `exclusive` have four, so that a start, a stop and two competitors meet. The flocks of
`Overlay` and `Build` and the lock of a bed are between two; a third process in `Overlay` comes between a load and a
save of each. Three boxes give chains, cycles and a builder that is a base; three timers let two updates of the registry
meet while a third deployment stays. Deployments, steps and boxes with the same role are as many as are needed to tell
"mine" from "another's". Processes are symmetric where the run says so; runs with liveness use no symmetry. The types of
`InstallLedger`, `Overlay`, `Ephemeral`, `CheckBed`, `CheckLoop` and `Credentials` hold in the same instances (add
`INVARIANT TypeOK`).

*Deadlock* is checked except in `ledger_sessions` and `secrets`: there all processes may have ended with nothing left
to do, a `del` may hang on its own child (below), and a prompt waits for the operator.

`NoStrandedHolder` is the promise of the comment "the ledger is written BEFORE any holder is stopped"
(`arbiter.go`): from `owed`, which no code sees, to a lease on disk that lists the holder.
`ImplementsClaimTable` says more: a debt leaves the ledger only in a step in which its holder is up, a claim is
granted only when none clashes, and no holder goes down before the table answers for it. It is checked with a kill
between any two steps. `ImplementsVault` says more than `Openable` in the same way: not only that each volume opens, but
that the answer of a box, once there is one, stays while a volume of the box is encrypted, and that a migration, which
takes several steps for every value, is not noticed by any lookup.

*Fairness.* What is assumed, and no more:

* `Arbiter` (`progress`): `WF(Step(p))` for each process. The operating system runs every process, stops and starts
  return (`waitStoppedHost` and systemd bound them), and a process blocked in `flock` gets the lock. Weak fairness
  suffices since the number of commands is finite, so the flock cannot be taken for ever by others. None for the
  beginning of commands, kills or the world.
* `Ephemeral`: `WF(Step(p))`, and `WF(Fire(u))`: systemd runs an armed timer.
* `Poll`: `WF(Probe \/ Check \/ Pause)`: a probe returns by the deadline of its context, a pause runs off.
* `CheckLoop`: `WF` for the harness, the watchdog and the death of a killed agent, which is that of the process
  `exec.CommandContext` kills; `SF(WatchdogStops)`, since in the `select` of the watchdog the end of the context competes
  with its ticker and Go picks among the ready cases at random. None for the agent, nor for what it has started, which may
  run for ever and hold the pipe: `RunnerReturns` waits for it with a stream. Probes and scorings return. `LiveEnds` is
  therefore stated for a plan that can be scored and an agent that writes to a file.
* `Credentials`: `WF(Step(p))`; none for the operator's prompt, kills and the keyring.

### Disagreements between the code and its documentation

The instances below are not among the runs. Each fails with the named property, by what the code does; run them to see
the behaviour. Some are a configuration of the directory with a constant or the property changed, as the first column
says.

| Configuration | Property | What happens |
|---|---|---|
| `Arbiter_exclusive`, `Faults = {"linger"}` | `RestoreAfterTeardown` | `charly vm stop` requests an ACPI shutdown and releases the claim at once: the holders are started while the guest may still have the device. `vm destroy` waits. |
| `Arbiter_unlocked_reconcile` | `ClaimKept` | `charly preempt restore` (no claimant) reconciles without the flock: it loads the ledger, starts holders, and then overwrites a lease that was written meanwhile. |
| `Arbiter_stop_failure` | `NoStrandedHolder` | An exclusive acquire takes over what the shared leases owe, writes that, and cannot stop a holder: the new lease is dropped with the obligations in it, and a holder stopped long before stays down with no record. |
| `Arbiter_release_wedge` | `NoRewedge` | A driver switch that wedges during a release is reported and forgotten; no marker is written and the next claimant switches the wedged card. |
| `Arbiter_reacquire` | `ClaimKept` | A check run of a deployment that `charly start` holds a lease for re-acquires that lease and leaves its owner as it is (`arbiter.go:191-195`). When the run clears the bed, nothing keeps the lease alive, and the reconcile of any other command drops it. |
| `Arbiter_two_token_holder` | `RestoreRespectsClaims` | A lease records of a holder's tokens only those it contends for. A holder of two tokens that was stopped for one is started when that one is released, although the other is claimed by then. |
| `Arbiter_two_token_claim` | `HoldersYield` | `tokenHeldByShared` is true when any token of the claim is shared already: a shared claimant of two tokens then stops no holder of the other, though "the FIRST shared claim" is to preempt "any running preemptible holder". |
| `Arbiter_killed_release` | `HoldersYield` | `charly preempt restore <claimant>` while the claimant is up, killed when it has started a holder: the lease is still alive, and the next `charly start` re-acquires it and finds the holder up. |
| `InstallLedger_prior_enabled` | `RestoresPrior` | A packaged unit that was enabled before charly came is disabled after `bundle del`: its reverse operations are listed disable first, restore second, and replayed backwards. |
| `InstallLedger_member_del` | `EveryDelEnds` | `bundle del` of a deployment with a kind:local member takes the flock and waits for the member's `bundle del`, which waits for the flock. |
| `InstallLedger_overlap` | `StaysWhole` | `bundle add` takes no flock: a re-apply that overlaps the del of its deployment records what the del has just removed. |
| `Overlay_config` | `NoLostUpdate` | `charly config` saves three times what it loaded earlier, without the lock: an entry a locked writer saved meanwhile is lost. |
| `Overlay_config`, `Commands = {"add", "save"}`, `Ephemerals = {pod}` | `NoLostUpdate` | `bundle add` of an ephemeral deployment loads the overlay and saves it with the record of the timer, without the lock (`ephemeral_lifecycle.go:306-333`): an entry a locked writer saved in between is lost. The add and the del of a VM do the same (the keys and maps of `Overlay_writers`, `Commands = {"vm add", "save"}` or `{"vm del", "save"}`, `Ephemerals = {vm}`). |
| `Overlay_writers` | `ImportKeepsProvides` | A plain `bundle import` drops what every deployment provides to others; its help has it that only `--replace` replaces "instead of merging with existing" (`bundle_cmd.go:123`). |
| `Overlay_vm_port` | `SshPortRecorded` | With `ssh.port_auto` an add that boots its VM resolves the port twice (`vm_deploy_lifecycle.go:174` and in `vm create`) and records the first at the end; "every later read reuses THIS exact port" (`vm_create_spec.go:120`) fails. |
| `Overlay_vm_race` | `NoStaleVm` | Two `vm create` with `ssh.port_auto` at once may choose the same free port (`vm_create_spec.go:113-136`): the second domain does not boot, and the ssh port its command recorded stays in the overlay without a domain. |
| `Ephemeral_killed_add` | `EphemeralEnds` | An add that fails or is killed before its deploy record leaves an armed timer whose `bundle del` finds nothing to delete; "even if the caller crashes mid-provisioning, the timer fires" (`ephemeral_lifecycle.go:22`). |
| `Ephemeral_sessions` | `OwnReferenceKept` | "Refcount tracks active clones / ephemerals" (`vm_snapshot.go:75`), not whose they are: a deployment added before its snapshot existed takes no reference, and its del, or its timer, gives back that of another one. |
| `Ephemeral_sessions`, `Overlapping = TRUE` | `SnapshotKept`, `NoLostCount` | The registry has no lock: an add beside another command on the registry loses its reference, and `vm snapshot delete` beside an add removes a snapshot in use. |
| `CheckLoop_plateau` | `WatchedEnds` | The watchdog does not bound every live run, though it and the timeout "both bound the run" (`check_loop.go:678-682`). With stream-json a child of the killed agent that holds the pipe keeps `cmd.Run` from returning; the orphans are killed only afterwards (line 991). With a plan that is refused every probe errs and no tick counts. |
| `CheckBed_shared_vm` | `NoWipe` | `check-k3s-vm` and a member of `check-k8s-deploy` are the same libvirt domain, and the lock is per bed: one run tears down the live VM of the other. The comment at `check_bed_run.go:281` says the lock rules that out. |
| `CheckBed_runs`, `Members <- VmPeers` | `PassIsTested` | A killed run leaves a pod peer of a VM bed up. The next run destroys the domain and does not clear the peers (`check_bed_run.go:541-594`), and bringing up a pod that runs leaves it as it is: the checks pass on the old one, though the comment at 633 has it that sibling peers "left over from a previous interrupted run" are cleared. |
| `CheckBed_runs` | `SummaryHonest` | When a member cannot be brought up, the command fails but the summary it writes keeps `OK`, and the claim is released as after a success. |
| `Build_processes`, `Ver <- TwoVersions` | `CopyWhole` | A build that ends prunes the staged directories without looking for other builds: one that resolved an older version copies from a directory that is gone. "A concurrent reader always sees a COMPLETE artifact" holds for replacement, not for pruning. |
| `Credentials_locked` | `GeneratedWhenMissing` | `ensureCandySecret` and `resolveEncPassphrase` do not tell a locked keyring from a missing credential: a second one is generated (`layer_secrets.go:15` says "when missing everywhere"). |
| `Credentials_locked`, `Menu <- Mounting`, `Faults = {"vanish"}` | `TerminalJust` | A keyring service that goes away between the probe and the lookup reads as "not stored": a mount under systemd fails for good although the credential is there. |
| `Credentials_locked`, `Menu <- Migrations`, `Faults = {}` | `MigratedListed` | `migrate` saves the copy of `config.yml` it read first, after `keyring.Set` wrote the index: the index is lost, and `charly secrets list`, to which the command refers, shows nothing. |
| `Credentials_move_fails` | `Openable` | A value the keyring refuses is skipped by `migrate`, which then clears all plaintext entries: the passphrase of a volume is gone. |
| `Credentials_overlap` | `Openable` | Two set-ups of one box at the same time both find no passphrase and generate one each; the one stored last need not be the one the volume was encrypted with. |

Others came up in reading and have no configuration. `charly config -p` of a pin is invisible to the other deployments
until the next `config`. What a base provides to others stays when the base is removed before its instance, and always
with `reset`. A second `add` arms a second timer and leaks the first, and takes a second reference of which its del gives
back one; `vm destroy` clears the entry and leaves timer and reference. `BuildClone` has no caller; it takes its
reference by another key than the add of the deployment (`vm_clone.go:76`, `ephemeral_lifecycle.go:135`), and nothing
gives that one back. The teardown of an ephemeral pod never runs. The AI loop runs under `context.Background()`, so
"interrupted" never comes, and the best score in its prompt is always 0. The check that a scored step has a venue
(`RequirePod`, `step_validate.go:57`) is never asked for, though `check_runner_live.go` relies on it. A scored step that
depends on an unscored one is always skipped. With the auto backend and a blocking keyring a mount waits two minutes and
not for ever (`enc.go:241`). `passwd` changes the volumes and not the store.

### Properties checked with fewer faults than the code may meet

`SoleUse`, `HoldersYield`, `RestoreAfterTeardown`, `ClaimMode` are checked without kills (the second and the last are
proved with kills where nobody runs `charly start`, the third where nobody runs `charly check`), `NoStrandedHolder` without
failing seams, because the code does not have them otherwise; the hazards in `PROJECT.json` say at which lines. In
short: a lease survives a kill between `saveLedger` and its effects and a re-acquire does not redo them; a release
that could not start a holder keeps the lease with other holders already started; a bed left up after a failure, or
by a killed orchestrator, does not keep its holders down; a holder of two tokens is recorded with the contended one
only. `SoleUse` is checked without shared claims: an exclusive acquire that evicts a
shared claimant still in its bring-up does not stop it, as it does not run yet, and its pod comes up afterwards. An
evicted shared pod is never started again; that is intended (`sharedPodStops` is not in the lease).

The same holds elsewhere, each time for a reason shown by a configuration of the table above or named here.
`overlay_writers` keeps the commands that save without the flock, adds and dels of ephemeral deployments among them, apart
from all others (`Overlay_config`) and runs the commands on VMs one at a time (`Overlay_vm_race`), and no file is
repaired in the middle of an unlocked command: the save would pass with the empty config the degraded read gave.
`NoLostUpdate` lets a plain import drop what others provide, as the code does (`ImportKeepsProvides`). `ephemeral` overlaps
`bundle del` sessions only, and `SnapshotKept` asks that every deployment that will give a reference back has found the
snapshot (`OwnReferenceKept`). `bed` gives every bed targets of its own, the members
of a domain's bed are domains (with pods among them, `Members <- VmPeers`, it fails), and `PassIsTested` excepts a run that
could not clear what an earlier one left (`left`): the pods of a group would be checked as they were.
`build` resolves one version in both processes. `secrets` has the keyring open while a command stores, no two such
commands at a time, and stores or deletes a passphrase only before a volume is encrypted with it.

### What `NoOrphan` and `StaysWhole` promise, and what they leave out

`NoOrphan` says that everything charly put on a venue is reached by some `bundle del`, through the deploy record, the
candy record it names and an operation there. Four sessions are enough for add, re-apply, del and a competing del on
one record; three deployments for a shared record beside one with a substrate. The exceptions, which are in the formula and are weaknesses of the
code a reader should know:

* what an add has put there and not yet recorded, or will never record because it failed or was killed (`stray`);
* what `--keep-services` keeps, and what a reverse operation failed to undo: the records go all the same (`stray`);
* a record that names a deployment without a deploy record, written by an add that was killed between its two writes:
  the del of that deployment finds nothing to do, and no other del undoes what the record has (`HalfRecorded`);
* a substrate between the removal of the deploy record and the end of `PostTeardown`: if that fails, or the process is
  killed there, a second `bundle del` finds no record and succeeds without doing anything (`stray`).

`StaysWhole` is the reference count seen from outside: until its own `bundle del` begins, what a deployment was recorded
with is on the venue. It counts per record, and holds where every file belongs to one record, as in the instance; the
in-tree plugins answer the deployment name as the candy, so a file of two deployments has two records and the first del
removes it (a hazard no run covers).

`Overlapping = FALSE` keeps an add from overlapping another session on its record. `bundle add` takes no lock, so
nothing in the code keeps it: `InstallLedger_overlap` shows what follows, and `NoOrphan` fails with `TRUE` as well (a del
forgets a record while an add puts back what it undid). A wrong "was enabled before", which a re-apply records when charly itself enabled the unit, does no harm
only because of the order that `InstallLedger_prior_enabled` shows: the disable runs last. The two must be mended together.

## Proofs

What is proved holds for every value of the constants that the module's assumption admits: any number of processes,
deployments, boxes, steps, beds, any bounds, any faults.

**`ArbiterProofs`**, from `ArbiterAssumption` (Requires and Holds are sets of tokens, no deployment holds what it
requires, the bounds are numbers) and `LeaseAssumption` (`NoLease` is no lease). The first two theorems have no other
hypothesis. Those of the others are listed below with the configuration that fails without them.

* `TypeCorrect`: `Spec => []TypeOK`. Inductive with one more conjunct, `Releasing`: a process that restores holders
  does so for a lease its in-memory ledger has; without it `Attach` could be applied to `NoLease`. One lemma per
  action.
* `Exclusion`: `Spec => []LeaseExclusion`. `Compatible(ledger)` alone is not inductive, since the ledger is overwritten
  from memory. The invariant `ExclusionInv` adds that every process's in-memory ledger is compatible. Every step
  either copies such a ledger, removes leases from it (`Without`, `Attach` keep compatibility), or adds one lease
  after the refusals. The argument never uses the lock: even the unlocked reconcile can lose a lease but cannot put
  two exclusive ones of a token in the file.
* `ClaimIsKept`: `Spec => []ClaimKept`. The books (`Books`) come first. Who is in a locked section has the flock, and no
  two commands under way are on one deployment (`LockInv`). A lease belongs to a command on its claimant (`OwnerInv`).
  The copy of the ledger in the hands of the process with the flock is the file, less the leases it has dropped, plus
  the one it adds (`CopyInv`). Then `KeptInv`: the lease of a process past its acquire stays alive as long as it goes
  on (`Held`), and nobody who trims the ledger has left it out of his copy (`Spares`), because it was alive when he
  looked.
* `RestoresRespectClaims`: `Spec => RestoreRespectsClaims`, an action property. A process in a release has on its list
  only holders that `ToRestore` gave it for the lease it releases, and the leases it has dropped are still dead
  (`TodoInv`); so a live lease of another claimant is in its copy and withholds the holder.
* `NobodyStranded`: `Spec => []NoStrandedHolder`, through every kill, reboot and wedge. What is owed is listed on disk,
  and each process with the flock answers for what is owed: its copy lists it, or it is about to start it
  (`StrandInv`).
* `ImplementsTable`: `Spec => ImplementsClaimTable`. Every step is one of the table or none; those that take leases
  off the file need `PayInv`: a holder the copy no longer lists is up.
* `ModeIsKept`, `HoldersStayDown`: `Spec => []ClaimMode` and `Spec => []HoldersYield`. Neither holds for every lease on
  disk: an acquire writes its lease before it stops and switches, and a killed one leaves it half done. The
  invariants (`ModeInv`, `YieldInv`) are about *settled* leases, which are alive and have no process at work on them
  (`Busy`). A lease becomes settled only when its own acquire ends, and a process that uses its claim has a settled
  one. What a release hands on was stopped for tokens the heir claims (`FitInv`).
* `RestoresAfterTeardown`: `Spec => RestoreAfterTeardown`, an action property. A claimant that is up under a transient
  lease has its check run (`BedInv`), and a process that releases or undoes a lease it has acquired comes from where the
  claimant was taken down or never started (`DownInv`). A reconcile releases dead leases only: a transient one by
  `BedInv`, a persistent one by what dead means.
* `UseIsSole`: `Spec => []SoleUse`, from the invariants of `HoldersStayDown` and `DownInv`. No claimant is up without
  its lease (`RunInv`), so two that overlap would be two leases that `Exclusion` forbids; and an acquire begins with its
  deployment down and its rollback starts holders only (`Grounded`), so undoing it brings up no claimant.
* `WedgeIsFinal`: `Spec => []NoRewedge`. A wedged token is *shunned* (`WedgeInv`): it is wedged once and poisoned, a
  lease on it is one being rolled back, and nobody is about to switch it. That a switch is ever made only where it
  is needed is the other half, proved in two ways. Without reboots, every lease on disk nobody is at work on has its
  tokens in the mode it needs, alive or not (`DriverInv`). A reboot may leave the lease of an acquire that had not yet
  switched, so that holds no more; then a process on its way to a grant has found the leases it has gone through in the
  right mode (`SweptInv`), since it drops the dead ones and the settled ones of `ModeIsKept` are.

| Hypothesis | Theorems | Why |
|---|---|---|
| `NoReconcile`: no `charly preempt restore` without a claimant | all of them | it reconciles outside the flock (`Arbiter_unlocked_reconcile`) |
| `Claimants`: commands run on deployments that require a token and hold none | all but `NobodyStranded` | a command on a holder starts and stops it by hand; one on a deployment without tokens takes no claim |
| `OneKind`: no deployment has both check runs and `charly start` | all but `NobodyStranded` and `ImplementsTable`; `WedgeIsFinal` only with reboots | `Arbiter_reacquire` |
| `Steady`: no deployment goes down by itself, a holder that is started comes up | the same | a persistent lease dies with its claimant, and a release whose restore failed keeps a lease of which it has started holders already |
| `SingleHold`: a holder has one token | `RestoresRespectClaims`, `HoldersStayDown`, `UseIsSole` | `Arbiter_two_token_holder` |
| `OneShare`: a shared claimant requires one token | `HoldersStayDown` | `Arbiter_two_token_claim` |
| `Killed`: no kills, or no `charly start` | `ModeIsKept`, `HoldersStayDown` | `Arbiter_killed_release` |
| no `recover` in `Faults` | `ModeIsKept`, `WedgeIsFinal` | the operator rebinds a driver under a claim, and a later switch is then one more than the claims need |
| no `opstart` in `Faults` | `HoldersStayDown`, `UseIsSole` | the operator starts a holder under a claim |
| `TornDown`: no `halt`, `linger`, `bedfail` or `keep` in `Faults` | `RestoresAfterTeardown`, `UseIsSole` | a stop that leaves the claimant up, or a bed that is left up; `linger` is what an ACPI shutdown does |
| `Unkilled`: no kills, or no check runs | `RestoresAfterTeardown` | a killed check run leaves its bed up under a lease that is dead |
| `Handed`: nobody runs `charly preempt restore` for a deployment of `charly start` | `RestoresAfterTeardown`, `UseIsSole` | that command releases the claim of a claimant that is up |
| `Exclusive`: no shared claims; `PlainHolders`: what holds a token requires none | `UseIsSole` | a shared pod an exclusive claim has dropped is started again without a lease when that claim is undone |
| no kills | `UseIsSole`, `WedgeIsFinal` | a killed acquire leaves holders up, or cards unswitched, under its lease |
| no `unwedge` in `Faults` | `WedgeIsFinal` | `Arbiter_release_wedge` |
| `Orderly`: holders restore always, rollbacks succeed, no stop ends late, and none fails when claims are shared | `NobodyStranded`, `ImplementsTable` | `Arbiter_stop_failure`; `restore: on-success` is meant to leave a holder down |
| `Tabled`: `Orderly`, no reboots, nothing goes down by itself | `ImplementsTable` | the table has no step for these |

Every hypothesis is on the constants. The run `sharing` satisfies those of the first four theorems with hypotheses,
`progress` those of `ModeIsKept` and `WedgeIsFinal`, `exclusive` those of `HoldersStayDown`, `RestoresAfterTeardown`,
`UseIsSole` and `WedgeIsFinal`: so each theorem states for every instance what a run shows on one, and most of them
more (`sharing` has one kill and no failing seam, `NobodyStranded` any number of both). The run `world` checks
`NoRewedge` on one GPU with all that `WedgeIsFinal` rules out but kills and a wedge in a release; with more shared
claimants of it, `recover` does break the property.

**`CheckLoopProofs`**, from `CheckLoopAssumption`.

* `TypeCorrect`, `ScoredAlone`: the invariant says where the agent and the watchdog may still run for each `pc`
  (`Going`, `Quiet`, `Dry`).
* `Bounded`: an iteration either raises the best score and resets the plateau counter, or raises the counter, which
  stays below the plateau: `Len(scores)` is at most `Plateau * best.score + plateau` (`Booked`).
* `BestIsBest`: the reported score and iteration, and that `plateau` is a plateau (`Marks`, `Exited`).

**`CheckBedProofs`**, from `CheckBedAssumption`; all but the first for `Apart`: no two beds own the same target.

* `StepsStay`: every step of a run is on the root, the members or the children of its bed, for every kind, level and
  option. `Sequence` is built with `FlattenSeq`, a recursive function; that it exists, and that its result has only
  elements of its arguments, is proved by induction.
* `TypeCorrect`, `NeverWiped`: `Apart` implies `Spec => []NoWipe`. A run works on its bed only, holds its lock as long
  as it works (`Locked`), no two runs hold one lock, so nobody else takes down what it has brought up (`Brought`).
  `Apart` is needed: `CheckBed_shared_vm` is a repository bed that violates it.
* `PassesAreTested`: `Apart /\ Regular` implies `Spec => []PassIsTested`. `Regular`: the root of a bed is not among its
  members (`foldMembers` refuses a duplicate name), a VM bed and its members are domains (`Members <- VmPeers` shows
  what follows otherwise), and children belong to one deployment. The argument is a program logic in the small. What a run
  does depends only on its steps and on the part of the host its bed owns (`View`), and no other run alters that part.
  A sequence of steps *leads* from one set of views to another when all its steps, if none fails, take it there. This is
  said without recursion: the view is in a set of pairs of remaining steps and view that is closed under the steps
  (`Wins`), and whatever can be reached from the second set can be reached from the first (`Leads`). The sequence of a
  run is put together from bring-up, nested children, checks and rebuild, with one lemma for each part and the laws for joining
  and for repeating over members. `SequenceLeads`: from *any* view, since the run before may have been killed anywhere,
  the sequence of a level with runtime acceptance leads to the goal that `PassIsTested` asks for. The invariant,
  `Promise`, is that what is left of a run that has not failed still leads there.

**`CheckBedProofs`**, second part, about `Poll`, from `PollAssumption` (the bounds are numbers, the compiled-in ones are positive).

* `ConfigsValid`: whatever readiness is configured, the four builders make configurations `validate` accepts.
* `PollTypeCorrect`, `CapBounded`: a poll with a cap is over one interval and one attempt after it. A probe begins only
  below the cap plus one interval, a pause only below the cap.
* `StallIsJust`, `FlapsStall`: the high-water mark is that of all observations, and `last` is the time of the last
  advance (or the start): so a poll ends for a stall if and only if nothing has advanced for the whole window. The
  invariant relates `best` and `last`, which the code keeps, to `obs`, which it does not.

**`OverlayProofs`**, from `OverlayAssumption`; all but the first for any `Overlap` without "unlocked" and "repair", and
the last without "vm" and "vms" as well.

* `TypeCorrect`: `Spec => []TypeOK`, with where each command can be (`WellFormed`).
* `WritesKept`: `Spec => NoLostUpdate`. Three things make it inductive (`WriteInv`): a command that saves without the
  flock is alone, whoever is between a load and a save under the flock holds it, and what a process has in memory when
  it is about to save is what the file says (`Current`), the save of an ephemeral record included. Then each save is
  one `Record`, `Clean` or `ForgetVm` of the file itself, and lemmas say which entries these alter, that they keep the
  facts of the others, and which provides they drop (`Fine`). `VmStep`s need no condition: they save under the flock only.
* `PortsApart`: `Spec => []AllocatedApart`. Only `ConfigPorts` allocates, against the file (`Current` again), a port that
  is not in `OccupiedHostPorts`; every other save leaves ports and pins or removes the entry (`Allots`).
* `NothingStale`: `Spec => []NoStaleVm`. At most one command is on a VM, and while nothing was broken off or spoilt the
  file loads and is tidy: an ssh port is there only with its domain or for the command that is on it, which will
  boot the domain or remove the entry (`VmsInv`).

The conditions are needed: without the first `Overlay_config` violates `NoLostUpdate`, without the second a config that
was read as empty would be saved, and without the last `Overlay_vm_race` violates `NoStaleVm`.

**`EphemeralProofs`**, from `EphemeralAssumption` and `NoneAssumption` (`None` is no command and no entry), for
`Overlapping = FALSE`: an add, a destroy or a snapshot command has the project to itself, `bundle del` sessions, the
operator's or of any number of timers, overlap.

* `TypeCorrect`: `Spec => []TypeOK`, with where a process of each command can be (`Routed`).
* `CountsKept`: `Spec => []NoLostCount`. The registry has no lock, but at most one process is at work: a command other
  than `bundle del` is alone (`Sole`), and a `bundle del` past its first step holds the flock. So what a process has read
  of the registry still holds when it saves (`Knows`, `Saves`), and each save alters the count of one snapshot.
* `SnapshotsKept`: `Spec => []SnapshotKept`. The count of a snapshot that all who refer to it found is at least the
  number of recorded deployments whose `bundle del` gives a reference back (`Need`, `Sound`), and one more while the
  process at work has one that is not a recorded deployment's (`Owing`, `Covered`): an add before its record is there, a
  del after the record is gone. References can be left over, by an add that failed or was killed, by a re-add and by a
  deployment whose block is in the project only, but never too few: `ReadRecord` lets one del alone go on for a record.
  `delete` has read a count of zero that still holds when the snapshot goes (`Knows`), so nobody needs it (`Unneeded`);
  `delete --force` makes all its deployments `missed`. An external snapshot has its disk (`Backed`), since `promote` and
  `create` make the disk before they save the word.

The condition is needed: with `Overlapping = TRUE` two commands that load the registry before either saves violate both.

**`InstallLedgerProofs`**, from `LedgerAssumption`; the last two for `Overlapping = FALSE` and `Uniform`: all plans behind
a candy record leave the same, no two records have a file in common, an env.d file is among the record's own, and members
have no members. The instance of `ledger_sessions` satisfies it.

* `TypeCorrect`: `Spec => []TypeOK`. Not inductive alone, since `DropRef` reads the candy record the deploy record names:
  `Held` adds that a teardown past the lock has it, and that from `candy` to `drop` its deployment is recorded.
* `NothingOrphaned`: `Spec => []NoOrphan`, and `DeployStaysWhole`: `Spec => []StaysWhole`, from one invariant, `Safe`. A
  candy record undoes exactly what is its own (`RecordSound`); a recorded deployment is on the venue and named by its
  record (`DeploySound`); an add has collected the undo of all it did, and the record it read is still the one on disk
  (`Adding`); while a teardown runs the operations no deployment counts on the record, and what is left is still to be
  undone or was reported (`Removing`); and everything on a venue is there from the start, stray, a record's own or a
  recorded substrate (`Found`). A step changes one record, one deployment and what is theirs (`Local`). Others are not
  disturbed, since an add works apart from all sessions (`Apart`) and teardowns exclude each other by the flock. The order
  of the replay matters: in a record a restore stands behind the disable of its unit (`Listed`), so backwards before it
  (`Backed`), and a unit that a restore switches on is switched off by an operation still to come.

**`CredentialsProofs`**, from `CredentialsAssumption`, for any boxes, volumes, backends, commands and number of
processes, kills and changes of the keyring.

* `TypeCorrect`: `Spec => []TypeOK`, with no other hypothesis. The type bounds the passphrases by the number of
  processes, so it needs to know that a process draws at most one: those that still can are counted (`Counted`). A
  mounted volume is an initialised one because what a command has read of a volume stays so (`Firm`: a cipher is never
  taken away).
* `TerminalJustified`: `Apart` and `Steady` imply `Spec => TerminalJust`, through any locking and unlocking. What a
  command knew of its credential when it began is still so where it will look (`Awaited`): no command that takes a
  credential away runs beside a mount, and a keyring that was there when it was probed is there at the lookup.
* `GeneratesWhenMissing`: `Apart` and `Attended` imply `Spec => GeneratedWhenMissing`. A command that writes has the
  store that is configured, not the one a failed probe falls back to (`Near`), and what it has found, or missed, in one
  store while it asks the other is still so (`Chosen`).
* `StaysOpenable`: `Apart`, `Attended`, `Willing` and `Placed` imply `Spec => []Openable`. `Openable` speaks of the two
  stores together and every command writes one of them at a time. Three facts carry it. With a keyring, plaintext is
  what is left from before it, belongs to an encrypted volume, and the keyring holds the same or nothing (`Left`), so a
  value that appears in the keyring never hides another one. A migration has each plaintext value either still to move
  or in the keyring when it clears `config.yml` (`Moving`). And what a command is about to encrypt with is what
  a lookup answers at that moment, or was typed by the operator (`Sound`), not only when it was read, through a prompt, a
  wait or a kill in between.
* `KeepsTheVault`: under the same hypotheses `Spec => ImplementsVault`. Every step is one of the vault or none. A step
  that writes a store changes the answer of the box it writes and, in a migration, of none (`OtherAnswers`, `StoreMaps`);
  a step on a volume is an `Encrypt`, `Rekey`, `Mount` or `Unmount` whose guard follows from `Sound`, `Firm` and
  `Openable` (`ExecMaps`); all others leave the vault as it is but for what the operator types (`StillMaps`).
* `VaultOpens`: `ImplementsVault => []Openable`, with no hypothesis: the vault promises what matters.

| Hypothesis | Theorems | Why |
|---|---|---|
| `Apart`: commands that change credentials do not overlap | all but `TypeCorrect` | `Credentials_overlap`; two set-ups generate twice, and a migration that stores and clears between the two lookups of a mount makes it miss |
| `Steady`: the keyring service does not vanish | `TerminalJustified` | `Credentials_locked` with `Menu <- Mounting`, `Faults = {"vanish"}` |
| `Attended`: the keyring is open while a command changes a credential | `GeneratesWhenMissing`, `StaysOpenable`, `KeepsTheVault` | `Credentials_locked`; the second value then hides the first |
| `Willing`: the keyring takes the values | `StaysOpenable`, `KeepsTheVault` | `Credentials_move_fails` |
| `Placed`: no `migrate` under the config-file backend | `StaysOpenable`, `KeepsTheVault` | it moves the credentials into a keyring that is then not read (`Credentials_move_fails` with `Menu <- Migrations`, `Faults = {}`) |

Every hypothesis is on the constants; the run `secrets` satisfies them all, and without any one of them TLC finds the
property violated in its instance. `TerminalJustified` allows a keyring that is locked while credentials are changed, which
`secrets` does not have.

**`BuildProofs`**, from `BuildAssumption`; the first two assume no order of the boxes.

* `ColdBuilds`: a process that builds an image has its lock (`LockInv`).
* `CopiesStay`: if pruning is off, or fewer than `Keep` versions in play are newer than a process's own (`Recent`),
  the directory it copies from is there whatever others replace, prune or leave when killed.
* `SortInOrder`, `LevelsAreInOrder`: what `topoSort` and `topoLevels` return has every box behind all its dependencies,
  for any boxes and dependencies. Both are loops that stop when no box is free; lemmas `LoopExists` and `LoopKeeps` say
  that such a loop, written as a recursive function, exists when a measure (the boxes left to place) goes down, and
  keeps what each of its turns keeps.
* `PlanSound`: what `filterBox` leaves of the order for a request has every box behind all it is built from.
* `OrdersSound`: `Spec => []OrderSound`: the two orders fail just if some box is behind itself, and otherwise place every
  box once and behind all that is behind it. `Behind` is the least set closed under `Used`, so what stands in an order is
  followed there by all it is behind, and no box that is behind itself can stand in one. When a loop stops early, none
  of the boxes left is free, so each uses another one of them; a smallest nonempty set with that property has a box
  behind itself.
* `DepsBuilt`: `Spec => []DepsFirst`. For every process that no build of which has failed, what a box of the plan is
  built from has an image, is being built in this level, or is in an earlier level of what is left (`Later`).

The library's induction theorems take an operator as a parameter, which the installed provers do not instantiate. The
inductions over data here are made with sets instead: the set of counterexamples, if not empty, has a least element
(`Least`, from `WFMin` and the well-foundedness of `<` on the naturals).

Every invariant and every action property of the runs is thus stated by a theorem, under the hypotheses its section
gives. Only model-checked is liveness, which is beyond the prover: `EveryCommandEnds`, `EveryHolderComesBack`, `TtlEnds`,
`Ends`, `LiveEnds` and `MountsEnd`; and the properties of the configurations that fail.

## Plan

Done: the modules above. What would come next, in this order:

1. An abstract specification of `InstallLedger`: a file is on the venue while a deployment that wants it is recorded.
2. Nested deployment trees and the venue's own provenance ledger; `intermediates.go` against a definition of which
   boxes share a prefix of candies.

## Not modelled

The generation of Containerfiles, quadlets, cloud-init and manifests, the loading, migration and validation of
configuration, the verbs of a check plan, the calls to podman, libvirt, systemd, kubectl and adb, and plugin
transport: they keep no state that several processes share, are text in and text out or a call to another program, and
are covered by golden tests. They are most of the repository's lines, so the map of `PROJECT.json` covers a small share
of it: the lines that read or write shared state are few. Intermediate images and effective versions are pure functions
of the configuration and wait for 2. The provenance ledger in a guest, nested trees, dry runs and `--verify` of
`bundle add`, image retention and pushing, the GPG secret files and podman secrets are left out of the modules that
model their neighbours; each module's section says so. A run of a bed that is killed leaves the subcommand it was
waiting for alive for a while; that overlap is not modelled.
