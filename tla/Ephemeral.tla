------------------------------ MODULE Ephemeral ------------------------------
(***************************************************************************)
(* Ephemeral VM deployments and the snapshots they refer to:               *)
(* charly/ephemeral_lifecycle.go, the VM part of `charly bundle add` and   *)
(* `charly bundle del`, and charly/vmshared/vm_snapshot.go.                *)
(*                                                                         *)
(* `bundle add` of an ephemeral deployment first arms a systemd timer that *)
(* runs `bundle del` when the TTL has passed.  The snapshot registry of a  *)
(* VM counts the ephemeral deployments that need a snapshot; it is read,   *)
(* changed and written without a lock, in two steps here.                  *)
(***************************************************************************)
EXTENDS Naturals, FiniteSets

CONSTANTS
  Procs,       \* the commands the operator starts
  Agents,      \* the `bundle del` commands the timers start
  AgentOf,     \* [Procs -> Agents]  of the timer a command arms
  Deploys,     \* ephemeral VM deployments
  Snaps,       \* snapshots of one VM
  From,        \* [Deploys -> Snaps]  from and from_snapshot
  Marked,      \* the deployments whose ephemeral block is in the per-host overlay
  Commands,    \* what the operator does, a subset of AllCommands
  Overlapping, \* may an add, a destroy or a snapshot command overlap other commands?
  Faults,      \* what may go wrong, a subset of AllFaults
  MaxFaults,   \* bound: how often
  None         \* no snapshot, no deployment, no unit, nobody

\* "force" is `charly vm snapshot delete --force`.
SnapshotCommands == {"create", "promote", "delete", "force"}
AllCommands == {"add", "del", "destroy"} \cup SnapshotCommands
AllFaults   == {"systemd", "boot", "walk", "kill"}
AllProcs    == Procs \cup Agents

ASSUME EphemeralAssumption ==
  /\ Procs \cap Agents = {}
  /\ AgentOf \in [Procs -> Agents]
  /\ From \in [Deploys -> Snaps]
  /\ Marked \subseteq Deploys
  /\ Commands \subseteq AllCommands
  /\ Overlapping \in BOOLEAN
  /\ Faults \subseteq AllFaults
  /\ MaxFaults \in Nat
  /\ None \notin AllProcs \cup Deploys \cup Snaps

VARIABLES
  registry,  \* registry.json: what it says of each snapshot
  disks,     \* the snapshots that have a disk of their own
  runtime,   \* vm_state.ephemeral of each overlay entry: the unit of its timer
  recorded,  \* the deployments that have a deploy record
  timers,    \* the armed timers, a unit is named for the process that armed it
  lock,      \* the process that has the install-ledger flock, or None
  pc, job,   \* where each process is, and its local state
  count,     \* history: references taken and not given back, of each snapshot
  missed,    \* history: the deployments whose snapshot was not there when they were added,
             \* or was deleted with --force
  faults     \* number of faults so far

snapshots == <<registry, disks, count, missed>>
overlay   == <<runtime, recorded>>
vars      == <<registry, disks, count, missed, runtime, recorded, timers, lock, pc, job, faults>>

SnapshotEntry == [mode : {"internal", "external"}, ref : Nat]
Runtime       == [unit : Procs \cup {None}]

\* None is no command, and nothing the registry or an overlay entry says.
ASSUME NoneAssumption == None \notin AllCommands \cup SnapshotEntry \cup Runtime

PCs == {"new", "timer", "ref", "unref", "save", "persist", "venue", "boot", "state", "walk",
        "record", "lock", "read", "post", "cancel", "clear", "forget", "look", "disk", "promote",
        "remove", "done"}

Job == [cmd : AllCommands \cup {None},
        dep : Deploys \cup {None},
        snap : Snaps \cup {None},
        reg : [Snaps -> SnapshotEntry \cup {None}] \cup {None},  \* registry.json in memory
        state : Runtime \cup {None},    \* the vm_state PrepareVenue or PostTeardown read
        delta : {"up", "down", "same", "none"},  \* what the registry in memory does to the count
        then : PCs]                     \* where the command goes on after a save

Idle == [cmd |-> None, dep |-> None, snap |-> None, reg |-> None, state |-> None,
         delta |-> "same", then |-> "done"]

\* Snapshots nobody refers to may be there.
Init ==
  /\ registry \in [Snaps -> [mode : {"internal", "external"}, ref : {0}] \cup {None}]
  /\ disks = {s \in Snaps : registry[s] # None /\ registry[s].mode = "external"}
  /\ runtime = [d \in Deploys |-> None]
  /\ recorded = {}
  /\ timers = [p \in Procs |-> None]
  /\ lock = None
  /\ pc = [p \in AllProcs |-> "new"]
  /\ job = [p \in AllProcs |-> Idle]
  /\ count = [s \in Snaps |-> 0]
  /\ missed = {}
  /\ faults = 0

-----------------------------------------------------------------------------
(* Sessions.                                                               *)

Active(p) == pc[p] \notin {"new", "done"}

Go(p, l, j) == pc' = [pc EXCEPT ![p] = l] /\ job' = [job EXCEPT ![p] = j]

Finish(p) ==
  /\ pc' = [pc EXCEPT ![p] = "done"]
  /\ job' = [job EXCEPT ![p] = Idle]
  /\ lock' = IF lock = p THEN None ELSE lock

\* A command runs alone unless it is a `bundle del` among others.
MayStart(c) ==
  Overlapping \/ \A q \in AllProcs : Active(q) => c = "del" /\ job[q].cmd = "del"

FirstPC(c) == CASE c = "add" -> "timer" [] c = "del" -> "lock" [] c = "destroy" -> "forget"
                [] OTHER -> "look"

Begin(p, c, d, s) ==
  /\ pc[p] = "new" /\ MayStart(c)
  /\ Go(p, FirstPC(c), [Idle EXCEPT !.cmd = c, !.dep = d, !.snap = s])
  /\ UNCHANGED <<snapshots, overlay, lock, faults>>

Start(p) ==
  /\ \/ \E c \in Commands \ SnapshotCommands, d \in Deploys : Begin(p, c, d, From[d])
     \/ \E c \in Commands \cap SnapshotCommands, s \in Snaps : Begin(p, c, None, s)
  /\ UNCHANGED timers

\* The TTL of a deployment passes: its timer runs `charly bundle del <name>`.
Fire(u) ==
  /\ timers[u] # None
  /\ timers' = [timers EXCEPT ![u] = None]
  /\ Begin(AgentOf[u], "del", timers[u], From[timers[u]])

-----------------------------------------------------------------------------
(* The snapshot registry.                                                  *)

\* An operation on the registry of a VM: load it, and after the change in memory ...
Load(p, reg, delta, then) ==
  Go(p, "save", [job[p] EXCEPT !.reg = reg, !.delta = delta, !.then = then])

\* ... write the whole registry.
SaveRegistry(p) ==
  LET j == job[p]
  IN  /\ pc[p] = "save"
      /\ registry' = j.reg
      /\ count' = [count EXCEPT ![j.snap] = CASE j.delta = "up" -> @ + 1
                                              [] j.delta = "down" -> @ - 1
                                              [] j.delta = "none" -> 0
                                              [] OTHER -> @]
      /\ IF j.then = "done" THEN Finish(p)
         ELSE Go(p, j.then, [j EXCEPT !.reg = None, !.delta = "same", !.then = "done"])
              /\ UNCHANGED lock
      /\ UNCHANGED <<disks, missed, overlay, timers, faults>>

\* IncrementSnapshotRefcount; the callers only warn when the snapshot does not exist.
Increment(p, then) ==
  LET s == job[p].snap
  IN  IF registry[s] = None THEN Go(p, then, job[p])
      ELSE Load(p, [registry EXCEPT ![s].ref = @ + 1], "up", then)

\* DecrementSnapshotRefcount: a snapshot that is gone is tolerated, the count stops at 0.
Decrement(p, then) ==
  LET s == job[p].snap
  IN  IF registry[s] = None THEN Go(p, then, job[p])
      ELSE IF registry[s].ref = 0 THEN Load(p, registry, "same", then)
      ELSE Load(p, [registry EXCEPT ![s].ref = @ - 1], "down", then)

\* What `charly vm snapshot create`, `promote` and `delete` do with a snapshot whose entry is e.
Verdict(c, e) ==
  CASE c = "create" /\ e = None -> "disk"
    [] c = "promote" /\ e # None /\ e.mode = "internal" -> "promote"
    [] c = "delete" /\ e # None /\ e.ref = 0 -> "remove"
    [] c = "force" /\ e # None -> "remove"
    [] OTHER -> "done"

\* They look the snapshot up ...
Look(p) ==
  /\ pc[p] = "look"
  /\ LET l == Verdict(job[p].cmd, registry[job[p].snap])
     IN  IF l = "done" THEN Finish(p)
         ELSE Go(p, l, [job[p] EXCEPT !.reg = registry]) /\ UNCHANGED lock
  /\ UNCHANGED <<snapshots, overlay, timers, faults>>

\* ... work on the disk, for an internal snapshot inside that of the VM, and save.
MakeDisk(p) ==
  \E mode \in {"internal", "external"} :
    /\ pc[p] = "disk"
    /\ disks' = IF mode = "external" THEN disks \cup {job[p].snap} ELSE disks
    /\ Load(p, [job[p].reg EXCEPT ![job[p].snap] = [mode |-> mode, ref |-> 0]], "same", "done")
    /\ UNCHANGED <<registry, count, missed, overlay, timers, lock, faults>>

\* PromoteSnapshot converts the disk between the load and the save.
Promote(p) ==
  /\ pc[p] = "promote"
  /\ disks' = disks \cup {job[p].snap}
  /\ Load(p, [job[p].reg EXCEPT ![job[p].snap].mode = "external"], "same", "done")
  /\ UNCHANGED <<registry, count, missed, overlay, timers, lock, faults>>

RemoveDisk(p) ==
  LET s == job[p].snap
  IN  /\ pc[p] = "remove"
      /\ disks' = disks \ {s}
      /\ missed' = IF job[p].reg[s].ref > 0 THEN missed \cup {d \in Deploys : From[d] = s}
                   ELSE missed
      /\ Load(p, [job[p].reg EXCEPT ![s] = None], "none", "done")
      /\ UNCHANGED <<registry, count, overlay, timers, lock, faults>>

-----------------------------------------------------------------------------
(* charly bundle add                                                       *)

\* RegisterEphemeralLifecycle arms the timer before anything else; without systemd-run
\* there is none.
ArmTimer(p) ==
  /\ pc[p] = "timer"
  /\ \/ timers' = [timers EXCEPT ![p] = job[p].dep] /\ UNCHANGED faults
     \/ /\ "systemd" \in Faults /\ faults < MaxFaults
        /\ faults' = faults + 1 /\ UNCHANGED timers
  /\ Go(p, "ref", job[p])
  /\ UNCHANGED <<snapshots, overlay, lock>>

\* It takes a reference to the snapshot ...
RegisterRef(p) ==
  /\ pc[p] = "ref"
  /\ Increment(p, "persist")
  /\ missed' = IF registry[job[p].snap] = None THEN missed \cup {job[p].dep} ELSE missed
  /\ UNCHANGED <<registry, disks, count, overlay, timers, lock, faults>>

\* ... and notes the timer in the overlay.
Persist(p) ==
  /\ pc[p] = "persist"
  /\ runtime' = [runtime EXCEPT ![job[p].dep] =
                   [unit |-> IF timers[p] = None THEN None ELSE p]]
  /\ Go(p, "venue", job[p])
  /\ UNCHANGED <<snapshots, recorded, timers, lock, faults>>

\* PrepareVenue reads the vm_state ...
Venue(p) ==
  /\ pc[p] = "venue"
  /\ Go(p, "boot", [job[p] EXCEPT !.state = runtime[job[p].dep]])
  /\ UNCHANGED <<snapshots, overlay, timers, lock, faults>>

\* ... builds and boots the VM unless it is up, and waits for it; a failure ends the add.
Boot(p) ==
  /\ pc[p] = "boot"
  /\ \/ Go(p, "state", job[p]) /\ UNCHANGED <<lock, faults>>
     \/ /\ "boot" \in Faults /\ faults < MaxFaults
        /\ faults' = faults + 1 /\ Finish(p)
  /\ UNCHANGED <<snapshots, overlay, timers>>

\* saveVmDeployState writes back the vm_state that was read before the boot.
SaveState(p) ==
  /\ pc[p] = "state"
  /\ runtime' = [runtime EXCEPT ![job[p].dep] = job[p].state]
  /\ Go(p, "walk", [job[p] EXCEPT !.state = None])
  /\ UNCHANGED <<snapshots, recorded, timers, lock, faults>>

\* The plan is walked in the guest; a failure ends the add.
Walk(p) ==
  /\ pc[p] = "walk"
  /\ \/ Go(p, "record", job[p]) /\ UNCHANGED <<lock, faults>>
     \/ /\ "walk" \in Faults /\ faults < MaxFaults
        /\ faults' = faults + 1 /\ Finish(p)
  /\ UNCHANGED <<snapshots, overlay, timers>>

\* recordDeploy.
RecordDeploy(p) ==
  /\ pc[p] = "record"
  /\ recorded' = recorded \cup {job[p].dep}
  /\ Finish(p)
  /\ UNCHANGED <<snapshots, runtime, timers, faults>>

-----------------------------------------------------------------------------
(* charly bundle del                                                       *)

LedgerLock_bug(p) ==
  /\ pc[p] = "lock"
  /\ Go(p, "read", job[p])
  /\ UNCHANGED <<snapshots, overlay, timers, lock, faults>>

LedgerTry_bug(p) ==
  /\ pc[p] = "lock"
  /\ IF lock = None THEN Go(p, "read", job[p]) /\ lock' = p ELSE Finish(p)
  /\ UNCHANGED <<snapshots, overlay, timers, faults>>

\* AcquireLedgerLock blocks; the flock is held until the command ends.
LedgerLock(p) ==
  /\ pc[p] = "lock" /\ lock = None
  /\ lock' = p
  /\ Go(p, "read", job[p])
  /\ UNCHANGED <<snapshots, overlay, timers, faults>>

ReadRecord_bug(p) ==
  /\ pc[p] = "read"
  /\ recorded' = recorded \ {job[p].dep}
  /\ Go(p, "post", job[p])
  /\ UNCHANGED <<snapshots, runtime, timers, lock, faults>>

\* Del: nothing recorded, nothing to do.  The record goes before PostTeardown.
ReadRecord(p) ==
  /\ pc[p] = "read"
  /\ \/ job[p].dep \notin recorded /\ Finish(p) /\ UNCHANGED recorded
     \/ /\ job[p].dep \in recorded
        /\ recorded' = recorded \ {job[p].dep}
        /\ Go(p, "post", job[p]) /\ UNCHANGED lock
  /\ UNCHANGED <<snapshots, runtime, timers, faults>>

\* PostTeardown runs TeardownEphemeralLifecycle for an entry with an ephemeral block.
PostTeardown(p) ==
  LET d == job[p].dep
  IN  /\ pc[p] = "post"
      /\ IF d \in Marked THEN Go(p, "cancel", [job[p] EXCEPT !.state = runtime[d]])
         ELSE Go(p, "forget", job[p])
      /\ UNCHANGED <<snapshots, overlay, timers, lock, faults>>

CancelTimer(p) ==
  LET s == job[p].state
  IN  /\ pc[p] = "cancel"
      /\ timers' = IF s # None /\ s.unit # None THEN [timers EXCEPT ![s.unit] = None] ELSE timers
      /\ Go(p, "unref", [job[p] EXCEPT !.state = None])
      /\ UNCHANGED <<snapshots, overlay, lock, faults>>

DropRef(p) ==
  /\ pc[p] = "unref"
  /\ Decrement(p, "clear")
  /\ UNCHANGED <<snapshots, overlay, timers, lock, faults>>

\* clearEphemeralRuntime.
ClearRuntime(p) ==
  /\ pc[p] = "clear"
  /\ runtime' = [runtime EXCEPT ![job[p].dep] = None]
  /\ Go(p, "forget", job[p])
  /\ UNCHANGED <<snapshots, recorded, timers, lock, faults>>

\* removeVmDeployEntry, of PostTeardown and of `charly vm destroy`, clears the vm_state.
ForgetEntry(p) ==
  /\ pc[p] = "forget"
  /\ runtime' = [runtime EXCEPT ![job[p].dep] = None]
  /\ Finish(p)
  /\ UNCHANGED <<snapshots, recorded, timers, faults>>

-----------------------------------------------------------------------------
\* A `bundle add` is killed.
Kill(p) ==
  /\ "kill" \in Faults /\ faults < MaxFaults
  /\ Active(p) /\ job[p].cmd = "add"
  /\ faults' = faults + 1
  /\ Finish(p)
  /\ UNCHANGED <<snapshots, overlay, timers>>

Step(p) ==
  \/ SaveRegistry(p) \/ Look(p) \/ MakeDisk(p) \/ Promote(p) \/ RemoveDisk(p)
  \/ ArmTimer(p) \/ RegisterRef(p) \/ Persist(p) \/ Venue(p) \/ Boot(p) \/ SaveState(p)
  \/ Walk(p) \/ RecordDeploy(p)
  \/ LedgerLock(p) \/ ReadRecord(p) \/ PostTeardown(p) \/ CancelTimer(p) \/ DropRef(p)
  \/ ClearRuntime(p) \/ ForgetEntry(p)

AllDone == (\A p \in AllProcs : ~Active(p)) /\ UNCHANGED vars

Next ==
  \/ AllDone
  \/ \E p \in Procs : Start(p) \/ Fire(p) \/ Kill(p)
  \/ \E p \in AllProcs : Step(p)

Spec == Init /\ [][Next]_vars

\* A command that can go on does so, and a timer fires.
FairSpec == /\ Spec
            /\ \A p \in AllProcs : WF_vars(Step(p))
            /\ \A u \in Procs : WF_vars(Fire(u))

-----------------------------------------------------------------------------
(* Properties.                                                             *)

TypeOK ==
  /\ registry \in [Snaps -> SnapshotEntry \cup {None}]
  /\ disks \subseteq Snaps
  /\ runtime \in [Deploys -> Runtime \cup {None}]
  /\ recorded \subseteq Deploys
  /\ timers \in [Procs -> Deploys \cup {None}]
  /\ lock \in AllProcs \cup {None}
  /\ pc \in [AllProcs -> PCs]
  /\ job \in [AllProcs -> Job]
  /\ count \in [Snaps -> Nat]
  /\ missed \subseteq Deploys
  /\ faults \in 0..MaxFaults

\* Every deployment whose del gives a reference of s back has found s there.
Found(s) == \A d \in missed \cap Marked : From[d] # s

\* The snapshot of a recorded deployment whose del gives the reference back stays, and so does
\* its disk: DeleteSnapshot "refuses while refcount > 0", whatever is added again, fails, is
\* killed and is left to its timer.
SnapshotKept ==
  \A d \in recorded \cap Marked :
    LET s == From[d]
    IN  Found(s) => registry[s] # None /\ (registry[s].mode = "external" => s \in disks)

\* The reference of one deployment that found its snapshot there stays, whatever the others
\* found: "Refcount tracks active clones / ephemerals depending on this snapshot".
OwnReferenceKept ==
  \A d \in (recorded \cap Marked) \ missed : registry[From[d]] # None /\ registry[From[d]].ref > 0

\* No reference that was taken or given back gets lost: any number of timers may fire at
\* once, and only the flock of `bundle del` keeps their updates of the registry apart.
NoLostCount ==
  \A s \in Snaps :
    registry[s] # None /\ (\A p \in AllProcs : ~Active(p)) => registry[s].ref = count[s]

\* A deployment that was added and whose timer is armed does not stay: the timer's
\* `bundle del` takes its runtime entry away.
TtlEnds ==
  \A d \in Deploys :
    (d \in recorded /\ \E u \in Procs : timers[u] = d) ~> runtime[d] = None

\* The same for one whose add did not end: "even if the caller crashes mid-provisioning, the
\* timer fires `charly bundle del <name> --assume-yes` after the TTL".
EphemeralEnds == \A d \in Deploys : runtime[d] # None ~> runtime[d] = None
=============================================================================
