------------------------------- MODULE Overlay -------------------------------
(***************************************************************************)
(* The per-host deployment overlay ~/.config/charly/charly.yml and the     *)
(* charly commands that read it, change it and write it back whole.  Some  *)
(* do so under the deploy-config flock of charly/filelock.go (`charly      *)
(* start`, `remove`, `vm create`, `vm destroy`, `bundle add`, `bundle del` *)
(* and the check runner), some without any lock (`charly config` for its   *)
(* own writes, `bundle import`, `bundle reset`, and the record `bundle     *)
(* add` and `bundle del` keep of an ephemeral deployment).                 *)
(*                                                                         *)
(* A process runs one command.  The file is replaced by a rename, so a     *)
(* load and a save are one step each.  A deployment has one container port *)
(* at most; what an entry holds besides its ports is a set of facts.       *)
(***************************************************************************)
EXTENDS Naturals, FiniteSets

CONSTANTS
  Procs,      \* the charly processes
  Keys,       \* deployment keys: of pods, and of VMs
  BaseOf,     \* [Keys -> Keys]  deployKey(box, "") of an instance; a base is its own
  VmOf,       \* [Keys -> Keys \cup {None}]  for a VM deployment, the key "vm:<entity>"
  Exposes,    \* the pods whose image declares a container port
  Provides,   \* the pods whose image provides env or MCP entries to others
  Ports,      \* host ports
  Ephemerals, \* the deployments with an `ephemeral:` block
  Pins,       \* those an operator asks for with --port
  Authored,   \* the keys a person may have written an entry for before
  Commands,   \* the commands in play, a subset of AllCommands
  Overlap,    \* which sessions may overlap others, a subset of Overlaps
  MaxFaults,  \* bound: commands broken off, and times the file becomes unloadable
  None        \* no entry, no port, nobody

Pods == {k \in Keys : VmOf[k] = None}
Vms  == {k \in Keys : VmOf[k] = k}

\* What a command can note in an entry: "operator" stands for the fields a person writes
\* (or imports), "state" for saveDeployState's, "caps" for the resource limits and the
\* cleaned env of `charly config`, "seeded" for the provisioned volumes.
FactSet == {"operator", "state", "caps", "seeded"}

\* BundleNode: Port (of a pin), ResolvedPort and VmState.SshPort apart from the facts.
Entry == [own : SUBSET FactSet, pin : Ports \cup {None}, rp : Ports \cup {None},
          ssh : Ports \cup {None}]
File  == [bundle : [Keys -> Entry \cup {None}], provides : SUBSET Keys]

\* "add" and "vm add" are `charly bundle add`, "vm del" is `charly bundle del` of a VM (that
\* of a pod is "remove"); "import", "import box" and "replace" are `charly bundle import`.
PodCommands == {"config", "save", "add", "remove"}
VmCommands  == {"vm create", "vm add", "vm del", "vm destroy"}
Unlocked    == {"config", "import", "import box", "replace", "reset", "reset all"}
Noting      == {"add", "vm add", "vm del"}
AllCommands == PodCommands \cup VmCommands \cup Unlocked

\* The sessions that write the overlay without the flock.
NoLock(c, k) == c \in Unlocked \/ (c \in Noting /\ k \in Ephemerals)

\* A session that writes without the flock and any other; a repair of the file and such a
\* session; two commands on one VM; commands on two VMs.
Overlaps == {"unlocked", "repair", "vm", "vms"}

ASSUME OverlayAssumption ==
  /\ BaseOf \in [Keys -> Keys]
  /\ VmOf \in [Keys -> Keys \cup {None}]
  /\ \A k \in Keys : VmOf[k] # None => VmOf[VmOf[k]] = VmOf[k]
  /\ Exposes \subseteq Pods /\ Provides \subseteq Pods
  /\ Ephemerals \subseteq Keys
  /\ Pins \subseteq Ports /\ Authored \subseteq Keys
  /\ Commands \subseteq AllCommands
  /\ Overlap \subseteq Overlaps
  /\ MaxFaults \in Nat
  /\ None \notin Procs \cup Keys \cup Ports
  /\ None \notin Entry

VARIABLES
  file,      \* what charly.yml says
  loadable,  \* LoadBundleConfig accepts it
  lock,      \* the process that has the deploy-config flock, or None
  pc,        \* where each process is
  job,       \* the local state of each process
  domain,    \* [Vms -> the host port a running domain forwards to its sshd, or None]
  faults     \* number of commands broken off and of spoilt files

vars == <<file, loadable, lock, pc, job, domain, faults>>

Empty == [bundle |-> [k \in Keys |-> None], provides |-> {}]
Zero  == [own |-> {}, pin |-> None, rp |-> None, ssh |-> None]

PCs == {"new", "load", "early", "ports", "inject", "injected", "reload", "seed", "lock",
        "read", "note", "noted", "write", "venue", "dial", "create", "boot", "gone", "done"}

Job == [cmd : AllCommands \cup {None},
        key : Keys \cup {None},
        mem : File,                   \* the BundleConfig in memory
        pin : Ports \cup {None},      \* --port
        port : Ports \cup {None},     \* the ssh port PrepareVenue resolved
        fwd : Ports \cup {None},      \* the ssh port `vm create` resolved
        then : PCs]                   \* where the command goes on after the lock

Idle == [cmd |-> None, key |-> None, mem |-> Empty, pin |-> None, port |-> None,
         fwd |-> None, then |-> "done"]

Init ==
  /\ file \in {[Empty EXCEPT !.bundle =
                  [k \in Keys |-> IF k \in S THEN [Zero EXCEPT !.own = {"operator"}] ELSE None]]
               : S \in SUBSET Authored}
  /\ loadable = TRUE
  /\ lock = None
  /\ pc = [p \in Procs |-> "new"]
  /\ job = [p \in Procs |-> Idle]
  /\ domain = [v \in Vms |-> None]
  /\ faults = 0

-----------------------------------------------------------------------------
(* What the commands do to a BundleConfig in memory.                       *)

\* The entry a writer starts from: `dc.Bundle[key]`, zero when there is none.
EntryAt(f, k) == IF f.bundle[k] = None THEN Zero ELSE f.bundle[k]

\* saveDeployState: facts are added, a port only when it was asked for.
Record(f, k, facts, pin) ==
  [f EXCEPT !.bundle[k] = [EntryAt(f, k) EXCEPT !.own = @ \cup facts,
                             !.pin = IF pin = None THEN @ ELSE pin]]

RecordPort(f, k, r) == [f EXCEPT !.bundle[k] = [EntryAt(f, k) EXCEPT !.rp = r]]

\* saveVmDeployState.
RecordSsh(f, k, port) == [f EXCEPT !.bundle[k] = [EntryAt(f, k) EXCEPT !.ssh = port]]

\* cleanDeployEntry: the entry goes, and what it provides to others; for a base, what its
\* instances provide as well, but nothing as long as one of them is there.
Clean(f, k) ==
  LET left == [f.bundle EXCEPT ![k] = None]
      kin  == {j \in Keys : BaseOf[j] = k}
  IN  [bundle |-> left,
       provides |-> f.provides \
          (CASE BaseOf[k] # k -> {k}
             [] BaseOf[k] = k /\ (\A j \in kin : left[j] = None) -> kin
             [] OTHER -> {})]

\* isAutoVmDeployEntry: nothing in it but what saveVmDeployState writes.
AutoVm(e) == [e EXCEPT !.ssh = None] = Zero

VmEntryKeys_bug(f, v) == {k \in {v} : f.bundle[k] # None}

\* vmDeployEntryKeys: "vm:<entity>" and the entries whose `vm:` cross-ref names the entity.
VmEntryKeys(f, v) == {k \in Keys : VmOf[k] = v /\ f.bundle[k] # None}

\* removeVmDeployEntry.
ForgetVm(f, v) ==
  [f EXCEPT !.bundle = [k \in Keys |->
     IF k \notin VmEntryKeys(f, v) THEN f.bundle[k]
     ELSE IF AutoVm(f.bundle[k]) THEN None
     ELSE [f.bundle[k] EXCEPT !.ssh = None]]]

\* OccupiedHostPorts prefers ResolvedPort over Port.
HostPort(e) == IF e.rp # None THEN e.rp ELSE e.pin

OccupiedHostPorts_bug(f, k) == {}

OccupiedHostPorts(f, k) ==
  {HostPort(f.bundle[j]) : j \in {i \in Keys \ {k} : f.bundle[i] # None}} \ {None}

\* ResolveDeployPorts, for one container port: the pin, the prior allocation, or a port
\* that is free; no answer when the attempts are exhausted.
ResolveDeployPorts(f, k) ==
  LET e == EntryAt(f, k)
  IN  CASE e.pin # None -> {e.pin}
        [] e.pin = None /\ e.rp \in Ports \ OccupiedHostPorts(f, k) -> {e.rp}
        [] OTHER -> Ports \ OccupiedHostPorts(f, k)

\* resolveVmSshPort for ssh.port_auto.
ResolveVmSshPort(f, v) ==
  LET ssh == EntryAt(f, v).ssh
  IN  IF ssh # None THEN {ssh} ELSE Ports \ {domain[u] : u \in Vms}

-----------------------------------------------------------------------------
(* Sessions.                                                               *)

Active(p) == pc[p] \notin {"new", "done"}

\* Process p works on the VM of key k.
OnVm(p, k) == Active(p) /\ job[p].key # None /\ VmOf[k] # None /\ VmOf[job[p].key] = VmOf[k]

\* The file that loads is what is in memory, one that does not is an empty config.
LoadForRead == IF loadable THEN file ELSE Empty

Go(p, l, j) == pc' = [pc EXCEPT ![p] = l] /\ job' = [job EXCEPT ![p] = j]

Finish(p) ==
  /\ pc' = [pc EXCEPT ![p] = "done"]
  /\ job' = [job EXCEPT ![p] = Idle]
  /\ lock' = IF lock = p THEN None ELSE lock

\* SaveBundleConfig refuses to overwrite a file that does not load.
Save(f) == file' = IF loadable THEN f ELSE file

\* Where `bundle add` and `bundle del` go on when the ephemeral record is dealt with.
AfterNote(c) == IF c = "vm add" THEN "venue" ELSE "lock"

FirstPC(c, k) ==
  CASE c \in {"config", "import", "import box", "replace", "reset"} -> "load"
    [] c \in {"save", "remove"} -> "lock"
    [] c \in Noting /\ k \in Ephemerals -> "note"
    [] c \in Noting /\ k \notin Ephemerals -> AfterNote(c)
    [] c = "vm create" -> "create"
    [] c = "vm destroy" -> "gone"
    [] c = "reset all" -> "write"

Start(p) ==
  \E c \in Commands, k \in Keys, pin \in Pins \cup {None} :
    /\ pc[p] = "new"
    /\ c \in PodCommands => k \in Pods
    /\ c \in VmCommands => k \in Keys \ Pods
    /\ c \in {"vm create", "vm destroy"} => k \in Vms
    /\ c \notin {"config", "save"} => pin = None
    /\ "unlocked" \in Overlap \/
         \A q \in Procs : Active(q) => ~NoLock(c, k) /\ ~NoLock(job[q].cmd, job[q].key)
    /\ "vm" \in Overlap \/ \A q \in Procs : ~OnVm(q, k)
    /\ "vms" \in Overlap \/ VmOf[k] = None \/
         \A q \in Procs : Active(q) => VmOf[job[q].key] \in {None, VmOf[k]}
    /\ Go(p, FirstPC(c, k), [Idle EXCEPT !.cmd = c, !.key = k, !.pin = pin])
    /\ UNCHANGED <<file, loadable, lock, domain, faults>>

-----------------------------------------------------------------------------
(* Under the deploy-config flock.                                          *)

Acquire_bug(p) == pc[p] = "lock" /\ lock' = p

\* acquireDeployConfigLock blocks.
Acquire(p) == pc[p] = "lock" /\ lock = None /\ lock' = p

Lock(p) ==
  /\ Acquire(p)
  /\ Go(p, "read", job[p])
  /\ UNCHANGED <<file, loadable, domain, faults>>

\* A `charly config` goes on when its save could not be done, the other commands end.
LockedLoad(p) ==
  /\ pc[p] = "read"
  /\ \/ /\ loadable
        /\ Go(p, "write", [job[p] EXCEPT !.mem = file])
        /\ UNCHANGED lock
     \/ /\ ~loadable
        /\ \/ job[p].then = "done" /\ Finish(p)
           \/ job[p].then = "boot" /\ Finish(p)
           \/ /\ job[p].then = "reload"
              /\ Go(p, "reload", [job[p] EXCEPT !.then = "done"])
              /\ lock' = None
  /\ UNCHANGED <<file, loadable, domain, faults>>

\* The change of each command.
Update(p) ==
  LET j == job[p]
  IN  CASE j.cmd \in {"config", "save", "add"} -> Record(j.mem, j.key, {"state"}, j.pin)
        [] j.cmd = "remove" -> Clean(j.mem, j.key)
        [] j.then = "boot" -> RecordSsh(j.mem, VmOf[j.key], j.fwd)
        [] j.cmd = "vm add" /\ j.then # "boot" -> RecordSsh(j.mem, j.key, j.port)
        [] j.cmd \in {"vm del", "vm destroy"} -> ForgetVm(j.mem, VmOf[j.key])

LockedSave(p) ==
  /\ pc[p] = "write" /\ job[p].cmd \notin Unlocked \ {"config"}
  /\ Save(Update(p))
  /\ IF job[p].then = "done" THEN Finish(p)
     ELSE /\ Go(p, job[p].then, [job[p] EXCEPT !.then = "done", !.mem = Empty])
          /\ lock' = None
  /\ UNCHANGED <<loadable, domain, faults>>

\* A `bundle add` of a pod that builds no image of its own has nothing to save.
NoOverlayImage(p) ==
  /\ pc[p] = "lock" /\ job[p].cmd = "add"
  /\ Finish(p)
  /\ UNCHANGED <<file, loadable, domain, faults>>

-----------------------------------------------------------------------------
(* The record of an ephemeral deployment, without the flock: its timer and *)
(* deadline go into the entry, or leave it.  The record itself is not kept *)
(* here (module Ephemeral has it): the write of the whole file is.         *)

\* persistEphemeralRuntime and clearEphemeralRuntime load the file, or give up: it does not
\* load, the registration failed before, or there is no record to clear ...
EphemeralLoad(p) ==
  LET j == job[p]
  IN  /\ pc[p] = "note"
      /\ \/ /\ loadable
            /\ j.cmd = "vm del" => file.bundle[j.key] # None
            /\ Go(p, "noted", [j EXCEPT !.mem = file])
         \/ Go(p, AfterNote(j.cmd), j)
      /\ UNCHANGED <<file, loadable, lock, domain, faults>>

\* ... and save it; an error is only a warning.
EphemeralSave(p) ==
  LET j == job[p]
  IN  /\ pc[p] = "noted"
      /\ Save(Record(j.mem, j.key, {}, None))
      /\ Go(p, AfterNote(j.cmd), [j EXCEPT !.mem = Empty])
      /\ UNCHANGED <<loadable, lock, domain, faults>>

-----------------------------------------------------------------------------
(* charly config                                                           *)

ConfigLoad(p) ==
  /\ pc[p] = "load" /\ job[p].cmd = "config"
  /\ Go(p, "early", [job[p] EXCEPT !.mem = LoadForRead])
  /\ UNCHANGED <<file, loadable, lock, domain, faults>>

\* MigratePlaintextEnvSecret and persistResourceCaps save the config they were given when
\* they have something to save; the error of the latter ends the command.
ConfigEarly(p) ==
  LET dc == Record(job[p].mem, job[p].key, {"caps"}, None)
  IN  /\ pc[p] = "early"
      /\ \/ Go(p, "ports", job[p]) /\ UNCHANGED <<file, lock>>
         \/ loadable /\ Save(dc) /\ Go(p, "ports", [job[p] EXCEPT !.mem = dc]) /\ UNCHANGED lock
         \/ ~loadable /\ Finish(p) /\ UNCHANGED file
      /\ UNCHANGED <<loadable, domain, faults>>

\* The ports are resolved against the same config, and saved when they changed.
ConfigPorts(p) ==
  LET dc == job[p].mem  k == job[p].key
      asked == k \in Exposes \/ EntryAt(dc, k).pin # None
  IN  /\ pc[p] = "ports"
      /\ \/ ~asked /\ Go(p, "inject", job[p]) /\ UNCHANGED <<file, lock>>
         \/ asked /\ ResolveDeployPorts(dc, k) = {} /\ Finish(p) /\ UNCHANGED file
         \/ \E r \in ResolveDeployPorts(dc, k) :
              /\ asked
              /\ \/ r = EntryAt(dc, k).rp /\ Go(p, "inject", job[p]) /\ UNCHANGED <<file, lock>>
                 \/ /\ r # EntryAt(dc, k).rp /\ loadable
                    /\ Save(RecordPort(dc, k, r))
                    /\ Go(p, "inject", job[p]) /\ UNCHANGED lock
                 \/ r # EntryAt(dc, k).rp /\ ~loadable /\ Finish(p) /\ UNCHANGED file
      /\ UNCHANGED <<loadable, domain, faults>>

\* injectEnvProvides and injectMCPProvides load the file anew ...
ConfigInject(p) ==
  LET k == job[p].key
  IN  /\ pc[p] = "inject"
      /\ IF k \in Provides /\ loadable
         THEN Go(p, "injected", [job[p] EXCEPT !.mem = file])
         ELSE Go(p, "lock", [job[p] EXCEPT !.mem = Empty, !.then = "reload"])
      /\ UNCHANGED <<file, loadable, lock, domain, faults>>

\* ... and save it with the entries of this deployment; an error is only a warning.
ConfigInjected(p) ==
  /\ pc[p] = "injected"
  /\ IF job[p].key \in job[p].mem.provides THEN UNCHANGED file
     ELSE Save([job[p].mem EXCEPT !.provides = @ \cup {job[p].key}])
  /\ Go(p, "lock", [job[p] EXCEPT !.mem = Empty, !.then = "reload"])
  /\ UNCHANGED <<loadable, lock, domain, faults>>

\* After saveDeployState the command writes the quadlet and reloads the config, ...
ConfigReload(p) ==
  /\ pc[p] = "reload"
  /\ \/ Go(p, "seed", [job[p] EXCEPT !.mem = LoadForRead]) /\ UNCHANGED lock
     \/ Finish(p)
  /\ UNCHANGED <<file, loadable, domain, faults>>

\* ... and when provisionData has copied the data, it saves that config.
ConfigSeed(p) ==
  /\ pc[p] = "seed"
  /\ Save(Record(job[p].mem, job[p].key, {"seeded"}, None))
  /\ Finish(p)
  /\ UNCHANGED <<loadable, domain, faults>>

ConfigStep(p) ==
  \/ ConfigLoad(p) \/ ConfigEarly(p) \/ ConfigPorts(p) \/ ConfigInject(p)
  \/ ConfigInjected(p) \/ ConfigReload(p) \/ ConfigSeed(p)

-----------------------------------------------------------------------------
(* charly bundle import and bundle reset                                   *)

BundleLoad(p) ==
  /\ pc[p] = "load" /\ job[p].cmd \in {"import", "import box", "replace", "reset"}
  /\ IF job[p].cmd = "replace" THEN Go(p, "write", job[p]) /\ UNCHANGED lock
     ELSE IF loadable THEN Go(p, "write", [job[p] EXCEPT !.mem = file]) /\ UNCHANGED lock
     ELSE Finish(p)
  /\ UNCHANGED <<file, loadable, domain, faults>>

\* Without a box `reset` removes the file, whatever it holds; with the last entry of a
\* box it does so too, and the provides go with it.  MergeDeployConfigs merges entries and
\* nothing else, so a plain `import` drops every provides; with --box they stay.
BundleSave(p) ==
  LET j == job[p]
      rest == [j.mem EXCEPT !.bundle[j.key] = None]
      new  == Record(j.mem, j.key, {"operator"}, None)
  IN  /\ pc[p] = "write" /\ j.cmd \in Unlocked \ {"config"}
      /\ \/ /\ j.cmd = "reset all"
            /\ file' = Empty /\ loadable' = TRUE
         \/ /\ j.cmd = "reset" /\ j.mem.bundle[j.key] = None
            /\ UNCHANGED <<file, loadable>>
         \/ /\ j.cmd = "reset" /\ j.mem.bundle[j.key] # None /\ rest.bundle = Empty.bundle
            /\ file' = Empty /\ loadable' = TRUE
         \/ /\ j.cmd = "reset" /\ j.mem.bundle[j.key] # None /\ rest.bundle # Empty.bundle
            /\ Save(rest) /\ UNCHANGED loadable
         \/ /\ j.cmd \in {"import", "replace"}
            /\ Save([new EXCEPT !.provides = {}]) /\ UNCHANGED loadable
         \/ /\ j.cmd = "import box"
            /\ Save(new) /\ UNCHANGED loadable
      /\ Finish(p)
      /\ UNCHANGED <<domain, faults>>

-----------------------------------------------------------------------------
(* VM deployments                                                          *)

\* PrepareVenue reads the vm_state of the deployment and resolves the ssh port ...
VmVenue(p) ==
  /\ pc[p] = "venue"
  /\ \E port \in ResolveVmSshPort(LoadForRead, VmOf[job[p].key]) :
       Go(p, "dial", [job[p] EXCEPT !.port = port])
  /\ UNCHANGED <<file, loadable, lock, domain, faults>>

\* ... autoBootVmIfNeeded: nobody answers on it, so `charly vm create` is run; then
\* PrepareVenue saves the state.
VmDial(p) ==
  /\ pc[p] = "dial"
  /\ Go(p, IF domain[VmOf[job[p].key]] = job[p].port THEN "lock" ELSE "create", job[p])
  /\ UNCHANGED <<file, loadable, lock, domain, faults>>

VmCreatePort(p) == ResolveVmSshPort(LoadForRead, VmOf[job[p].key])

\* runVmSpecCreate resolves the port and saves it before the domain is defined.
VmCreate(p) ==
  /\ pc[p] = "create"
  /\ \E port \in VmCreatePort(p) :
       Go(p, "lock", [job[p] EXCEPT !.fwd = port, !.then = "boot"])
  /\ UNCHANGED <<file, loadable, lock, domain, faults>>

\* The plugin defines and starts the domain; it fails when there is one already, or the
\* port is taken.
VmBoot(p) ==
  LET v == VmOf[job[p].key]  fwd == job[p].fwd
  IN  /\ pc[p] = "boot"
      /\ \/ /\ domain[v] # None \/ \E u \in Vms : domain[u] = fwd
            /\ Finish(p) /\ UNCHANGED domain
         \/ /\ domain[v] = None /\ \A u \in Vms : domain[u] # fwd
            /\ domain' = [domain EXCEPT ![v] = fwd]
            /\ IF job[p].cmd = "vm add" THEN Go(p, "lock", job[p]) /\ UNCHANGED lock
               ELSE Finish(p)
      /\ UNCHANGED <<file, loadable, faults>>

\* `charly vm destroy`: the domain first, then the entries.
VmGone(p) ==
  /\ pc[p] = "gone"
  /\ domain' = [domain EXCEPT ![VmOf[job[p].key]] = None]
  /\ Go(p, "lock", job[p])
  /\ UNCHANGED <<file, loadable, lock, faults>>

VmStep(p) == VmVenue(p) \/ VmDial(p) \/ VmCreate(p) \/ VmBoot(p) \/ VmGone(p)

-----------------------------------------------------------------------------
(* The rest of the world.                                                  *)

\* The command is killed, or it ends with an error; the kernel drops its flock.
Crash(p) ==
  /\ Active(p) /\ faults < MaxFaults
  /\ faults' = faults + 1
  /\ Finish(p)
  /\ UNCHANGED <<file, loadable, domain>>

\* A hand edit or a new schema makes the file unloadable ...
Spoil ==
  /\ loadable /\ faults < MaxFaults
  /\ loadable' = FALSE /\ faults' = faults + 1
  /\ UNCHANGED <<file, lock, pc, job, domain>>

\* ... and `charly migrate`, or the next edit, repairs it.
Repair ==
  /\ ~loadable
  /\ "repair" \in Overlap \/ \A p \in Procs : Active(p) => ~NoLock(job[p].cmd, job[p].key)
  /\ loadable' = TRUE
  /\ UNCHANGED <<file, lock, pc, job, domain, faults>>

AllDone == (\A p \in Procs : pc[p] = "done") /\ UNCHANGED vars

Step(p) ==
  \/ Lock(p) \/ LockedLoad(p) \/ LockedSave(p) \/ NoOverlayImage(p)
  \/ EphemeralLoad(p) \/ EphemeralSave(p)
  \/ ConfigStep(p) \/ BundleLoad(p) \/ BundleSave(p) \/ VmStep(p)

Next == Spoil \/ Repair \/ AllDone \/ \E p \in Procs : Start(p) \/ Step(p) \/ Crash(p)

Spec == Init /\ [][Next]_vars

-----------------------------------------------------------------------------
(* Properties.                                                             *)

TypeOK ==
  /\ file \in File
  /\ loadable \in BOOLEAN
  /\ lock \in Procs \cup {None}
  /\ pc \in [Procs -> PCs]
  /\ job \in [Procs -> Job]
  /\ domain \in [Vms -> Ports \cup {None}]
  /\ faults \in 0..MaxFaults

Moved(p) == pc'[p] # pc[p]

\* What an entry has that no write of another kind may take away.
Facts(e) == IF e = None THEN {}
            ELSE e.own \cup {f \in {"pin"} : e.pin # None} \cup {f \in {"rp"} : e.rp # None}

\* The entries a command may change, those it may remove, and the deployments whose
\* provides it may drop from a file it replaces by f.
Scope(j) == CASE j.cmd \in {"config", "save", "add", "remove", "import", "import box", "reset"}
                   -> {j.key}
              [] j.cmd \in VmCommands -> {k \in Keys : VmOf[k] = VmOf[j.key]}
              [] OTHER -> Keys
Removes(j) == CASE j.cmd \in {"remove", "reset"} -> {j.key}
                [] j.cmd \in {"replace", "reset all"} -> Keys
                [] OTHER -> {}
Drops(j, f) == CASE j.cmd = "remove" -> {k \in Keys : k = j.key \/ BaseOf[k] = j.key}
                 [] j.cmd \in {"import", "replace", "reset all"} -> Keys
                 [] j.cmd = "reset" /\ f.bundle = Empty.bundle -> Keys
                 [] OTHER -> {}

\* No write is lost: an entry changes only by a command on that deployment, what was noted
\* in it stays until a command removes the entry, and what a deployment provides stays
\* until a command may drop it.  "Without it two writers race and silently drop each
\* other's entry" (saveDeployState).  `vm destroy` clears the runtime state only and
\* preserves "every operator-authored per-host field".
NoLostUpdate ==
  [][/\ \A k \in Keys :
          \/ file'.bundle[k] = file.bundle[k]
          \/ \E p \in Procs :
               /\ Moved(p) /\ k \in Scope(job[p])
               /\ k \in Removes(job[p]) \/ Facts(file.bundle[k]) \subseteq Facts(file'.bundle[k])
     /\ \A k \in file.provides \ file'.provides :
          \E p \in Procs : Moved(p) /\ k \in Drops(job[p], file')]_vars

\* The help of `bundle import` says it merges "with existing" unless --replace is given: it
\* drops nobody's provides.  The code does not keep this (BundleSave).
ImportKeepsProvides ==
  [][\A p \in Procs : (Moved(p) /\ job[p].cmd = "import") => file.provides \subseteq file'.provides]_vars

\* A port is allocated to one deployment only, pins of the operator apart: "so
\* concurrent beds never collide" (ResolveDeployPorts).
AllocatedApart ==
  \A j, k \in Keys :
    LET e == EntryAt(file, j)  f == EntryAt(file, k)
    IN  (j # k /\ e.rp # None /\ e.rp = f.rp) => e.pin # None \/ f.pin # None

\* The entries charly made for a VM go with it: "such entries must not accumulate"
\* (removeVmDeployEntry).  A `vm create` that was killed may leave one, and a `vm destroy`
\* that could not load the file; so may one of two that were given the same free port.
NoStaleVm ==
  faults = 0 =>
    \A k \in Keys \ Pods :
      file.bundle[k] # None /\ file.bundle[k].ssh # None
        => domain[VmOf[k]] # None \/ (\E p \in Procs : OnVm(p, k))

\* The recorded port of a VM is the one its domain forwards, when no command is at work on
\* it: "deploy-add's reachability probe (and every later read) reuses THIS exact port".
SshPortRecorded ==
  \A v \in Vms : domain[v] # None /\ (\A p \in Procs : ~OnVm(p, v))
                   => EntryAt(file, v).ssh = domain[v]
=============================================================================
