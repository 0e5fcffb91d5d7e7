---------------------------- MODULE OverlayProofs ----------------------------
(***************************************************************************)
(* Proofs about Overlay, for any processes, deployments and ports: when    *)
(* the commands that save without the flock do not overlap others, no      *)
(* write is lost and no port is allocated twice; when the commands on VMs  *)
(* do not overlap either, no VM's recorded port outlives its domain.       *)
(***************************************************************************)
EXTENDS Overlay, TLAPS

-----------------------------------------------------------------------------
(* What the commands do to a file.                                         *)

LEMMA Entries ==
  ASSUME NEW f \in File, NEW k \in Keys
  PROVE  /\ Zero \in Entry /\ EntryAt(f, k) \in Entry
         /\ Facts(f.bundle[k]) = Facts(EntryAt(f, k))
<1>1. Zero \in Entry
  BY DEF Zero, Entry, FactSet
<1>2. f.bundle[k] \in Entry \cup {None}
  BY DEF File
<1>3. EntryAt(f, k) \in Entry
  BY <1>1, <1>2 DEF EntryAt
<1>4. Facts(Zero) = {} /\ Facts(None) = {}
  <2>1. Zero # None
    BY <1>1, OverlayAssumption
  <2> QED BY <2>1 DEF Facts, Zero
<1>5. Facts(f.bundle[k]) = Facts(EntryAt(f, k))
  BY <1>4 DEF EntryAt
<1> QED BY <1>1, <1>3, <1>5

\* g is f with other entries in S.
Alters(f, g, S) == g \in File /\ \A k \in Keys \ S : g.bundle[k] = f.bundle[k]

\* g has what f has.
Keeps(f, g) == \A k \in Keys : Facts(f.bundle[k]) \subseteq Facts(g.bundle[k])

\* g allocates no port but those that f allocates to the same deployment.
Allots(f, g) == \A k \in Keys :
                   \/ EntryAt(g, k).rp = None
                   \/ /\ EntryAt(g, k).rp = EntryAt(f, k).rp
                      /\ EntryAt(f, k).pin # None => EntryAt(g, k).pin # None

\* A file g that differs from f in the entry of k only.
OnlyAt(f, g, k) == \A j \in Keys \ {k} : g.bundle[j] = f.bundle[j]

LEMMA RecordWorks ==
  ASSUME NEW f \in File, NEW k \in Keys, NEW facts \in SUBSET FactSet, NEW pin \in Ports \cup {None},
         NEW g, g = Record(f, k, facts, pin)
  PROVE  g \in File /\ Alters(f, g, {k}) /\ Keeps(f, g) /\ Allots(f, g) /\ g.provides = f.provides
<1> DEFINE e == EntryAt(f, k)
           d == [e EXCEPT !.own = @ \cup facts, !.pin = IF pin = None THEN @ ELSE pin]
<1>1. e \in Entry /\ Facts(f.bundle[k]) = Facts(e)
  BY Entries
<1>2. d \in Entry /\ d.own = e.own \cup facts /\ d.pin = (IF pin = None THEN e.pin ELSE pin) /\ d.rp = e.rp
  BY <1>1 DEF Entry
<1>3. g = [f EXCEPT !.bundle[k] = d]
  BY DEF Record
<1> HIDE DEF d, e
<1>4. g \in File /\ OnlyAt(f, g, k) /\ g.bundle[k] = d /\ g.provides = f.provides
  BY <1>2, <1>3 DEF File, OnlyAt
<1>5. d # None /\ e # None
  BY <1>1, <1>2, OverlayAssumption
<1>6. Facts(e) \subseteq Facts(d)
  BY <1>2, <1>5, <1>1 DEF Facts
<1>7. Alters(f, g, {k}) /\ Keeps(f, g)
  BY <1>1, <1>4, <1>6 DEF Alters, Keeps, OnlyAt
<1>8. EntryAt(g, k) = d /\ \A i \in Keys \ {k} : EntryAt(g, i) = EntryAt(f, i)
  BY <1>4, <1>5 DEF OnlyAt, EntryAt
<1>9. Allots(f, g)
  BY <1>2, <1>8 DEF Allots, e
<1> QED BY <1>4, <1>7, <1>9

LEMMA RecordPortWorks ==
  ASSUME NEW f \in File, NEW k \in Keys, NEW r \in Ports,
         NEW g, g = RecordPort(f, k, r)
  PROVE  /\ g \in File /\ OnlyAt(f, g, k)
         /\ EntryAt(g, k).rp = r /\ EntryAt(g, k).pin = EntryAt(f, k).pin
         /\ Keeps(f, g) /\ g.provides = f.provides
<1> DEFINE e == EntryAt(f, k)
           d == [e EXCEPT !.rp = r]
<1>1. e \in Entry /\ Facts(f.bundle[k]) = Facts(e)
  BY Entries
<1>2. d \in Entry /\ d.own = e.own /\ d.pin = e.pin /\ d.rp = r /\ r # None
  BY <1>1, OverlayAssumption DEF Entry
<1>3. g = [f EXCEPT !.bundle[k] = d]
  BY DEF RecordPort
<1> HIDE DEF d, e
<1>4. g \in File /\ OnlyAt(f, g, k) /\ g.bundle[k] = d /\ g.provides = f.provides
  BY <1>2, <1>3 DEF File, OnlyAt
<1>5. d # None /\ e # None
  BY <1>1, <1>2, OverlayAssumption
<1>6. Facts(e) \subseteq Facts(d)
  BY <1>2, <1>5, <1>1 DEF Facts
<1>7. Keeps(f, g)
  BY <1>1, <1>4, <1>6 DEF Keeps, OnlyAt
<1>8. EntryAt(g, k) = d
  BY <1>4, <1>5 DEF EntryAt
<1> QED BY <1>2, <1>4, <1>7, <1>8 DEF e

LEMMA RecordSshWorks ==
  ASSUME NEW f \in File, NEW k \in Keys, NEW port \in Ports \cup {None},
         NEW g, g = RecordSsh(f, k, port)
  PROVE  g \in File /\ Alters(f, g, {k}) /\ Keeps(f, g) /\ Allots(f, g) /\ g.provides = f.provides
<1> DEFINE e == EntryAt(f, k)
           d == [e EXCEPT !.ssh = port]
<1>1. e \in Entry /\ Facts(f.bundle[k]) = Facts(e)
  BY Entries
<1>2. d \in Entry /\ d.own = e.own /\ d.pin = e.pin /\ d.rp = e.rp
  BY <1>1 DEF Entry
<1>3. g = [f EXCEPT !.bundle[k] = d]
  BY DEF RecordSsh
<1> HIDE DEF d, e
<1>4. g \in File /\ OnlyAt(f, g, k) /\ g.bundle[k] = d /\ g.provides = f.provides
  BY <1>2, <1>3 DEF File, OnlyAt
<1>5. d # None /\ e # None
  BY <1>1, <1>2, OverlayAssumption
<1>6. Facts(e) \subseteq Facts(d)
  BY <1>2, <1>5, <1>1 DEF Facts
<1>7. Alters(f, g, {k}) /\ Keeps(f, g)
  BY <1>1, <1>4, <1>6 DEF Alters, Keeps, OnlyAt
<1>8. EntryAt(g, k) = d /\ \A i \in Keys \ {k} : EntryAt(g, i) = EntryAt(f, i)
  BY <1>4, <1>5 DEF OnlyAt, EntryAt
<1>9. Allots(f, g)
  BY <1>2, <1>8 DEF Allots, e
<1> QED BY <1>4, <1>7, <1>9

LEMMA CleanWorks ==
  ASSUME NEW f \in File, NEW k \in Keys,
         NEW g, g = Clean(f, k)
  PROVE  /\ g \in File /\ OnlyAt(f, g, k) /\ g.bundle[k] = None
         /\ f.provides \ g.provides \subseteq {i \in Keys : i = k \/ BaseOf[i] = k}
<1>1. /\ g.bundle = [f.bundle EXCEPT ![k] = None] /\ g.provides \subseteq f.provides
      /\ f.provides \ g.provides \subseteq {i \in Keys : i = k \/ BaseOf[i] = k}
  BY DEF Clean
<1>2. DOMAIN g = {"bundle", "provides"} /\ g = [bundle |-> g.bundle, provides |-> g.provides]
  BY DEF Clean
<1>3. g \in File
  BY <1>1, <1>2 DEF File
<1> QED BY <1>1, <1>3 DEF File, OnlyAt

LEMMA ForgetWorks ==
  ASSUME NEW f \in File, NEW v \in Keys,
         NEW g, g = ForgetVm(f, v)
  PROVE  /\ g \in File /\ g.provides = f.provides
         /\ \A k \in Keys : VmOf[k] # v => g.bundle[k] = f.bundle[k]
         /\ \A k \in Keys : /\ EntryAt(g, k).rp = EntryAt(f, k).rp /\ EntryAt(g, k).pin = EntryAt(f, k).pin
                            /\ Facts(f.bundle[k]) = Facts(g.bundle[k])
<1> DEFINE Less(k) == [f.bundle[k] EXCEPT !.ssh = None]
<1>1. g = [f EXCEPT !.bundle = [k \in Keys |->
             IF k \notin VmEntryKeys(f, v) THEN f.bundle[k] ELSE IF AutoVm(f.bundle[k]) THEN None ELSE Less(k)]]
  BY DEF ForgetVm
<1>2. ASSUME NEW k \in VmEntryKeys(f, v)
      PROVE  /\ k \in Keys /\ VmOf[k] = v /\ f.bundle[k] # None /\ f.bundle[k] \in Entry
             /\ Less(k) \in Entry /\ Less(k).own = f.bundle[k].own /\ Less(k).pin = f.bundle[k].pin
             /\ Less(k).rp = f.bundle[k].rp /\ Less(k) # None
             /\ AutoVm(f.bundle[k]) <=> Less(k) = Zero
  <2>1. k \in Keys /\ VmOf[k] = v /\ f.bundle[k] # None /\ f.bundle[k] \in Entry
    BY DEF VmEntryKeys, File
  <2>2. Less(k) \in Entry /\ Less(k).own = f.bundle[k].own /\ Less(k).pin = f.bundle[k].pin /\ Less(k).rp = f.bundle[k].rp
    BY <2>1 DEF Entry
  <2> QED BY <2>1, <2>2, OverlayAssumption DEF AutoVm
<1> HIDE DEF Less
<1>3. g \in File /\ g.provides = f.provides /\ \A k \in Keys : g.bundle[k] =
        IF k \notin VmEntryKeys(f, v) THEN f.bundle[k] ELSE IF AutoVm(f.bundle[k]) THEN None ELSE Less(k)
  BY <1>1, <1>2 DEF File
<1>4. ASSUME NEW k \in Keys
      PROVE  /\ VmOf[k] # v => g.bundle[k] = f.bundle[k]
             /\ EntryAt(g, k).rp = EntryAt(f, k).rp /\ EntryAt(g, k).pin = EntryAt(f, k).pin
             /\ Facts(f.bundle[k]) = Facts(g.bundle[k])
  <2>1. CASE k \notin VmEntryKeys(f, v)
    BY <1>3, <2>1 DEF EntryAt
  <2>2. CASE k \in VmEntryKeys(f, v) /\ AutoVm(f.bundle[k])
    <3>1. f.bundle[k].own = {} /\ f.bundle[k].pin = None /\ f.bundle[k].rp = None /\ g.bundle[k] = None
      BY <1>2, <1>3, <2>2 DEF Zero
    <3> QED BY <3>1, <1>2, <2>2 DEF EntryAt, Zero, Facts
  <2>3. CASE k \in VmEntryKeys(f, v) /\ ~AutoVm(f.bundle[k])
    BY <1>2, <1>3, <2>3, SMTT(60) DEF EntryAt, Facts
  <2> QED BY <2>1, <2>2, <2>3
<1> QED BY <1>3, <1>4

-----------------------------------------------------------------------------
(* Types, and where a command can be.                                      *)

WellFormed(l, j) ==
  /\ l \notin {"new", "done"} => j.cmd \in AllCommands /\ j.key \in Keys
  /\ l \notin {"new", "done"} /\ j.cmd \in VmCommands => VmOf[j.key] \in Vms
  /\ l = "load" => j.cmd \in {"config", "import", "import box", "replace", "reset"}
  /\ l \in {"note", "noted"} => j.cmd \in Noting /\ j.key \in Ephemerals /\ j.then = "done"
  /\ l \in {"early", "ports", "inject", "injected", "reload", "seed"} => j.cmd = "config"
  /\ l \in {"lock", "read"} => j.cmd \notin Unlocked \ {"config"}
  /\ l \in {"venue", "dial"} => j.cmd = "vm add"
  /\ l \in {"create", "boot"} => j.cmd \in {"vm create", "vm add"}
  /\ l = "gone" => j.cmd = "vm destroy"
  /\ j.then \in {"done", "boot", "reload"}
  /\ j.then = "boot" => j.cmd \in {"vm create", "vm add"}
  /\ l \in {"lock", "read", "write"} /\ j.cmd = "vm create" => j.then = "boot"
  /\ j.then = "reload" => j.cmd = "config"

JobsOK ==
  /\ pc \in [Procs -> PCs] /\ job \in [Procs -> Job]
  /\ \A p \in Procs : WellFormed(pc[p], job[p])

TypeInv == TypeOK /\ JobsOK

\* A process moves, the others stay where they are.
Moves(p, l, j) ==
  /\ pc'[p] = l /\ job'[p] = j
  /\ \A q \in Procs \ {p} : pc'[q] = pc[q] /\ job'[q] = job[q]

LEMMA FileTypes ==
  /\ Empty \in File /\ (\A k \in Keys : Empty.bundle[k] = None)
  /\ (file \in File => LoadForRead \in File)
  /\ Idle \in Job /\ Idle.cmd = None /\ Idle.then = "done"
<1>1. Empty \in File /\ \A k \in Keys : Empty.bundle[k] = None
  BY DEF Empty, File
<1>2. Idle \in Job /\ Idle.cmd = None /\ Idle.then = "done"
  BY <1>1 DEF Idle, Job, PCs
<1> QED BY <1>1, <1>2 DEF LoadForRead

LEMMA GoWorks ==
  ASSUME JobsOK, NEW p \in Procs, NEW l \in PCs, NEW j \in Job, Go(p, l, j), WellFormed(l, j)
  PROVE  JobsOK' /\ Moves(p, l, j)
<1>1. pc' = [pc EXCEPT ![p] = l] /\ job' = [job EXCEPT ![p] = j]
  BY DEF Go
<1>2. pc' \in [Procs -> PCs] /\ job' \in [Procs -> Job] /\ Moves(p, l, j)
  BY <1>1 DEF JobsOK, Moves
<1>3. \A q \in Procs : WellFormed(pc[q], job[q])'
  <2> TAKE q \in Procs
  <2>1. CASE q = p
    BY <1>2, <2>1 DEF Moves, WellFormed
  <2>2. CASE q # p
    BY <1>2, <2>2, ZenonT(60) DEF JobsOK, Moves, WellFormed
  <2> QED BY <2>1, <2>2
<1> QED BY <1>2, <1>3 DEF JobsOK

LEMMA FinishWorks ==
  ASSUME JobsOK, NEW p \in Procs, Finish(p), lock \in Procs \cup {None}
  PROVE  /\ JobsOK' /\ Moves(p, "done", Idle)
         /\ lock' = (IF lock = p THEN None ELSE lock) /\ lock' \in Procs \cup {None}
<1>1. WellFormed("done", Idle) /\ "done" \in PCs /\ Idle \in Job
  BY FileTypes, OverlayAssumption DEF WellFormed, PCs, VmCommands
<1>2. Go(p, "done", Idle)
  BY DEF Finish, Go
<1> QED BY <1>1, <1>2, GoWorks DEF Finish

LEMMA JobWith ==
  ASSUME NEW j \in Job, NEW f \in File, NEW r \in Ports \cup {None}, NEW t \in PCs
  PROVE  /\ [j EXCEPT !.mem = f] \in Job
         /\ [j EXCEPT !.then = t] \in Job
         /\ [j EXCEPT !.mem = f, !.then = t] \in Job
         /\ [j EXCEPT !.port = r] \in Job
         /\ [j EXCEPT !.fwd = r, !.then = t] \in Job
  BY DEF Job

LEMMA KeyFacts ==
  ASSUME NEW k \in Keys, VmOf[k] \in Vms
  PROVE  VmOf[k] \in Keys /\ VmOf[k] # None /\ VmOf[VmOf[k]] = VmOf[k]
  BY OverlayAssumption DEF Vms

LEMMA RecordFact ==
  ASSUME NEW f \in File, NEW k \in Keys, NEW pin \in Ports \cup {None}
  PROVE  \A fact \in FactSet : LET g == Record(f, k, {fact}, pin)
                               IN  g \in File /\ Alters(f, g, {k}) /\ Keeps(f, g) /\ Allots(f, g) /\ g.provides = f.provides
<1> TAKE fact \in FactSet
<1> DEFINE facts == {fact}
           g == Record(f, k, facts, pin)
<1>1. facts \in SUBSET FactSet
  OBVIOUS
<1> HIDE DEF facts
<1>2. g \in File /\ Alters(f, g, {k}) /\ Keeps(f, g) /\ Allots(f, g) /\ g.provides = f.provides
  BY <1>1, RecordWorks
<1> QED BY <1>2 DEF facts

LEMMA UpdateTypes ==
  ASSUME NEW j \in Job, j.key \in Keys, j.cmd \in {"config", "save", "add", "remove"} \cup VmCommands,
         j.then = "boot" => j.cmd \in {"vm create", "vm add"}, j.cmd = "vm create" => j.then = "boot",
         j.cmd \in VmCommands => VmOf[j.key] \in Vms, NEW p \in Procs, job[p] = j
  PROVE  Update(p) \in File
<1>1. j.mem \in File /\ j.pin \in Ports \cup {None} /\ j.port \in Ports \cup {None} /\ j.fwd \in Ports \cup {None}
  BY DEF Job
<1>2. CASE j.cmd \in {"config", "save", "add"}
  <2>1. Update(p) = Record(j.mem, j.key, {"state"}, j.pin)
    BY <1>2 DEF Update, VmCommands
  <2>2. Record(j.mem, j.key, {"state"}, j.pin) \in File
    <3> DEFINE pin == j.pin
               k == j.key
    <3>1. pin \in Ports \cup {None} /\ k \in Keys /\ "state" \in FactSet
      BY <1>1 DEF FactSet
    <3> HIDE DEF pin, k
    <3>2. Record(j.mem, k, {"state"}, pin) \in File
      BY <3>1, <1>1, RecordFact
    <3> QED BY <3>2 DEF pin, k
  <2> QED BY <2>1, <2>2
<1>3. CASE j.cmd = "remove"
  <2>1. Update(p) = Clean(j.mem, j.key)
    BY <1>3 DEF Update, VmCommands
  <2> QED BY <2>1, <1>1, CleanWorks
<1>4. CASE j.cmd \in VmCommands
  <2>1. VmOf[j.key] \in Keys
    BY <1>4, KeyFacts
  <2>2. Update(p) \in {RecordSsh(j.mem, VmOf[j.key], j.fwd), RecordSsh(j.mem, j.key, j.port), ForgetVm(j.mem, VmOf[j.key])}
    BY <1>4 DEF Update, VmCommands
  <2>3. RecordSsh(j.mem, VmOf[j.key], j.fwd) \in File /\ RecordSsh(j.mem, j.key, j.port) \in File
    BY <1>1, <2>1, RecordSshWorks
  <2>4. ForgetVm(j.mem, VmOf[j.key]) \in File
    BY <1>1, <2>1, ForgetWorks
  <2> QED BY <2>2, <2>3, <2>4
<1> QED BY <1>2, <1>3, <1>4

LEMMA PortTypes ==
  ASSUME NEW f \in File, NEW k \in Keys
  PROVE  /\ ResolveDeployPorts(f, k) \subseteq Ports
         /\ ResolveVmSshPort(f, k) \subseteq Ports
<1>1. EntryAt(f, k) \in Entry
  BY Entries
<1>2. ResolveDeployPorts(f, k) \subseteq Ports
  <2>1. CASE EntryAt(f, k).pin # None
    <3>1. EntryAt(f, k).pin \in Ports
      BY <1>1, <2>1 DEF Entry
    <3> QED BY <2>1, <3>1 DEF ResolveDeployPorts
  <2>2. CASE EntryAt(f, k).pin = None
    BY <2>2 DEF ResolveDeployPorts
  <2> QED BY <2>1, <2>2
<1>3. ResolveVmSshPort(f, k) \subseteq Ports
  BY <1>1 DEF ResolveVmSshPort, Entry
<1> QED BY <1>2, <1>3

LEMMA LockTypes ==
  ASSUME TypeInv, NEW p \in Procs, Lock(p)
  PROVE  TypeInv'
<1> DEFINE j == job[p]
<1>1. j \in Job /\ WellFormed("lock", j) /\ pc[p] = "lock" /\ lock' = p
  BY DEF TypeInv, JobsOK, Lock, Acquire
<1>2. WellFormed("read", j) /\ "read" \in PCs
  BY <1>1 DEF WellFormed, PCs
<1>3. JobsOK'
  BY <1>1, <1>2, GoWorks DEF TypeInv, Lock
<1> QED BY <1>1, <1>3 DEF TypeInv, TypeOK, JobsOK, Lock

LEMMA LockedLoadTypes ==
  ASSUME TypeInv, NEW p \in Procs, LockedLoad(p)
  PROVE  TypeInv'
<1> DEFINE j == job[p]
<1>1. j \in Job /\ WellFormed("read", j) /\ pc[p] = "read" /\ file \in File /\ JobsOK /\ lock \in Procs \cup {None}
  BY DEF TypeInv, JobsOK, TypeOK, LockedLoad
<1>2. CASE Go(p, "write", [j EXCEPT !.mem = file]) /\ UNCHANGED lock
  <2> DEFINE d == [j EXCEPT !.mem = file]
  <2>1. d \in Job /\ d.cmd = j.cmd /\ d.key = j.key /\ d.then = j.then
    BY <1>1 DEF Job
  <2>2. WellFormed("write", d) /\ "write" \in PCs
    BY <1>1, <2>1 DEF WellFormed, PCs
  <2> QED BY <1>1, <1>2, <2>1, <2>2, GoWorks DEF TypeInv, TypeOK, LockedLoad, JobsOK
<1>3. CASE Finish(p)
  BY <1>1, <1>3, FinishWorks DEF TypeInv, TypeOK, LockedLoad, JobsOK
<1>4. CASE j.then = "reload" /\ Go(p, "reload", [j EXCEPT !.then = "done"]) /\ lock' = None
  <2>1. WellFormed("reload", [j EXCEPT !.then = "done"]) /\ {"reload", "done"} \subseteq PCs
    BY <1>1, <1>4 DEF WellFormed, PCs, Job
  <2>2. [j EXCEPT !.then = "done"] \in Job
    BY <1>1, <2>1, JobWith
  <2> QED BY <1>1, <1>4, <2>1, <2>2, GoWorks DEF TypeInv, TypeOK, LockedLoad, JobsOK
<1> QED BY <1>2, <1>3, <1>4 DEF LockedLoad

LEMMA LockedSaveTypes ==
  ASSUME TypeInv, NEW p \in Procs, LockedSave(p)
  PROVE  TypeInv'
<1> DEFINE j == job[p]
           d == [j EXCEPT !.then = "done", !.mem = Empty]
<1>1. j \in Job /\ WellFormed("write", j) /\ pc[p] = "write" /\ file \in File /\ JobsOK /\ lock \in Procs \cup {None}
  BY DEF TypeInv, JobsOK, TypeOK, LockedSave
<1>2. file' \in File
  <2>1. Update(p) \in File
    BY <1>1, UpdateTypes DEF WellFormed, LockedSave, AllCommands, PodCommands
  <2> QED BY <1>1, <2>1 DEF LockedSave, Save
<1>3. CASE Finish(p)
  BY <1>1, <1>2, <1>3, FinishWorks DEF TypeInv, TypeOK, LockedSave, JobsOK
<1>4. CASE j.then # "done" /\ Go(p, j.then, d) /\ lock' = None
  <2>1. d \in Job /\ d.cmd = j.cmd /\ d.key = j.key /\ d.then = "done"
    BY <1>1, FileTypes DEF Job, PCs
  <2>2. WellFormed(j.then, d) /\ j.then \in PCs
    BY <1>1, <1>4, <2>1 DEF WellFormed, PCs, VmCommands
  <2> QED BY <1>1, <1>2, <1>4, <2>1, <2>2, GoWorks DEF TypeInv, TypeOK, LockedSave, JobsOK
<1> QED BY <1>3, <1>4 DEF LockedSave

\* The part of a step's proof that is the same for every step that moves a process on.
LEMMA MoveTypes ==
  ASSUME TypeInv, NEW p \in Procs, NEW l \in PCs, NEW j \in Job, Go(p, l, j), WellFormed(l, j),
         file' \in File, UNCHANGED <<loadable, lock, domain, faults>>
  PROVE  TypeInv'
<1>1. JobsOK'
  BY GoWorks DEF TypeInv
<1> QED BY <1>1 DEF TypeInv, TypeOK, JobsOK

LEMMA EndTypes ==
  ASSUME TypeInv, NEW p \in Procs, Finish(p), file' \in File, loadable' \in BOOLEAN,
         domain' \in [Vms -> Ports \cup {None}], faults' \in 0..MaxFaults
  PROVE  TypeInv'
<1>1. JobsOK' /\ lock' \in Procs \cup {None}
  BY FinishWorks DEF TypeInv, TypeOK
<1> QED BY <1>1 DEF TypeInv, TypeOK, JobsOK

LEMMA ConfigTypes ==
  ASSUME TypeInv, NEW p \in Procs, ConfigStep(p)
  PROVE  TypeInv'
<1> DEFINE j == job[p]
<1>1. /\ j \in Job /\ WellFormed(pc[p], j) /\ file \in File /\ JobsOK /\ lock \in Procs \cup {None}
      /\ loadable \in BOOLEAN /\ domain \in [Vms -> Ports \cup {None}] /\ faults \in 0..MaxFaults
      /\ j.mem \in File
  BY DEF TypeInv, JobsOK, TypeOK, Job
<1>2. \A f \in File, t \in PCs :
        /\ [j EXCEPT !.mem = f] \in Job /\ [j EXCEPT !.mem = f].cmd = j.cmd /\ [j EXCEPT !.mem = f].key = j.key
        /\ [j EXCEPT !.mem = f].then = j.then
        /\ [j EXCEPT !.mem = f, !.then = t] \in Job /\ [j EXCEPT !.mem = f, !.then = t].cmd = j.cmd
        /\ [j EXCEPT !.mem = f, !.then = t].key = j.key /\ [j EXCEPT !.mem = f, !.then = t].then = t
  BY <1>1 DEF Job
<1>3. {"early", "ports", "inject", "injected", "lock", "reload", "seed"} \subseteq PCs
  BY DEF PCs
<1>4. ASSUME pc[p] \in {"load", "early", "ports", "inject", "injected", "reload", "seed"}, j.cmd = "config",
             NEW d \in Job, d.cmd = j.cmd, d.key = j.key
      PROVE  /\ d.then = j.then => \A l \in {"early", "ports", "inject", "injected", "seed"} : WellFormed(l, d)
             /\ d.then = "reload" => WellFormed("lock", d)
             /\ j.key \in Keys
  BY <1>1, <1>4 DEF WellFormed, VmCommands, Unlocked
<1>5. \A f \in File : Save(f) => file' \in File
  BY <1>1 DEF Save
<1>6. CASE ConfigLoad(p)
  BY <1>1, <1>2, <1>3, <1>4, <1>6, FileTypes, MoveTypes DEF ConfigLoad
<1>7. CASE ConfigEarly(p)
  <2> DEFINE dc == Record(j.mem, j.key, {"caps"}, None)
  <2>1. pc[p] = "early" /\ j.cmd = "config" /\ j.key \in Keys
    BY <1>1, <1>7 DEF WellFormed, ConfigEarly
  <2>2. dc \in File
    BY <1>1, <2>1, RecordFact DEF FactSet
  <2> HIDE DEF dc
  <2>3. \/ Go(p, "ports", j) /\ UNCHANGED <<file, lock>>
        \/ Save(dc) /\ Go(p, "ports", [j EXCEPT !.mem = dc]) /\ UNCHANGED lock
        \/ Finish(p) /\ UNCHANGED file
    BY <1>7 DEF ConfigEarly, dc
  <2>4. UNCHANGED <<loadable, domain, faults>>
    BY <1>7 DEF ConfigEarly
  <2>5. CASE Go(p, "ports", j) /\ UNCHANGED <<file, lock>>
    BY <1>1, <1>3, <1>4, <2>1, <2>4, <2>5, MoveTypes
  <2>6. CASE Save(dc) /\ Go(p, "ports", [j EXCEPT !.mem = dc]) /\ UNCHANGED lock
    BY <1>2, <1>3, <1>4, <1>5, <2>1, <2>2, <2>4, <2>6, MoveTypes
  <2>7. CASE Finish(p) /\ UNCHANGED file
    BY <1>1, <2>4, <2>7, EndTypes
  <2> QED BY <2>3, <2>5, <2>6, <2>7
<1>8. CASE ConfigPorts(p)
  <2>1. pc[p] = "ports" /\ j.cmd = "config" /\ j.key \in Keys /\ UNCHANGED <<loadable, domain, faults>>
    BY <1>1, <1>8 DEF WellFormed, ConfigPorts
  <2>2. \/ Go(p, "inject", j) /\ UNCHANGED <<file, lock>>
        \/ Finish(p) /\ UNCHANGED file
        \/ \E r \in ResolveDeployPorts(j.mem, j.key) :
             Save(RecordPort(j.mem, j.key, r)) /\ Go(p, "inject", j) /\ UNCHANGED lock
    BY <1>8 DEF ConfigPorts
  <2>3. CASE Go(p, "inject", j) /\ UNCHANGED <<file, lock>>
    BY <1>1, <1>3, <1>4, <2>1, <2>3, MoveTypes
  <2>4. CASE Finish(p) /\ UNCHANGED file
    BY <1>1, <2>1, <2>4, EndTypes
  <2>5. ASSUME NEW r \in ResolveDeployPorts(j.mem, j.key),
               Save(RecordPort(j.mem, j.key, r)) /\ Go(p, "inject", j) /\ UNCHANGED lock
        PROVE  TypeInv'
    <3>1. RecordPort(j.mem, j.key, r) \in File
      BY <1>1, <2>1, PortTypes, RecordPortWorks
    <3> QED BY <1>1, <1>3, <1>4, <1>5, <2>1, <2>5, <3>1, MoveTypes
  <2> QED BY <2>2, <2>3, <2>4, <2>5
<1>9. CASE ConfigInject(p)
  <2>1. pc[p] = "inject" /\ j.cmd = "config" /\ UNCHANGED <<file, loadable, lock, domain, faults>>
    BY <1>1, <1>9 DEF WellFormed, ConfigInject
  <2>2. CASE Go(p, "injected", [j EXCEPT !.mem = file])
    BY <1>1, <1>2, <1>3, <1>4, <2>1, <2>2, MoveTypes
  <2>3. CASE Go(p, "lock", [j EXCEPT !.mem = Empty, !.then = "reload"])
    <3> DEFINE d == [j EXCEPT !.mem = Empty, !.then = "reload"]
    <3>1. d \in Job /\ d.cmd = j.cmd /\ d.key = j.key /\ d.then = "reload"
      BY <1>2, <1>3, FileTypes, ZenonT(60)
    <3> HIDE DEF d
    <3>2. WellFormed("lock", d) /\ file' \in File
      BY <1>1, <1>4, <2>1, <3>1
    <3> QED BY <1>3, <2>1, <2>3, <3>1, <3>2, MoveTypes DEF d
  <2> QED BY <1>9, <2>2, <2>3 DEF ConfigInject
<1>10. CASE ConfigInjected(p)
  <2>1. /\ pc[p] = "injected" /\ j.cmd = "config" /\ UNCHANGED <<loadable, lock, domain, faults>>
        /\ Go(p, "lock", [j EXCEPT !.mem = Empty, !.then = "reload"])
    BY <1>1, <1>10 DEF WellFormed, ConfigInjected
  <2>2. file' \in File
    <3>1. j.key \in Keys
      BY <1>1, <1>4, <2>1
    <3>2. [j.mem EXCEPT !.provides = @ \cup {j.key}] \in File
      BY <1>1, <3>1 DEF File
    <3> QED BY <1>1, <1>5, <1>10, <3>2 DEF ConfigInjected
  <2> QED BY <1>2, <1>3, <1>4, <2>1, <2>2, FileTypes, MoveTypes, ZenonT(60)
<1>11. CASE ConfigReload(p)
  <2>1. pc[p] = "reload" /\ j.cmd = "config" /\ UNCHANGED <<file, loadable, domain, faults>>
    BY <1>1, <1>11 DEF WellFormed, ConfigReload
  <2>2. CASE Go(p, "seed", [j EXCEPT !.mem = LoadForRead]) /\ UNCHANGED lock
    BY <1>1, <1>2, <1>3, <1>4, <2>1, <2>2, FileTypes, MoveTypes, ZenonT(60)
  <2>3. CASE Finish(p)
    BY <1>1, <2>1, <2>3, EndTypes
  <2> QED BY <1>11, <2>2, <2>3 DEF ConfigReload
<1>12. CASE ConfigSeed(p)
  <2>1. /\ pc[p] = "seed" /\ j.cmd = "config" /\ UNCHANGED <<loadable, domain, faults>> /\ Finish(p)
        /\ Save(Record(j.mem, j.key, {"seeded"}, None))
    BY <1>1, <1>12 DEF WellFormed, ConfigSeed
  <2>2. Record(j.mem, j.key, {"seeded"}, None) \in File
    BY <1>1, <1>4, <2>1, RecordFact DEF FactSet
  <2> QED BY <1>1, <1>5, <2>1, <2>2, EndTypes
<1> QED BY <1>6, <1>7, <1>8, <1>9, <1>10, <1>11, <1>12 DEF ConfigStep

LEMMA BundleTypes ==
  ASSUME TypeInv, NEW p \in Procs, BundleLoad(p) \/ BundleSave(p)
  PROVE  TypeInv'
<1> DEFINE j == job[p]
<1>1. /\ j \in Job /\ WellFormed(pc[p], j) /\ file \in File /\ JobsOK /\ lock \in Procs \cup {None}
      /\ loadable \in BOOLEAN /\ domain \in [Vms -> Ports \cup {None}] /\ faults \in 0..MaxFaults
      /\ j.mem \in File
  BY DEF TypeInv, JobsOK, TypeOK, Job
<1>2. CASE BundleLoad(p)
  <2>1. pc[p] = "load" /\ j.cmd \in {"import", "import box", "replace", "reset"} /\ UNCHANGED <<file, loadable, domain, faults>>
    BY <1>2 DEF BundleLoad
  <2> DEFINE d == [j EXCEPT !.mem = file]
  <2>2. d \in Job /\ d.cmd = j.cmd /\ d.key = j.key /\ d.then = j.then
    BY <1>1 DEF Job
  <2>3. WellFormed("write", j) /\ WellFormed("write", d) /\ "write" \in PCs
    BY <1>1, <2>1, <2>2 DEF WellFormed, PCs, VmCommands
  <2> HIDE DEF d
  <2>4. CASE Go(p, "write", j) /\ UNCHANGED lock
    BY <1>1, <2>1, <2>3, <2>4, MoveTypes
  <2>5. CASE Go(p, "write", d) /\ UNCHANGED lock
    BY <1>1, <2>1, <2>2, <2>3, <2>5, MoveTypes
  <2>6. CASE Finish(p)
    BY <1>1, <2>1, <2>6, EndTypes
  <2> QED BY <1>2, <2>4, <2>5, <2>6 DEF BundleLoad, d
<1>3. CASE BundleSave(p)
  <2> DEFINE rest == [j.mem EXCEPT !.bundle[j.key] = None]
             new == Record(j.mem, j.key, {"operator"}, None)
  <2>1. pc[p] = "write" /\ Finish(p) /\ UNCHANGED <<domain, faults>> /\ j.key \in Keys
    BY <1>1, <1>3 DEF BundleSave, WellFormed
  <2> DEFINE bare == [new EXCEPT !.provides = {}]
  <2>2. rest \in File
    BY <1>1, <2>1 DEF File
  <2>3. new \in File
    BY <1>1, <2>1, RecordFact DEF FactSet
  <2>4. \/ file' = Empty /\ loadable' = TRUE
        \/ UNCHANGED <<file, loadable>>
        \/ Save(rest) /\ UNCHANGED loadable
        \/ Save(new) /\ UNCHANGED loadable
        \/ Save(bare) /\ UNCHANGED loadable
    BY <1>3 DEF BundleSave
  <2> HIDE DEF rest, new
  <2>6. bare \in File
    BY <2>3 DEF File
  <2> HIDE DEF bare
  <2>5. file' \in File /\ loadable' \in BOOLEAN
    BY <1>1, <2>2, <2>3, <2>4, <2>6, FileTypes DEF Save
  <2> QED BY <1>1, <2>1, <2>5, EndTypes
<1> QED BY <1>2, <1>3

LEMMA VmTypes ==
  ASSUME TypeInv, NEW p \in Procs, VmStep(p)
  PROVE  TypeInv'
<1> DEFINE j == job[p]
           v == VmOf[j.key]
<1>1. /\ j \in Job /\ WellFormed(pc[p], j) /\ file \in File /\ JobsOK /\ lock \in Procs \cup {None}
      /\ loadable \in BOOLEAN /\ domain \in [Vms -> Ports \cup {None}] /\ faults \in 0..MaxFaults
  BY DEF TypeInv, JobsOK, TypeOK
<1>2. {"dial", "lock", "create", "boot"} \subseteq PCs
  BY DEF PCs
<1>3. \A r \in Ports : /\ [j EXCEPT !.port = r] \in Job /\ [j EXCEPT !.port = r].cmd = j.cmd
                       /\ [j EXCEPT !.port = r].key = j.key /\ [j EXCEPT !.port = r].then = j.then
                       /\ [j EXCEPT !.fwd = r, !.then = "boot"] \in Job
                       /\ [j EXCEPT !.fwd = r, !.then = "boot"].cmd = j.cmd
                       /\ [j EXCEPT !.fwd = r, !.then = "boot"].key = j.key
                       /\ [j EXCEPT !.fwd = r, !.then = "boot"].then = "boot"
  BY <1>1, <1>2 DEF Job
<1>4. ASSUME pc[p] \in {"venue", "dial", "create", "boot", "gone"}
      PROVE  j.cmd \in VmCommands /\ j.key \in Keys /\ v \in Vms /\ v \in Keys /\ j.cmd \notin Unlocked
  BY <1>1, <1>4, KeyFacts DEF WellFormed, VmCommands, Unlocked
<1>5. ASSUME pc[p] \in {"venue", "dial", "create", "boot", "gone"}
      PROVE  \A r \in ResolveVmSshPort(LoadForRead, v) : r \in Ports
  BY <1>1, <1>4, <1>5, FileTypes, PortTypes
<1>6. CASE VmVenue(p)
  <2>1. pc[p] = "venue" /\ UNCHANGED <<file, loadable, lock, domain, faults>>
    BY <1>6 DEF VmVenue
  <2>2. PICK r \in ResolveVmSshPort(LoadForRead, v) : Go(p, "dial", [j EXCEPT !.port = r])
    BY <1>6 DEF VmVenue
  <2> DEFINE d == [j EXCEPT !.port = r]
  <2>3. d \in Job /\ d.cmd = j.cmd /\ d.key = j.key /\ d.then = j.then
    BY <1>3, <1>5, <2>1, <2>2
  <2> HIDE DEF d
  <2>4. WellFormed("dial", d)
    BY <1>1, <2>1, <2>3 DEF WellFormed, VmCommands
  <2>5. Go(p, "dial", d) /\ file' \in File
    BY <1>1, <2>1, <2>2 DEF d
  <2> QED BY <1>2, <2>1, <2>3, <2>4, <2>5, MoveTypes
<1>7. CASE VmDial(p)
  <2>1. pc[p] = "dial" /\ UNCHANGED <<file, loadable, lock, domain, faults>>
    BY <1>7 DEF VmDial
  <2>2. WellFormed("lock", j) /\ WellFormed("create", j) /\ file' \in File
    BY <1>1, <1>4, <2>1 DEF WellFormed, VmCommands
  <2>3. Go(p, "lock", j) \/ Go(p, "create", j)
    BY <1>7 DEF VmDial
  <2> QED BY <1>1, <1>2, <2>1, <2>2, <2>3, MoveTypes
<1>8. CASE VmCreate(p)
  <2>1. pc[p] = "create" /\ UNCHANGED <<file, loadable, lock, domain, faults>>
    BY <1>8 DEF VmCreate
  <2>2. PICK r \in ResolveVmSshPort(LoadForRead, v) : Go(p, "lock", [j EXCEPT !.fwd = r, !.then = "boot"])
    BY <1>8 DEF VmCreate, VmCreatePort
  <2> DEFINE d == [j EXCEPT !.fwd = r, !.then = "boot"]
  <2>3. d \in Job /\ d.cmd = j.cmd /\ d.key = j.key /\ d.then = "boot"
    BY <1>3, <1>5, <2>1, <2>2
  <2> HIDE DEF d
  <2>4. WellFormed("lock", d)
    BY <1>1, <1>4, <2>1, <2>3 DEF WellFormed, VmCommands
  <2>5. Go(p, "lock", d) /\ file' \in File
    BY <1>1, <2>1, <2>2 DEF d
  <2> QED BY <1>2, <2>1, <2>3, <2>4, <2>5, MoveTypes
<1>9. CASE VmBoot(p)
  <2>1. pc[p] = "boot" /\ UNCHANGED <<file, loadable, faults>>
    BY <1>9 DEF VmBoot
  <2>2. domain' \in [Vms -> Ports \cup {None}]
    <3>1. j.fwd \in Ports \cup {None}
      BY <1>1 DEF Job
    <3> QED BY <1>1, <1>9, <3>1 DEF VmBoot
  <2>3. CASE Finish(p)
    BY <1>1, <2>1, <2>2, <2>3, EndTypes
  <2>4. CASE j.cmd = "vm add" /\ Go(p, "lock", j) /\ UNCHANGED lock
    <3>1. WellFormed("lock", j)
      BY <1>1, <1>4, <2>1, <2>4 DEF WellFormed, VmCommands
    <3>2. JobsOK'
      BY <1>1, <1>2, <2>4, <3>1, GoWorks
    <3> QED BY <1>1, <2>1, <2>2, <2>4, <3>2 DEF TypeInv, TypeOK, JobsOK
  <2> QED BY <1>9, <2>3, <2>4 DEF VmBoot
<1>10. CASE VmGone(p)
  <2>1. pc[p] = "gone" /\ UNCHANGED <<file, loadable, lock, faults>> /\ Go(p, "lock", j)
    BY <1>10 DEF VmGone
  <2>2. domain' \in [Vms -> Ports \cup {None}]
    BY <1>1, <1>10 DEF VmGone
  <2>3. WellFormed("lock", j)
    BY <1>1, <1>4, <2>1 DEF WellFormed, VmCommands
  <2>4. JobsOK'
    BY <1>1, <1>2, <2>1, <2>3, GoWorks
  <2> QED BY <1>1, <2>1, <2>2, <2>4 DEF TypeInv, TypeOK, JobsOK
<1> QED BY <1>6, <1>7, <1>8, <1>9, <1>10 DEF VmStep

LEMMA EphemeralTypes ==
  ASSUME TypeInv, NEW p \in Procs, EphemeralLoad(p) \/ EphemeralSave(p) \/ NoOverlayImage(p)
  PROVE  TypeInv'
<1> DEFINE j == job[p]
           next == AfterNote(j.cmd)
<1>1. /\ j \in Job /\ j.mem \in File /\ WellFormed(pc[p], j) /\ file \in File /\ loadable \in BOOLEAN
      /\ domain \in [Vms -> Ports \cup {None}] /\ faults \in 0..MaxFaults
  BY DEF TypeInv, JobsOK, TypeOK, Job
<1>2. \A f \in File : /\ [j EXCEPT !.mem = f] \in Job /\ [j EXCEPT !.mem = f].cmd = j.cmd
                      /\ [j EXCEPT !.mem = f].key = j.key /\ [j EXCEPT !.mem = f].then = j.then
  BY <1>1 DEF Job
<1>3. {"noted", next} \subseteq PCs
  BY DEF PCs, AfterNote
<1>4. ASSUME pc[p] \in {"note", "noted"}, NEW d \in Job, d.cmd = j.cmd, d.key = j.key, d.then = j.then
      PROVE  WellFormed(next, d) /\ WellFormed("noted", d)
  BY <1>1, <1>4 DEF WellFormed, AfterNote, Noting, Unlocked, VmCommands
<1>5. CASE EphemeralLoad(p)
  <2>1. pc[p] = "note" /\ UNCHANGED <<file, loadable, lock, domain, faults>>
    BY <1>5 DEF EphemeralLoad
  <2> DEFINE d == [j EXCEPT !.mem = file]
  <2>2. d \in Job /\ WellFormed("noted", d) /\ WellFormed(next, j)
    BY <1>1, <1>2, <1>4, <2>1
  <2>3. Go(p, "noted", d) \/ Go(p, next, j)
    BY <1>5 DEF EphemeralLoad
  <2> HIDE DEF d, next
  <2> QED BY <1>1, <1>3, <2>1, <2>2, <2>3, MoveTypes
<1>6. CASE EphemeralSave(p)
  <2>1. pc[p] = "noted" /\ UNCHANGED <<loadable, lock, domain, faults>>
    BY <1>6 DEF EphemeralSave
  <2> DEFINE d == [j EXCEPT !.mem = Empty]
  <2>2. d \in Job /\ WellFormed(next, d) /\ Go(p, next, d)
    BY <1>2, <1>4, <1>6, <2>1, FileTypes DEF EphemeralSave
  <2>3. file' \in File
    <3>1. j.key \in Keys /\ {} \in SUBSET FactSet
      BY <1>1, <2>1 DEF WellFormed
    <3>2. Record(j.mem, j.key, {}, None) \in File
      BY <1>1, <3>1, RecordWorks
    <3> QED BY <1>1, <1>6, <3>2 DEF EphemeralSave, Save
  <2> HIDE DEF d, next
  <2> QED BY <1>3, <2>1, <2>2, <2>3, MoveTypes
<1>7. CASE NoOverlayImage(p)
  BY <1>1, <1>7, EndTypes DEF NoOverlayImage
<1> QED BY <1>5, <1>6, <1>7

LEMMA StartTypes ==
  ASSUME TypeInv, NEW p \in Procs, Start(p)
  PROVE  TypeInv'
<1>1. PICK c \in Commands, k \in Keys, pin \in Pins \cup {None} :
        /\ c \in VmCommands => k \in Keys \ Pods
        /\ Go(p, FirstPC(c, k), [Idle EXCEPT !.cmd = c, !.key = k, !.pin = pin])
        /\ UNCHANGED <<file, loadable, lock, domain, faults>>
  BY DEF Start
<1> DEFINE j == [Idle EXCEPT !.cmd = c, !.key = k, !.pin = pin]
<1>2. c \in AllCommands /\ pin \in Ports \cup {None}
  BY <1>1, OverlayAssumption
<1>3. j \in Job /\ j.cmd = c /\ j.key = k /\ j.then = "done"
  BY <1>2, FileTypes DEF Job
<1> HIDE DEF j
<1>4. c \in VmCommands => VmOf[k] \in Vms
  BY <1>1, OverlayAssumption DEF Pods, Vms
<1>5. FirstPC(c, k) \in PCs /\ WellFormed(FirstPC(c, k), j)
  <2>1. CASE c \in PodCommands
    BY <1>2, <1>3, <2>1 DEF FirstPC, AfterNote, PCs, WellFormed, PodCommands, VmCommands, Unlocked, Noting
  <2>2. CASE c \in VmCommands
    BY <1>3, <1>4, <2>2 DEF FirstPC, AfterNote, PCs, WellFormed, AllCommands, VmCommands, Unlocked, Noting
  <2>3. CASE c \in Unlocked
    BY <1>2, <1>3, <2>3 DEF FirstPC, PCs, WellFormed, VmCommands, Unlocked, Noting
  <2> QED BY <1>2, <2>1, <2>2, <2>3 DEF AllCommands
<1>6. Go(p, FirstPC(c, k), j) /\ file' \in File
  BY <1>1 DEF j, TypeInv, TypeOK
<1> QED BY <1>1, <1>3, <1>5, <1>6, MoveTypes

LEMMA StepTypes ==
  ASSUME TypeInv, NEW p \in Procs, Step(p)
  PROVE  TypeInv'
  BY LockTypes, LockedLoadTypes, LockedSaveTypes, EphemeralTypes, ConfigTypes, BundleTypes, VmTypes DEF Step

LEMMA TypeStep ==
  ASSUME TypeInv, [Next]_vars
  PROVE  TypeInv'
<1>1. CASE Spoil
  <2>1. UNCHANGED <<file, lock, pc, job, domain>> /\ loadable' = FALSE
    BY <1>1 DEF Spoil
  <2>2. faults < MaxFaults /\ faults' = faults + 1
    BY <1>1, Zenon DEF Spoil
  <2>3. faults' \in 0..MaxFaults
    BY <2>2, OverlayAssumption DEF TypeInv, TypeOK
  <2> QED BY <2>1, <2>3 DEF TypeInv, TypeOK, JobsOK
<1>2. CASE Repair
  BY <1>2 DEF Repair, TypeInv, TypeOK, JobsOK
<1>3. CASE UNCHANGED vars
  BY <1>3 DEF vars, TypeInv, TypeOK, JobsOK
<1>4. ASSUME NEW p \in Procs, Crash(p)
      PROVE  TypeInv'
  <2>1. Finish(p) /\ UNCHANGED <<file, loadable, domain>> /\ faults' \in 0..MaxFaults
    BY <1>4, OverlayAssumption DEF Crash, TypeInv, TypeOK
  <2> QED BY <2>1, EndTypes DEF TypeInv, TypeOK
<1> QED BY <1>1, <1>2, <1>3, <1>4, StartTypes, StepTypes DEF Next, AllDone

LEMMA TypeInit ==
  ASSUME Init
  PROVE  TypeInv
<1>1. file \in File
  <2>1. [Zero EXCEPT !.own = {"operator"}] \in Entry
    BY Entries DEF Zero, Entry, FactSet
  <2>2. PICK S \in SUBSET Authored : file = [Empty EXCEPT !.bundle =
          [k \in Keys |-> IF k \in S THEN [Zero EXCEPT !.own = {"operator"}] ELSE None]]
    BY DEF Init
  <2>3. [k \in Keys |-> IF k \in S THEN [Zero EXCEPT !.own = {"operator"}] ELSE None] \in [Keys -> Entry \cup {None}]
    BY <2>1
  <2> QED BY <2>2, <2>3, FileTypes DEF File
<1>2. \A p \in Procs : WellFormed("new", Idle)
  BY FileTypes DEF WellFormed
<1> QED BY <1>1, <1>2, FileTypes, OverlayAssumption DEF Init, TypeInv, TypeOK, JobsOK, PCs

\* The types of Overlay's variables, for every set of commands and of overlaps.
THEOREM TypeCorrect == Spec => []TypeOK
<1>1. Init => TypeInv
  BY TypeInit
<1>2. TypeInv /\ [Next]_vars => TypeInv'
  BY TypeStep
<1>3. TypeInv => TypeOK
  BY DEF TypeInv
<1> QED BY <1>1, <1>2, <1>3, PTL DEF Spec

-----------------------------------------------------------------------------
(* Who may write: the process that has the flock, or a command that takes  *)
(* none and is alone.  What it writes back is what the file says.          *)

Unforced == "unlocked" \notin Overlap /\ "repair" \notin Overlap

\* The session of process p writes the file without the flock, and such a session is alone.
Bare(p) == NoLock(job[p].cmd, job[p].key)
Alone   == \A p, q \in Procs : p # q /\ Active(p) /\ Active(q) => ~Bare(p)

Locked(l, j) == l \in {"read", "write"} /\ j.cmd \notin Unlocked \ {"config"}

Holding == \A p \in Procs : Locked(pc[p], job[p]) => lock = p

\* What a process has in memory when it is about to write is what the file says.
Current(p) ==
  /\ pc[p] = "write" /\ job[p].cmd \notin {"replace", "reset all"} => job[p].mem = file
  /\ pc[p] \in {"early", "ports", "seed"} /\ loadable => job[p].mem = file
  /\ pc[p] \in {"injected", "noted"} => job[p].mem = file
  /\ pc[p] \in {"load", "write"} /\ job[p].cmd = "replace" => job[p].mem = Empty

WriteInv == Alone /\ Holding /\ \A p \in Procs : Current(p)

\* The steps of process p, as the others see them.
Frame(p) ==
  /\ Active(p) /\ \A q \in Procs \ {p} : pc'[q] = pc[q] /\ job'[q] = job[q]
  /\ pc'[p] = "done" \/ (pc'[p] # "new" /\ job'[p].cmd = job[p].cmd /\ job'[p].key = job[p].key)
  /\ lock' = lock \/ (lock \in {None, p} /\ lock' \in {None, p})
  /\ Locked(pc[p], job[p])' => lock' = p
  /\ \/ UNCHANGED <<file, loadable>>
     \/ Bare(p)
     \/ Locked(pc[p], job[p]) /\ UNCHANGED loadable
  /\ Current(p)'

LEMMA GoMoves ==
  ASSUME TypeInv, NEW p \in Procs, NEW l, NEW j, Go(p, l, j)
  PROVE  Moves(p, l, j)
  BY DEF Go, Moves, TypeInv, JobsOK

LEMMA FinishMoves ==
  ASSUME TypeInv, NEW p \in Procs, Finish(p)
  PROVE  Moves(p, "done", Idle) /\ lock' = (IF lock = p THEN None ELSE lock)
  BY DEF Finish, Moves, TypeInv, JobsOK

LEMMA EndFrame ==
  ASSUME TypeInv, NEW p \in Procs, Finish(p), Active(p),
         \/ UNCHANGED <<file, loadable>>
         \/ Bare(p)
         \/ Locked(pc[p], job[p]) /\ UNCHANGED loadable
  PROVE  Frame(p)
  BY FinishMoves DEF Frame, Moves, Locked, Current

LEMMA FrameKeeps ==
  ASSUME TypeInv, WriteInv, NEW p \in Procs, Frame(p)
  PROVE  WriteInv'
<1>1. Alone'
  BY DEF Frame, WriteInv, Alone, Bare, Active
<1>2. Holding'
  <2>1. ASSUME NEW q \in Procs, q # p, Locked(pc[q], job[q])' PROVE lock' = q
    <3>1. lock = q
      BY <2>1 DEF Frame, WriteInv, Holding, Locked
    <3> QED BY <2>1, <3>1, OverlayAssumption DEF Frame
  <2> QED BY <2>1 DEF Holding, Frame
<1>3. ASSUME NEW q \in Procs, q # p PROVE Current(q)'
  <2>1. pc'[q] = pc[q] /\ job'[q] = job[q] /\ Current(q)
    BY <1>3 DEF Frame, WriteInv
  <2>2. CASE UNCHANGED <<file, loadable>>
    BY <2>1, <2>2 DEF Current
  <2>3. CASE Bare(p)
    <3>1. ~Active(q)
      BY <1>3, <2>3 DEF Frame, WriteInv, Alone
    <3> QED BY <2>1, <3>1 DEF Current, Active
  <2>4. CASE Locked(pc[p], job[p]) /\ UNCHANGED loadable
    <3>1. lock = p
      BY <2>4 DEF WriteInv, Holding
    <3>2. ~Locked(pc[q], job[q])
      BY <1>3, <3>1 DEF WriteInv, Holding
    <3>3. CASE Bare(q)
      <4>1. ~Active(q)
        BY <1>3, <3>3 DEF Frame, WriteInv, Alone
      <4> QED BY <2>1, <4>1 DEF Current, Active
    <3>4. CASE ~Bare(q)
      <4>1. pc[q] \notin {"write", "early", "ports", "seed", "injected", "noted"}
        BY <3>2, <3>4 DEF TypeInv, JobsOK, WellFormed, Locked, Unlocked, Bare, NoLock
      <4> QED BY <2>1, <4>1 DEF Current
    <3> QED BY <3>3, <3>4
  <2> QED BY <2>2, <2>3, <2>4 DEF Frame
<1> QED BY <1>1, <1>2, <1>3 DEF WriteInv, Frame

LEMMA LockFrame ==
  ASSUME TypeInv, WriteInv, NEW p \in Procs, Lock(p)
  PROVE  Frame(p)
<1>1. pc[p] = "lock" /\ lock = None /\ lock' = p /\ UNCHANGED <<file, loadable>> /\ Moves(p, "read", job[p])
  BY GoMoves DEF Lock, Acquire
<1> QED BY <1>1 DEF Frame, Moves, Active, Current, Locked

LEMMA LockedLoadFrame ==
  ASSUME TypeInv, WriteInv, NEW p \in Procs, LockedLoad(p)
  PROVE  Frame(p)
<1> DEFINE j == job[p]
<1>1. pc[p] = "read" /\ UNCHANGED <<file, loadable>> /\ j \in Job /\ Active(p)
  BY DEF LockedLoad, TypeInv, JobsOK, Active
<1>2. Locked("read", j) /\ lock = p
  BY <1>1 DEF TypeInv, JobsOK, WellFormed, Locked, WriteInv, Holding
<1>3. CASE Go(p, "write", [j EXCEPT !.mem = file]) /\ UNCHANGED lock
  <2> DEFINE d == [j EXCEPT !.mem = file]
  <2>1. Moves(p, "write", d) /\ d.cmd = j.cmd /\ d.key = j.key /\ d.mem = file
    BY <1>1, <1>3, GoMoves DEF Job
  <2> HIDE DEF d
  <2> QED BY <1>1, <1>2, <1>3, <2>1 DEF Frame, Moves, Current, Locked, Unlocked
<1>4. CASE Finish(p)
  BY <1>1, <1>4, EndFrame
<1>5. CASE Go(p, "reload", [j EXCEPT !.then = "done"]) /\ lock' = None
  <2> DEFINE d == [j EXCEPT !.then = "done"]
  <2>1. Moves(p, "reload", d) /\ d.cmd = j.cmd /\ d.key = j.key
    BY <1>1, <1>5, GoMoves DEF Job
  <2> HIDE DEF d
  <2> QED BY <1>1, <1>2, <1>5, <2>1 DEF Frame, Moves, Current, Locked
<1> QED BY <1>3, <1>4, <1>5 DEF LockedLoad

LEMMA LockedSaveFrame ==
  ASSUME TypeInv, WriteInv, NEW p \in Procs, LockedSave(p)
  PROVE  Frame(p)
<1> DEFINE j == job[p]
           d == [j EXCEPT !.then = "done", !.mem = Empty]
<1>1. pc[p] = "write" /\ UNCHANGED loadable /\ j \in Job /\ Active(p) /\ Locked("write", j)
  BY DEF LockedSave, TypeInv, JobsOK, Active, Locked
<1>2. lock = p
  BY <1>1 DEF WriteInv, Holding
<1>3. CASE Finish(p)
  BY <1>1, <1>3, EndFrame
<1>4. CASE j.then # "done" /\ Go(p, j.then, d) /\ lock' = None
  <2>1. Moves(p, j.then, d) /\ d.cmd = j.cmd /\ d.key = j.key
    BY <1>1, <1>4, GoMoves DEF Job
  <2>2. j.then \in {"boot", "reload"}
    BY <1>4 DEF TypeInv, JobsOK, WellFormed
  <2> HIDE DEF d
  <2> QED BY <1>1, <1>2, <1>4, <2>1, <2>2 DEF Frame, Moves, Current, Locked
<1> QED BY <1>3, <1>4 DEF LockedSave

\* A step that moves p on and keeps the flock and its command.
LEMMA MoveFrame ==
  ASSUME TypeInv, NEW p \in Procs, NEW l \in PCs, NEW j \in Job, Active(p), Go(p, l, j), UNCHANGED lock,
         l \notin {"new", "read"}, j.cmd = job[p].cmd, j.key = job[p].key, l = "write" => j.cmd \in Unlocked \ {"config"},
         UNCHANGED <<file, loadable>> \/ Bare(p),
         l = "write" /\ j.cmd \notin {"replace", "reset all"} => j.mem = file',
         l \in {"early", "ports", "seed"} /\ loadable' => j.mem = file',
         l \in {"injected", "noted"} => j.mem = file',
         l \in {"load", "write"} /\ j.cmd = "replace" => j.mem = Empty
  PROVE  Frame(p)
<1>1. Moves(p, l, j)
  BY GoMoves
<1> QED BY <1>1 DEF Frame, Moves, Current, Locked

LEMMA ConfigFrame ==
  ASSUME TypeInv, WriteInv, NEW p \in Procs, ConfigStep(p)
  PROVE  Frame(p)
<1> DEFINE j == job[p]
<1>1. /\ j \in Job /\ WellFormed(pc[p], j) /\ Current(p)
      /\ pc[p] \in {"load", "early", "ports", "inject", "injected", "reload", "seed"}
  BY DEF TypeInv, JobsOK, WriteInv, ConfigStep, ConfigLoad, ConfigEarly, ConfigPorts, ConfigInject,
         ConfigInjected, ConfigReload, ConfigSeed
<1>2. Active(p) /\ j.cmd = "config" /\ Bare(p) /\ UNCHANGED loadable
  BY <1>1 DEF WellFormed, Active, Unlocked, Bare, NoLock, ConfigStep, ConfigLoad, ConfigEarly, ConfigPorts, ConfigInject,
         ConfigInjected, ConfigReload, ConfigSeed
<1>3. \A f \in File : /\ [j EXCEPT !.mem = f] \in Job /\ [j EXCEPT !.mem = f, !.then = "reload"] \in Job
                     /\ [j EXCEPT !.mem = f].cmd = j.cmd /\ [j EXCEPT !.mem = f].mem = f
                     /\ [j EXCEPT !.mem = f].key = j.key
                     /\ [j EXCEPT !.mem = f, !.then = "reload"].cmd = j.cmd
                     /\ [j EXCEPT !.mem = f, !.then = "reload"].key = j.key
  BY <1>1 DEF Job, PCs
<1>4. /\ loadable => LoadForRead = file
      /\ file \in File /\ LoadForRead \in File /\ Empty \in File
      /\ {"early", "ports", "inject", "injected", "lock", "seed"} \subseteq PCs
  BY FileTypes DEF LoadForRead, TypeInv, TypeOK, PCs
<1> DEFINE d == [j EXCEPT !.mem = LoadForRead]
<1>14. d \in Job /\ d.cmd = j.cmd /\ d.key = j.key /\ (loadable => d.mem = file)
  BY <1>3, <1>4
<1> HIDE DEF d
<1>5. CASE ConfigLoad(p)
  <2>1. Go(p, "early", d) /\ UNCHANGED <<file, loadable, lock>>
    BY <1>5 DEF ConfigLoad, d
  <2>2. loadable' => d.mem = file'
    BY <1>14, <2>1, Zenon
  <2> QED BY <1>2, <1>4, <1>14, <2>1, <2>2, MoveFrame
<1>6. CASE ConfigEarly(p)
  <2> DEFINE dc == Record(j.mem, j.key, {"caps"}, None)
  <2>1. \/ Go(p, "ports", j) /\ UNCHANGED <<file, lock>>
        \/ loadable /\ Save(dc) /\ Go(p, "ports", [j EXCEPT !.mem = dc]) /\ UNCHANGED lock
        \/ Finish(p)
    BY <1>6 DEF ConfigEarly
  <2> HIDE DEF dc
  <2>2. CASE Go(p, "ports", j) /\ UNCHANGED <<file, lock>>
    <3>1. loadable => j.mem = file
      BY <1>1, <1>6 DEF Current, ConfigEarly
    <3> QED BY <1>1, <1>2, <1>4, <2>2, <3>1, MoveFrame
  <2>3. CASE loadable /\ Save(dc) /\ Go(p, "ports", [j EXCEPT !.mem = dc]) /\ UNCHANGED lock
    <3>1. dc \in File
      BY <1>1, <1>6, RecordFact DEF dc, FactSet, WellFormed, ConfigEarly, Job
    <3> QED BY <1>2, <1>3, <1>4, <2>3, <3>1, MoveFrame, ZenonT(60) DEF Save
  <2>4. CASE Finish(p)
    BY <1>2, <2>4, EndFrame
  <2> QED BY <2>1, <2>2, <2>3, <2>4
<1>7. CASE ConfigPorts(p)
  <2>1. CASE Go(p, "inject", j) /\ UNCHANGED lock
    BY <1>1, <1>2, <1>4, <1>7, <2>1, MoveFrame DEF ConfigPorts
  <2>2. CASE Finish(p)
    BY <1>2, <2>2, EndFrame
  <2> QED BY <1>7, <2>1, <2>2 DEF ConfigPorts
<1>8. CASE ConfigInject(p)
  <2>1. CASE Go(p, "injected", [j EXCEPT !.mem = file])
    BY <1>2, <1>3, <1>4, <1>8, <2>1, MoveFrame DEF ConfigInject
  <2>2. CASE Go(p, "lock", [j EXCEPT !.mem = Empty, !.then = "reload"])
    BY <1>2, <1>3, <1>4, <1>8, <2>2, MoveFrame DEF ConfigInject
  <2> QED BY <1>8, <2>1, <2>2 DEF ConfigInject
<1>9. CASE ConfigInjected(p)
  BY <1>2, <1>3, <1>4, <1>9, MoveFrame DEF ConfigInjected
<1>10. CASE ConfigReload(p)
  <2>1. CASE Go(p, "seed", [j EXCEPT !.mem = LoadForRead]) /\ UNCHANGED lock
    <3>1. Go(p, "seed", d) /\ UNCHANGED <<file, loadable, lock>>
      BY <1>10, <2>1 DEF ConfigReload, d
    <3>2. loadable' => d.mem = file'
      BY <1>14, <3>1, Zenon
    <3> QED BY <1>2, <1>4, <1>14, <3>1, <3>2, MoveFrame
  <2>2. CASE Finish(p)
    BY <1>2, <2>2, EndFrame
  <2> QED BY <1>10, <2>1, <2>2 DEF ConfigReload
<1>11. CASE ConfigSeed(p)
  BY <1>2, <1>11, EndFrame DEF ConfigSeed
<1> QED BY <1>5, <1>6, <1>7, <1>8, <1>9, <1>10, <1>11 DEF ConfigStep

LEMMA BundleFrame ==
  ASSUME TypeInv, WriteInv, NEW p \in Procs, BundleLoad(p) \/ BundleSave(p)
  PROVE  Frame(p)
<1> DEFINE j == job[p]
<1>1. /\ j \in Job /\ j.cmd \in Unlocked \ {"config"} /\ Active(p) /\ "write" \in PCs /\ file \in File
      /\ Bare(p)
  BY DEF TypeInv, JobsOK, TypeOK, BundleLoad, BundleSave, Active, Unlocked, PCs, Bare, NoLock
<1>2. CASE BundleLoad(p)
  <2>1. UNCHANGED <<file, loadable>>
    BY <1>2 DEF BundleLoad
  <2>2. CASE j.cmd = "replace" /\ Go(p, "write", j) /\ UNCHANGED lock
    <3>1. j.mem = Empty
      BY <1>2, <2>2 DEF WriteInv, Current, BundleLoad
    <3> QED BY <1>1, <2>1, <2>2, <3>1, MoveFrame
  <2>3. CASE j.cmd # "replace" /\ Go(p, "write", [j EXCEPT !.mem = file]) /\ UNCHANGED lock
    <3> DEFINE d == [j EXCEPT !.mem = file]
    <3>1. d \in Job /\ d.cmd = j.cmd /\ d.key = j.key /\ d.mem = file
      BY <1>1 DEF Job
    <3>2. Go(p, "write", d)
      BY <2>3
    <3> HIDE DEF d
    <3> QED BY <1>1, <2>1, <2>3, <3>1, <3>2, MoveFrame
  <2>4. CASE Finish(p)
    BY <1>1, <2>1, <2>4, EndFrame
  <2> QED BY <1>2, <2>2, <2>3, <2>4 DEF BundleLoad
<1>3. CASE BundleSave(p)
  BY <1>1, <1>3, EndFrame DEF BundleSave
<1> QED BY <1>2, <1>3

LEMMA VmPort ==
  ASSUME TypeInv, NEW p \in Procs, pc[p] \in {"venue", "create"}
  PROVE  ResolveVmSshPort(LoadForRead, VmOf[job[p].key]) \subseteq Ports
<1>1. job[p].key \in Keys /\ VmOf[job[p].key] \in Vms
  BY DEF TypeInv, JobsOK, WellFormed, VmCommands
<1> QED BY <1>1, KeyFacts, FileTypes, PortTypes DEF TypeInv, TypeOK

LEMMA VmFrame ==
  ASSUME TypeInv, WriteInv, NEW p \in Procs, VmStep(p)
  PROVE  Frame(p)
<1> DEFINE j == job[p]
<1>1. j \in Job /\ Active(p) /\ UNCHANGED <<file, loadable>> /\ {"dial", "lock", "create"} \subseteq PCs
  BY DEF TypeInv, JobsOK, PCs, Active, VmStep, VmVenue, VmDial, VmCreate, VmBoot, VmGone
<1>2. CASE VmVenue(p)
  <2>1. PICK r \in Ports : Go(p, "dial", [j EXCEPT !.port = r]) /\ UNCHANGED lock
    BY <1>2, VmPort DEF VmVenue
  <2>2. [j EXCEPT !.port = r] \in Job /\ [j EXCEPT !.port = r].cmd = j.cmd /\ [j EXCEPT !.port = r].key = j.key
    BY <1>1 DEF Job
  <2> QED BY <1>1, <2>1, <2>2, MoveFrame
<1>3. CASE VmDial(p)
  <2>1. UNCHANGED lock /\ (Go(p, "lock", j) \/ Go(p, "create", j))
    BY <1>3 DEF VmDial
  <2> QED BY <1>1, <2>1, MoveFrame
<1>4. CASE VmCreate(p)
  <2>1. PICK r \in Ports : Go(p, "lock", [j EXCEPT !.fwd = r, !.then = "boot"]) /\ UNCHANGED lock
    BY <1>4, VmPort DEF VmCreate, VmCreatePort
  <2>2. /\ [j EXCEPT !.fwd = r, !.then = "boot"] \in Job /\ [j EXCEPT !.fwd = r, !.then = "boot"].cmd = j.cmd
        /\ [j EXCEPT !.fwd = r, !.then = "boot"].key = j.key
    BY <1>1 DEF Job, PCs
  <2> QED BY <1>1, <2>1, <2>2, MoveFrame
<1>5. CASE VmBoot(p)
  <2>1. CASE Finish(p)
    BY <1>1, <2>1, EndFrame
  <2>2. CASE Go(p, "lock", j) /\ UNCHANGED lock
    BY <1>1, <2>2, MoveFrame
  <2> QED BY <1>5, <2>1, <2>2 DEF VmBoot
<1>6. CASE VmGone(p)
  BY <1>1, <1>6, MoveFrame DEF VmGone
<1> QED BY <1>2, <1>3, <1>4, <1>5, <1>6 DEF VmStep

LEMMA EphemeralFrame ==
  ASSUME TypeInv, WriteInv, NEW p \in Procs, EphemeralLoad(p) \/ EphemeralSave(p) \/ NoOverlayImage(p)
  PROVE  Frame(p)
<1> DEFINE j == job[p]
           next == AfterNote(j.cmd)
<1>1. j \in Job /\ Active(p) /\ UNCHANGED loadable /\ {"noted", next} \subseteq PCs /\ next \in {"venue", "lock"}
  BY DEF TypeInv, JobsOK, PCs, Active, AfterNote, EphemeralLoad, EphemeralSave, NoOverlayImage
<1>2. \A f \in File : /\ [j EXCEPT !.mem = f] \in Job /\ [j EXCEPT !.mem = f].cmd = j.cmd
                      /\ [j EXCEPT !.mem = f].key = j.key /\ [j EXCEPT !.mem = f].mem = f
  BY <1>1 DEF Job
<1> HIDE DEF next
<1>3. CASE EphemeralLoad(p)
  <2>1. UNCHANGED <<file, loadable, lock>> /\ file \in File
    BY <1>3 DEF EphemeralLoad, TypeInv, TypeOK
  <2> DEFINE d == [j EXCEPT !.mem = file]
  <2>2. d \in Job /\ d.cmd = j.cmd /\ d.key = j.key /\ d.mem = file
    BY <1>2, <2>1
  <2>3. Go(p, "noted", d) \/ Go(p, next, j)
    BY <1>3 DEF EphemeralLoad, next
  <2> HIDE DEF d
  <2>4. CASE Go(p, "noted", d)
    BY <1>1, <2>1, <2>2, <2>4, MoveFrame
  <2>5. CASE Go(p, next, j)
    BY <1>1, <2>1, <2>5, MoveFrame
  <2> QED BY <2>3, <2>4, <2>5
<1>4. CASE EphemeralSave(p)
  <2>1. Bare(p) /\ UNCHANGED lock
    BY <1>4 DEF EphemeralSave, TypeInv, JobsOK, WellFormed, Bare, NoLock
  <2> DEFINE d == [j EXCEPT !.mem = Empty]
  <2>2. d \in Job /\ d.cmd = j.cmd /\ d.key = j.key /\ Go(p, next, d)
    BY <1>2, <1>4, FileTypes DEF EphemeralSave, next
  <2> HIDE DEF d
  <2> QED BY <1>1, <2>1, <2>2, MoveFrame
<1>5. CASE NoOverlayImage(p)
  BY <1>1, <1>5, EndFrame DEF NoOverlayImage
<1> QED BY <1>3, <1>4, <1>5

LEMMA StepFrame ==
  ASSUME TypeInv, WriteInv, NEW p \in Procs, Step(p) \/ Crash(p)
  PROVE  Frame(p)
<1>1. Crash(p) => Finish(p) /\ Active(p) /\ UNCHANGED <<file, loadable>>
  BY DEF Crash
<1> QED BY <1>1, EndFrame, LockFrame, LockedLoadFrame, LockedSaveFrame, EphemeralFrame, ConfigFrame, BundleFrame, VmFrame DEF Step

LEMMA StartKeeps ==
  ASSUME Unforced, TypeInv, WriteInv, NEW p \in Procs, Start(p)
  PROVE  WriteInv'
<1>1. PICK c \in Commands, k \in Keys, pin \in Pins \cup {None} :
        /\ pc[p] = "new"
        /\ \A q \in Procs : Active(q) => ~NoLock(c, k) /\ ~Bare(q)
        /\ Go(p, FirstPC(c, k), [Idle EXCEPT !.cmd = c, !.key = k, !.pin = pin])
        /\ UNCHANGED <<file, loadable, lock, domain, faults>>
  BY DEF Start, Unforced, Bare
<1> DEFINE j == [Idle EXCEPT !.cmd = c, !.key = k, !.pin = pin]
<1>2. Moves(p, FirstPC(c, k), j) /\ j.cmd = c /\ j.key = k /\ j.mem = Empty
  BY <1>1, GoMoves DEF Idle
<1> HIDE DEF j
<1>3. FirstPC(c, k) \notin {"new", "done", "read", "early", "ports", "seed", "injected", "noted"}
      /\ (FirstPC(c, k) = "write" => c = "reset all")
  BY <1>1, OverlayAssumption DEF FirstPC, AfterNote, AllCommands, PodCommands, VmCommands, Unlocked, Noting
<1>4. Alone'
  BY <1>1, <1>2 DEF Alone, Bare, Active, Moves, WriteInv
<1>5. Holding'
  BY <1>1, <1>2, <1>3 DEF Holding, Locked, Moves, WriteInv, Unlocked
<1>6. \A q \in Procs : Current(q)'
  BY <1>1, <1>2, <1>3 DEF Current, Moves, WriteInv
<1> QED BY <1>4, <1>5, <1>6 DEF WriteInv

LEMMA WriteStep ==
  ASSUME Unforced, TypeInv, WriteInv, [Next]_vars
  PROVE  WriteInv'
<1>1. CASE Spoil
  BY <1>1 DEF Spoil, WriteInv, Alone, Bare, Active, Holding, Locked, Current
<1>2. CASE Repair
  <2>1. (\A p \in Procs : Active(p) => ~Bare(p)) /\ UNCHANGED <<file, lock, pc, job>>
    BY <1>2 DEF Repair, Unforced, Bare
  <2>2. \A p \in Procs : Current(p)'
    <3> TAKE p \in Procs
    <3>1. pc[p] \notin {"early", "ports", "seed"}
      BY <2>1 DEF TypeInv, JobsOK, WellFormed, Active, Unlocked, Bare, NoLock
    <3> QED BY <2>1, <3>1 DEF WriteInv, Current
  <2> QED BY <2>1, <2>2 DEF WriteInv, Alone, Bare, Active, Holding, Locked
<1>3. CASE UNCHANGED vars
  BY <1>3 DEF vars, WriteInv, Alone, Bare, Active, Holding, Locked, Current
<1> QED BY <1>1, <1>2, <1>3, StartKeeps, StepFrame, FrameKeeps DEF Next, AllDone

LEMMA WriteInit ==
  ASSUME Init
  PROVE  WriteInv
  BY DEF Init, WriteInv, Alone, Active, Holding, Locked, Current

-----------------------------------------------------------------------------
(* What the writes take away, and what they allocate.                      *)

\* An entry that is gone has no port.
LEMMA NoEntry ==
  ASSUME NEW f, NEW k, f.bundle[k] = None
  PROVE  EntryAt(f, k).rp = None
  BY DEF EntryAt, Zero

LEMMA CleanAlters ==
  ASSUME NEW f \in File, NEW k \in Keys, NEW g, g = Clean(f, k)
  PROVE  /\ Alters(f, g, {k}) /\ Allots(f, g)
         /\ f.provides \ g.provides \subseteq {i \in Keys : i = k \/ BaseOf[i] = k}
<1>1. /\ g \in File /\ OnlyAt(f, g, k) /\ g.bundle[k] = None
      /\ f.provides \ g.provides \subseteq {i \in Keys : i = k \/ BaseOf[i] = k}
  BY CleanWorks
<1>2. EntryAt(g, k).rp = None
  BY <1>1, NoEntry
<1> QED BY <1>1, <1>2 DEF Alters, OnlyAt, Allots, EntryAt

LEMMA ForgetAlters ==
  ASSUME NEW f \in File, NEW v \in Keys, NEW g, g = ForgetVm(f, v)
  PROVE  Alters(f, g, {k \in Keys : VmOf[k] = v}) /\ Keeps(f, g) /\ Allots(f, g) /\ g.provides = f.provides
  BY ForgetWorks, SMTT(30) DEF Alters, Keeps, Allots

LEMMA AllotsApart ==
  ASSUME AllocatedApart, Allots(file, file')
  PROVE  AllocatedApart'
  BY DEF AllocatedApart, Allots

\* A step of p after which no write is lost and no port is allocated twice.
Fine(p) ==
  /\ \A k \in Keys : \/ file'.bundle[k] = file.bundle[k]
                     \/ /\ Moved(p) /\ k \in Scope(job[p])
                        /\ k \in Removes(job[p]) \/ Facts(file.bundle[k]) \subseteq Facts(file'.bundle[k])
  /\ \A k \in file.provides \ file'.provides : Moved(p) /\ k \in Drops(job[p], file')
  /\ AllocatedApart => AllocatedApart'

LEMMA QuietFine ==
  ASSUME NEW p, \A k \in Keys : file'.bundle[k] = file.bundle[k], file.provides \subseteq file'.provides
  PROVE  Fine(p)
  BY DEF Fine, AllocatedApart, EntryAt

LEMMA SaveFine ==
  ASSUME NEW p \in Procs, Moved(p), NEW S \in SUBSET Keys, NEW g \in File, file' \in {file, g},
         Alters(file, g, S), S \subseteq Scope(job[p]), Keeps(file, g) \/ S \subseteq Removes(job[p]),
         file.provides \ g.provides \subseteq Drops(job[p], g),
         AllocatedApart /\ file' = g => AllocatedApart'
  PROVE  Fine(p)
<1>1. CASE file' = file
  BY <1>1, QuietFine
<1>2. CASE file' = g
  BY <1>2 DEF Fine, Alters, Keeps
<1> QED BY <1>1, <1>2

LEMMA Scopes ==
  ASSUME NEW j, j.key \in Keys
  PROVE  /\ j.cmd \in {"config", "save", "add", "remove", "import", "import box", "reset"} => Scope(j) = {j.key}
         /\ j.cmd \in VmCommands => Scope(j) = {k \in Keys : VmOf[k] = VmOf[j.key]}
         /\ j.cmd \in {"replace", "reset all"} => Scope(j) = Keys /\ Removes(j) = Keys
         /\ j.cmd \in {"remove", "reset"} => Removes(j) = {j.key}
  BY DEF Scope, Removes, VmCommands

LEMMA LockedSaveFine ==
  ASSUME TypeInv, WriteInv, NEW p \in Procs, LockedSave(p)
  PROVE  Fine(p)
<1> DEFINE j == job[p]
           g == Update(p)
<1>1. /\ pc[p] = "write" /\ j \in Job /\ WellFormed("write", j) /\ j.cmd \in AllCommands /\ j.key \in Keys
      /\ file \in File /\ Active(p)
  BY DEF TypeInv, TypeOK, JobsOK, LockedSave, Active, WellFormed
<1>2. /\ j.mem = file /\ file' \in {file, g} /\ j.cmd \in {"config", "save", "add", "remove"} \cup VmCommands
      /\ j.pin \in Ports \cup {None} /\ j.port \in Ports \cup {None} /\ j.fwd \in Ports \cup {None}
      /\ j.cmd = "vm create" => j.then = "boot"
      /\ j.then = "boot" => j.cmd \in {"vm create", "vm add"}
      /\ j.cmd \in VmCommands => VmOf[j.key] \in Vms
  BY <1>1 DEF WriteInv, Current, LockedSave, Save, AllCommands, PodCommands, VmCommands, Unlocked, Job, WellFormed
<1>3. Moved(p)
  <2>1. Frame(p)
    BY LockedSaveFrame
  <2>2. pc'[p] \in {"done", j.then}
    BY FinishMoves, GoMoves DEF LockedSave, Moves
  <2> QED BY <1>1, <2>2 DEF WellFormed, Moved
<1>4. g \in File
  BY <1>1, <1>2, UpdateTypes
<1>5. CASE j.cmd \in {"config", "save", "add"}
  <2>1. g = Record(file, j.key, {"state"}, j.pin)
    BY <1>2, <1>5 DEF Update, VmCommands
  <2>2. Alters(file, g, {j.key}) /\ Keeps(file, g) /\ Allots(file, g) /\ g.provides = file.provides
    <3> DEFINE k == j.key
               pin == j.pin
    <3>1. k \in Keys /\ pin \in Ports \cup {None} /\ "state" \in FactSet
      BY <1>1, <1>2 DEF FactSet
    <3> HIDE DEF k, pin
    <3>2. LET h == Record(file, k, {"state"}, pin)
          IN  Alters(file, h, {k}) /\ Keeps(file, h) /\ Allots(file, h) /\ h.provides = file.provides
      BY <1>1, <3>1, RecordFact
    <3> QED BY <2>1, <3>2 DEF k, pin
  <2>3. Scope(j) = {j.key}
    BY <1>1, <1>5, Scopes
  <2> HIDE DEF g
  <2> QED BY <1>1, <1>2, <1>3, <1>4, <2>2, <2>3, SaveFine, AllotsApart
<1>6. CASE j.cmd = "remove"
  <2>1. g = Clean(file, j.key)
    BY <1>2, <1>6 DEF Update, VmCommands
  <2>2. /\ Alters(file, g, {j.key}) /\ Allots(file, g)
        /\ file.provides \ g.provides \subseteq Drops(j, g)
    BY <1>1, <1>6, <2>1, CleanAlters DEF Drops
  <2>3. Scope(j) = {j.key} /\ Removes(j) = {j.key}
    BY <1>1, <1>6, Scopes
  <2> HIDE DEF g
  <2> QED BY <1>1, <1>2, <1>3, <1>4, <2>2, <2>3, SaveFine, AllotsApart
<1>7. CASE j.cmd \in VmCommands
  <2> DEFINE v == VmOf[j.key]
             S == {k \in Keys : VmOf[k] = v}
  <2>1. v \in Keys /\ v \in S /\ j.key \in S
    BY <1>1, <1>2, <1>7, KeyFacts
  <2>2. \/ g = RecordSsh(file, v, j.fwd)
        \/ g = RecordSsh(file, j.key, j.port)
        \/ g = ForgetVm(file, v)
    BY <1>2, <1>7 DEF Update, VmCommands
  <2> HIDE DEF g, v
  <2>3. Alters(file, g, S) /\ Keeps(file, g) /\ Allots(file, g) /\ g.provides = file.provides
    <3>1. CASE g = RecordSsh(file, v, j.fwd)
      <4> DEFINE k == v
                 port == j.fwd
      <4>2. k \in Keys /\ port \in Ports \cup {None} /\ g = RecordSsh(file, k, port)
        BY <1>1, <1>2, <2>1, <3>1
      <4> HIDE DEF k, port
      <4>3. Alters(file, g, {k}) /\ Keeps(file, g) /\ Allots(file, g) /\ g.provides = file.provides
        BY <1>1, <4>2, RecordSshWorks
      <4>1. Alters(file, g, {v}) /\ Keeps(file, g) /\ Allots(file, g) /\ g.provides = file.provides
        BY <4>3 DEF k
      <4> QED BY <2>1, <4>1 DEF Alters
    <3>2. CASE g = RecordSsh(file, j.key, j.port)
      <4> DEFINE k == j.key
                 port == j.port
      <4>2. k \in Keys /\ port \in Ports \cup {None} /\ g = RecordSsh(file, k, port)
        BY <1>1, <1>2, <2>1, <3>2
      <4> HIDE DEF k, port
      <4>3. Alters(file, g, {k}) /\ Keeps(file, g) /\ Allots(file, g) /\ g.provides = file.provides
        BY <1>1, <4>2, RecordSshWorks
      <4>1. Alters(file, g, {j.key}) /\ Keeps(file, g) /\ Allots(file, g) /\ g.provides = file.provides
        BY <4>3 DEF k
      <4> QED BY <2>1, <4>1 DEF Alters
    <3>3. CASE g = ForgetVm(file, v)
      BY <1>1, <2>1, <3>3, ForgetAlters
    <3> QED BY <2>2, <3>1, <3>2, <3>3
  <2>4. Scope(j) = S
    BY <1>1, <1>7, Scopes DEF v
  <2> HIDE DEF S
  <2>5. S \in SUBSET Keys
    BY DEF S
  <2> QED BY <1>2, <1>3, <1>4, <2>3, <2>4, <2>5, SaveFine, AllotsApart
<1> QED BY <1>2, <1>5, <1>6, <1>7

\* A port that ResolveDeployPorts finds for a deployment without a pin is nobody else's.
LEMMA ResolvedApart ==
  ASSUME file \in File, NEW k \in Keys, NEW r \in ResolveDeployPorts(file, k),
         file' = RecordPort(file, k, r), AllocatedApart
  PROVE  AllocatedApart'
<1>1. r \in Ports /\ r # None
  BY PortTypes, OverlayAssumption
<1>2. OnlyAt(file, file', k) /\ EntryAt(file', k).rp = r /\ EntryAt(file', k).pin = EntryAt(file, k).pin
  BY <1>1, RecordPortWorks DEF EntryAt
<1>3. \A i \in Keys \ {k} : EntryAt(file', i) = EntryAt(file, i)
  BY <1>2 DEF OnlyAt, EntryAt
<1>4. ASSUME NEW i \in Keys \ {k}, EntryAt(file, k).pin = None, EntryAt(file, i).rp # None
      PROVE  EntryAt(file, i).rp # r
  <2>1. r \notin OccupiedHostPorts(file, k)
    BY <1>4 DEF ResolveDeployPorts
  <2>2. file.bundle[i] # None /\ EntryAt(file, i) = file.bundle[i]
    BY <1>4, NoEntry DEF EntryAt
  <2>3. HostPort(file.bundle[i]) = EntryAt(file, i).rp
    BY <1>4, <2>2 DEF HostPort
  <2> QED BY <1>4, <2>1, <2>2, <2>3 DEF OccupiedHostPorts
<1> QED BY <1>1, <1>2, <1>3, <1>4 DEF AllocatedApart

LEMMA ConfigFine ==
  ASSUME TypeInv, WriteInv, NEW p \in Procs, ConfigStep(p)
  PROVE  Fine(p)
<1> DEFINE j == job[p]
<1>1. /\ j \in Job /\ j.mem \in File /\ j.cmd = "config" /\ j.key \in Keys /\ file \in File /\ Current(p)
      /\ Scope(j) = {j.key}
  <2>1. pc[p] \in {"load", "early", "ports", "inject", "injected", "reload", "seed"}
    BY DEF ConfigStep, ConfigLoad, ConfigEarly, ConfigPorts, ConfigInject, ConfigInjected, ConfigReload, ConfigSeed
  <2>2. j \in Job /\ j.mem \in File /\ j.key \in Keys /\ file \in File /\ Current(p)
    BY <2>1 DEF TypeInv, TypeOK, JobsOK, WellFormed, Job, WriteInv
  <2>3. j.cmd = "config"
    BY <2>1 DEF TypeInv, JobsOK, WellFormed, ConfigStep, ConfigLoad, ConfigEarly, ConfigPorts, ConfigInject,
                ConfigInjected, ConfigReload, ConfigSeed
  <2> QED BY <2>2, <2>3, Scopes
<1>2. ASSUME NEW fact \in FactSet, Save(Record(j.mem, j.key, {fact}, None)), Moved(p), loadable => j.mem = file
      PROVE  Fine(p)
  <2> DEFINE g == Record(file, j.key, {fact}, None)
  <2>1. g \in File /\ Alters(file, g, {j.key}) /\ Keeps(file, g) /\ Allots(file, g) /\ g.provides = file.provides
    BY <1>1, RecordFact
  <2>2. file' \in {file, g}
    BY <1>2 DEF Save
  <2> HIDE DEF g
  <2> QED BY <1>1, <1>2, <2>1, <2>2, SaveFine, AllotsApart
<1>3. CASE UNCHANGED file
  BY <1>3, QuietFine
<1>4. CASE ConfigEarly(p) /\ file' # file
  <2>1. pc[p] = "early" /\ loadable /\ Save(Record(j.mem, j.key, {"caps"}, None))
        /\ Go(p, "ports", [j EXCEPT !.mem = Record(j.mem, j.key, {"caps"}, None)])
    BY <1>4 DEF ConfigEarly
  <2>2. Moved(p)
    BY <2>1, GoMoves DEF Moved, Moves
  <2> QED BY <1>1, <1>2, <2>1, <2>2 DEF Current, FactSet
<1>5. CASE ConfigPorts(p) /\ file' # file
  <2>1. pc[p] = "ports" /\ loadable /\ Go(p, "inject", j)
    BY <1>5 DEF ConfigPorts
  <2>2. PICK r \in ResolveDeployPorts(j.mem, j.key) : Save(RecordPort(j.mem, j.key, r))
    BY <1>5 DEF ConfigPorts
  <2>3. j.mem = file /\ Moved(p)
    BY <1>1, <2>1, GoMoves DEF Current, Moved, Moves
  <2>4. file' = RecordPort(file, j.key, r) /\ r \in ResolveDeployPorts(file, j.key)
    BY <2>1, <2>2, <2>3 DEF Save
  <2>5. r \in Ports
    BY <1>1, <2>4, PortTypes
  <2>6. file' \in File /\ OnlyAt(file, file', j.key) /\ Keeps(file, file') /\ file'.provides = file.provides
    BY <1>1, <2>4, <2>5, RecordPortWorks
  <2>7. AllocatedApart => AllocatedApart'
    BY <1>1, <2>4, ResolvedApart
  <2> QED BY <1>1, <2>3, <2>6, <2>7 DEF Fine, OnlyAt, Keeps
<1>6. CASE ConfigInjected(p) /\ file' # file
  <2>1. j.mem = file
    BY <1>1, <1>6 DEF ConfigInjected, Current
  <2>2. file' = [file EXCEPT !.provides = @ \cup {j.key}]
    BY <1>6, <2>1 DEF ConfigInjected, Save
  <2>3. file'.bundle = file.bundle /\ file.provides \subseteq file'.provides
    BY <1>1, <2>2 DEF File
  <2> QED BY <2>3, QuietFine
<1>7. CASE ConfigSeed(p)
  <2>1. pc[p] = "seed" /\ Finish(p) /\ Save(Record(j.mem, j.key, {"seeded"}, None))
    BY <1>7 DEF ConfigSeed
  <2>2. Moved(p)
    BY <2>1, FinishMoves DEF Moved, Moves
  <2> QED BY <1>1, <1>2, <2>1, <2>2 DEF Current, FactSet
<1> QED BY <1>3, <1>4, <1>5, <1>6, <1>7 DEF ConfigStep, ConfigLoad, ConfigInject, ConfigReload

LEMMA BundleFine ==
  ASSUME TypeInv, WriteInv, NEW p \in Procs, BundleSave(p)
  PROVE  Fine(p)
<1> DEFINE j == job[p]
           rest == [j.mem EXCEPT !.bundle[j.key] = None]
           new == Record(j.mem, j.key, {"operator"}, None)
<1>1. /\ j \in Job /\ j.mem \in File /\ j.key \in Keys /\ file \in File /\ Moved(p)
      /\ j.cmd \notin {"replace", "reset all"} => j.mem = file
      /\ file.provides \subseteq Keys
  <2>1. pc[p] = "write" /\ Finish(p)
    BY DEF BundleSave
  <2> QED BY <2>1, FinishMoves DEF TypeInv, TypeOK, JobsOK, WellFormed, Job, File, WriteInv, Current, Moved, Moves
<1>2. /\ rest \in File /\ \A k \in Keys \ {j.key} : rest.bundle[k] = j.mem.bundle[k]
      /\ rest.bundle[j.key] = None /\ rest.provides = j.mem.provides
  BY <1>1 DEF File
<1>3. new \in File /\ Alters(j.mem, new, {j.key}) /\ Keeps(j.mem, new) /\ Allots(j.mem, new) /\ new.provides = j.mem.provides
  BY <1>1, RecordFact DEF FactSet
<1>4. ASSUME file' = Empty PROVE AllocatedApart'
  BY <1>4, FileTypes, NoEntry DEF AllocatedApart
<1>5. CASE j.cmd = "reset all"
  <2>1. file' = Empty /\ Scope(j) = Keys /\ Removes(j) = Keys /\ Drops(j, file') = Keys
    BY <1>1, <1>5, Scopes DEF BundleSave, Drops
  <2> QED BY <1>1, <1>4, <2>1 DEF Fine
<1>6. CASE j.cmd = "reset"
  <2>1. Scope(j) = {j.key} /\ Removes(j) = {j.key} /\ j.mem = file
    BY <1>1, <1>6, Scopes
  <2>2. CASE UNCHANGED file
    BY <2>2, QuietFine
  <2>3. CASE file' = Empty /\ rest.bundle = Empty.bundle
    <3>1. \A k \in Keys \ {j.key} : file'.bundle[k] = file.bundle[k]
      BY <1>2, <2>1, <2>3
    <3>2. Drops(j, file') = Keys
      BY <1>6, <2>3 DEF Drops
    <3> QED BY <1>1, <1>4, <2>1, <2>3, <3>1, <3>2 DEF Fine
  <2>4. CASE Save(rest)
    <3>1. Alters(file, rest, {j.key})
      BY <1>2, <2>1 DEF Alters
    <3>2. Allots(file, rest)
      BY <1>2, <2>1, NoEntry, ZenonT(60) DEF Allots, EntryAt
    <3> HIDE DEF rest
    <3> QED BY <1>1, <1>2, <2>1, <2>4, <3>1, <3>2, SaveFine, AllotsApart DEF Save
  <2> QED BY <1>6, <2>2, <2>3, <2>4 DEF BundleSave
<1> DEFINE bare == [new EXCEPT !.provides = {}]
<1>9. bare \in File /\ bare.bundle = new.bundle
  BY <1>3 DEF File
<1> HIDE DEF bare
<1>10. Alters(j.mem, bare, {j.key}) /\ Keeps(j.mem, bare) /\ Allots(j.mem, bare)
  <2> HIDE DEF new
  <2> QED BY <1>3, <1>9 DEF Alters, Keeps, Allots, EntryAt
<1>7. CASE j.cmd = "import"
  <2>1. Scope(j) = {j.key} /\ j.mem = file /\ Save(bare) /\ Drops(j, bare) = Keys
    BY <1>1, <1>7, Scopes DEF BundleSave, Drops, bare
  <2> QED BY <1>1, <1>9, <1>10, <2>1, SaveFine, AllotsApart DEF Save
<1>11. CASE j.cmd = "import box"
  <2>1. Scope(j) = {j.key} /\ j.mem = file /\ Save(new)
    BY <1>1, <1>11, Scopes DEF BundleSave
  <2> HIDE DEF new
  <2> QED BY <1>1, <1>3, <2>1, SaveFine, AllotsApart DEF Save
<1>8. CASE j.cmd = "replace"
  <2>1. Scope(j) = Keys /\ Removes(j) = Keys /\ Save(bare) /\ \A f : Drops(j, f) = Keys
    BY <1>1, <1>8, Scopes DEF BundleSave, Drops, bare
  <2>2. AllocatedApart /\ file' = bare => AllocatedApart'
    <3>1. j.mem = Empty
      BY <1>8 DEF WriteInv, Current, BundleSave
    <3>2. \A k \in Keys : EntryAt(Empty, k).rp = None
      BY FileTypes, NoEntry
    <3>3. \A k \in Keys : EntryAt(bare, k).rp = None
      BY <1>10, <3>1, <3>2 DEF Allots
    <3> QED BY <3>3 DEF AllocatedApart
  <2>3. file' \in {file, bare}
    BY <2>1 DEF Save
  <2>4. CASE file' = file
    BY <2>4, QuietFine
  <2>5. CASE file' = bare
    BY <1>1, <2>1, <2>2, <2>5 DEF Fine
  <2> QED BY <2>3, <2>4, <2>5
<1> QED BY <1>5, <1>6, <1>7, <1>8, <1>11 DEF BundleSave, Unlocked

\* The note of an ephemeral deployment adds nothing to the file but an entry.
LEMMA EphemeralFine ==
  ASSUME TypeInv, WriteInv, NEW p \in Procs, EphemeralSave(p)
  PROVE  Fine(p)
<1> DEFINE j == job[p]
           g == Record(file, j.key, {}, None)
<1>1. /\ j.mem = file /\ file' \in {file, g} /\ j.key \in Keys /\ file \in File /\ {} \in SUBSET FactSet
      /\ j.cmd \in Noting /\ (j.cmd \in VmCommands => VmOf[j.key] \in Vms) /\ j \in Job
  BY DEF EphemeralSave, Save, WriteInv, Current, TypeInv, TypeOK, JobsOK, WellFormed
<1>2. Moved(p)
  <2>1. AfterNote(j.cmd) # "noted"
    BY DEF AfterNote
  <2> QED BY <2>1, GoMoves DEF EphemeralSave, Moved, Moves
<1>3. g \in File /\ Alters(file, g, {j.key}) /\ Keeps(file, g) /\ Allots(file, g) /\ g.provides = file.provides
  BY <1>1, RecordWorks
<1>4. {j.key} \subseteq Scope(j)
  <2>1. CASE j.cmd = "add"
    BY <1>1, <2>1, Scopes
  <2>2. CASE j.cmd \in {"vm add", "vm del"}
    <3>1. j.cmd \in VmCommands /\ j.key \in Keys
      BY <1>1, <2>2 DEF VmCommands
    <3>2. Scope(j) = {k \in Keys : VmOf[k] = VmOf[j.key]}
      BY <3>1, Scopes
    <3> QED BY <3>1, <3>2
  <2> QED BY <1>1, <2>1, <2>2 DEF Noting
<1> HIDE DEF g
<1> QED BY <1>1, <1>2, <1>3, <1>4, SaveFine, AllotsApart

LEMMA FineStep ==
  ASSUME TypeInv, WriteInv, Next
  PROVE  UNCHANGED file \/ \E p \in Procs : Fine(p)
<1>1. ASSUME NEW p \in Procs, Start(p) \/ Crash(p) \/ Lock(p) \/ LockedLoad(p) \/ NoOverlayImage(p)
                                 \/ EphemeralLoad(p) \/ BundleLoad(p) \/ VmStep(p)
      PROVE  UNCHANGED file
  BY <1>1 DEF Start, Crash, Lock, LockedLoad, NoOverlayImage, EphemeralLoad, BundleLoad, VmStep, VmVenue, VmDial, VmCreate, VmBoot, VmGone
<1>2. Spoil \/ Repair \/ AllDone => UNCHANGED file
  BY DEF Spoil, Repair, AllDone, vars
<1> QED BY <1>1, <1>2, LockedSaveFine, EphemeralFine, ConfigFine, BundleFine DEF Next, Step

\* No write is lost, when the commands that save without the flock run alone: whatever the
\* overlap of those that take it, with crashes and with a file that stops loading.
THEOREM WritesKept ==
  ASSUME "unlocked" \notin Overlap, "repair" \notin Overlap
  PROVE  Spec => NoLostUpdate
<1> DEFINE A == /\ \A k \in Keys :
                     \/ file'.bundle[k] = file.bundle[k]
                     \/ \E p \in Procs :
                          /\ Moved(p) /\ k \in Scope(job[p])
                          /\ k \in Removes(job[p]) \/ Facts(file.bundle[k]) \subseteq Facts(file'.bundle[k])
                /\ \A k \in file.provides \ file'.provides :
                     \E p \in Procs : Moved(p) /\ k \in Drops(job[p], file')
           I == TypeInv /\ WriteInv
<1>1. Init => I
  BY TypeInit, WriteInit
<1>2. I /\ [Next]_vars => I'
  BY TypeStep, WriteStep DEF Unforced
<1>3. I /\ Next => A
  BY FineStep DEF Fine
<1>4. I /\ [Next]_vars => [A]_vars
  BY <1>3
<1> QED BY <1>1, <1>2, <1>4, PTL DEF Spec, NoLostUpdate

\* Under the same condition no host port is allocated to two deployments.
THEOREM PortsApart ==
  ASSUME "unlocked" \notin Overlap, "repair" \notin Overlap
  PROVE  Spec => []AllocatedApart
<1> DEFINE I == TypeInv /\ WriteInv /\ AllocatedApart
<1>1. Init => I
  <2>1. ASSUME Init PROVE AllocatedApart
    <3>1. PICK S \in SUBSET Authored : file = [Empty EXCEPT !.bundle =
            [k \in Keys |-> IF k \in S THEN [Zero EXCEPT !.own = {"operator"}] ELSE None]]
      BY <2>1 DEF Init
    <3>2. \A k \in Keys : file.bundle[k] \in {None, [Zero EXCEPT !.own = {"operator"}]}
      BY <3>1, FileTypes DEF File
    <3>3. \A k \in Keys : EntryAt(file, k).rp = None
      BY <3>2 DEF EntryAt, Zero
    <3> QED BY <3>3 DEF AllocatedApart
  <2> QED BY <2>1, TypeInit, WriteInit
<1>2. I /\ [Next]_vars => I'
  <2>1. ASSUME UNCHANGED file, AllocatedApart PROVE AllocatedApart'
    BY <2>1 DEF AllocatedApart
  <2>2. UNCHANGED vars => UNCHANGED file
    BY DEF vars
  <2> QED BY <2>1, <2>2, TypeStep, WriteStep, FineStep DEF Unforced, Fine
<1> QED BY <1>1, <1>2, PTL DEF Spec

-----------------------------------------------------------------------------
(* The ssh ports of the VMs.                                               *)

\* The ssh port that is recorded for k.
Ssh(f, k) == EntryAt(f, k).ssh

\* Process p runs a command on the deployment of a VM; there is one such process at most.
UsesVm(p) == Active(p) /\ VmOf[job[p].key] # None
OneVm     == \A p, q \in Procs : UsesVm(p) /\ UsesVm(q) => p = q

\* The process is about to give its VM a domain, or to take its ports from the file.
AtSave(p) == pc[p] \in {"lock", "read", "write"}
Mends(p)  == pc[p] = "boot" \/ (job[p].cmd = "vm destroy" /\ AtSave(p))

Tended ==
  \A k \in Keys \ Pods :
    Ssh(file, k) # None => domain[VmOf[k]] # None \/ \E p \in Procs : OnVm(p, k) /\ Mends(p)

\* A `bundle add` that saves the port of its VM has found, or started, its domain.
Booted(p) ==
  /\ job[p].cmd = "vm add" /\ job[p].then = "done" /\ AtSave(p) => domain[VmOf[job[p].key]] # None
  /\ pc[p] = "dial" => job[p].port # None

\* A VM that is being created has a domain already, or its boot will succeed.
Bootable(p) ==
  (job[p].then = "boot" /\ AtSave(p)) \/ pc[p] = "boot"
    => domain[VmOf[job[p].key]] # None \/ \A u \in Vms : domain[u] # job[p].fwd

Tidy   == Tended /\ \A p \in Procs : Booted(p) /\ Bootable(p)
VmsInv == OneVm /\ (faults = 0 => loadable /\ Tidy)

\* g records no ssh port that f does not.
NoNew(f, g) == \A k \in Keys : Ssh(g, k) \in {None, Ssh(f, k)}

LEMMA OnlyAtSsh ==
  ASSUME NEW f, NEW g, NEW k \in Keys, OnlyAt(f, g, k), Ssh(g, k) \in {None, Ssh(f, k)}
  PROVE  NoNew(f, g)
  BY DEF OnlyAt, NoNew, Ssh, EntryAt

LEMMA RecordSshKept ==
  ASSUME NEW f \in File, NEW k \in Keys, NEW facts \in SUBSET FactSet, NEW pin \in Ports \cup {None}
  PROVE  NoNew(f, Record(f, k, facts, pin))
<1> DEFINE e == EntryAt(f, k)
           d == [e EXCEPT !.own = @ \cup facts, !.pin = IF pin = None THEN @ ELSE pin]
           g == Record(f, k, facts, pin)
<1>1. e \in Entry
  BY Entries
<1>2. d \in Entry /\ d.ssh = e.ssh
  BY <1>1 DEF Entry
<1>3. g = [f EXCEPT !.bundle[k] = d]
  BY DEF Record
<1> HIDE DEF d, e, g
<1>4. OnlyAt(f, g, k) /\ g.bundle[k] = d /\ d # None
  BY <1>2, <1>3, OverlayAssumption DEF File, OnlyAt
<1>5. Ssh(g, k) = Ssh(f, k)
  BY <1>2, <1>4 DEF Ssh, EntryAt, e
<1> QED BY <1>4, <1>5, OnlyAtSsh DEF g

LEMMA FactSshKept ==
  ASSUME NEW f \in File, NEW k \in Keys, NEW pin \in Ports \cup {None}
  PROVE  \A fact \in FactSet : NoNew(f, Record(f, k, {fact}, pin))
<1>1. \A facts \in SUBSET FactSet : NoNew(f, Record(f, k, facts, pin))
  BY RecordSshKept
<1>2. \A fact \in FactSet : {fact} \in SUBSET FactSet
  OBVIOUS
<1> QED BY <1>1, <1>2

LEMMA PortSshKept ==
  ASSUME NEW f \in File, NEW k \in Keys, NEW r \in Ports
  PROVE  NoNew(f, RecordPort(f, k, r))
<1> DEFINE e == EntryAt(f, k)
           d == [e EXCEPT !.rp = r]
           g == RecordPort(f, k, r)
<1>1. e \in Entry
  BY Entries
<1>2. d \in Entry /\ d.ssh = e.ssh
  BY <1>1 DEF Entry
<1>3. g = [f EXCEPT !.bundle[k] = d]
  BY DEF RecordPort
<1> HIDE DEF d, e, g
<1>4. OnlyAt(f, g, k) /\ g.bundle[k] = d /\ d # None
  BY <1>2, <1>3, OverlayAssumption DEF File, OnlyAt
<1>5. Ssh(g, k) = Ssh(f, k)
  BY <1>2, <1>4 DEF Ssh, EntryAt, e
<1> QED BY <1>4, <1>5, OnlyAtSsh DEF g

LEMMA CleanSsh ==
  ASSUME NEW f \in File, NEW k \in Keys
  PROVE  NoNew(f, Clean(f, k))
<1> DEFINE g == Clean(f, k)
<1>1. OnlyAt(f, g, k) /\ g.bundle[k] = None
  BY CleanWorks
<1> HIDE DEF g
<1>2. Ssh(g, k) = None
  BY <1>1 DEF Ssh, EntryAt, Zero
<1> QED BY <1>1, <1>2, OnlyAtSsh DEF g

LEMMA RecordSshSets ==
  ASSUME NEW f \in File, NEW k \in Keys, NEW port \in Ports \cup {None}
  PROVE  \A i \in Keys \ {k} : Ssh(RecordSsh(f, k, port), i) = Ssh(f, i)
<1> DEFINE g == RecordSsh(f, k, port)
<1>1. Alters(f, g, {k})
  BY RecordSshWorks
<1> HIDE DEF g
<1>2. \A i \in Keys \ {k} : Ssh(g, i) = Ssh(f, i)
  BY <1>1 DEF Alters, Ssh, EntryAt
<1> QED BY <1>2 DEF g

\* vm destroy's clean-up leaves no ssh port in the entries of its VM.
LEMMA ForgetSsh ==
  ASSUME NEW f \in File, NEW v \in Keys
  PROVE  \A k \in Keys : Ssh(ForgetVm(f, v), k) = IF VmOf[k] = v THEN None ELSE Ssh(f, k)
<1> DEFINE g == ForgetVm(f, v)
           Less(k) == [f.bundle[k] EXCEPT !.ssh = None]
<1>1. \A k \in Keys : g.bundle[k] = IF k \notin VmEntryKeys(f, v) THEN f.bundle[k]
                                    ELSE IF AutoVm(f.bundle[k]) THEN None ELSE Less(k)
  <2>1. g = [f EXCEPT !.bundle = [k \in Keys |->
               IF k \notin VmEntryKeys(f, v) THEN f.bundle[k] ELSE IF AutoVm(f.bundle[k]) THEN None ELSE Less(k)]]
    BY DEF ForgetVm
  <2> HIDE DEF g, Less
  <2> QED BY <2>1 DEF File
<1>2. Zero.ssh = None
  BY DEF Zero
<1>3. ASSUME NEW k \in Keys
      PROVE  Ssh(g, k) = IF VmOf[k] = v THEN None ELSE Ssh(f, k)
  <2>1. f.bundle[k] \in Entry \cup {None}
    BY DEF File
  <2>2. f.bundle[k] # None => Less(k).ssh = None
    BY <2>1 DEF Entry
  <2> HIDE DEF g, Less
  <2> QED BY <1>1, <1>2, <1>3, <2>2 DEF Ssh, EntryAt, VmEntryKeys
<1> QED BY <1>3

\* Another process than p, as a step of p leaves it.
Others(p) == \A q \in Procs \ {p} : pc'[q] = pc[q] /\ job'[q] = job[q]

\* p goes on with the deployment it works on, or ends.
SameKey(p) == pc'[p] = "done" \/ job'[p].key = job[p].key

LEMMA StepSameKey ==
  ASSUME TypeInv, WriteInv, NEW p \in Procs, Step(p) \/ Crash(p)
  PROVE  Active(p) /\ Others(p) /\ SameKey(p)
<1> DEFINE j == job[p]
<1>1. Active(p) /\ Others(p) /\ j \in Job
  BY StepFrame DEF Frame, Others, TypeInv, JobsOK
<1>2. Finish(p) => SameKey(p)
  BY FinishMoves DEF Moves, SameKey
<1>3. \A l, d : Go(p, l, d) /\ d.key = j.key => SameKey(p)
  BY GoMoves DEF Moves, SameKey
<1>4. \A f, r, t : /\ [j EXCEPT !.mem = f].key = j.key
                   /\ [j EXCEPT !.then = t].key = j.key
                   /\ [j EXCEPT !.mem = f, !.then = t].key = j.key
                   /\ [j EXCEPT !.then = t, !.mem = f].key = j.key
                   /\ [j EXCEPT !.port = r].key = j.key
                   /\ [j EXCEPT !.fwd = r, !.then = t].key = j.key
  BY <1>1 DEF Job
<1>5. Lock(p) \/ LockedLoad(p) \/ LockedSave(p) => SameKey(p)
  BY <1>2, <1>3, <1>4 DEF Lock, LockedLoad, LockedSave
<1>10. EphemeralLoad(p) \/ EphemeralSave(p) \/ NoOverlayImage(p) => SameKey(p)
  BY <1>2, <1>3, <1>4 DEF EphemeralLoad, EphemeralSave, NoOverlayImage
<1>6. ConfigLoad(p) \/ ConfigEarly(p) \/ ConfigPorts(p) => SameKey(p)
  BY <1>2, <1>3, <1>4 DEF ConfigLoad, ConfigEarly, ConfigPorts
<1>7. ConfigInject(p) \/ ConfigInjected(p) \/ ConfigReload(p) \/ ConfigSeed(p) => SameKey(p)
  BY <1>2, <1>3, <1>4 DEF ConfigInject, ConfigInjected, ConfigReload, ConfigSeed
<1>8. BundleLoad(p) \/ BundleSave(p) => SameKey(p)
  BY <1>2, <1>3, <1>4 DEF BundleLoad, BundleSave
<1>9. VmStep(p) => SameKey(p)
  BY <1>2, <1>3, <1>4 DEF VmStep, VmVenue, VmDial, VmCreate, VmBoot, VmGone
<1> QED BY <1>1, <1>2, <1>5, <1>6, <1>7, <1>8, <1>9, <1>10 DEF Step, Crash, ConfigStep

\* A process at work has a deployment, and a VM command the deployment of a VM.
LEMMA AtWork ==
  ASSUME TypeInv, NEW p \in Procs, Active(p)
  PROVE  /\ job[p].key \in Keys /\ job[p].key # None
         /\ job[p].cmd \in VmCommands => UsesVm(p) /\ VmOf[job[p].key] \in Vms
         /\ \A k \in Keys : OnVm(p, k) <=> UsesVm(p) /\ VmOf[job[p].key] = VmOf[k]
<1>1. job[p].key \in Keys
  BY DEF TypeInv, JobsOK, WellFormed, Active
<1>2. job[p].key # None
  BY <1>1, OverlayAssumption
<1>3. job[p].cmd \in VmCommands => VmOf[job[p].key] \in Vms
  BY DEF TypeInv, JobsOK, WellFormed, Active
<1> QED BY <1>1, <1>2, <1>3, KeyFacts DEF UsesVm, OnVm

LEMMA MenderFacts ==
  ASSUME TypeInv, NEW p \in Procs,
         \/ Mends(p) \/ (job[p].cmd \in VmCommands /\ AtSave(p)) \/ (job[p].then = "boot" /\ AtSave(p))
         \/ pc[p] \in {"boot", "dial", "gone", "create"}
  PROVE  Active(p) /\ job[p].cmd \in VmCommands
  BY DEF TypeInv, JobsOK, WellFormed, Active, Mends, AtSave, VmCommands

\* One process at most works on VMs, when the commands on VMs do not overlap.
LEMMA OneVmStep ==
  ASSUME TypeInv, WriteInv, OneVm, "vm" \notin Overlap, "vms" \notin Overlap, [Next]_vars
  PROVE  OneVm'
<1>1. CASE UNCHANGED <<pc, job>>
  BY <1>1 DEF OneVm, UsesVm, Active
<1>2. ASSUME NEW p \in Procs, Step(p) \/ Crash(p)
      PROVE  OneVm'
  <2>1. Active(p) /\ Others(p) /\ SameKey(p)
    BY <1>2, StepSameKey
  <2> QED BY <2>1 DEF Others, SameKey, OneVm, UsesVm, Active
<1>3. ASSUME NEW p \in Procs, Start(p)
      PROVE  OneVm'
  <2>1. PICK c \in Commands, k \in Keys, pin \in Pins \cup {None} :
          /\ \A q \in Procs : ~OnVm(q, k)
          /\ VmOf[k] = None \/ \A q \in Procs : Active(q) => VmOf[job[q].key] \in {None, VmOf[k]}
          /\ Go(p, FirstPC(c, k), [Idle EXCEPT !.cmd = c, !.key = k, !.pin = pin])
    BY <1>3 DEF Start
  <2> DEFINE j == [Idle EXCEPT !.cmd = c, !.key = k, !.pin = pin]
  <2>2. Moves(p, FirstPC(c, k), j) /\ j.key = k
    BY <2>1, GoMoves DEF Idle
  <2> HIDE DEF j
  <2>3. CASE VmOf[k] = None
    BY <2>2, <2>3 DEF Moves, OneVm, UsesVm, Active
  <2>4. CASE VmOf[k] # None
    <3>1. ASSUME NEW q \in Procs PROVE ~UsesVm(q)
      BY <2>1, <2>4, <3>1, AtWork DEF UsesVm
    <3> QED BY <2>2, <3>1 DEF Moves, OneVm, UsesVm, Active
  <2> QED BY <2>3, <2>4, SMTT(30)
<1> QED BY <1>1, <1>2, <1>3 DEF Next, Spoil, Repair, AllDone, vars

\* A step that records no ssh port, and leaves the domains alone.
LEMMA QuietTended ==
  ASSUME TypeInv, Tended, NEW p \in Procs, Others(p), NoNew(file, file'), UNCHANGED domain,
         Active(p) /\ Mends(p) => Active(p)' /\ Mends(p)' /\ job'[p].key = job[p].key
  PROVE  Tended'
<1> SUFFICES ASSUME NEW k \in Keys \ Pods, Ssh(file', k) # None, domain[VmOf[k]] = None
             PROVE  \E q \in Procs : (OnVm(q, k) /\ Mends(q))'
  BY DEF Tended
<1>1. Ssh(file, k) # None
  BY DEF NoNew
<1>2. PICK q \in Procs : OnVm(q, k) /\ Mends(q)
  BY <1>1 DEF Tended
<1>3. CASE q = p
  BY <1>2, <1>3 DEF OnVm
<1>4. CASE q # p
  BY <1>2, <1>4 DEF Others, OnVm, Mends, AtSave, Active
<1> QED BY <1>3, <1>4

\* The other processes need their domains, and no domain changes but by a command on a VM.
LEMMA OthersTidy ==
  ASSUME TypeInv, OneVm, NEW p \in Procs, Others(p), UNCHANGED domain \/ UsesVm(p),
         \A q \in Procs : Booted(q) /\ Bootable(q), NEW q \in Procs \ {p}
  PROVE  Booted(q)' /\ Bootable(q)'
<1>1. pc'[q] = pc[q] /\ job'[q] = job[q] /\ Booted(q) /\ Bootable(q)
  BY DEF Others
<1>2. CASE UNCHANGED domain
  BY <1>1, <1>2 DEF Booted, Bootable, AtSave
<1>3. CASE UsesVm(p)
  <2>1. ~UsesVm(q)
    BY <1>3 DEF OneVm
  <2>2. /\ ~(job[q].cmd = "vm add" /\ AtSave(q))
        /\ ~((job[q].then = "boot" /\ AtSave(q)) \/ pc[q] = "boot")
    BY <2>1, MenderFacts, AtWork DEF VmCommands
  <2> QED BY <1>1, <2>2 DEF Booted, Bootable, AtSave
<1> QED BY <1>2, <1>3

\* What a step must show of the process that takes it.
LEMMA TidyBy ==
  ASSUME TypeInv, OneVm, Tidy, NEW p \in Procs, Others(p), UNCHANGED domain \/ UsesVm(p),
         Tended', Booted(p)', Bootable(p)'
  PROVE  Tidy'
<1>1. \A q \in Procs \ {p} : Booted(q)' /\ Bootable(q)'
  BY OthersTidy DEF Tidy
<1>2. \A q \in Procs : (Booted(q) /\ Bootable(q))'
  BY <1>1
<1> QED BY <1>2 DEF Tidy

\* The process ends, or goes where neither a port nor a boot is at stake.
LEMMA FreeStep ==
  ASSUME NEW p \in Procs, pc'[p] \notin {"lock", "read", "write", "boot", "dial"}
  PROVE  Booted(p)' /\ Bootable(p)'
  BY DEF Booted, Bootable, AtSave

LEMMA QuietTidy ==
  ASSUME TypeInv, OneVm, Tidy, NEW p \in Procs, Others(p), NoNew(file, file'), UNCHANGED domain,
         ~Mends(p), Booted(p)', Bootable(p)'
  PROVE  Tidy'
  BY QuietTended, TidyBy DEF Tidy

LEMMA NoNewSame ==
  ASSUME NEW f
  PROVE  NoNew(f, f)
  BY DEF NoNew

LEMMA LockTidy ==
  ASSUME TypeInv, WriteInv, OneVm, loadable, Tidy, NEW p \in Procs, Lock(p) \/ LockedLoad(p)
  PROVE  Tidy'
<1> DEFINE j == job[p]
<1>1. Active(p) /\ Others(p) /\ AtSave(p) /\ UNCHANGED <<file, domain>> /\ NoNew(file, file')
  <2>1. AtSave(p) /\ UNCHANGED <<file, domain>>
    BY DEF Lock, LockedLoad, Acquire, AtSave
  <2> QED BY <2>1, StepSameKey, NoNewSame DEF Step
<1>2. \E d \in Job : /\ d.cmd = j.cmd /\ d.key = j.key /\ d.then = j.then /\ d.fwd = j.fwd
                     /\ Moves(p, "read", d) \/ Moves(p, "write", d)
  <2>1. j \in Job /\ file \in File
    BY DEF TypeInv, JobsOK, TypeOK
  <2>2. CASE Lock(p)
    BY <2>1, <2>2, GoMoves DEF Lock
  <2>3. CASE LockedLoad(p)
    <3> DEFINE d == [j EXCEPT !.mem = file]
    <3>1. d \in Job /\ d.cmd = j.cmd /\ d.key = j.key /\ d.then = j.then /\ d.fwd = j.fwd
      BY <2>1 DEF Job
    <3>2. Moves(p, "write", d)
      BY <2>3, GoMoves DEF LockedLoad
    <3> HIDE DEF d
    <3> QED BY <3>1, <3>2
  <2> QED BY <2>2, <2>3
<1>3. AtSave(p)' /\ pc'[p] # "boot" /\ pc'[p] # "dial" /\ pc[p] # "boot"
      /\ job'[p].cmd = j.cmd /\ job'[p].key = j.key /\ job'[p].then = j.then /\ job'[p].fwd = j.fwd
  BY <1>1, <1>2 DEF Moves, AtSave
<1>4. Booted(p)' /\ Bootable(p)'
  BY <1>1, <1>3 DEF Tidy, Booted, Bootable
<1>5. Active(p) /\ Mends(p) => Active(p)' /\ Mends(p)' /\ job'[p].key = job[p].key
  BY <1>1, <1>3 DEF Mends, Active, AtSave
<1>6. Tended'
  BY <1>1, <1>5, QuietTended DEF Tidy
<1> QED BY <1>1, <1>4, <1>6, TidyBy

LEMMA LockedSaveTidy ==
  ASSUME TypeInv, WriteInv, OneVm, loadable, Tidy, NEW p \in Procs, LockedSave(p)
  PROVE  Tidy'
<1> DEFINE j == job[p]
           v == VmOf[j.key]
<1>1. /\ Active(p) /\ Others(p) /\ AtSave(p) /\ pc[p] = "write" /\ UNCHANGED domain
      /\ j \in Job /\ file \in File /\ j.key \in Keys /\ file' = Update(p) /\ j.mem = file
      /\ j.pin \in Ports \cup {None} /\ j.port \in Ports \cup {None} /\ j.fwd \in Ports \cup {None}
      /\ j.cmd \in {"config", "save", "add", "remove"} \cup VmCommands
      /\ j.then = "boot" => j.cmd \in {"vm create", "vm add"}
  <2>1. pc[p] = "write" /\ AtSave(p) /\ UNCHANGED domain /\ file' = Update(p)
    BY DEF LockedSave, AtSave, Save
  <2>2. j \in Job /\ WellFormed("write", j) /\ file \in File /\ j.cmd \notin Unlocked \ {"config"}
    BY <2>1 DEF TypeInv, TypeOK, JobsOK, LockedSave
  <2>3. j.cmd \in {"config", "save", "add", "remove"} \cup VmCommands /\ j.key \in Keys
    BY <2>2 DEF WellFormed, AllCommands, PodCommands, Unlocked
  <2>4. j.mem = file
    BY <2>1, <2>3 DEF WriteInv, Current, VmCommands
  <2>5. j.then = "boot" => j.cmd \in {"vm create", "vm add"}
    BY <2>2 DEF WellFormed
  <2> QED BY <2>1, <2>2, <2>3, <2>4, <2>5, StepSameKey DEF Step, Job
<1>2. /\ pc'[p] = j.then /\ (j.then = "boot" => job'[p].key = j.key /\ job'[p].fwd = j.fwd)
      /\ j.then \in {"done", "boot", "reload"}
  <2> DEFINE d == [j EXCEPT !.then = "done", !.mem = Empty]
  <2>1. d.key = j.key /\ d.fwd = j.fwd
    BY <1>1 DEF Job
  <2>2. (j.then = "done" /\ Moves(p, "done", Idle)) \/ Moves(p, j.then, d)
    BY FinishMoves, GoMoves DEF LockedSave
  <2>3. j.then \in {"done", "boot", "reload"}
    BY <1>1 DEF TypeInv, JobsOK, WellFormed
  <2> HIDE DEF d
  <2> QED BY <2>1, <2>2, <2>3 DEF Moves
<1>3. Booted(p)' /\ Bootable(p)'
  <2>1. CASE j.then # "boot"
    BY <1>2, <2>1, FreeStep
  <2>2. CASE j.then = "boot"
    BY <1>1, <1>2, <2>2 DEF Tidy, Booted, Bootable, AtSave
  <2> QED BY <2>1, <2>2
<1>4. CASE j.cmd \in {"config", "save", "add", "remove"}
  <2>1. ~Mends(p)
    BY <1>1, <1>4 DEF Mends
  <2>2. NoNew(file, file')
    <3>1. CASE j.cmd \in {"config", "save", "add"}
      <4>1. Update(p) = Record(file, j.key, {"state"}, j.pin)
        BY <1>1, <3>1 DEF Update, VmCommands
      <4>2. NoNew(file, Record(file, j.key, {"state"}, j.pin))
        BY <1>1, FactSshKept DEF FactSet
      <4> QED BY <1>1, <4>1, <4>2
    <3>2. CASE j.cmd = "remove"
      <4>1. Update(p) = Clean(file, j.key)
        BY <1>1, <3>2 DEF Update, VmCommands
      <4> QED BY <1>1, <4>1, CleanSsh
    <3> QED BY <1>4, <3>1, <3>2
  <2> QED BY <1>1, <1>3, <2>1, <2>2, QuietTidy
<1>5. CASE j.cmd \in VmCommands
  <2>1. UsesVm(p) /\ v \in Vms /\ v \in Keys /\ VmOf[v] = v
    BY <1>1, <1>5, AtWork, KeyFacts
  <2>2. ASSUME NEW q \in Procs \ {p}, NEW k \in Keys, OnVm(q, k), Mends(q)
        PROVE  (OnVm(q, k) /\ Mends(q))'
    BY <1>1, <2>2 DEF Others, OnVm, Mends, AtSave, Active
  <2>3. Tended'
    <3> SUFFICES ASSUME NEW k \in Keys \ Pods, Ssh(file', k) # None, domain[VmOf[k]] = None
                 PROVE  \E q \in Procs : (OnVm(q, k) /\ Mends(q))'
      BY <1>1 DEF Tended
    <3>1. Ssh(file, k) # None => \E q \in Procs : OnVm(q, k) /\ Mends(q)
      BY DEF Tidy, Tended
    <3>2. CASE j.then = "boot"
      <4>1. file' = RecordSsh(file, v, j.fwd) /\ j.cmd # "vm destroy"
        <5>1. j.cmd # "vm destroy"
          BY <3>2, <1>1 DEF TypeInv, JobsOK, WellFormed
        <5> QED BY <1>1, <1>5, <3>2, <5>1 DEF Update, VmCommands
      <4>2. CASE k = v
        <5>1. Active(p)' /\ Mends(p)' /\ job'[p].key = j.key
          BY <1>2, <3>2 DEF Active, Mends
        <5>2. OnVm(p, k)'
          BY <5>1, <2>1, <4>2, <1>1, OverlayAssumption DEF OnVm
        <5> QED BY <5>1, <5>2
      <4>3. CASE k # v
        <5>1. Ssh(file, k) # None
          <6>1. \A i \in Keys \ {v} : Ssh(RecordSsh(file, v, j.fwd), i) = Ssh(file, i)
            BY <1>1, <2>1, RecordSshSets
          <6> QED BY <4>1, <4>3, <6>1
        <5>2. ~Mends(p)
          BY <1>1, <4>1 DEF Mends
        <5> QED BY <2>2, <3>1, <5>1, <5>2
      <4> QED BY <4>2, <4>3
    <3>3. CASE j.then # "boot" /\ j.cmd = "vm add"
      <4>1. file' = RecordSsh(file, j.key, j.port)
        BY <1>1, <3>3 DEF Update, VmCommands
      <4>2. domain[v] # None
        <5>1. j.then = "done"
          BY <1>2, <3>3 DEF TypeInv, JobsOK, WellFormed
        <5> QED BY <1>1, <3>3, <5>1 DEF Tidy, Booted
      <4>3. Ssh(file, k) # None
        <5>1. \A i \in Keys \ {j.key} : Ssh(RecordSsh(file, j.key, j.port), i) = Ssh(file, i)
          BY <1>1, RecordSshSets
        <5>2. k # j.key
          BY <4>2
        <5> QED BY <4>1, <5>1, <5>2
      <4>4. ~Mends(p)
        BY <1>1, <3>3 DEF Mends
      <4> QED BY <2>2, <3>1, <4>3, <4>4
    <3>4. CASE j.then # "boot" /\ j.cmd \in {"vm del", "vm destroy"}
      <4>1. file' = ForgetVm(file, v)
        BY <1>1, <3>4 DEF Update, VmCommands
      <4>2. VmOf[k] # v /\ Ssh(file, k) # None
        <5>1. \A i \in Keys : Ssh(ForgetVm(file, v), i) = IF VmOf[i] = v THEN None ELSE Ssh(file, i)
          BY <1>1, <2>1, ForgetSsh
        <5> QED BY <4>1, <5>1
      <4>3. ~OnVm(p, k)
        BY <4>2 DEF OnVm
      <4> QED BY <2>2, <3>1, <4>2, <4>3
    <3>5. j.cmd = "vm create" => j.then = "boot"
      BY <1>1 DEF TypeInv, JobsOK, WellFormed
    <3> QED BY <1>5, <3>2, <3>3, <3>4, <3>5 DEF VmCommands
  <2> QED BY <1>1, <1>3, <2>3, TidyBy
<1> QED BY <1>1, <1>4, <1>5

LEMMA EphemeralTidy ==
  ASSUME TypeInv, WriteInv, OneVm, Tidy, NEW p \in Procs, EphemeralLoad(p) \/ EphemeralSave(p) \/ NoOverlayImage(p)
  PROVE  Tidy'
<1> DEFINE j == job[p]
           next == AfterNote(j.cmd)
<1>1. /\ file \in File /\ j \in Job /\ Active(p) /\ Others(p) /\ UNCHANGED domain
      /\ j.cmd \in Noting /\ j.key \in Keys /\ j.then # "boot" /\ Current(p)
  <2>1. Active(p) /\ Others(p)
    BY StepSameKey DEF Step
  <2>2. j.cmd \in Noting /\ UNCHANGED domain /\ j.then # "boot"
    <3>1. pc[p] \in {"note", "noted", "lock"} /\ UNCHANGED domain /\ (pc[p] = "lock" => j.cmd = "add")
      BY DEF EphemeralLoad, EphemeralSave, NoOverlayImage
    <3>2. WellFormed(pc[p], j)
      BY DEF TypeInv, JobsOK
    <3>3. j.cmd \in Noting
      BY <3>1, <3>2 DEF WellFormed, Noting
    <3>4. j.then # "boot"
      BY <3>1, <3>2, <3>3 DEF WellFormed, Noting
    <3> QED BY <3>1, <3>3, <3>4
  <2> QED BY <2>1, <2>2, AtWork DEF TypeInv, TypeOK, JobsOK, WriteInv
<1>2. ~Mends(p)
  BY <1>1 DEF Mends, Noting, EphemeralLoad, EphemeralSave, NoOverlayImage
<1>3. Booted(p)' /\ Bootable(p)'
  <2>1. next = "venue" \/ (next = "lock" /\ j.cmd # "vm add")
    BY DEF AfterNote
  <2>2. \A f : [j EXCEPT !.mem = f].cmd = j.cmd /\ [j EXCEPT !.mem = f].then = j.then
    BY <1>1 DEF Job
  <2>3. \/ pc'[p] \in {"done", "noted"}
        \/ pc'[p] = next /\ job'[p].cmd = j.cmd /\ job'[p].then = j.then
    <3>1. CASE EphemeralLoad(p)
      <4>1. Moves(p, "noted", [j EXCEPT !.mem = file]) \/ Moves(p, next, j)
        BY <3>1, GoMoves DEF EphemeralLoad
      <4> QED BY <4>1 DEF Moves
    <3>2. CASE EphemeralSave(p)
      <4>1. Moves(p, next, [j EXCEPT !.mem = Empty])
        BY <3>2, GoMoves DEF EphemeralSave
      <4> HIDE DEF next
      <4> QED BY <2>2, <4>1 DEF Moves
    <3>3. CASE NoOverlayImage(p)
      BY <3>3, FinishMoves DEF NoOverlayImage, Moves
    <3> QED BY <3>1, <3>2, <3>3
  <2> HIDE DEF next
  <2> QED BY <1>1, <2>1, <2>3 DEF Booted, Bootable, AtSave
<1>4. NoNew(file, file')
  <2>1. CASE UNCHANGED file
    BY <2>1, NoNewSame
  <2>2. CASE EphemeralSave(p) /\ file' # file
    <3>1. file' = Record(file, j.key, {}, None) /\ {} \in SUBSET FactSet
      BY <1>1, <2>2 DEF EphemeralSave, Save, Current
    <3> QED BY <1>1, <3>1, RecordSshKept
  <2> QED BY <2>1, <2>2 DEF EphemeralLoad, NoOverlayImage
<1> QED BY <1>1, <1>2, <1>3, <1>4, QuietTidy

LEMMA ConfigTidy ==
  ASSUME TypeInv, WriteInv, OneVm, Tidy, NEW p \in Procs, ConfigStep(p)
  PROVE  Tidy'
<1> DEFINE j == job[p]
<1>1. /\ pc[p] \in {"load", "early", "ports", "inject", "injected", "reload", "seed"} /\ UNCHANGED domain
      /\ file \in File /\ j \in Job /\ Active(p) /\ Others(p)
  <2>1. pc[p] \in {"load", "early", "ports", "inject", "injected", "reload", "seed"} /\ UNCHANGED domain
    BY DEF ConfigStep, ConfigLoad, ConfigEarly, ConfigPorts, ConfigInject, ConfigInjected, ConfigReload, ConfigSeed
  <2> QED BY <2>1, StepSameKey DEF Step, TypeInv, TypeOK, JobsOK
<1>2. j.cmd = "config" /\ j.key \in Keys /\ j.mem \in File /\ ~Mends(p) /\ Current(p)
  <2>1. j.cmd = "config" /\ j.key \in Keys /\ Current(p)
    BY <1>1 DEF TypeInv, JobsOK, WellFormed, WriteInv, ConfigStep, ConfigLoad, ConfigEarly, ConfigPorts,
                ConfigInject, ConfigInjected, ConfigReload, ConfigSeed
  <2> QED BY <1>1, <2>1 DEF Mends, Job
<1>3. Booted(p)' /\ Bootable(p)'
  <2>1. pc'[p] \in {"early", "ports", "inject", "injected", "seed", "done"} \/ (pc'[p] = "lock" /\ job'[p].then = "reload"
                                                                           /\ job'[p].cmd = "config")
    <3> DEFINE d == [j EXCEPT !.mem = Empty, !.then = "reload"]
    <3>1. d.cmd = "config" /\ d.then = "reload"
      BY <1>1, <1>2 DEF Job
    <3> HIDE DEF d
    <3>2. ConfigLoad(p) \/ ConfigEarly(p) \/ ConfigPorts(p) => pc'[p] \in {"early", "ports", "inject", "done"}
      BY FinishMoves, GoMoves DEF ConfigLoad, ConfigEarly, ConfigPorts, Moves
    <3>3. ConfigInject(p) \/ ConfigInjected(p) => pc'[p] = "injected" \/ Moves(p, "lock", d)
      BY GoMoves DEF ConfigInject, ConfigInjected, Moves, d
    <3>4. ConfigReload(p) \/ ConfigSeed(p) => pc'[p] \in {"seed", "done"}
      BY FinishMoves, GoMoves DEF ConfigReload, ConfigSeed, Moves
    <3> QED BY <3>1, <3>2, <3>3, <3>4 DEF ConfigStep, Moves
  <2> QED BY <2>1 DEF Booted, Bootable, AtSave
<1>4. NoNew(file, file')
  <2>1. CASE UNCHANGED file
    BY <2>1, NoNewSame
  <2>2. CASE ConfigEarly(p) /\ file' # file
    <3>1. file' = Record(j.mem, j.key, {"caps"}, None) /\ j.mem = file
      BY <1>2, <2>2 DEF ConfigEarly, Save, Current
    <3> QED BY <1>1, <1>2, <3>1, FactSshKept DEF FactSet
  <2>3. CASE ConfigPorts(p) /\ file' # file
    <3>1. PICK r \in ResolveDeployPorts(j.mem, j.key) : file' = RecordPort(j.mem, j.key, r) /\ j.mem = file
      BY <1>2, <2>3 DEF ConfigPorts, Save, Current
    <3>2. r \in Ports
      BY <1>2, PortTypes
    <3> QED BY <1>1, <1>2, <3>1, <3>2, PortSshKept
  <2>4. CASE ConfigInjected(p) /\ file' # file
    <3>1. file' = [file EXCEPT !.provides = @ \cup {j.key}]
      BY <1>2, <2>4 DEF ConfigInjected, Save, Current
    <3>2. file'.bundle = file.bundle
      BY <1>1, <3>1 DEF File
    <3> QED BY <3>2 DEF NoNew, Ssh, EntryAt
  <2>5. CASE ConfigSeed(p) /\ file' # file
    <3>1. file' = Record(j.mem, j.key, {"seeded"}, None) /\ j.mem = file
      BY <1>2, <2>5 DEF ConfigSeed, Save, Current
    <3> QED BY <1>1, <1>2, <3>1, FactSshKept DEF FactSet
  <2> QED BY <2>1, <2>2, <2>3, <2>4, <2>5 DEF ConfigStep, ConfigLoad, ConfigInject, ConfigReload
<1> QED BY <1>1, <1>2, <1>3, <1>4, QuietTidy

LEMMA BundleTidy ==
  ASSUME TypeInv, WriteInv, OneVm, Tidy, NEW p \in Procs, BundleLoad(p) \/ BundleSave(p)
  PROVE  Tidy'
<1> DEFINE j == job[p]
<1>1. /\ pc[p] \in {"load", "write"} /\ j.cmd \in {"import", "import box", "replace", "reset", "reset all"} /\ UNCHANGED domain
      /\ file \in File /\ j \in Job /\ j.mem \in File /\ Active(p) /\ Others(p) /\ j.key \in Keys /\ Current(p)
  <2>1. pc[p] \in {"load", "write"} /\ j.cmd \in {"import", "import box", "replace", "reset", "reset all"} /\ UNCHANGED domain
    BY DEF BundleLoad, BundleSave
  <2>2. Active(p) /\ Others(p)
    BY StepSameKey DEF Step
  <2> QED BY <2>1, <2>2, AtWork DEF TypeInv, TypeOK, JobsOK, Job, WriteInv
<1>2. ~Mends(p) /\ j.then # "boot"
  BY <1>1 DEF Mends, TypeInv, JobsOK, WellFormed
<1>3. Booted(p)' /\ Bootable(p)'
  <2>1. BundleSave(p) => pc'[p] = "done"
    BY FinishMoves DEF BundleSave, Moves
  <2>2. BundleLoad(p) => pc'[p] = "done" \/ (pc'[p] = "write" /\ job'[p].then = j.then /\ job'[p].cmd = j.cmd)
    <3> DEFINE d == [j EXCEPT !.mem = file]
    <3>1. d.cmd = j.cmd /\ d.then = j.then
      BY <1>1 DEF Job
    <3>2. BundleLoad(p) => Moves(p, "done", Idle) \/ Moves(p, "write", j) \/ Moves(p, "write", d)
      BY FinishMoves, GoMoves DEF BundleLoad
    <3> HIDE DEF d
    <3> QED BY <3>1, <3>2 DEF Moves
  <2> QED BY <1>1, <1>2, <2>1, <2>2 DEF Booted, Bootable, AtSave
<1>4. NoNew(file, file')
  <2>1. CASE UNCHANGED file
    BY <2>1, NoNewSame
  <2>2. CASE file' = Empty
    BY <2>2, FileTypes DEF NoNew, Ssh, EntryAt, Zero
  <2>3. CASE BundleSave(p) /\ j.cmd = "reset" /\ file' = [j.mem EXCEPT !.bundle[j.key] = None]
    <3>1. j.mem = file /\ file' = [file EXCEPT !.bundle[j.key] = None]
      BY <1>1, <2>3 DEF BundleSave, Current
    <3>2. OnlyAt(file, file', j.key) /\ file'.bundle[j.key] = None
      BY <1>1, <3>1 DEF OnlyAt, File
    <3>3. Ssh(file', j.key) = None
      BY <3>2 DEF Ssh, EntryAt, Zero
    <3> QED BY <1>1, <3>2, <3>3, OnlyAtSsh
  <2>4. CASE /\ BundleSave(p) /\ j.cmd \in {"import", "import box", "replace"}
             /\ file'.bundle = Record(j.mem, j.key, {"operator"}, None).bundle
    <3>1. NoNew(j.mem, file')
      <4>1. NoNew(j.mem, Record(j.mem, j.key, {"operator"}, None))
        BY <1>1, FactSshKept DEF FactSet
      <4> QED BY <2>4, <4>1 DEF NoNew, Ssh, EntryAt
    <3>2. j.mem = file \/ j.mem = Empty
      BY <1>1, <2>4 DEF BundleSave, Current
    <3>3. \A k \in Keys : Ssh(Empty, k) = None
      BY FileTypes DEF Ssh, EntryAt, Zero
    <3> QED BY <3>1, <3>2, <3>3 DEF NoNew
  <2>5. BundleSave(p) /\ file' # file =>
          \/ file' = Empty
          \/ j.cmd = "reset" /\ file' = [j.mem EXCEPT !.bundle[j.key] = None]
          \/ /\ j.cmd \in {"import", "import box", "replace"}
             /\ file'.bundle = Record(j.mem, j.key, {"operator"}, None).bundle
    <3> DEFINE new == Record(j.mem, j.key, {"operator"}, None)
    <3>1. new \in File
      BY <1>1, RecordFact DEF FactSet
    <3>2. [new EXCEPT !.provides = {}].bundle = new.bundle
      BY <3>1 DEF File
    <3> QED BY <3>2 DEF BundleSave, Save
  <2> QED BY <2>1, <2>2, <2>3, <2>4, <2>5 DEF BundleLoad
<1> QED BY <1>1, <1>2, <1>3, <1>4, QuietTidy

LEMMA VmTidy ==
  ASSUME TypeInv, WriteInv, OneVm, loadable, Tidy, NEW p \in Procs, VmStep(p)
  PROVE  Tidy'
<1> DEFINE j == job[p]
           v == VmOf[j.key]
<1>1. /\ pc[p] \in {"venue", "dial", "create", "boot", "gone"} /\ UNCHANGED <<file, loadable>>
      /\ file \in File /\ j \in Job /\ Active(p) /\ Others(p) /\ NoNew(file, file')
      /\ domain \in [Vms -> Ports \cup {None}] /\ LoadForRead = file
  <2>1. pc[p] \in {"venue", "dial", "create", "boot", "gone"} /\ UNCHANGED <<file, loadable>>
    BY DEF VmStep, VmVenue, VmDial, VmCreate, VmBoot, VmGone
  <2> QED BY <2>1, StepSameKey, NoNewSame, SMTT(30) DEF Step, TypeInv, TypeOK, JobsOK, LoadForRead
<1>2. j.cmd \in VmCommands /\ UsesVm(p) /\ v \in Vms /\ j.key \in Keys /\ v \in Keys /\ VmOf[v] = v /\ v # None
  <2>1. j.cmd \in VmCommands
    BY <1>1, ZenonT(60) DEF TypeInv, JobsOK, WellFormed, VmCommands
  <2> QED BY <1>1, <2>1, AtWork, KeyFacts
<1>3. ~UNCHANGED domain => pc[p] \in {"boot", "gone"}
  BY DEF VmStep, VmVenue, VmDial, VmCreate, VmBoot, VmGone
<1>4. Mends(p) => pc[p] = "boot"
  BY <1>1 DEF Mends, AtSave
<1>5. CASE VmVenue(p)
  <2>1. PICK r \in Ports : Go(p, "dial", [j EXCEPT !.port = r])
    BY <1>5, VmPort DEF VmVenue
  <2> DEFINE d == [j EXCEPT !.port = r]
  <2>2. Moves(p, "dial", d) /\ d.port = r
    BY <1>1, <2>1, GoMoves DEF Job
  <2> HIDE DEF d
  <2>3. Booted(p)' /\ Bootable(p)'
    BY <2>2, OverlayAssumption DEF Moves, Booted, Bootable, AtSave
  <2> QED BY <1>1, <1>4, <1>5, <2>3, QuietTidy DEF VmVenue
<1>6. CASE VmDial(p)
  <2>1. \/ domain[v] = j.port /\ Moves(p, "lock", j)
        \/ Moves(p, "create", j)
    BY <1>6, GoMoves DEF VmDial
  <2>2. j.port # None /\ UNCHANGED domain
    BY <1>6 DEF VmDial, Tidy, Booted
  <2>3. Booted(p)' /\ Bootable(p)'
    BY <2>1, <2>2 DEF Moves, Booted, Bootable, AtSave
  <2> QED BY <1>1, <1>4, <1>6, <2>3, QuietTidy DEF VmDial
<1>7. CASE VmCreate(p)
  <2>1. PICK r \in ResolveVmSshPort(file, v) : Go(p, "lock", [j EXCEPT !.fwd = r, !.then = "boot"])
    BY <1>1, <1>7 DEF VmCreate, VmCreatePort
  <2> DEFINE d == [j EXCEPT !.fwd = r, !.then = "boot"]
  <2>2. Moves(p, "lock", d) /\ d.fwd = r /\ d.then = "boot" /\ d.key = j.key
    <3>1. "boot" \in PCs
      BY DEF PCs
    <3> QED BY <1>1, <2>1, <3>1, GoMoves DEF Job
  <2> HIDE DEF d
  <2>3. domain[v] # None \/ \A u \in Vms : domain[u] # r
    <3>1. CASE Ssh(file, v) # None
      <4>1. v \in Keys \ Pods
        BY <1>2 DEF Pods
      <4>2. ASSUME NEW q \in Procs, OnVm(q, v), Mends(q) PROVE FALSE
        <5>1. UsesVm(q)
          BY <4>2, AtWork DEF OnVm
        <5>2. q = p
          BY <1>2, <5>1 DEF OneVm
        <5> QED BY <4>2, <5>2, <1>4, <1>7 DEF VmCreate
      <4> QED BY <1>2, <3>1, <4>1, <4>2 DEF Tidy, Tended
    <3>2. CASE Ssh(file, v) = None
      BY <2>1, <3>2 DEF ResolveVmSshPort, Ssh
    <3> QED BY <3>1, <3>2
  <2>4. Booted(p)' /\ Bootable(p)'
    BY <1>7, <2>2, <2>3 DEF Moves, Booted, Bootable, AtSave, VmCreate
  <2> QED BY <1>1, <1>4, <1>7, <2>4, QuietTidy DEF VmCreate
<1>8. CASE VmBoot(p)
  <2>1. pc[p] = "boot" /\ (domain[v] # None \/ \A u \in Vms : domain[u] # j.fwd)
    BY <1>8 DEF VmBoot, Tidy, Bootable
  <2>2. /\ domain'[v] # None
        /\ \A u \in Vms \ {v} : domain'[u] = domain[u]
    BY <1>1, <1>2, <1>8, <2>1 DEF VmBoot
  <2>3. \/ pc'[p] = "done"
        \/ pc'[p] = "lock" /\ job'[p].key = j.key
    BY <1>8, FinishMoves, GoMoves, ZenonT(60) DEF VmBoot, Moves
  <2>4. Booted(p)' /\ Bootable(p)'
    BY <2>2, <2>3 DEF Booted, Bootable, AtSave
  <2>5. Tended'
    <3> SUFFICES ASSUME NEW k \in Keys \ Pods, Ssh(file, k) # None, domain'[VmOf[k]] = None
                 PROVE  \E q \in Procs : (OnVm(q, k) /\ Mends(q))'
      BY <1>1 DEF Tended
    <3>1. VmOf[k] \in Vms /\ VmOf[k] # v
      BY <2>2, OverlayAssumption DEF Pods, Vms
    <3>2. PICK q \in Procs : OnVm(q, k) /\ Mends(q)
      BY <2>2, <3>1 DEF Tidy, Tended
    <3>3. q # p
      BY <3>1, <3>2 DEF OnVm
    <3> QED BY <1>1, <3>2, <3>3 DEF Others, OnVm, Mends, AtSave, Active
  <2> QED BY <1>1, <1>2, <2>4, <2>5, TidyBy
<1>9. CASE VmGone(p)
  <2>1. pc[p] = "gone" /\ j.cmd = "vm destroy" /\ Moves(p, "lock", j)
    BY <1>9, GoMoves DEF VmGone, TypeInv, JobsOK, WellFormed
  <2>2. \A u \in Vms \ {v} : domain'[u] = domain[u]
    BY <1>1, <1>9 DEF VmGone
  <2>3. Booted(p)' /\ Bootable(p)'
    <3>1. j.then # "boot"
      BY <2>1 DEF TypeInv, JobsOK, WellFormed
    <3> QED BY <2>1, <3>1 DEF Moves, Booted, Bootable, AtSave
  <2>4. Active(p)' /\ Mends(p)' /\ job'[p].key = j.key
    BY <2>1 DEF Moves, Active, Mends, AtSave
  <2>5. Tended'
    <3> SUFFICES ASSUME NEW k \in Keys \ Pods, Ssh(file, k) # None, domain'[VmOf[k]] = None
                 PROVE  \E q \in Procs : (OnVm(q, k) /\ Mends(q))'
      BY <1>1 DEF Tended
    <3>1. VmOf[k] \in Vms
      BY OverlayAssumption DEF Pods, Vms
    <3>2. CASE VmOf[k] = v
      <4>1. OnVm(p, k)'
        BY <1>2, <2>4, <3>2, OverlayAssumption DEF OnVm
      <4> QED BY <2>4, <4>1
    <3>3. CASE VmOf[k] # v
      <4>1. PICK q \in Procs : OnVm(q, k) /\ Mends(q)
        BY <2>2, <3>1, <3>3 DEF Tidy, Tended
      <4>2. q # p
        BY <3>3, <4>1 DEF OnVm
      <4> QED BY <1>1, <4>1, <4>2 DEF Others, OnVm, Mends, AtSave, Active
    <3> QED BY <3>2, <3>3
  <2> QED BY <1>1, <1>2, <2>3, <2>5, TidyBy
<1> QED BY <1>5, <1>6, <1>7, <1>8, <1>9 DEF VmStep

LEMMA FaultsGrow ==
  ASSUME TypeInv, Next, faults' = 0
  PROVE  faults = 0 /\ ~Spoil /\ \A p \in Procs : ~Crash(p)
<1>1. faults \in Nat
  BY OverlayAssumption DEF TypeInv, TypeOK
<1>2. Spoil => faults' = faults + 1
  BY DEF Spoil
<1>3. \A p \in Procs : Crash(p) => faults' = faults + 1
  BY DEF Crash
<1>4. faults + 1 # 0
  BY <1>1
<1>5. ~Spoil /\ \A p \in Procs : ~Crash(p)
  BY <1>2, <1>3, <1>4
<1>6. ASSUME NEW p \in Procs, Start(p) \/ Step(p) PROVE UNCHANGED faults
  BY <1>6, ZenonT(60) DEF Start, Step, Lock, LockedLoad, LockedSave, NoOverlayImage, EphemeralLoad, EphemeralSave, ConfigStep, ConfigLoad, ConfigEarly, ConfigPorts,
              ConfigInject, ConfigInjected, ConfigReload, ConfigSeed, BundleLoad, BundleSave,
              VmStep, VmVenue, VmDial, VmCreate, VmBoot, VmGone
<1> QED BY <1>5, <1>6 DEF Next, Repair, AllDone, vars

LEMMA TidyStep ==
  ASSUME TypeInv, WriteInv, OneVm, loadable, Tidy, Next, faults' = 0
  PROVE  loadable' /\ Tidy'
<1>1. faults = 0 /\ ~Spoil /\ \A p \in Procs : ~Crash(p)
  BY FaultsGrow, SMTT(30)
<1>2. ASSUME NEW p \in Procs, Step(p)
      PROVE  loadable'
  BY <1>2 DEF Step, Lock, LockedLoad, LockedSave, NoOverlayImage, EphemeralLoad, EphemeralSave, ConfigStep, ConfigLoad, ConfigEarly, ConfigPorts,
              ConfigInject, ConfigInjected, ConfigReload, ConfigSeed, BundleLoad, BundleSave,
              VmStep, VmVenue, VmDial, VmCreate, VmBoot, VmGone
<1>3. ASSUME NEW p \in Procs, Step(p)
      PROVE  Tidy'
  BY <1>3, LockTidy, LockedSaveTidy, EphemeralTidy, ConfigTidy, BundleTidy, VmTidy DEF Step
<1>4. ASSUME NEW p \in Procs, Start(p)
      PROVE  loadable' /\ Tidy'
  <2>1. PICK c \in Commands, k \in Keys, pin \in Pins \cup {None} :
          /\ pc[p] = "new" /\ UNCHANGED <<file, loadable, domain>>
          /\ Go(p, FirstPC(c, k), [Idle EXCEPT !.cmd = c, !.key = k, !.pin = pin])
    BY <1>4 DEF Start
  <2> DEFINE d == [Idle EXCEPT !.cmd = c, !.key = k, !.pin = pin]
  <2>2. Moves(p, FirstPC(c, k), d) /\ d.cmd = c /\ d.then = "done"
    BY <2>1, GoMoves DEF Idle
  <2> HIDE DEF d
  <2>3. /\ FirstPC(c, k) \in {"load", "lock", "create", "note", "venue", "gone", "write"}
        /\ c = "vm add" => FirstPC(c, k) \in {"note", "venue"}
    BY <2>1, OverlayAssumption DEF FirstPC, AfterNote, AllCommands, PodCommands, VmCommands, Unlocked, Noting
  <2>4. Others(p) /\ Booted(p)' /\ Bootable(p)' /\ ~Active(p)
    BY <2>1, <2>2, <2>3 DEF Moves, Others, Booted, Bootable, AtSave, Active
  <2>5. Tended'
    BY <2>1, <2>4, NoNewSame, QuietTended DEF Tidy
  <2> QED BY <2>1, <2>4, <2>5, TidyBy
<1>5. ASSUME UNCHANGED <<file, pc, job, domain>> PROVE Tidy'
  BY <1>5, ZenonT(60) DEF Tidy, Tended, Booted, Bootable, Mends, OnVm, AtSave, Active
<1>6. CASE Repair
  BY <1>5, <1>6 DEF Repair
<1>7. CASE AllDone
  BY <1>5, <1>7 DEF AllDone, vars
<1> QED BY <1>1, <1>2, <1>3, <1>4, <1>6, <1>7 DEF Next

\* The entries charly made for VMs go with them: when the commands that save without the
\* flock run alone, and commands on VMs one at a time, an ssh port is in the file only
\* while its domain is there or a command works on it, unless a command was broken off or
\* the file spoilt.
THEOREM NothingStale ==
  ASSUME "unlocked" \notin Overlap, "repair" \notin Overlap, "vm" \notin Overlap, "vms" \notin Overlap
  PROVE  Spec => []NoStaleVm
<1> DEFINE I == TypeInv /\ WriteInv /\ VmsInv
<1>1. Init => I
  <2>1. ASSUME Init PROVE VmsInv
    <3>1. PICK S \in SUBSET Authored : file = [Empty EXCEPT !.bundle =
            [k \in Keys |-> IF k \in S THEN [Zero EXCEPT !.own = {"operator"}] ELSE None]]
      BY <2>1 DEF Init
    <3>2. \A k \in Keys : file.bundle[k] \in {None, [Zero EXCEPT !.own = {"operator"}]}
      BY <3>1, FileTypes DEF File
    <3>3. \A k \in Keys : Ssh(file, k) = None
      BY <3>2 DEF Ssh, EntryAt, Zero
    <3>4. \A p \in Procs : pc[p] = "new"
      BY <2>1 DEF Init
    <3>5. loadable
      BY <2>1 DEF Init
    <3> QED BY <3>3, <3>4, <3>5 DEF VmsInv, OneVm, UsesVm, Active, Tidy, Tended, Booted, Bootable, AtSave
  <2> QED BY <2>1, TypeInit, WriteInit
<1>2. I /\ [Next]_vars => I'
  <2> SUFFICES ASSUME I, [Next]_vars PROVE I'
    OBVIOUS
  <2>1. TypeInv' /\ WriteInv' /\ OneVm'
    BY TypeStep, WriteStep, OneVmStep DEF Unforced, VmsInv
  <2>2. ASSUME faults' = 0 PROVE loadable' /\ Tidy'
    <3>1. CASE Next
      <4>1. faults = 0
        BY <2>2, <3>1, FaultsGrow
      <4> QED BY <2>2, <3>1, <4>1, TidyStep DEF VmsInv
    <3>2. CASE UNCHANGED vars
      BY <2>2, <3>2, ZenonT(60) DEF vars, VmsInv, Tidy, Tended, Booted, Bootable, Mends, OnVm, AtSave, Active
    <3> QED BY <3>1, <3>2
  <2> QED BY <2>1, <2>2 DEF VmsInv
<1>3. I => NoStaleVm
  BY DEF VmsInv, Tidy, Tended, NoStaleVm, Ssh, EntryAt
<1> QED BY <1>1, <1>2, <1>3, PTL DEF Spec
=============================================================================
