--------------------------- MODULE EphemeralProofs ---------------------------
(***************************************************************************)
(* Proofs about Ephemeral, when only `bundle del` sessions overlap: for    *)
(* any deployments, snapshots, commands, timers, faults and kills of an    *)
(* add, no snapshot goes while a deployment refers to it, and no update of *)
(* a reference count gets lost.                                            *)
(***************************************************************************)
EXTENDS Ephemeral, FiniteSetTheorems, TLAPS

Registry == [Snaps -> SnapshotEntry \cup {None}]
Deltas   == {"up", "down", "same", "none"}

\* What is on disk and on the host, but for the flock.
Stores ==
  /\ registry \in Registry
  /\ disks \subseteq Snaps
  /\ runtime \in [Deploys -> Runtime \cup {None}]
  /\ recorded \subseteq Deploys
  /\ timers \in [Procs -> Deploys \cup {None}]
  /\ count \in [Snaps -> Nat]
  /\ missed \subseteq Deploys
  /\ faults \in 0..MaxFaults

Sessions ==
  /\ lock \in AllProcs \cup {None}
  /\ pc \in [AllProcs -> PCs]
  /\ job \in [AllProcs -> Job]

AddPCs == {"timer", "ref", "persist", "venue", "boot", "state", "walk", "record", "save"}
DelPCs == {"lock", "read", "post", "cancel", "unref", "save", "clear", "forget"}

\* Where a process of each command can be; an add is the operator's.
Routed(p) ==
  /\ Active(p) => /\ job[p].cmd \in AllCommands /\ job[p].snap \in Snaps
                  /\ job[p].cmd \notin SnapshotCommands =>
                       job[p].dep \in Deploys /\ job[p].snap = From[job[p].dep]
  /\ ~Active(p) => job[p].cmd = None
  /\ job[p].cmd = "add" => p \in Procs /\ pc[p] \in AddPCs
  /\ job[p].cmd = "del" => pc[p] \in DelPCs /\ (pc[p] # "lock" => lock = p)
  /\ job[p].cmd = "destroy" => pc[p] = "forget"
  /\ job[p].cmd = "create" => pc[p] \in {"look", "disk", "save"}
  /\ job[p].cmd = "promote" => pc[p] \in {"look", "promote", "save"}
  /\ job[p].cmd \in {"delete", "force"} => pc[p] \in {"look", "remove", "save"}

\* A command but `bundle del` is alone, and of these only the one with the flock works.
Sole == \A p, q \in AllProcs : p # q /\ Active(p) /\ Active(q) => job[p].cmd = "del"

Working(p) == Active(p) /\ pc[p] # "lock"

\* The count is that of the registry.
Counted == \A s \in Snaps : count[s] = IF registry[s] = None THEN 0 ELSE registry[s].ref

\* The references that are needed: one of every deployment whose del gives it back.
Records(s) == {d \in recorded \cap Marked : From[d] = s}
Need(s)    == Cardinality(Records(s))

\* The count covers them, and an external snapshot they are of has its disk.
Sound(s) ==
  Found(s) =>
    /\ Need(s) <= count[s]
    /\ Need(s) # 0 /\ registry[s] # None /\ registry[s].mode = "external" => s \in disks

Common == Counted /\ \A s \in Snaps : IsFiniteSet(Records(s)) /\ Sound(s)

AfterRef == {"persist", "venue", "boot", "state", "walk", "record"}

\* p has a reference that is not a recorded deployment's: one an add has taken for its record,
\* or one a del has still to give back.
Owing(p) ==
  /\ \/ job[p].cmd = "add" /\ pc[p] \in AfterRef
     \/ /\ job[p].cmd = "del" /\ job[p].dep \in Marked
        /\ pc[p] \in {"post", "cancel", "unref", "save"}
  /\ registry[job[p].snap] # None

Covered(p) == Owing(p) /\ Found(job[p].snap) => Need(job[p].snap) + 1 <= count[job[p].snap]

\* A registry r that differs from the file in snapshot s, as command c and its delta say.
Change(c, s, r, delta) ==
  /\ r \in Registry
  /\ \A t \in Snaps \ {s} : r[t] = registry[t]
  /\ c = "create" => registry[s] = None /\ r[s] # None /\ r[s].ref = 0 /\ delta = "same"
  /\ c = "promote" => registry[s] # None /\ r[s] # None /\ r[s].ref = registry[s].ref /\ delta = "same"
  /\ c \in {"create", "promote"} /\ r[s].mode = "external" => s \in disks
  /\ c \in {"delete", "force"} => r[s] = None /\ delta = "none"
  /\ c \in {"add", "del"} => registry[s] # None /\ r[s] # None /\ r[s].mode = registry[s].mode
  /\ c = "add" => r[s].ref = registry[s].ref + 1 /\ delta = "up"
  /\ c = "del" => \/ delta = "down" /\ registry[s].ref > 0 /\ r[s].ref = registry[s].ref - 1
                  \/ delta = "same" /\ r[s].ref = registry[s].ref

\* What goes is not needed.
Unneeded(c, s) == c \in {"delete", "force"} /\ Found(s) => Need(s) = 0

\* Where a command goes on after it has saved the registry.
Then(c) == CASE c = "add" -> "persist" [] c = "del" -> "clear" [] OTHER -> "done"

Saves(p) ==
  LET j == job[p]
  IN  Change(j.cmd, j.snap, j.reg, j.delta) /\ Unneeded(j.cmd, j.snap) /\ j.then = Then(j.cmd)

\* What p has read of the registry still holds.
Knows(p) ==
  LET s == job[p].snap
      e == registry[s]
  IN  /\ pc[p] \in {"disk", "promote", "remove"} => job[p].reg = registry
      /\ pc[p] = "disk" => e = None
      /\ pc[p] \in {"promote", "remove"} => e # None
      /\ pc[p] = "remove" => job[p].cmd = "force" \/ e.ref = 0
      /\ pc[p] \in AfterRef => e # None \/ job[p].dep \in missed
      /\ pc[p] \in {"cancel", "unref", "clear"} \/ (pc[p] = "save" /\ job[p].cmd = "del") => job[p].dep \in Marked
      /\ pc[p] = "save" => Saves(p)

\* An external snapshot has its disk, but for the one p has removed and not yet saved.
Backed(p) ==
  \A s \in Snaps : registry[s] # None /\ registry[s].mode = "external" =>
    s \in disks \/ (pc[p] = "save" /\ job[p].cmd \in {"delete", "force"} /\ job[p].snap = s)

Mine(p) == Knows(p) /\ Backed(p) /\ Covered(p)

Inv ==
  /\ Stores /\ Sessions /\ Common /\ Sole
  /\ \A p \in AllProcs : Routed(p)
  /\ \A p \in AllProcs : (\A q \in AllProcs \ {p} : ~Working(q)) => Mine(p)

\* Before and after a step of p, with nobody else at work.
Here(p) == Stores /\ Sessions /\ Common /\ Routed(p) /\ Mine(p) /\ Active(p)

Moved(p, l, j) ==
  /\ pc'[p] = l /\ job'[p] = j
  /\ \A q \in AllProcs \ {p} : pc'[q] = pc[q] /\ job'[q] = job[q]
  /\ pc' \in [AllProcs -> PCs] /\ job' \in [AllProcs -> Job]

After(p) ==
  /\ (Stores /\ Sessions /\ Common /\ Routed(p) /\ Mine(p))'
  /\ job'[p].cmd \in {job[p].cmd, None}
  /\ \A q \in AllProcs \ {p} : pc'[q] = pc[q] /\ job'[q] = job[q]

-----------------------------------------------------------------------------
(* Types.                                                                  *)

LEMMA IdleJob == Idle \in Job /\ Idle.cmd = None
BY DEF Idle, Job, PCs

LEMMA JobFields ==
  ASSUME NEW j \in Job
  PROVE  /\ j.cmd \in AllCommands \cup {None} /\ j.dep \in Deploys \cup {None}
         /\ j.snap \in Snaps \cup {None} /\ j.reg \in Registry \cup {None}
         /\ j.state \in Runtime \cup {None} /\ j.delta \in Deltas /\ j.then \in PCs
BY DEF Job, Registry, Deltas

LEMMA SetReg ==
  ASSUME NEW j \in Job, NEW r \in Registry \cup {None}
  PROVE  LET k == [j EXCEPT !.reg = r]
         IN  /\ k \in Job /\ k.reg = r /\ k.cmd = j.cmd /\ k.dep = j.dep /\ k.snap = j.snap
             /\ k.delta = j.delta /\ k.then = j.then /\ k.state = j.state
BY DEF Job, Registry

LEMMA SetState ==
  ASSUME NEW j \in Job, NEW r \in Runtime \cup {None}
  PROVE  LET k == [j EXCEPT !.state = r]
         IN  /\ k \in Job /\ k.state = r /\ k.cmd = j.cmd /\ k.dep = j.dep /\ k.snap = j.snap
             /\ k.delta = j.delta /\ k.then = j.then /\ k.reg = j.reg
BY DEF Job

Loaded(j, r, d, t) == [j EXCEPT !.reg = r, !.delta = d, !.then = t]

LEMMA SetLoad ==
  ASSUME NEW j \in Job, NEW r \in Registry \cup {None}, NEW d \in Deltas, NEW t \in PCs
  PROVE  LET k == Loaded(j, r, d, t)
         IN  /\ k \in Job /\ k.reg = r /\ k.cmd = j.cmd /\ k.dep = j.dep /\ k.snap = j.snap
             /\ k.delta = d /\ k.then = t /\ k.state = j.state
BY DEF Job, Registry, Deltas, Loaded

LEMMA ClearLoad ==
  ASSUME NEW j \in Job
  PROVE  LET k == Loaded(j, None, "same", "done")
         IN  k \in Job /\ k.cmd = j.cmd /\ k.dep = j.dep /\ k.snap = j.snap /\ k.delta = "same"
<1>1. "same" \in Deltas /\ "done" \in PCs /\ None \in Registry \cup {None}
  BY DEF Deltas, PCs
<1> QED BY <1>1, SetLoad

Fresh(c, d, s) == [Idle EXCEPT !.cmd = c, !.dep = d, !.snap = s]

LEMMA SetCommand ==
  ASSUME NEW c \in AllCommands, NEW d \in Deploys \cup {None}, NEW s \in Snaps
  PROVE  LET k == Fresh(c, d, s)
         IN  k \in Job /\ k.cmd = c /\ k.dep = d /\ k.snap = s
BY DEF Job, Idle, PCs, Fresh

LEMMA EntryFields ==
  ASSUME NEW r \in Registry, NEW s \in Snaps, r[s] # None
  PROVE  r[s] \in SnapshotEntry /\ r[s].ref \in Nat /\ r[s].mode \in {"internal", "external"}
BY DEF Registry, SnapshotEntry

LEMMA SetRef ==
  ASSUME NEW r \in Registry, NEW s \in Snaps, r[s] # None, NEW n \in Nat
  PROVE  LET k == [r EXCEPT ![s].ref = n]
         IN  /\ k \in Registry /\ k[s] # None /\ k[s].ref = n /\ k[s].mode = r[s].mode
             /\ \A t \in Snaps \ {s} : k[t] = r[t]
<1>1. r[s] \in SnapshotEntry
  BY EntryFields
<1>2. [r[s] EXCEPT !.ref = n] \in SnapshotEntry /\ [r[s] EXCEPT !.ref = n].ref = n
      /\ [r[s] EXCEPT !.ref = n].mode = r[s].mode
  BY <1>1 DEF SnapshotEntry
<1>3. [r[s] EXCEPT !.ref = n] # None
  BY <1>2, NoneAssumption
<1> QED BY <1>2, <1>3 DEF Registry

LEMMA SetExternal ==
  ASSUME NEW r \in Registry, NEW s \in Snaps, r[s] # None
  PROVE  LET k == [r EXCEPT ![s].mode = "external"]
         IN  /\ k \in Registry /\ k[s] # None /\ k[s].ref = r[s].ref
             /\ \A t \in Snaps \ {s} : k[t] = r[t]
<1>1. r[s] \in SnapshotEntry
  BY EntryFields
<1> DEFINE e == [r[s] EXCEPT !.mode = "external"]
<1>2. e \in SnapshotEntry /\ e.ref = r[s].ref
  BY <1>1 DEF SnapshotEntry
<1>3. e # None
  BY <1>2, NoneAssumption
<1> QED BY <1>2, <1>3 DEF Registry

LEMMA SetEntry ==
  ASSUME NEW r \in Registry, NEW s \in Snaps, NEW e \in SnapshotEntry \cup {None}
  PROVE  LET k == [r EXCEPT ![s] = e]
         IN  k \in Registry /\ k[s] = e /\ \A t \in Snaps \ {s} : k[t] = r[t]
BY DEF Registry

LEMMA GoMoved ==
  ASSUME Sessions, NEW p \in AllProcs, NEW l \in PCs, NEW j \in Job, Go(p, l, j)
  PROVE  Moved(p, l, j)
BY DEF Sessions, Go, Moved

LEMMA FinishMoved ==
  ASSUME Sessions, NEW p \in AllProcs, Finish(p)
  PROVE  Moved(p, "done", Idle) /\ lock' = (IF lock = p THEN None ELSE lock)
BY IdleJob DEF Sessions, Finish, Moved, PCs

\* An active process has a deployment and its snapshot.
LEMMA Target ==
  ASSUME NEW p \in AllProcs, Sessions, Routed(p), Active(p)
  PROVE  /\ job[p] \in Job /\ job[p].snap \in Snaps
         /\ job[p].cmd \in AllCommands /\ job[p].cmd # None /\ job[p].snap # None
         /\ job[p].cmd \notin SnapshotCommands =>
              job[p].dep \in Deploys /\ job[p].snap = From[job[p].dep] /\ job[p].dep # None
BY EphemeralAssumption, NoneAssumption DEF Sessions, Routed

-----------------------------------------------------------------------------
(* What the references are needed for.                                     *)

LEMMA SetGrows ==
  ASSUME NEW S, NEW T, NEW x, IsFiniteSet(S), T \subseteq S \cup {x}
  PROVE  IsFiniteSet(T) /\ Cardinality(T) \in Nat /\ Cardinality(S) \in Nat
         /\ Cardinality(T) <= Cardinality(S) + 1
<1>1. IsFiniteSet(S \cup {x}) /\ Cardinality(S \cup {x}) <= Cardinality(S) + 1 /\ Cardinality(S) \in Nat
  BY FS_AddElement, FS_CardinalityType
<1>2. IsFiniteSet(T) /\ Cardinality(T) <= Cardinality(S \cup {x})
  BY <1>1, FS_Subset
<1>3. Cardinality(T) \in Nat /\ Cardinality(S \cup {x}) \in Nat
  BY <1>1, <1>2, FS_CardinalityType
<1> QED BY <1>1, <1>2, <1>3

LEMMA SetShrinks ==
  ASSUME NEW S, NEW T, NEW x \in S, IsFiniteSet(S), T \subseteq S \ {x}
  PROVE  IsFiniteSet(T) /\ Cardinality(T) \in Nat /\ Cardinality(S) \in Nat
         /\ Cardinality(T) + 1 <= Cardinality(S)
<1>1. IsFiniteSet(S \ {x}) /\ Cardinality(S \ {x}) = Cardinality(S) - 1 /\ Cardinality(S) \in Nat
  BY FS_RemoveElement, FS_CardinalityType
<1>2. IsFiniteSet(T) /\ Cardinality(T) <= Cardinality(S \ {x})
  BY <1>1, FS_Subset
<1>3. Cardinality(T) \in Nat /\ Cardinality(S \ {x}) \in Nat
  BY <1>1, <1>2, FS_CardinalityType
<1> QED BY <1>1, <1>2, <1>3

LEMMA SetLess ==
  ASSUME NEW S, NEW T, IsFiniteSet(S), T \subseteq S
  PROVE  IsFiniteSet(T) /\ Cardinality(T) \in Nat /\ Cardinality(S) \in Nat
         /\ Cardinality(T) <= Cardinality(S)
BY FS_Subset, FS_CardinalityType

LEMMA NeedNat ==
  ASSUME NEW s, IsFiniteSet(Records(s))
  PROVE  Need(s) \in Nat
BY FS_CardinalityType DEF Need

LEMMA NeedSame ==
  ASSUME NEW s, recorded' = recorded
  PROVE  (IsFiniteSet(Records(s))' <=> IsFiniteSet(Records(s))) /\ Need(s)' = Need(s)
BY DEF Need, Records

LEMMA NoNeed ==
  ASSUME NEW s, Records(s) = {}
  PROVE  IsFiniteSet(Records(s)) /\ Need(s) = 0
BY FS_EmptySet DEF Need

\* One record more ...
LEMMA NeedGrows ==
  ASSUME NEW s, NEW x, IsFiniteSet(Records(s)), Records(s)' \subseteq Records(s) \cup {x}
  PROVE  IsFiniteSet(Records(s)') /\ Need(s)' \in Nat /\ Need(s) \in Nat /\ Need(s)' <= Need(s) + 1
BY SetGrows DEF Need

\* ... or fewer of them.
LEMMA NeedLess ==
  ASSUME NEW s, IsFiniteSet(Records(s)), Records(s)' \subseteq Records(s)
  PROVE  IsFiniteSet(Records(s)') /\ Need(s)' \in Nat /\ Need(s) \in Nat /\ Need(s)' <= Need(s)
BY SetLess DEF Need

\* A del that takes a record away has a reference to give back.
LEMMA NeedFalls ==
  ASSUME NEW s, NEW x \in Records(s), IsFiniteSet(Records(s)), Records(s)' \subseteq Records(s) \ {x}
  PROVE  IsFiniteSet(Records(s)') /\ Need(s)' \in Nat /\ Need(s) \in Nat /\ Need(s)' + 1 <= Need(s)
BY SetShrinks DEF Need

\* A recorded deployment whose snapshot every deployment found has it, with its reference and its disk.
LEMMA RecordedThere ==
  ASSUME Stores, Common, NEW d \in recorded \cap Marked, Found(From[d])
  PROVE  /\ From[d] \in Snaps /\ registry[From[d]] # None /\ registry[From[d]].ref > 0
         /\ registry[From[d]].mode = "external" => From[d] \in disks
<1> DEFINE s == From[d]
<1>1. s \in Snaps /\ d \in Records(s)
  BY EphemeralAssumption DEF Stores, Records
<1>2. IsFiniteSet(Records(s)) /\ Sound(s) /\ count[s] \in Nat
  BY <1>1 DEF Common, Stores
<1>3. Need(s) # 0 /\ Need(s) \in Nat
  BY <1>1, <1>2, NeedNat, FS_EmptySet DEF Need
<1>4. count[s] > 0
  BY <1>2, <1>3 DEF Sound
<1>5. count[s] = IF registry[s] = None THEN 0 ELSE registry[s].ref
  BY <1>1 DEF Common, Counted
<1> QED BY <1>1, <1>2, <1>3, <1>4, <1>5 DEF Sound

-----------------------------------------------------------------------------
(* The steps that leave the snapshots and the records as they are.         *)

\* A process that has ended knows nothing and owes nothing.
LEMMA Ended ==
  ASSUME NEW p \in AllProcs, Moved(p, "done", Idle)
  PROVE  Routed(p)' /\ Knows(p)' /\ ~Owing(p)'
<1>1. pc'[p] = "done" /\ job'[p].cmd = None
  BY IdleJob DEF Moved
<1>2. \A c \in AllCommands : c # None
  BY NoneAssumption
<1>3. Routed(p)'
  BY <1>1, <1>2 DEF Routed, Active, AllCommands, SnapshotCommands
<1>4. Knows(p)'
  BY <1>1 DEF Knows, AfterRef
<1>5. ~Owing(p)'
  BY <1>1 DEF Owing, AfterRef
<1> QED BY <1>3, <1>4, <1>5

\* Whether a snapshot was always found depends on missed alone.
LEMMA FoundSame ==
  ASSUME missed' = missed, NEW s
  PROVE  Found(s)' = Found(s)
BY DEF Found

LEMMA FoundLess ==
  ASSUME missed \subseteq missed', NEW s
  PROVE  Found(s)' => Found(s)
BY DEF Found

LEMMA CommonSame ==
  ASSUME Common, UNCHANGED <<registry, disks, count, recorded>>, missed \subseteq missed'
  PROVE  Common'
<1>1. ASSUME NEW s \in Snaps PROVE IsFiniteSet(Records(s)') /\ Sound(s)'
  <2>1. IsFiniteSet(Records(s)) /\ Sound(s) /\ Records(s)' = Records(s) /\ Need(s)' = Need(s)
    BY NeedSame DEF Common, Records
  <2> QED BY <2>1, FoundLess DEF Sound
<1> QED BY <1>1 DEF Common, Counted

LEMMA Quiet ==
  ASSUME NEW p \in AllProcs, Here(p), NEW l, NEW j, Moved(p, l, j), Stores',
         lock' \in AllProcs \cup {None},
         UNCHANGED <<registry, disks, count, recorded>>, missed \subseteq missed',
         j.cmd \in {job[p].cmd, None}, Routed(p)', Knows(p)',
         Owing(p)' => Owing(p) /\ job'[p].snap = job[p].snap,
         pc[p] # "save"
  PROVE  After(p)
<1>1. Common'
  BY CommonSame DEF Here
<1>2. Backed(p)'
  BY DEF Here, Mine, Backed
<1>3. Covered(p)'
  BY NeedSame, FoundLess DEF Here, Mine, Covered
<1> QED BY <1>1, <1>2, <1>3 DEF After, Mine, Moved, Sessions

LEMMA EndQuiet ==
  ASSUME NEW p \in AllProcs, Here(p), Finish(p), Stores', UNCHANGED <<snapshots, recorded>>,
         pc[p] # "save"
  PROVE  After(p)
<1>1. Moved(p, "done", Idle) /\ lock' \in AllProcs \cup {None}
  BY FinishMoved DEF Here, Sessions
<1>2. Routed(p)' /\ Knows(p)' /\ ~Owing(p)'
  BY <1>1, Ended
<1>3. UNCHANGED <<registry, disks, count, recorded>> /\ missed' = missed
  BY DEF snapshots
<1> QED BY <1>1, <1>2, <1>3, IdleJob, Quiet

LEMMA Verdicts ==
  ASSUME NEW c \in {"create", "promote", "delete", "force"}, NEW e, Verdict(c, e) # "done"
  PROVE  \/ Verdict(c, e) = "disk" /\ c = "create" /\ e = None
         \/ Verdict(c, e) = "promote" /\ c = "promote" /\ e # None
         \/ /\ Verdict(c, e) = "remove" /\ c \in {"delete", "force"} /\ e # None
            /\ c = "force" \/ e.ref = 0
<1>1. CASE c = "create"
  BY <1>1 DEF Verdict
<1>2. CASE c = "promote"
  BY <1>2 DEF Verdict
<1>3. CASE c = "delete"
  BY <1>3 DEF Verdict
<1>4. CASE c = "force"
  BY <1>4 DEF Verdict
<1> QED BY <1>1, <1>2, <1>3, <1>4

LEMMA LookStep ==
  ASSUME NEW p \in AllProcs, Here(p), Look(p)
  PROVE  After(p)
<1> DEFINE j == job[p]
           e == registry[j.snap]
           l == Verdict(j.cmd, e)
           k == [j EXCEPT !.reg = registry]
<1>1. /\ pc[p] = "look" /\ UNCHANGED <<snapshots, recorded>> /\ Stores'
      /\ registry \in Registry /\ registry' = registry /\ disks' = disks /\ count' = count
      /\ missed' = missed /\ recorded' = recorded
  BY DEF Look, Here, Stores, snapshots, overlay
<1>2. j \in Job /\ j.cmd \in SnapshotCommands /\ j.cmd # "add" /\ j.cmd # "del"
  BY <1>1, Target DEF Here, Routed, AllCommands, SnapshotCommands, AddPCs, DelPCs
<1>3. CASE Finish(p)
  BY <1>1, <1>3, EndQuiet
<1>4. CASE l # "done" /\ Go(p, l, k) /\ lock' = lock
  <2>1. k \in Job /\ k.reg = registry /\ k.cmd = j.cmd /\ k.dep = j.dep /\ k.snap = j.snap
    BY <1>1, <1>2, SetReg
  <2> HIDE DEF k
  <2>2. \/ l = "disk" /\ j.cmd = "create" /\ e = None
        \/ l = "promote" /\ j.cmd = "promote" /\ e # None
        \/ l = "remove" /\ j.cmd \in {"delete", "force"} /\ e # None /\ (j.cmd = "force" \/ e.ref = 0)
    <3>1. l # "done"
      BY <1>4
    <3>2. j.cmd \in {"create", "promote", "delete", "force"}
      BY <1>2 DEF SnapshotCommands
    <3> QED BY <3>1, <3>2, Verdicts
  <2> HIDE DEF l
  <2>3. Moved(p, l, k)
    BY <1>4, <2>1, <2>2, GoMoved DEF Here, PCs
  <2>4. Routed(p)'
    BY <1>1, <1>2, <2>1, <2>2, <2>3 DEF Here, Moved, Routed, Active, SnapshotCommands
  <2>5. Knows(p)' /\ ~Owing(p)'
    BY <1>1, <1>2, <2>1, <2>2, <2>3 DEF Moved, Knows, Owing, AfterRef
  <2> QED BY <1>1, <1>4, <2>1, <2>3, <2>4, <2>5, Quiet DEF Here, Sessions
<1> QED BY <1>3, <1>4 DEF Look

\* A quiet step of an add or a del to l, which does not concern what is read of the registry.
LEMMA QuietGo ==
  ASSUME NEW p \in AllProcs, Here(p), NEW l \in PCs, NEW j \in Job, Go(p, l, j), Stores', lock' = lock,
         UNCHANGED <<registry, disks, count, recorded>>, missed \subseteq missed',
         j.cmd = job[p].cmd, j.dep = job[p].dep, j.snap = job[p].snap,
         l # "done", l # "new", l # "save", pc[p] # "save",
         j.cmd = "add" => l \in AddPCs,
         j.cmd = "del" => l \in DelPCs /\ (l # "lock" => lock = p),
         j.cmd \in {"add", "del"},
         Knows(p)',
         Owing(p)' => Owing(p)
  PROVE  After(p)
<1>1. Moved(p, l, j)
  BY GoMoved DEF Here
<1>2. Routed(p)'
  BY <1>1 DEF Here, Routed, Active, Moved
<1>3. job'[p].snap = job[p].snap
  BY <1>1 DEF Moved
<1> QED BY <1>1, <1>2, <1>3, Quiet DEF Here, Sessions

\* What an add and a del have of their own.
LEMMA AddDel ==
  ASSUME NEW p \in AllProcs, Here(p), job[p].cmd \in {"add", "del"}
  PROVE  /\ job[p] \in Job /\ job[p].dep \in Deploys /\ job[p].dep # None
         /\ job[p].snap \in Snaps /\ job[p].snap = From[job[p].dep]
         /\ job[p].cmd = "del" /\ pc[p] # "lock" => lock = p
         /\ job[p].cmd = "add" => p \in Procs
BY Target DEF Here, SnapshotCommands, Routed

LEMMA IsAdd ==
  ASSUME NEW p \in AllProcs, Here(p), pc[p] \in {"timer", "ref"} \cup AfterRef
  PROVE  job[p].cmd = "add"
BY Target DEF Here, Routed, AllCommands, SnapshotCommands, DelPCs, AfterRef

LEMMA IsDel ==
  ASSUME NEW p \in AllProcs, Here(p), pc[p] \in {"lock", "read", "post", "cancel", "unref", "clear"}
  PROVE  job[p].cmd = "del"
BY Target DEF Here, Routed, AllCommands, SnapshotCommands, AddPCs

\* An add goes from one step after its reference to another.
LEMMA AddGoes ==
  ASSUME NEW p \in AllProcs, Here(p), pc[p] \in AfterRef, NEW l \in AfterRef, NEW k \in Job,
         Go(p, l, k), k.cmd = job[p].cmd, k.dep = job[p].dep, k.snap = job[p].snap,
         lock' = lock, UNCHANGED <<snapshots, recorded>>, Stores'
  PROVE  After(p)
<1>1. UNCHANGED <<registry, disks, count, recorded>> /\ missed' = missed
  BY DEF snapshots
<1>2. job[p].cmd = "add" /\ l \in PCs /\ l \in AddPCs /\ l # "done" /\ l # "new" /\ l # "save" /\ pc[p] # "save"
  BY IsAdd DEF AfterRef, AddPCs, PCs
<1>3. pc'[p] = l /\ job'[p] = k
  BY <1>2, GoMoved DEF Here, Moved
<1>4. Knows(p)'
  BY <1>1, <1>2, <1>3 DEF Here, Mine, Knows, AfterRef
<1>5. Owing(p)' => Owing(p)
  BY <1>1, <1>2, <1>3 DEF Owing
<1> QED BY <1>1, <1>2, <1>4, <1>5, QuietGo

LEMMA ArmTimerStep ==
  ASSUME NEW p \in AllProcs, Here(p), ArmTimer(p)
  PROVE  After(p)
<1>1. pc[p] = "timer" /\ UNCHANGED <<registry, disks, count, recorded>> /\ missed' = missed
      /\ lock' = lock /\ Go(p, "ref", job[p])
  BY DEF ArmTimer, overlay, snapshots
<1>2. job[p].cmd = "add" /\ job[p] \in Job /\ job[p].dep \in Deploys
  BY <1>1, IsAdd, AddDel
<1>3. Stores'
  BY <1>1, <1>2, EphemeralAssumption DEF ArmTimer, Here, Stores, snapshots, overlay
<1>4. pc'[p] = "ref" /\ job'[p] = job[p]
  BY <1>1, <1>2, GoMoved DEF Here, Moved, PCs
<1>5. Knows(p)' /\ ~Owing(p)'
  BY <1>2, <1>4 DEF Knows, Owing, AfterRef
<1> QED BY <1>1, <1>2, <1>3, <1>5, QuietGo DEF AddPCs, PCs

LEMMA PersistStep ==
  ASSUME NEW p \in AllProcs, Here(p), Persist(p)
  PROVE  After(p)
<1>1. pc[p] = "persist" /\ UNCHANGED <<snapshots, recorded>> /\ lock' = lock /\ Go(p, "venue", job[p])
  BY DEF Persist
<1>2. job[p] \in Job /\ job[p].dep \in Deploys /\ p \in Procs
  BY <1>1, IsAdd, AddDel DEF AfterRef
<1>3. [unit |-> IF timers[p] = None THEN None ELSE p] \in Runtime
  BY <1>2 DEF Runtime
<1>4. Stores'
  BY <1>1, <1>2, <1>3 DEF Persist, Here, Stores, snapshots
<1> QED BY <1>1, <1>2, <1>4, AddGoes DEF AfterRef

LEMMA VenueStep ==
  ASSUME NEW p \in AllProcs, Here(p), Venue(p)
  PROVE  After(p)
<1> DEFINE k == [job[p] EXCEPT !.state = runtime[job[p].dep]]
<1>1. /\ pc[p] = "venue" /\ UNCHANGED <<snapshots, recorded>> /\ lock' = lock /\ Go(p, "boot", k) /\ Stores'
  BY DEF Venue, Here, Stores, snapshots, overlay
<1>2. job[p] \in Job /\ job[p].dep \in Deploys
  BY <1>1, IsAdd, AddDel DEF AfterRef
<1>3. runtime[job[p].dep] \in Runtime \cup {None}
  BY <1>2 DEF Here, Stores
<1>4. k \in Job /\ k.cmd = job[p].cmd /\ k.dep = job[p].dep /\ k.snap = job[p].snap
  BY <1>2, <1>3, SetState
<1> HIDE DEF k
<1> QED BY <1>1, <1>4, AddGoes DEF AfterRef

LEMMA BootStep ==
  ASSUME NEW p \in AllProcs, Here(p), Boot(p)
  PROVE  After(p)
<1>1. /\ pc[p] = "boot" /\ UNCHANGED <<snapshots, recorded>>
  BY DEF Boot, overlay
<1>2. job[p] \in Job
  BY <1>1, IsAdd, AddDel DEF AfterRef
<1>3. Stores'
  BY EphemeralAssumption DEF Boot, Here, Stores, snapshots, overlay
<1>4. CASE Go(p, "state", job[p]) /\ lock' = lock
  BY <1>1, <1>2, <1>3, <1>4, AddGoes DEF AfterRef
<1>5. CASE Finish(p)
  BY <1>1, <1>3, <1>5, EndQuiet
<1> QED BY <1>4, <1>5 DEF Boot

LEMMA SaveStateStep ==
  ASSUME NEW p \in AllProcs, Here(p), SaveState(p)
  PROVE  After(p)
<1> DEFINE j == job[p]
           k == [j EXCEPT !.state = None]
<1>1. /\ pc[p] = "state" /\ UNCHANGED <<snapshots, recorded>> /\ lock' = lock /\ Go(p, "walk", k)
  BY DEF SaveState
<1>2. j \in Job /\ j.dep \in Deploys /\ j.state \in Runtime \cup {None}
  BY <1>1, IsAdd, AddDel, JobFields DEF AfterRef
<1>3. Stores'
  BY <1>2 DEF SaveState, Here, Stores, snapshots
<1>4. k \in Job /\ k.cmd = j.cmd /\ k.dep = j.dep /\ k.snap = j.snap
  BY <1>2, SetState
<1> HIDE DEF k
<1> QED BY <1>1, <1>3, <1>4, AddGoes DEF AfterRef

LEMMA WalkStep ==
  ASSUME NEW p \in AllProcs, Here(p), Walk(p)
  PROVE  After(p)
<1>1. /\ pc[p] = "walk" /\ UNCHANGED <<snapshots, recorded>>
  BY DEF Walk, overlay
<1>2. job[p] \in Job
  BY <1>1, IsAdd, AddDel DEF AfterRef
<1>3. Stores'
  BY EphemeralAssumption DEF Walk, Here, Stores, snapshots, overlay
<1>4. CASE Go(p, "record", job[p]) /\ lock' = lock
  BY <1>1, <1>2, <1>3, <1>4, AddGoes DEF AfterRef
<1>5. CASE Finish(p)
  BY <1>1, <1>3, <1>5, EndQuiet
<1> QED BY <1>4, <1>5 DEF Walk

LEMMA LedgerLockStep ==
  ASSUME NEW p \in AllProcs, Here(p), LedgerLock(p)
  PROVE  After(p)
<1>1. /\ pc[p] = "lock" /\ UNCHANGED <<registry, disks, count, recorded>> /\ missed' = missed
      /\ lock' = p /\ Go(p, "read", job[p]) /\ Stores'
  BY DEF LedgerLock, Here, Stores, snapshots, overlay
<1>2. job[p].cmd = "del" /\ job[p] \in Job
  BY <1>1, IsDel, AddDel
<1>3. Moved(p, "read", job[p])
  BY <1>1, <1>2, GoMoved DEF Here, PCs
<1>4. Routed(p)' /\ Knows(p)' /\ ~Owing(p)'
  BY <1>1, <1>2, <1>3 DEF Here, Moved, Routed, Active, DelPCs, Knows, Owing, AfterRef
<1> QED BY <1>1, <1>2, <1>3, <1>4, Quiet

LEMMA PostTeardownStep ==
  ASSUME NEW p \in AllProcs, Here(p), PostTeardown(p)
  PROVE  After(p)
<1> DEFINE j == job[p]
           k == [j EXCEPT !.state = runtime[j.dep]]
<1>1. /\ pc[p] = "post" /\ UNCHANGED <<registry, disks, count, recorded>> /\ missed' = missed
      /\ lock' = lock /\ Stores'
  BY DEF PostTeardown, Here, Stores, snapshots, overlay
<1>2. j.cmd = "del" /\ j \in Job /\ j.dep \in Deploys /\ lock = p
  BY <1>1, IsDel, AddDel
<1>3. CASE j.dep \in Marked
  <2>1. runtime[j.dep] \in Runtime \cup {None}
    BY <1>2 DEF Here, Stores
  <2>2. k \in Job /\ k.cmd = j.cmd /\ k.dep = j.dep /\ k.snap = j.snap
    BY <1>2, <2>1, SetState
  <2>3. Go(p, "cancel", k)
    BY <1>3 DEF PostTeardown
  <2> HIDE DEF k
  <2>4. pc'[p] = "cancel" /\ job'[p] = k
    BY <2>2, <2>3, GoMoved DEF Here, Moved, PCs
  <2>5. Knows(p)' /\ (Owing(p)' => Owing(p))
    BY <1>1, <1>2, <1>3, <2>2, <2>4 DEF Knows, Owing, AfterRef
  <2> QED BY <1>1, <1>2, <2>2, <2>3, <2>5, QuietGo DEF DelPCs, PCs
<1>4. CASE j.dep \notin Marked
  <2>1. Go(p, "forget", j)
    BY <1>4 DEF PostTeardown
  <2>2. pc'[p] = "forget" /\ job'[p] = j
    BY <1>2, <2>1, GoMoved DEF Here, Moved, PCs
  <2>3. Knows(p)' /\ ~Owing(p)'
    BY <1>2, <2>2 DEF Knows, Owing, AfterRef
  <2> QED BY <1>1, <1>2, <2>1, <2>3, QuietGo DEF DelPCs, PCs
<1> QED BY <1>3, <1>4

LEMMA CancelTimerStep ==
  ASSUME NEW p \in AllProcs, Here(p), CancelTimer(p)
  PROVE  After(p)
<1> DEFINE j == job[p]
           k == [j EXCEPT !.state = None]
<1>1. /\ pc[p] = "cancel" /\ UNCHANGED <<registry, disks, count, recorded>> /\ missed' = missed
      /\ lock' = lock /\ Go(p, "unref", k)
  BY DEF CancelTimer, snapshots, overlay
<1>2. j.cmd = "del" /\ j \in Job /\ lock = p
  BY <1>1, IsDel, AddDel
<1>3. timers' \in [Procs -> Deploys \cup {None}]
  BY DEF CancelTimer, Here, Stores
<1>4. Stores'
  BY <1>3 DEF CancelTimer, Here, Stores, snapshots, overlay
<1>5. k \in Job /\ k.cmd = j.cmd /\ k.dep = j.dep /\ k.snap = j.snap
  BY <1>2, SetState
<1> HIDE DEF k
<1>6. pc'[p] = "unref" /\ job'[p] = k
  BY <1>1, <1>5, GoMoved DEF Here, Moved, PCs
<1>7. j.dep \in Marked
  BY <1>1 DEF Here, Mine, Knows
<1>8. Knows(p)' /\ (Owing(p)' => Owing(p))
  BY <1>1, <1>2, <1>5, <1>6, <1>7 DEF Knows, Owing, AfterRef
<1> QED BY <1>1, <1>2, <1>4, <1>5, <1>8, QuietGo DEF DelPCs, PCs

LEMMA ClearRuntimeStep ==
  ASSUME NEW p \in AllProcs, Here(p), ClearRuntime(p)
  PROVE  After(p)
<1>1. pc[p] = "clear" /\ UNCHANGED <<registry, disks, count, recorded>> /\ missed' = missed
      /\ lock' = lock /\ Go(p, "forget", job[p])
  BY DEF ClearRuntime, snapshots
<1>2. job[p].cmd = "del" /\ job[p] \in Job /\ lock = p
  BY <1>1, IsDel, AddDel
<1>3. Stores'
  BY DEF ClearRuntime, Here, Stores, snapshots
<1>4. pc'[p] = "forget" /\ job'[p] = job[p]
  BY <1>1, <1>2, GoMoved DEF Here, Moved, PCs
<1>5. Knows(p)' /\ ~Owing(p)'
  BY <1>2, <1>4 DEF Knows, Owing, AfterRef
<1> QED BY <1>1, <1>2, <1>3, <1>5, QuietGo DEF DelPCs, PCs

LEMMA ForgetEntryStep ==
  ASSUME NEW p \in AllProcs, Here(p), ForgetEntry(p)
  PROVE  After(p)
<1>1. pc[p] = "forget" /\ UNCHANGED <<snapshots, recorded>> /\ Finish(p)
  BY DEF ForgetEntry
<1>2. Stores'
  BY DEF ForgetEntry, Here, Stores, snapshots
<1> QED BY <1>1, <1>2, EndQuiet

-----------------------------------------------------------------------------
(* The steps that take or give back a reference, or save the registry.     *)

\* A step of p to "save" that touches at most the disks and the history.
LEMMA LoadStep ==
  ASSUME NEW p \in AllProcs, Here(p), NEW r \in Registry, NEW delta \in Deltas, NEW then \in PCs,
         Load(p, r, delta, then), lock' = lock, Stores',
         UNCHANGED <<registry, count, recorded>>, missed \subseteq missed', Common',
         job[p].cmd # "destroy", pc[p] # "lock",
         Saves(p)', Backed(p)', Owing(p)' => Owing(p),
         job[p].cmd = "del" => job[p].dep \in Marked
  PROVE  After(p)
<1> DEFINE j == job[p]
           k == Loaded(j, r, delta, then)
<1>1. j \in Job
  BY DEF Here, Sessions
<1>2. k \in Job /\ k.cmd = j.cmd /\ k.dep = j.dep /\ k.snap = j.snap
  BY <1>1, SetLoad
<1>3. Go(p, "save", k)
  BY DEF Load, Loaded
<1> HIDE DEF k
<1>4. Moved(p, "save", k)
  BY <1>2, <1>3, GoMoved DEF Here, PCs
<1>5. Routed(p)'
  BY <1>2, <1>4 DEF Here, Moved, Routed, Active, AddPCs, DelPCs
<1>7. Knows(p)'
  BY <1>2, <1>4 DEF Moved, Knows, AfterRef
<1>8. Covered(p)'
  BY <1>2, <1>4, NeedSame, FoundLess DEF Moved, Here, Mine, Covered
<1> QED BY <1>2, <1>4, <1>5, <1>7, <1>8 DEF After, Mine, Moved, Here, Sessions

LEMMA RegisterRefStep ==
  ASSUME NEW p \in AllProcs, Here(p), RegisterRef(p)
  PROVE  After(p)
<1> DEFINE j == job[p]
           s == j.snap
           r == [registry EXCEPT ![s].ref = @ + 1]
           n == registry[s].ref + 1
           k == Loaded(j, r, "up", "persist")
<1>1. /\ pc[p] = "ref" /\ UNCHANGED <<registry, disks, count, recorded>> /\ lock' = lock
      /\ registry \in Registry /\ Increment(p, "persist")
  BY DEF RegisterRef, Here, Stores, overlay
<1>2. j.cmd = "add" /\ j \in Job /\ s \in Snaps /\ j.dep \in Deploys
  BY <1>1, IsAdd, AddDel
<1>3. missed' = IF registry[s] = None THEN missed \cup {j.dep} ELSE missed
  BY DEF RegisterRef
<1>4. Stores' /\ missed \subseteq missed'
  BY <1>1, <1>2, <1>3 DEF RegisterRef, Here, Stores, overlay
<1>5. Common'
  BY <1>1, <1>4, CommonSame DEF Here
<1>6. CASE registry[s] = None
  <2>1. Go(p, "persist", j)
    BY <1>6 DEF RegisterRef, Increment
  <2>2. pc'[p] = "persist" /\ job'[p] = j
    BY <1>2, <2>1, GoMoved DEF Here, Moved, PCs
  <2>3. Knows(p)' /\ ~Owing(p)'
    BY <1>1, <1>2, <1>3, <1>6, <2>2 DEF Knows, Owing, AfterRef
  <2> QED BY <1>1, <1>2, <1>4, <2>1, <2>3, QuietGo DEF AddPCs, PCs
<1>7. CASE registry[s] # None
  <2>3. n \in Nat
    BY <1>1, <1>2, <1>7, EntryFields
  <2>4. r = [registry EXCEPT ![s].ref = n]
    BY <1>1, <1>2 DEF Registry
  <2>5. /\ r \in Registry /\ r[s] # None /\ r[s].ref = n /\ r[s].mode = registry[s].mode
        /\ \A t \in Snaps \ {s} : r[t] = registry[t]
    BY <1>1, <1>2, <1>7, <2>3, <2>4, SetRef
  <2>6. "persist" \in PCs /\ "up" \in Deltas
    BY DEF PCs, Deltas
  <2>7. Load(p, r, "up", "persist")
    BY <1>1, <1>7 DEF Increment
  <2> HIDE DEF r
  <2>8. k \in Job /\ k.reg = r /\ k.cmd = j.cmd /\ k.dep = j.dep /\ k.snap = s /\ k.delta = "up"
        /\ k.then = "persist"
    BY <1>2, <2>5, <2>6, SetLoad
  <2>9. Go(p, "save", k)
    BY <2>7 DEF Load, Loaded
  <2> HIDE DEF k
  <2>10. pc'[p] = "save" /\ job'[p] = k
    BY <2>8, <2>9, GoMoved DEF Here, Moved, PCs
  <2>11. Saves(p)'
    BY <1>1, <1>2, <1>7, <2>5, <2>8, <2>10 DEF Saves, Change, Unneeded, Then
  <2>12. Backed(p)'
    BY <1>1 DEF Here, Mine, Backed
  <2>13. ~Owing(p)'
    BY <1>2, <2>8, <2>10 DEF Owing, AfterRef
  <2> HIDE DEF n
  <2> QED BY <1>1, <1>2, <1>4, <1>5, <2>5, <2>6, <2>7, <2>11, <2>12, <2>13, LoadStep
<1> QED BY <1>6, <1>7

LEMMA DropRefStep ==
  ASSUME NEW p \in AllProcs, Here(p), DropRef(p)
  PROVE  After(p)
<1> DEFINE j == job[p]
           s == j.snap
           e == registry[s]
<1>1. /\ pc[p] = "unref" /\ UNCHANGED <<registry, disks, count, recorded>> /\ missed' = missed
      /\ lock' = lock /\ Stores' /\ registry \in Registry
  BY DEF DropRef, Here, Stores, snapshots, overlay
<1>2. j.cmd = "del" /\ j \in Job /\ j.dep \in Deploys /\ s \in Snaps /\ lock = p
  BY <1>1, IsDel, AddDel
<1>3. j.dep \in Marked
  BY <1>1 DEF Here, Mine, Knows
<1>4. CASE e = None
  <2>1. Go(p, "clear", j)
    BY <1>4 DEF DropRef, Decrement
  <2>2. pc'[p] = "clear" /\ job'[p] = j
    BY <1>2, <2>1, GoMoved DEF Here, Moved, PCs
  <2>3. Knows(p)' /\ ~Owing(p)'
    BY <1>2, <1>3, <2>2 DEF Knows, Owing, AfterRef
  <2> QED BY <1>1, <1>2, <2>1, <2>3, QuietGo DEF DelPCs, PCs
<1>5. ASSUME e # None, NEW r \in Registry, NEW delta \in Deltas, Load(p, r, delta, "clear"),
             r[s] # None, r[s].mode = e.mode, \A t \in Snaps \ {s} : r[t] = registry[t],
             (delta = "down" /\ e.ref > 0 /\ r[s].ref = e.ref - 1) \/ (delta = "same" /\ r[s].ref = e.ref)
      PROVE  After(p)
  <2> DEFINE k == Loaded(j, r, delta, "clear")
  <2>0. "clear" \in PCs
    BY DEF PCs
  <2>1. k \in Job /\ k.reg = r /\ k.cmd = j.cmd /\ k.dep = j.dep /\ k.snap = s
        /\ k.delta = delta /\ k.then = "clear"
    BY <1>2, <1>5, <2>0, SetLoad
  <2>2. Go(p, "save", k)
    BY <1>5 DEF Load, Loaded
  <2> HIDE DEF k
  <2>3. pc'[p] = "save" /\ job'[p] = k
    BY <2>1, <2>2, GoMoved DEF Here, Moved, PCs
  <2>4. Saves(p)'
    <3>1. ASSUME NEW x \in Snaps, x = s PROVE Change("del", x, r, delta)' /\ Unneeded("del", x)'
      <4>1. registry' = registry /\ registry[x] # None /\ r[x] # None /\ r[x].mode = registry[x].mode
            /\ \A t \in Snaps \ {x} : r[t] = registry[t]
        BY <1>1, <1>5, <3>1
      <4>2. \/ delta = "down" /\ registry[x].ref > 0 /\ r[x].ref = registry[x].ref - 1
            \/ delta = "same" /\ r[x].ref = registry[x].ref
        BY <1>5, <3>1
      <4> QED BY <4>1, <4>2 DEF Change, Unneeded
    <3>2. /\ job'[p].cmd = "del" /\ job'[p].snap = s /\ job'[p].reg = r /\ job'[p].delta = delta
          /\ job'[p].then = Then("del")
      BY <1>2, <2>1, <2>3 DEF Then
    <3> QED BY <1>2, <3>1, <3>2 DEF Saves
  <2>5. Backed(p)'
    BY <1>1, <1>2 DEF Here, Mine, Backed
  <2>6. Owing(p)' => Owing(p)
    BY <1>1, <1>2, <2>1, <2>3 DEF Owing
  <2>7. Common'
    BY <1>1, CommonSame DEF Here
  <2> QED BY <1>1, <1>2, <1>3, <1>5, <2>0, <2>4, <2>5, <2>6, <2>7, LoadStep
<1>6. CASE e # None /\ e.ref = 0
  <2>1. Load(p, registry, "same", "clear")
    BY <1>6 DEF DropRef, Decrement
  <2> QED BY <1>1, <1>5, <1>6, <2>1 DEF Deltas
<1>7. CASE e # None /\ e.ref # 0
  <2> DEFINE n == e.ref - 1
             r == [registry EXCEPT ![s].ref = @ - 1]
  <2>1. n \in Nat /\ e.ref > 0
    BY <1>1, <1>2, <1>7, EntryFields
  <2>2. r = [registry EXCEPT ![s].ref = n]
    BY <1>1, <1>2 DEF Registry
  <2>3. /\ r \in Registry /\ r[s] # None /\ r[s].ref = n /\ r[s].mode = e.mode
        /\ \A t \in Snaps \ {s} : r[t] = registry[t]
    BY <1>1, <1>2, <1>7, <2>1, <2>2, SetRef
  <2>4. Load(p, r, "down", "clear")
    BY <1>7 DEF DropRef, Decrement
  <2> HIDE DEF r
  <2> QED BY <1>5, <1>7, <2>1, <2>3, <2>4 DEF Deltas
<1> QED BY <1>4, <1>6, <1>7

\* A snapshot command is about to save.
LEMMA SnapshotSave ==
  ASSUME NEW p \in AllProcs, Here(p), pc[p] \in {"disk", "promote", "remove"},
         NEW r \in Registry, NEW delta \in Deltas, Load(p, r, delta, "done"), lock' = lock,
         Stores', UNCHANGED <<registry, count, recorded>>, missed \subseteq missed', Common',
         Backed(p)' \/ disks \subseteq disks'
                    \/ (disks' = disks \ {job[p].snap} /\ job[p].cmd \in {"delete", "force"}),
         NEW c \in SnapshotCommands, c = job[p].cmd, NEW s \in Snaps, s = job[p].snap,
         Change(c, s, r, delta)', Unneeded(c, s)'
  PROVE  After(p)
<1> DEFINE j == job[p]
           k == Loaded(j, r, delta, "done")
<1>1. "done" \in PCs /\ "save" \in PCs
  BY DEF PCs
<1>2. j \in Job /\ c \notin {"add", "del", "destroy"}
  BY Target DEF Here, SnapshotCommands
<1>3. k \in Job /\ k.reg = r /\ k.cmd = c /\ k.dep = j.dep /\ k.snap = s
      /\ k.delta = delta /\ k.then = "done"
  BY <1>1, <1>2, SetLoad
<1>4. Go(p, "save", k)
  BY DEF Load, Loaded
<1> HIDE DEF k
<1>5. pc'[p] = "save" /\ job'[p] = k
  BY <1>1, <1>3, <1>4, GoMoved DEF Here, Moved
<1>6. Saves(p)'
  <2>1. ASSUME NEW x, NEW y, NEW z, NEW d, x = c, y = s, z = r, d = delta
        PROVE  Change(x, y, z, d)' /\ Unneeded(x, y)'
    BY <2>1
  <2>2. /\ job'[p].cmd = c /\ job'[p].snap = s /\ job'[p].reg = r /\ job'[p].delta = delta
        /\ job'[p].then = Then(c)
    BY <1>2, <1>3, <1>5 DEF Then
  <2> QED BY <2>1, <2>2 DEF Saves
<1>7. Backed(p)'
  BY <1>3, <1>5 DEF Here, Mine, Backed
<1>8. ~Owing(p)'
  BY <1>2, <1>3, <1>5 DEF Owing
<1> QED BY <1>1, <1>2, <1>6, <1>7, <1>8, LoadStep

\* A disk more changes nothing for the deployments.
LEMMA CommonMore ==
  ASSUME Common, UNCHANGED <<registry, count, recorded, missed>>, disks \subseteq disks'
  PROVE  Common'
<1>1. ASSUME NEW s \in Snaps PROVE IsFiniteSet(Records(s)') /\ Sound(s)'
  <2>1. IsFiniteSet(Records(s)) /\ Sound(s) /\ Records(s)' = Records(s) /\ Need(s)' = Need(s)
    BY NeedSame DEF Common, Records
  <2> QED BY <2>1, FoundSame DEF Sound
<1> QED BY <1>1 DEF Common, Counted

LEMMA PromoteStep ==
  ASSUME NEW p \in AllProcs, Here(p), Promote(p)
  PROVE  After(p)
<1> DEFINE j == job[p]
           s == j.snap
           r == [j.reg EXCEPT ![s].mode = "external"]
<1>1. /\ pc[p] = "promote" /\ UNCHANGED <<registry, count, recorded, missed>> /\ lock' = lock
      /\ disks' = disks \cup {s} /\ Load(p, r, "same", "done")
  BY DEF Promote, overlay
<1>2. j.cmd = "promote" /\ j \in Job /\ s \in Snaps
  BY <1>1, Target DEF Here, Routed, AllCommands, SnapshotCommands, AddPCs, DelPCs
<1>3. Stores'
  BY <1>2 DEF Promote, Here, Stores, overlay
<1>4. registry[s] # None /\ j.reg = registry /\ registry \in Registry
  BY <1>1 DEF Here, Mine, Knows, Stores
<1>5. r \in Registry /\ r[s] # None /\ r[s].ref = registry[s].ref
      /\ \A t \in Snaps \ {s} : r[t] = registry[t]
  BY <1>2, <1>4, SetExternal
<1> HIDE DEF r
<1>6. "same" \in Deltas /\ j.cmd \in SnapshotCommands
  BY <1>2 DEF Deltas, SnapshotCommands
<1>7. Common'
  BY <1>1, CommonMore DEF Here
<1>8. ASSUME NEW x \in Snaps, NEW y \in Registry, x = s, y = r
      PROVE  After(p)
  <2>1. s \in disks' /\ disks \subseteq disks'
    BY <1>1
  <2>2. Change("promote", x, y, "same")' /\ Unneeded("promote", x)'
    BY <1>1, <1>4, <1>5, <1>8, <2>1 DEF Change, Unneeded
  <2> QED BY <1>1, <1>2, <1>3, <1>6, <1>7, <1>8, <2>1, <2>2, SnapshotSave
<1> QED BY <1>2, <1>5, <1>8

LEMMA MakeDiskStep ==
  ASSUME NEW p \in AllProcs, Here(p), MakeDisk(p)
  PROVE  After(p)
<1> DEFINE j == job[p]
           s == j.snap
<1>1. pc[p] = "disk" /\ UNCHANGED <<registry, count, recorded, missed>> /\ lock' = lock
  BY DEF MakeDisk, overlay
<1>2. j.cmd = "create" /\ j \in Job /\ s \in Snaps
  BY <1>1, Target DEF Here, Routed, AllCommands, SnapshotCommands, DelPCs, AddPCs
<1>3. registry[s] = None /\ j.reg = registry /\ registry \in Registry
  BY <1>1 DEF Here, Mine, Knows, Stores
<1>4. PICK mode \in {"internal", "external"} :
        /\ disks' = IF mode = "external" THEN disks \cup {s} ELSE disks
        /\ Load(p, [j.reg EXCEPT ![s] = [mode |-> mode, ref |-> 0]], "same", "done")
        /\ UNCHANGED <<registry, count, missed, overlay, timers, lock, faults>>
  BY DEF MakeDisk
<1> DEFINE e == [mode |-> mode, ref |-> 0]
           r == [registry EXCEPT ![s] = e]
<1>5. Stores'
  BY <1>2, <1>4 DEF Here, Stores, overlay
<1>6. e \in SnapshotEntry /\ e # None /\ e.mode = mode /\ e.ref = 0
  BY NoneAssumption DEF SnapshotEntry
<1> HIDE DEF e
<1>7. r \in Registry /\ r[s] = e /\ \A t \in Snaps \ {s} : r[t] = registry[t]
  BY <1>2, <1>3, <1>6, SetEntry
<1>8. Load(p, r, "same", "done")
  BY <1>3, <1>4 DEF e
<1> HIDE DEF r
<1>9. "same" \in Deltas /\ j.cmd \in SnapshotCommands
  BY <1>2 DEF Deltas, SnapshotCommands
<1>10. disks \subseteq disks' /\ (mode = "external" => s \in disks')
  BY <1>4
<1>11. Common'
  BY <1>1, <1>10, CommonMore DEF Here
<1>12. ASSUME NEW x \in Snaps, NEW y \in Registry, x = s, y = r
       PROVE  After(p)
  <2>1. Change("create", x, y, "same")' /\ Unneeded("create", x)'
    BY <1>1, <1>3, <1>6, <1>7, <1>10, <1>12 DEF Change, Unneeded
  <2> QED BY <1>1, <1>2, <1>5, <1>8, <1>9, <1>10, <1>11, <1>12, <2>1, SnapshotSave
<1> QED BY <1>2, <1>7, <1>12

LEMMA RemoveDiskStep ==
  ASSUME NEW p \in AllProcs, Here(p), RemoveDisk(p)
  PROVE  After(p)
<1> DEFINE j == job[p]
           s == j.snap
           r == [registry EXCEPT ![s] = None]
<1>1. /\ pc[p] = "remove" /\ UNCHANGED <<registry, count, recorded>> /\ lock' = lock
      /\ disks' = disks \ {s}
  BY DEF RemoveDisk, overlay
<1>2. j.cmd \in {"delete", "force"} /\ j \in Job /\ s \in Snaps
  BY <1>1, Target DEF Here, Routed, AllCommands, SnapshotCommands, DelPCs, AddPCs
<1>3. registry[s] # None /\ j.reg = registry /\ registry \in Registry
  BY <1>1 DEF Here, Mine, Knows, Stores
<1>4. missed' = IF registry[s].ref > 0 THEN missed \cup {d \in Deploys : From[d] = s} ELSE missed
  BY <1>3 DEF RemoveDisk
<1>5. Stores' /\ missed \subseteq missed'
  BY <1>2, <1>4 DEF RemoveDisk, Here, Stores, overlay
<1>6. r \in Registry /\ r[s] = None /\ \A t \in Snaps \ {s} : r[t] = registry[t]
  BY <1>2, <1>3, SetEntry
<1>7. Load(p, r, "none", "done")
  BY <1>3 DEF RemoveDisk
<1> HIDE DEF r
<1>8. "none" \in Deltas /\ j.cmd \in SnapshotCommands
  BY <1>2 DEF Deltas, SnapshotCommands
<1>9. \A t \in Snaps : IsFiniteSet(Records(t)) /\ Sound(t) /\ Need(t) \in Nat /\ count[t] \in Nat
  BY NeedNat DEF Here, Common, Stores
<1>10. ASSUME NEW t \in Snaps, t = s, Found(t)' PROVE Need(t) = 0
  <2>1. CASE registry[s].ref > 0
    <3>1. \A d \in Deploys \cap Marked : From[d] # t
      BY <1>4, <1>10, <2>1 DEF Found
    <3>2. Records(t) = {}
      BY <3>1 DEF Records, Here, Stores
    <3> QED BY <3>2, NoNeed
  <2>2. CASE ~(registry[s].ref > 0)
    <3>1. registry[s].ref = 0
      BY <1>2, <1>3, <2>2, EntryFields
    <3>2. count[t] = 0
      BY <1>3, <1>10, <3>1 DEF Here, Common, Counted
    <3>3. Need(t) <= count[t]
      BY <1>5, <1>9, <1>10, FoundLess DEF Sound
    <3> QED BY <1>9, <3>2, <3>3
  <2> QED BY <2>1, <2>2
<1>11. ASSUME NEW t \in Snaps PROVE IsFiniteSet(Records(t)') /\ Sound(t)'
  <2>1. Records(t)' = Records(t) /\ Need(t)' = Need(t)
    BY <1>1, NeedSame DEF Records
  <2>2. Found(t)' => Need(t) <= count[t]
    BY <1>5, <1>9, FoundLess DEF Sound
  <2>3. CASE t = s
    BY <1>1, <1>9, <1>10, <2>1, <2>2, <2>3 DEF Sound
  <2>4. CASE t # s
    BY <1>1, <1>5, <1>9, <2>1, <2>2, <2>4, FoundLess DEF Sound
  <2> QED BY <2>3, <2>4, <1>9, <2>1
<1>12. Common'
  BY <1>1, <1>11 DEF Here, Common, Counted
<1>13. ASSUME NEW t \in Snaps, t = s, Found(t)' PROVE Need(t)' = 0
  BY <1>1, <1>10, <1>13, NeedSame
<1>14. ASSUME NEW x \in Snaps, NEW y \in Registry, NEW c \in {"delete", "force"},
              x = s, y = r, c = j.cmd
       PROVE  After(p)
  <2>1. Change(c, x, y, "none")' /\ Unneeded(c, x)'
    BY <1>1, <1>6, <1>13, <1>14 DEF Change, Unneeded
  <2> QED BY <1>1, <1>2, <1>5, <1>7, <1>8, <1>12, <1>14, <2>1, SnapshotSave
<1> QED BY <1>2, <1>6, <1>14

LEMMA RecordDeployStep ==
  ASSUME NEW p \in AllProcs, Here(p), RecordDeploy(p)
  PROVE  After(p)
<1> DEFINE j == job[p]
           d == j.dep
<1>1. /\ pc[p] = "record" /\ recorded' = recorded \cup {d} /\ Finish(p)
      /\ registry' = registry /\ disks' = disks /\ count' = count /\ missed' = missed
  BY DEF RecordDeploy, snapshots
<1>2. j.cmd = "add" /\ j \in Job /\ d \in Deploys /\ j.snap \in Snaps /\ j.snap = From[d]
  BY <1>1, IsAdd, AddDel DEF AfterRef
<1>3. Stores'
  BY <1>1, <1>2 DEF RecordDeploy, snapshots, Here, Stores
<1>4. Moved(p, "done", Idle) /\ lock' \in AllProcs \cup {None}
  BY <1>1, FinishMoved DEF Here, Sessions
<1>5. Routed(p)' /\ Knows(p)' /\ ~Owing(p)'
  BY <1>4, Ended
<1>6. registry[j.snap] # None \/ d \in missed
  BY <1>1 DEF Here, Mine, Knows, AfterRef
<1>7. ASSUME d \in Marked, Found(j.snap)
      PROVE  /\ Need(j.snap) + 1 <= count[j.snap]
             /\ registry[j.snap].mode = "external" => j.snap \in disks
  <2>1. registry[j.snap] # None
    BY <1>2, <1>6, <1>7 DEF Found
  <2>2. Need(j.snap) + 1 <= count[j.snap]
    BY <1>1, <1>2, <1>7, <2>1 DEF Here, Mine, Covered, Owing, AfterRef
  <2> QED BY <1>1, <1>2, <2>1, <2>2 DEF Here, Mine, Backed
<1>8. ASSUME NEW t \in Snaps PROVE IsFiniteSet(Records(t)') /\ Sound(t)'
  <2>1. count'[t] = count[t] /\ IsFiniteSet(Records(t)) /\ Sound(t) /\ count[t] \in Nat
        /\ Found(t)' = Found(t)
    BY <1>1, FoundSame DEF Here, Common, Stores
  <2>2. CASE t = From[d] /\ d \in Marked
    <3>1. Records(t)' \subseteq Records(t) \cup {d}
      BY <1>1 DEF Records
    <3>2. IsFiniteSet(Records(t)') /\ Need(t)' \in Nat /\ Need(t) \in Nat /\ Need(t)' <= Need(t) + 1
      BY <2>1, <3>1, NeedGrows
    <3>3. Found(t) => Need(t) + 1 <= count[t] /\ (registry[t].mode = "external" => t \in disks)
      BY <1>2, <1>7, <2>2
    <3> QED BY <1>1, <2>1, <3>2, <3>3 DEF Sound
  <2>3. CASE ~(t = From[d] /\ d \in Marked)
    <3>1. Records(t)' \subseteq Records(t)
      BY <1>1, <2>3 DEF Records
    <3>2. IsFiniteSet(Records(t)') /\ Need(t)' \in Nat /\ Need(t) \in Nat /\ Need(t)' <= Need(t)
      BY <2>1, <3>1, NeedLess
    <3> QED BY <1>1, <2>1, <3>2 DEF Sound
  <2> QED BY <2>2, <2>3
<1>9. Counted' /\ Backed(p)'
  BY <1>1 DEF Here, Common, Counted, Mine, Backed
<1> QED BY <1>3, <1>4, <1>5, <1>8, <1>9, IdleJob DEF After, Mine, Covered, Common, Moved, Sessions

LEMMA ReadRecordStep ==
  ASSUME NEW p \in AllProcs, Here(p), ReadRecord(p)
  PROVE  After(p)
<1> DEFINE j == job[p]
           d == j.dep
<1>1. /\ pc[p] = "read" /\ registry' = registry /\ disks' = disks /\ count' = count /\ missed' = missed
      /\ UNCHANGED <<snapshots, runtime, timers, faults>>
  BY DEF ReadRecord, snapshots
<1>2. j.cmd = "del" /\ j \in Job /\ d \in Deploys /\ j.snap \in Snaps /\ j.snap = From[d] /\ lock = p
  BY <1>1, IsDel, AddDel
<1>3. CASE Finish(p) /\ recorded' = recorded
  <2>1. Stores'
    BY <1>1, <1>3 DEF Here, Stores, snapshots
  <2> QED BY <1>1, <1>3, <2>1, EndQuiet
<1>4. CASE d \in recorded /\ recorded' = recorded \ {d} /\ Go(p, "post", j) /\ lock' = lock
  <2>1. Stores'
    BY <1>1, <1>4 DEF Here, Stores, snapshots
  <2>2. Moved(p, "post", j)
    BY <1>2, <1>4, GoMoved DEF Here, PCs
  <2>3. Routed(p)' /\ Knows(p)'
    BY <1>1, <1>2, <1>4, <2>2 DEF Here, Moved, Routed, Active, DelPCs, Knows, AfterRef
  <2>4. ASSUME NEW t \in Snaps
        PROVE  /\ IsFiniteSet(Records(t)') /\ Sound(t)'
               /\ t = From[d] /\ d \in Marked /\ Found(t)' => Need(t)' + 1 <= count'[t]
    <3>1. Records(t)' \subseteq Records(t) /\ count'[t] = count[t]
          /\ IsFiniteSet(Records(t)) /\ Sound(t) /\ count[t] \in Nat /\ Found(t)' = Found(t)
      BY <1>1, <1>4, FoundSame DEF Records, Here, Common, Stores
    <3>2. IsFiniteSet(Records(t)') /\ Need(t)' \in Nat /\ Need(t) \in Nat /\ Need(t)' <= Need(t)
      BY <3>1, NeedLess
    <3>3. Sound(t)'
      BY <1>1, <3>1, <3>2 DEF Sound
    <3>4. ASSUME t = From[d], d \in Marked, Found(t)' PROVE Need(t)' + 1 <= count'[t]
      <4>1. d \in Records(t) /\ Records(t)' \subseteq Records(t) \ {d}
        BY <1>4, <3>4 DEF Records
      <4>2. Need(t)' + 1 <= Need(t)
        BY <3>1, <4>1, NeedFalls
      <4> QED BY <3>1, <3>2, <3>4, <4>2 DEF Sound
    <3> QED BY <3>2, <3>3, <3>4
  <2>5. Covered(p)'
    <3> SUFFICES ASSUME Owing(p)', Found(job[p].snap)' PROVE (Need(job[p].snap) + 1 <= count[job[p].snap])'
      BY DEF Covered
    <3>1. d \in Marked
      BY <1>2, <2>2 DEF Owing, Moved, AfterRef
    <3>2. job'[p].snap = From[d] /\ From[d] \in Snaps
      BY <1>2, <2>2 DEF Moved
    <3>3. \A t \in Snaps : t = From[d] /\ Found(t)' => Need(t)' + 1 <= count'[t]
      BY <2>4, <3>1
    <3> QED BY <3>2, <3>3
  <2>6. Counted' /\ Backed(p)'
    BY <1>1, <2>2, <1>2 DEF Here, Common, Counted, Mine, Backed, Moved
  <2> QED BY <1>2, <1>4, <2>1, <2>2, <2>3, <2>4, <2>5, <2>6
             DEF After, Mine, Common, Moved, Here, Sessions
<1> QED BY <1>3, <1>4 DEF ReadRecord

LEMMA KillStep ==
  ASSUME NEW p \in AllProcs, Here(p), Kill(p)
  PROVE  After(p)
<1>1. /\ job[p].cmd = "add" /\ Finish(p) /\ recorded' = recorded
      /\ registry' = registry /\ disks' = disks /\ count' = count /\ missed' = missed
  BY DEF Kill, snapshots, overlay
<1>2. Stores'
  BY EphemeralAssumption DEF Kill, Here, Stores, snapshots, overlay
<1>3. Moved(p, "done", Idle) /\ lock' \in AllProcs \cup {None}
  BY <1>1, FinishMoved DEF Here, Sessions
<1>4. Routed(p)' /\ Knows(p)' /\ ~Owing(p)'
  BY <1>3, Ended
<1>5. Common'
  BY <1>1, CommonSame DEF Here
<1>6. Backed(p)'
  BY <1>1 DEF Here, Mine, Backed
<1> QED BY <1>2, <1>3, <1>4, <1>5, <1>6, IdleJob DEF After, Mine, Covered, Moved, Sessions

\* The registry and the count change together.
LEMMA SaveRegistryStep ==
  ASSUME NEW p \in AllProcs, Here(p), SaveRegistry(p)
  PROVE  After(p)
<1> DEFINE j == job[p]
           s == j.snap
           e == registry[s]
           k == Loaded(j, None, "same", "done")
<1>1. /\ pc[p] = "save" /\ registry' = j.reg /\ disks' = disks /\ recorded' = recorded /\ missed' = missed
      /\ UNCHANGED <<overlay, timers, faults>>
      /\ count' = [count EXCEPT ![s] = CASE j.delta = "up" -> @ + 1 [] j.delta = "down" -> @ - 1
                                         [] j.delta = "none" -> 0 [] OTHER -> @]
  BY DEF SaveRegistry, overlay
<1>2. /\ j \in Job /\ s \in Snaps /\ j.cmd \in {"add", "del"} \cup SnapshotCommands
      /\ j.cmd \in {"add", "del"} => j.dep \in Deploys /\ s = From[j.dep]
      /\ j.cmd = "add" => p \in Procs
      /\ j.cmd = "del" => lock = p
  BY <1>1, Target DEF Here, Routed, AllCommands, SnapshotCommands
<1>3. Saves(p)
  BY <1>1 DEF Here, Mine, Knows
<1>4. registry \in Registry /\ j.reg \in Registry /\ \A t \in Snaps \ {s} : registry'[t] = registry[t]
  BY <1>1, <1>3 DEF Here, Stores, Saves, Change
<1>5. count \in [Snaps -> Nat] /\ count[s] = (IF e = None THEN 0 ELSE e.ref)
      /\ (e # None => e.ref \in Nat)
  BY <1>2, <1>4, EntryFields DEF Here, Stores, Common, Counted
<1>6. /\ \A t \in Snaps \ {s} : count'[t] = count[t]
      /\ j.delta = "up" => count'[s] = count[s] + 1
      /\ j.delta = "down" => count'[s] = count[s] - 1
      /\ j.delta = "none" => count'[s] = 0
      /\ j.delta = "same" => count'[s] = count[s]
  <2> HIDE DEF j, s, e, k
  <2> QED BY <1>1, <1>2, <1>5
<1>7. \/ /\ j.cmd = "add" /\ j.delta = "up" /\ e # None /\ registry'[s] # None
         /\ registry'[s].ref = e.ref + 1 /\ j.then = "persist"
      \/ /\ j.cmd = "del" /\ j.delta = "down" /\ e # None /\ registry'[s] # None
         /\ e.ref > 0 /\ registry'[s].ref = e.ref - 1 /\ j.then = "clear"
      \/ /\ j.cmd = "del" /\ j.delta = "same" /\ e # None /\ registry'[s] # None
         /\ registry'[s].ref = e.ref /\ j.then = "clear"
      \/ /\ j.cmd \in {"create", "promote"} /\ j.delta = "same" /\ registry'[s] # None
         /\ registry'[s].ref = (IF e = None THEN 0 ELSE e.ref) /\ j.then = "done"
      \/ /\ j.cmd \in {"delete", "force"} /\ j.delta = "none" /\ registry'[s] = None /\ j.then = "done"
  <2>1. Change(j.cmd, s, registry', j.delta) /\ j.then = Then(j.cmd)
    BY <1>1, <1>3 DEF Saves
  <2> HIDE DEF j, s, e
  <2>2. CASE j.cmd \in {"create", "promote"}
    BY <2>1, <2>2 DEF Change, Then, e
  <2>3. CASE j.cmd \in {"delete", "force"}
    BY <2>1, <2>3 DEF Change, Then
  <2>4. CASE j.cmd = "add"
    BY <2>1, <2>4 DEF Change, Then, e
  <2>5. CASE j.cmd = "del"
    BY <2>1, <2>5 DEF Change, Then, e
  <2> QED BY <1>2, <2>2, <2>3, <2>4, <2>5 DEF SnapshotCommands
<1>8. /\ registry'[s] = None => count'[s] = 0
      /\ registry'[s] # None => count'[s] = registry'[s].ref
      /\ count'[s] \in Nat
  <2> HIDE DEF j, s, e, k
  <2> QED BY <1>5, <1>6, <1>7
<1>9. Counted'
  BY <1>4, <1>6, <1>8 DEF Here, Common, Counted
<1>10. count' \in [Snaps -> Nat]
  BY <1>1, <1>5, <1>6, <1>8
<1>11. Stores'
  BY <1>1, <1>4, <1>10 DEF Here, Stores, overlay
<1>12. ASSUME NEW t \in Snaps
       PROVE  /\ IsFiniteSet(Records(t)') /\ Need(t)' = Need(t) /\ Need(t) \in Nat /\ count[t] \in Nat
              /\ Found(t)' = Found(t) /\ Sound(t)
  BY <1>1, NeedSame, FoundSame, NeedNat DEF Here, Common, Stores
<1>13. registry'[s] # None /\ registry'[s].mode = "external" => s \in disks'
  <2>1. CASE j.cmd \in {"create", "promote"}
    BY <1>1, <1>3, <2>1 DEF Saves, Change
  <2>2. CASE j.cmd \in {"add", "del"}
    BY <1>1, <1>2, <1>3, <2>2 DEF Saves, Change, Here, Mine, Backed
  <2> QED BY <1>7, <2>1, <2>2
<1>14. Backed(p)'
  <2> SUFFICES ASSUME NEW t \in Snaps, registry'[t] # None, registry'[t].mode = "external"
               PROVE  t \in disks'
    BY DEF Backed
  <2>1. CASE t # s
    BY <1>1, <1>4, <2>1 DEF Here, Mine, Backed
  <2> QED BY <1>13, <2>1
<1>15. ASSUME NEW t \in Snaps, Found(t) PROVE Need(t) <= count'[t]
  <2>0. Need(t) <= count[t] /\ Need(t) \in Nat /\ count[t] \in Nat
    BY <1>12, <1>15 DEF Sound
  <2>1. CASE t # s
    BY <1>6, <2>0, <2>1
  <2>2. CASE t = s /\ j.delta \in {"up", "same"}
    BY <1>6, <2>0, <2>2
  <2>3. CASE t = s /\ j.delta = "none"
    <3>1. j.cmd \in {"delete", "force"} /\ Found(s)
      BY <1>7, <1>15, <2>3
    <3>2. Need(s) = 0
      BY <1>3, <3>1 DEF Saves, Unneeded
    <3> HIDE DEF s
    <3> QED BY <1>6, <2>0, <2>3, <3>2
  <2>4. CASE t = s /\ j.delta = "down"
    <3>1. Owing(p)
      BY <1>1, <1>7, <2>4 DEF Owing, Here, Mine, Knows
    <3>2. Need(t) + 1 <= count[t]
      BY <1>15, <2>4, <3>1 DEF Here, Mine, Covered
    <3> QED BY <1>6, <2>0, <2>4, <3>2
  <2> QED BY <1>7, <2>1, <2>2, <2>3, <2>4
<1>16. ASSUME NEW t \in Snaps PROVE IsFiniteSet(Records(t)') /\ Sound(t)'
  <2>1. Found(t)' => Need(t)' <= count'[t]
    BY <1>12, <1>15
  <2>2. registry'[t] # None /\ registry'[t].mode = "external" /\ Need(t)' # 0 /\ Found(t)' => t \in disks'
    BY <1>1, <1>4, <1>12, <1>13 DEF Sound
  <2> QED BY <1>12, <2>1, <2>2 DEF Sound
<1>17. Common'
  BY <1>9, <1>16 DEF Common
<1>18. CASE j.then = "done"
  <2>1. Moved(p, "done", Idle) /\ lock' \in AllProcs \cup {None}
    BY <1>18, FinishMoved DEF SaveRegistry, Here, Sessions
  <2>2. Routed(p)' /\ Knows(p)' /\ ~Owing(p)'
    BY <2>1, Ended
  <2> QED BY <1>11, <1>14, <1>17, <2>1, <2>2, IdleJob DEF After, Mine, Covered, Moved, Sessions
<1>19. CASE j.then # "done"
  <2>1. /\ \/ j.cmd = "add" /\ j.then = "persist" /\ j.delta = "up"
           \/ j.cmd = "del" /\ j.then = "clear"
        /\ e # None /\ registry'[s] # None
    <3> HIDE DEF j, s, e
    <3> QED BY <1>7, <1>19
  <2>2. k \in Job /\ k.cmd = j.cmd /\ k.dep = j.dep /\ k.snap = s /\ k.delta = "same"
    BY <1>2, ClearLoad
  <2>3. Go(p, j.then, k) /\ lock' = lock
    BY <1>19 DEF SaveRegistry, Loaded
  <2> HIDE DEF k
  <2>4. j.then \in PCs
    BY <1>2, JobFields
  <2>5. Moved(p, j.then, k)
    BY <2>2, <2>3, <2>4, GoMoved DEF Here
  <2>6. pc'[p] = j.then /\ job'[p].cmd = j.cmd /\ job'[p].dep = j.dep /\ job'[p].snap = s
    BY <2>2, <2>5 DEF Moved
  <2>7. Routed(p)'
    BY <1>2, <2>1, <2>3, <2>6 DEF Routed, Active, AddPCs, DelPCs, AllCommands, SnapshotCommands
  <2>8. Knows(p)'
    <3>1. j.cmd = "del" => j.dep \in Marked
      BY <1>1 DEF Here, Mine, Knows
    <3> HIDE DEF j, s, e
    <3> QED BY <2>1, <2>6, <3>1 DEF Knows, AfterRef
  <2>9. Covered(p)'
    <3> SUFFICES ASSUME Owing(p)', Found(job[p].snap)' PROVE (Need(job[p].snap) + 1 <= count[job[p].snap])'
      BY DEF Covered
    <3>1. j.delta = "up"
      BY <2>1, <2>6 DEF Owing
    <3>2. \A t \in Snaps : t = s /\ Found(t)' => Need(t)' + 1 <= count'[t]
      BY <1>6, <1>12, <3>1 DEF Sound
    <3> QED BY <1>2, <2>6, <3>2
  <2> QED BY <1>11, <1>14, <1>17, <2>2, <2>3, <2>5, <2>7, <2>8, <2>9
             DEF After, Mine, Moved, Here, Sessions
<1> QED BY <1>18, <1>19

-----------------------------------------------------------------------------
(* Steps, with nobody else at work.                                        *)

LEMMA StepAfter ==
  ASSUME NEW p \in AllProcs, Here(p), Step(p) \/ Kill(p)
  PROVE  After(p)
BY SaveRegistryStep, LookStep, MakeDiskStep, PromoteStep, RemoveDiskStep, ArmTimerStep,
   RegisterRefStep, PersistStep, VenueStep, BootStep, SaveStateStep, WalkStep, RecordDeployStep,
   LedgerLockStep, ReadRecordStep, PostTeardownStep, CancelTimerStep, DropRefStep,
   ClearRuntimeStep, ForgetEntryStep, KillStep DEF Step

\* Only an active process takes a step, and one that waits for the flock takes it when it is free.
LEMMA StepActive ==
  ASSUME NEW p \in AllProcs, Step(p)
  PROVE  Active(p) /\ (pc[p] = "lock" => lock = None)
<1> DEFINE Goal == pc[p] \notin {"new", "done"} /\ (pc[p] = "lock" => lock = None)
<1>1. ASSUME SaveRegistry(p) \/ Look(p) \/ MakeDisk(p) \/ Promote(p) \/ RemoveDisk(p) PROVE Goal
  BY <1>1 DEF SaveRegistry, Look, MakeDisk, Promote, RemoveDisk
<1>2. ASSUME ArmTimer(p) \/ RegisterRef(p) \/ Persist(p) \/ Venue(p)
      PROVE  Goal
  BY <1>2 DEF ArmTimer, RegisterRef, Persist, Venue
<1>3. ASSUME Boot(p) \/ SaveState(p) \/ Walk(p) \/ RecordDeploy(p) PROVE Goal
  BY <1>3 DEF Boot, SaveState, Walk, RecordDeploy
<1>4. ASSUME LedgerLock(p) \/ ReadRecord(p) \/ PostTeardown(p) \/ CancelTimer(p) \/ DropRef(p)
      PROVE  Goal
  BY <1>4 DEF LedgerLock, ReadRecord, PostTeardown, CancelTimer, DropRef
<1>5. ASSUME ClearRuntime(p) \/ ForgetEntry(p) PROVE Goal
  BY <1>5 DEF ClearRuntime, ForgetEntry
<1> HIDE DEF Goal
<1>6. Goal
  BY <1>1, <1>2, <1>3, <1>4, <1>5 DEF Step
<1> QED BY <1>6 DEF Goal, Active

\* The flock and the rule for the other commands leave one process at work.
LEMMA StepAlone ==
  ASSUME Inv, NEW p \in AllProcs, Step(p) \/ Kill(p)
  PROVE  Here(p) /\ \A q \in AllProcs \ {p} : ~Working(q)
<1>1. Active(p) /\ (job[p].cmd = "del" /\ pc[p] = "lock" => lock = None)
  BY StepActive DEF Kill
<1>2. ASSUME NEW q \in AllProcs \ {p}, Working(q) PROVE FALSE
  <2>1. job[p].cmd = "del" /\ job[q].cmd = "del"
    BY <1>1, <1>2 DEF Inv, Sole, Working
  <2>2. lock = q
    BY <1>2, <2>1 DEF Inv, Routed, Working
  <2>3. lock = p \/ lock = None
    BY <1>1, <2>1 DEF Inv, Routed
  <2> QED BY <2>2, <2>3, EphemeralAssumption
<1> QED BY <1>1, <1>2 DEF Here, Inv

\* A process that does not work has read nothing and owes nothing.
LEMMA AtRest ==
  ASSUME NEW q \in AllProcs, NEW p \in AllProcs, ~Working(q)', ~Working(p)', Backed(p)'
  PROVE  Mine(q)'
<1>1. pc'[q] \in {"new", "done", "lock"} /\ pc'[p] # "save"
  BY DEF Working, Active
<1>2. Knows(q)' /\ ~Owing(q)'
  BY <1>1 DEF Knows, Owing, AfterRef
<1>3. Backed(q)'
  BY <1>1 DEF Backed
<1> QED BY <1>2, <1>3 DEF Mine, Covered

LEMMA StepInv ==
  ASSUME Inv, NEW p \in AllProcs, Step(p) \/ Kill(p)
  PROVE  Inv'
<1>1. /\ Here(p) /\ After(p) /\ job[p].cmd \in AllCommands
      /\ \A q \in AllProcs \ {p} : ~Working(q) /\ pc'[q] = pc[q] /\ job'[q] = job[q]
  BY StepAlone, StepAfter DEF After, Here, Routed
<1>2. /\ (Stores /\ Sessions /\ Common /\ Routed(p) /\ Mine(p))'
      /\ job'[p].cmd \in {job[p].cmd, None}
  BY <1>1 DEF After
<1>3. \A q \in AllProcs \ {p} : ~Working(q)'
  BY <1>1 DEF Working, Active
<1>4. \A q \in AllProcs : Routed(q)'
  <2>1. ASSUME NEW q \in AllProcs \ {p} PROVE Routed(q)'
    <3>1. Routed(q) /\ pc'[q] = pc[q] /\ job'[q] = job[q] /\ pc[q] \in {"new", "done", "lock"}
      BY <1>1 DEF Inv, Working, Active
    <3> QED BY <3>1 DEF Routed, Active, DelPCs
  <2> QED BY <1>2, <2>1
<1>5. Sole'
  <2>1. Active(p)' => Active(p) /\ job'[p].cmd = job[p].cmd
    <3>1. Active(p)' => job'[p].cmd \in AllCommands
      BY <1>4 DEF Routed
    <3> QED BY <1>1, <1>2, <3>1, NoneAssumption DEF Here
  <2>2. \A q \in AllProcs \ {p} : Active(q)' => Active(q) /\ job'[q].cmd = job[q].cmd
    BY <1>1 DEF Active
  <2>3. \A q \in AllProcs : Active(q)' => Active(q) /\ job'[q].cmd = job[q].cmd
    BY <2>1, <2>2
  <2> QED BY <2>3 DEF Inv, Sole
<1>6. ASSUME NEW r \in AllProcs, \A q \in AllProcs \ {r} : ~Working(q)' PROVE Mine(r)'
  <2>1. CASE r = p
    BY <1>2, <2>1
  <2>2. CASE r # p
    BY <1>2, <1>3, <1>6, <2>2, AtRest DEF Mine
  <2> QED BY <2>1, <2>2
<1> QED BY <1>2, <1>4, <1>5, <1>6 DEF Inv

-----------------------------------------------------------------------------
(* The commands that start.                                                *)

\* What stays as it is says what it said.
LEMMA MineSame ==
  ASSUME NEW r \in AllProcs, Mine(r), UNCHANGED <<registry, disks, count, missed, recorded>>,
         pc'[r] = pc[r], job'[r] = job[r]
  PROVE  Mine(r)'
<1>1. Knows(r)'
  <2>1. ASSUME NEW s PROVE Found(s)' = Found(s) /\ Need(s)' = Need(s)
    BY NeedSame, FoundSame
  <2>2. Saves(r) => Saves(r)'
    <3>1. ASSUME NEW c, NEW s, NEW x, NEW d
          PROVE  Change(c, s, x, d)' = Change(c, s, x, d) /\ Unneeded(c, s)' = Unneeded(c, s)
      BY <2>1 DEF Change, Unneeded
    <3> QED BY <3>1 DEF Saves
  <2> QED BY <2>2 DEF Mine, Knows
<1>2. Backed(r)'
  BY DEF Mine, Backed
<1>3. Covered(r)'
  BY NeedSame, FoundSame DEF Mine, Covered, Owing
<1> QED BY <1>1, <1>2, <1>3 DEF Mine

LEMMA BeginInv ==
  ASSUME Inv, ~Overlapping, NEW p \in AllProcs, NEW c \in AllCommands, NEW d \in Deploys \cup {None},
         NEW s \in Snaps, c \notin SnapshotCommands => d \in Deploys /\ s = From[d],
         c = "add" => p \in Procs, Begin(p, c, d, s), Stores'
  PROVE  Inv'
<1> DEFINE k == Fresh(c, d, s)
<1>1. /\ UNCHANGED <<registry, disks, count, missed, recorded, lock>>
      /\ pc[p] = "new" /\ MayStart(c) /\ Go(p, FirstPC(c), k)
  BY DEF Begin, snapshots, overlay, Fresh
<1>2. k \in Job /\ k.cmd = c /\ k.dep = d /\ k.snap = s
  BY SetCommand
<1> HIDE DEF k
<1>3. /\ c = "add" => FirstPC(c) = "timer"
      /\ c = "del" => FirstPC(c) = "lock"
      /\ c = "destroy" => FirstPC(c) = "forget"
      /\ c \in SnapshotCommands => FirstPC(c) = "look"
      /\ FirstPC(c) \in {"timer", "lock", "forget", "look"}
  BY DEF FirstPC, AllCommands, SnapshotCommands
<1>4. FirstPC(c) \in PCs
  BY <1>3 DEF PCs
<1>5. Moved(p, FirstPC(c), k)
  BY <1>1, <1>2, <1>4, GoMoved DEF Inv
<1>6. Sessions'
  BY <1>1, <1>5 DEF Inv, Sessions, Moved
<1>7. Common'
  BY <1>1, CommonSame DEF Inv
<1>8. \A q \in AllProcs : Routed(q)'
  <2>1. Routed(p)'
    BY <1>2, <1>3, <1>5, NoneAssumption
       DEF Moved, Routed, Active, AddPCs, DelPCs, AllCommands, SnapshotCommands
  <2>2. \A q \in AllProcs \ {p} : Routed(q)'
    BY <1>1, <1>5 DEF Inv, Moved, Routed, Active
  <2> QED BY <2>1, <2>2
<1>9. Sole'
  <2>1. \A q \in AllProcs \ {p} : Active(q)' => c = "del" /\ job'[q].cmd = "del"
    BY <1>1, <1>5 DEF MayStart, Moved, Active
  <2>2. job'[p].cmd = c
    BY <1>2, <1>5 DEF Moved
  <2>3. \A q, r \in AllProcs \ {p} : q # r /\ Active(q)' /\ Active(r)' => job'[q].cmd = "del"
    BY <2>1
  <2> QED BY <2>1, <2>2 DEF Sole
<1>10. ASSUME NEW r \in AllProcs, \A q \in AllProcs \ {r} : ~Working(q)' PROVE Mine(r)'
  <2>1. \A q \in AllProcs \ {r} : ~Working(q)
    BY <1>1, <1>5, <1>10 DEF Moved, Working, Active
  <2>2. Mine(r)
    BY <2>1 DEF Inv
  <2>3. CASE r # p
    BY <1>1, <1>5, <2>2, <2>3, MineSame DEF Moved
  <2>4. CASE r = p
    <3>1. Knows(p)' /\ ~Owing(p)'
      BY <1>2, <1>3, <1>5 DEF Moved, Knows, Owing, AfterRef
    <3>2. Backed(p)'
      BY <1>1, <2>2, <2>4 DEF Mine, Backed
    <3> QED BY <2>4, <3>1, <3>2 DEF Mine, Covered
  <2> QED BY <2>3, <2>4
<1> QED BY <1>6, <1>7, <1>8, <1>9, <1>10 DEF Inv

LEMMA StartInv ==
  ASSUME Inv, ~Overlapping, NEW p \in Procs, Start(p)
  PROVE  Inv'
<1>1. p \in AllProcs /\ None \in Deploys \cup {None}
  BY DEF AllProcs
<1>2. ASSUME NEW c \in AllCommands, NEW d \in Deploys \cup {None}, NEW s \in Snaps, Begin(p, c, d, s)
      PROVE  Stores'
  BY <1>2 DEF Inv, Stores, snapshots, overlay, Start, Begin
<1>3. ASSUME NEW c \in Commands \ SnapshotCommands, NEW d \in Deploys, Begin(p, c, d, From[d]) PROVE Inv'
  <2>1. c \in AllCommands /\ From[d] \in Snaps
    BY EphemeralAssumption
  <2> QED BY <1>1, <1>2, <1>3, <2>1, BeginInv
<1>4. ASSUME NEW c \in Commands \cap SnapshotCommands, NEW s \in Snaps, Begin(p, c, None, s) PROVE Inv'
  <2>1. c \in AllCommands /\ c # "add"
    BY EphemeralAssumption DEF SnapshotCommands
  <2> QED BY <1>1, <1>2, <1>4, <2>1, BeginInv
<1> QED BY <1>3, <1>4, ZenonT(30) DEF Start

LEMMA FireInv ==
  ASSUME Inv, ~Overlapping, NEW u \in Procs, Fire(u)
  PROVE  Inv'
<1>1. /\ timers[u] # None /\ timers' = [timers EXCEPT ![u] = None]
      /\ Begin(AgentOf[u], "del", timers[u], From[timers[u]])
  BY DEF Fire
<1>2. timers[u] \in Deploys /\ timers \in [Procs -> Deploys \cup {None}]
  BY <1>1 DEF Inv, Stores
<1>3. Stores'
  BY <1>1, <1>2 DEF Begin, Inv, Stores, snapshots, overlay
<1>4. /\ "del" \in AllCommands /\ "del" # "add" /\ AgentOf[u] \in AllProcs
      /\ From[timers[u]] \in Snaps
  BY <1>2, EphemeralAssumption DEF AllCommands, AllProcs
<1> QED BY <1>1, <1>2, <1>3, <1>4, BeginInv

LEMMA InitInv == Init => Inv
<1> SUFFICES ASSUME Init PROVE Inv
  OBVIOUS
<1>1. registry \in Registry /\ \A s \in Snaps : registry[s] # None => registry[s].ref = 0
  BY DEF Init, Registry, SnapshotEntry
<1>2. Stores
  BY <1>1, EphemeralAssumption DEF Init, Stores
<1>3. Sessions
  BY IdleJob DEF Init, Sessions, PCs
<1>4. \A p \in AllProcs : ~Active(p) /\ ~Working(p) /\ pc[p] = "new" /\ job[p].cmd = None
  BY IdleJob DEF Init, Active, Working
<1>5. Common
  <2>1. ASSUME NEW s \in Snaps PROVE IsFiniteSet(Records(s)) /\ Need(s) = 0
    <3>1. Records(s) = {}
      BY DEF Init, Records
    <3> QED BY <3>1, NoNeed
  <2>2. ASSUME NEW s \in Snaps PROVE count[s] = 0
    BY DEF Init
  <2> QED BY <1>1, <2>1, <2>2 DEF Common, Counted, Sound
<1>6. \A p \in AllProcs : Routed(p)
  BY <1>4, NoneAssumption DEF Routed, AllCommands, SnapshotCommands
<1>7. \A p \in AllProcs : Mine(p)
  BY <1>4 DEF Init, Mine, Knows, Backed, Covered, Owing, AfterRef
<1> QED BY <1>2, <1>3, <1>4, <1>5, <1>6, <1>7 DEF Inv, Sole

LEMMA StutterInv ==
  ASSUME Inv, UNCHANGED vars
  PROVE  Inv'
<1>1. UNCHANGED <<registry, disks, count, missed, runtime, recorded, timers, lock, pc, job, faults>>
  BY DEF vars
<1>2. Stores' /\ Sessions' /\ Sole'
  BY <1>1 DEF Inv, Stores, Sessions, Sole, Active
<1>3. Common'
  BY <1>1, CommonSame DEF Inv
<1>4. \A p \in AllProcs : Routed(p)' /\ (Working(p)' <=> Working(p))
  BY <1>1 DEF Inv, Routed, Working, Active
<1>5. \A p \in AllProcs : Mine(p) => Mine(p)'
  BY <1>1, MineSame
<1> QED BY <1>2, <1>3, <1>4, <1>5 DEF Inv

LEMMA NextInv ==
  ASSUME Inv, ~Overlapping, [Next]_vars
  PROVE  Inv'
<1>1. ASSUME NEW p \in Procs, Start(p) \/ Fire(p) \/ Kill(p) PROVE Inv'
  BY <1>1, StartInv, FireInv, StepInv DEF AllProcs
<1>2. ASSUME NEW p \in AllProcs, Step(p) PROVE Inv'
  BY <1>2, StepInv
<1> QED BY <1>1, <1>2, StutterInv DEF Next, AllDone

LEMMA Always ==
  ASSUME ~Overlapping
  PROVE  Spec => []Inv
<1>1. Inv /\ [Next]_vars => Inv'
  BY NextInv
<1> QED BY <1>1, InitInv, PTL DEF Spec

-----------------------------------------------------------------------------
(* The theorems.                                                           *)

\* Every variable keeps its type.
THEOREM TypeCorrect ==
  ASSUME ~Overlapping
  PROVE  Spec => []TypeOK
<1>1. Inv => TypeOK
  BY DEF Inv, Stores, Sessions, Registry, TypeOK
<1> QED BY <1>1, Always, PTL

\* DeleteSnapshot "refuses while refcount > 0", and that is enough: whatever is added, deleted,
\* destroyed, killed and left to its timer, a recorded deployment whose del gives its reference
\* back keeps the snapshot, and the disk of it, as long as every such deployment found it there.
THEOREM SnapshotsKept ==
  ASSUME ~Overlapping
  PROVE  Spec => []SnapshotKept
<1>1. Inv => SnapshotKept
  BY RecordedThere DEF Inv, SnapshotKept
<1> QED BY <1>1, Always, PTL

\* The flock of `bundle del` is enough for the registry, which has no lock of its own: whatever the
\* timers do at once, no reference taken or given back gets lost.
THEOREM CountsKept ==
  ASSUME ~Overlapping
  PROVE  Spec => []NoLostCount
<1>1. Inv => NoLostCount
  BY DEF Inv, Common, Counted, NoLostCount
<1> QED BY <1>1, Always, PTL
=============================================================================
