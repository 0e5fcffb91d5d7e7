----------------------------- MODULE BuildProofs -----------------------------
(***************************************************************************)
(* Proofs about Build, for any processes, boxes, dependencies and          *)
(* versions.  The locks and the staged directories are right whatever the  *)
(* order of the boxes is.  topoSort and topoLevels fail just if there is a *)
(* cycle; what they place, and what filterBox leaves of it, has every box  *)
(* behind what it is built from; and a build runs only when that is there. *)
(***************************************************************************)
EXTENDS Build, FiniteSetTheorems, WellFoundedInduction, NaturalsInduction, TLAPS

Fields == {"pc", "request", "todo", "queue", "waits", "builds", "cold", "failed"}

\* The local states of the builds are functions of these fields.
Shaped == /\ DOMAIN proc = Procs
          /\ \A p \in Procs : DOMAIN proc[p] = Fields /\ proc[p] = [f \in Fields |-> proc[p][f]]

\* A worker that builds a box has its lock, and only what it builds is built cold.
Owned == \A p \in Procs : /\ proc[p].cold \subseteq proc[p].builds
                          /\ \A b \in proc[p].builds : b \in Boxes /\ lock[b] = p

Locks == DOMAIN lock = Boxes

LockInv == Shaped /\ Locks /\ Owned

LEMMA IdleShape ==
  /\ DOMAIN Idle = Fields /\ Idle = [f \in Fields |-> Idle[f]]
  /\ Idle.builds = {} /\ Idle.cold = {} /\ Idle.queue = {} /\ Idle.waits = {} /\ Idle.pc = "start"
BY DEF Idle, Fields

LEMMA LockInit == Init => LockInv
<1> SUFFICES ASSUME Init PROVE LockInv
  OBVIOUS
<1>1. proc = [p \in Procs |-> Idle] /\ lock = [b \in Boxes |-> 0]
  BY DEF Init
<1> QED BY <1>1, IdleShape DEF LockInv, Shaped, Locks, Owned

LEMMA SetProc ==
  ASSUME Shaped, NEW p \in Procs, NEW rec, Set(p, rec),
         DOMAIN rec = Fields, rec = [f \in Fields |-> rec[f]]
  PROVE  Shaped' /\ proc'[p] = rec /\ \A q \in Procs \ {p} : proc'[q] = proc[q]
<1>1. DOMAIN proc' = Procs
  BY DEF Set, Shaped
<1>2. proc'[p] = rec /\ \A q \in Procs \ {p} : proc'[q] = proc[q]
  BY DEF Set, Shaped
<1>3. \A q \in Procs : DOMAIN proc'[q] = Fields /\ proc'[q] = [f \in Fields |-> proc'[q][f]]
  <2> TAKE q \in Procs
  <2>1. CASE q = p
    BY <1>2, <2>1
  <2>2. CASE q # p
    BY <1>2, <2>2 DEF Shaped
  <2> QED BY <2>1, <2>2
<1> QED BY <1>1, <1>2, <1>3 DEF Shaped

\* What a step of process p does to the fields that matter here; the state of the other
\* processes is unchanged.
Frame(p) == Shaped' /\ \A q \in Procs \ {p} : proc'[q] = proc[q]

LEMMA StartEffect ==
  ASSUME Shaped, NEW p \in Procs, Start(p)
  PROVE  /\ Frame(p)
         /\ proc[p].pc = "start" /\ proc'[p].pc = "exchange"
         /\ proc'[p].queue = proc[p].queue /\ proc'[p].waits = proc[p].waits
         /\ proc'[p].builds = proc[p].builds /\ proc'[p].cold = proc[p].cold
         /\ UNCHANGED <<staged, lock>>
<1>0. PICK request \in SUBSET Boxes : Set(p, [proc[p] EXCEPT !.pc = "exchange", !.request = request])
  BY DEF Start
<1> DEFINE rec == [proc[p] EXCEPT !.pc = "exchange", !.request = request]
<1>1. Set(p, rec)
  BY <1>0 DEF Start
<1>2. DOMAIN rec = Fields /\ rec = [f \in Fields |-> rec[f]]
  BY DEF Shaped, Fields
<1>3. Frame(p) /\ proc'[p] = rec
  <2> HIDE DEF rec
  <2> QED BY <1>1, <1>2, SetProc DEF Frame
<1> QED BY <1>3 DEF Shaped, Fields, Start

LEMMA ExchangeEffect ==
  ASSUME Shaped, NEW p \in Procs, Exchange(p)
  PROVE  /\ Frame(p)
         /\ proc[p].pc = "exchange"
         /\ (Ver[p] \in staged /\ proc'[p].pc = "order") \/ proc'[p].pc = "rename"
         /\ proc'[p].queue = proc[p].queue /\ proc'[p].waits = proc[p].waits
         /\ proc'[p].builds = proc[p].builds /\ proc'[p].cold = proc[p].cold
         /\ UNCHANGED <<staged, lock>>
<1> DEFINE rec == [proc[p] EXCEPT !.pc = IF Ver[p] \in staged THEN "order" ELSE "rename"]
<1>1. Set(p, rec)
  BY DEF Exchange
<1>2. DOMAIN rec = Fields /\ rec = [f \in Fields |-> rec[f]]
  BY DEF Shaped, Fields
<1>3. Frame(p) /\ proc'[p] = rec
  <2> HIDE DEF rec
  <2> QED BY <1>1, <1>2, SetProc DEF Frame
<1> QED BY <1>3 DEF Shaped, Fields, Exchange

LEMMA RenameEffect ==
  ASSUME Shaped, NEW p \in Procs, Rename(p)
  PROVE  /\ Frame(p)
         /\ proc[p].pc = "rename" /\ proc'[p].pc = "order"
         /\ proc'[p].queue = proc[p].queue /\ proc'[p].waits = proc[p].waits
         /\ proc'[p].builds = proc[p].builds /\ proc'[p].cold = proc[p].cold
         /\ staged' = staged \cup {Ver[p]} /\ lock' = lock
<1> DEFINE rec == [proc[p] EXCEPT !.pc = "order"]
<1>1. Set(p, rec)
  BY DEF Rename
<1>2. DOMAIN rec = Fields /\ rec = [f \in Fields |-> rec[f]]
  BY DEF Shaped, Fields
<1>3. Frame(p) /\ proc'[p] = rec
  <2> HIDE DEF rec
  <2> QED BY <1>1, <1>2, SetProc DEF Frame
<1> QED BY <1>3 DEF Shaped, Fields, Rename

LEMMA NextLevelEffect ==
  ASSUME Shaped, NEW p \in Procs, NextLevel(p)
  PROVE  /\ Frame(p)
         /\ proc[p].pc = "build" /\ proc'[p].pc = "build"
         /\ proc'[p].builds = proc[p].builds /\ proc'[p].cold = proc[p].cold
         /\ UNCHANGED <<staged, lock>>
<1> DEFINE rec == [proc[p] EXCEPT !.queue = Head(proc[p].todo), !.todo = Tail(@)]
<1>1. Set(p, rec)
  BY DEF NextLevel
<1>2. DOMAIN rec = Fields /\ rec = [f \in Fields |-> rec[f]]
  BY DEF Shaped, Fields
<1>3. Frame(p) /\ proc'[p] = rec
  <2> HIDE DEF rec
  <2> QED BY <1>1, <1>2, SetProc DEF Frame
<1> QED BY <1>3 DEF Shaped, Fields, NextLevel, Between

LEMMA TakeEffect ==
  ASSUME Shaped, NEW p \in Procs, NEW b \in Boxes, Take(p, b)
  PROVE  /\ Frame(p)
         /\ proc'[p].pc = proc[p].pc /\ proc[p].queue # {}
         /\ proc'[p].builds = proc[p].builds /\ proc'[p].cold = proc[p].cold
         /\ UNCHANGED <<staged, lock>>
<1> DEFINE rec == [proc[p] EXCEPT !.queue = @ \ {b}, !.waits = @ \cup {b}]
<1>1. Set(p, rec)
  BY DEF Take
<1>2. DOMAIN rec = Fields /\ rec = [f \in Fields |-> rec[f]]
  BY DEF Shaped, Fields
<1>3. Frame(p) /\ proc'[p] = rec
  <2> HIDE DEF rec
  <2> QED BY <1>1, <1>2, SetProc DEF Frame
<1> QED BY <1>3 DEF Shaped, Fields, Take

LEMMA FailsEffect ==
  ASSUME Shaped, NEW p \in Procs, Fails(p)
  PROVE  /\ Frame(p)
         /\ proc'[p].pc = "failed"
         /\ proc'[p].queue = {} /\ proc'[p].waits = {} /\ proc'[p].builds = {}
         /\ proc'[p].builds = proc[p].builds /\ proc'[p].cold = proc[p].cold
         /\ UNCHANGED <<staged, lock>>
<1> DEFINE rec == [proc[p] EXCEPT !.pc = "failed"]
<1>1. Set(p, rec)
  BY DEF Fails
<1>2. DOMAIN rec = Fields /\ rec = [f \in Fields |-> rec[f]]
  BY DEF Shaped, Fields
<1>3. Frame(p) /\ proc'[p] = rec
  <2> HIDE DEF rec
  <2> QED BY <1>1, <1>2, SetProc DEF Frame
<1> QED BY <1>3 DEF Shaped, Fields, Fails, Between

LEMMA FinishEffect ==
  ASSUME Shaped, NEW p \in Procs, Finish(p)
  PROVE  /\ Frame(p)
         /\ proc'[p].pc = "done"
         /\ proc'[p].queue = {} /\ proc'[p].waits = {} /\ proc'[p].builds = {}
         /\ proc'[p].builds = proc[p].builds /\ proc'[p].cold = proc[p].cold
         /\ staged' = (IF Keep > 0 THEN Newest(Keep) ELSE staged) /\ lock' = lock
<1> DEFINE rec == [proc[p] EXCEPT !.pc = "done"]
<1>1. Set(p, rec)
  BY DEF Finish
<1>2. DOMAIN rec = Fields /\ rec = [f \in Fields |-> rec[f]]
  BY DEF Shaped, Fields
<1>3. Frame(p) /\ proc'[p] = rec
  <2> HIDE DEF rec
  <2> QED BY <1>1, <1>2, SetProc DEF Frame
<1> QED BY <1>3 DEF Shaped, Fields, Finish, Between

LEMMA OrderEffect ==
  ASSUME Shaped, NEW p \in Procs, Order(p)
  PROVE  /\ Frame(p)
         /\ proc[p].pc = "order" /\ proc'[p].pc \in {"cycle", "build"}
         /\ proc'[p].queue = proc[p].queue /\ proc'[p].waits = proc[p].waits
         /\ proc'[p].builds = proc[p].builds /\ proc'[p].cold = proc[p].cold
         /\ UNCHANGED <<staged, lock>>
<1>1. PICK rec : /\ Set(p, rec)
                 /\ \/ rec = [proc[p] EXCEPT !.pc = "cycle"]
                    \/ rec = [proc[p] EXCEPT !.pc = "build", !.todo = Plan(proc[p].request)]
  BY DEF Order
<1>2. DOMAIN rec = Fields /\ rec = [f \in Fields |-> rec[f]]
  BY <1>1 DEF Shaped, Fields
<1>3. Frame(p) /\ proc'[p] = rec
  BY <1>1, <1>2, SetProc DEF Frame
<1>4. /\ rec.pc \in {"cycle", "build"} /\ rec.queue = proc[p].queue /\ rec.waits = proc[p].waits
      /\ rec.builds = proc[p].builds /\ rec.cold = proc[p].cold
  BY <1>1 DEF Shaped, Fields
<1> QED BY <1>3, <1>4 DEF Order

LEMMA BeginsEffect ==
  ASSUME Shaped, Locks, NEW p \in Procs, NEW b \in Boxes, BuildBegins(p, b)
  PROVE  /\ Frame(p) /\ Locks'
         /\ proc'[p].pc = proc[p].pc /\ proc[p].waits # {}
         /\ proc'[p].builds = proc[p].builds \cup {b}
         /\ proc'[p].cold \subseteq proc[p].cold \cup {b}
         /\ lock[b] = 0 /\ lock'[b] = p
         /\ (\A c \in Boxes \ {b} : lock'[c] = lock[c]) /\ staged' = staged
<1> DEFINE rec == [proc[p] EXCEPT !.waits = @ \ {b}, !.builds = @ \cup {b},
                                  !.cold = IF Ver[p] \in images[b] THEN @ ELSE @ \cup {b}]
<1>1. Set(p, rec)
  BY DEF BuildBegins
<1>2. DOMAIN rec = Fields /\ rec = [f \in Fields |-> rec[f]]
  BY DEF Shaped, Fields
<1>3. Frame(p) /\ proc'[p] = rec
  <2> HIDE DEF rec
  <2> QED BY <1>1, <1>2, SetProc DEF Frame
<1>4. Locks' /\ lock[b] = 0 /\ lock'[b] = p /\ (\A c \in Boxes \ {b} : lock'[c] = lock[c]) /\ staged' = staged
  BY DEF BuildBegins, Unlocked, Locks
<1> QED BY <1>3, <1>4 DEF Shaped, Fields, BuildBegins

LEMMA EndsEffect ==
  ASSUME Shaped, Locks, NEW p \in Procs, NEW b \in Boxes, BuildEnds(p, b)
  PROVE  /\ Frame(p) /\ Locks'
         /\ proc'[p].pc = proc[p].pc /\ b \in proc[p].builds
         /\ proc'[p].builds = proc[p].builds \ {b} /\ proc'[p].cold = proc[p].cold \ {b}
         /\ (\A c \in Boxes \ {b} : lock'[c] = lock[c]) /\ staged' = staged
<1>1. PICK rec : /\ Set(p, rec)
                 /\ \/ rec = [proc[p] EXCEPT !.builds = @ \ {b}, !.cold = @ \ {b}]
                    \/ rec = [proc[p] EXCEPT !.builds = @ \ {b}, !.cold = @ \ {b}, !.failed = TRUE]
  BY Zenon DEF BuildEnds
<1>2. DOMAIN rec = Fields /\ rec = [f \in Fields |-> rec[f]]
  BY <1>1 DEF Shaped, Fields
<1>3. Frame(p) /\ proc'[p] = rec
  BY <1>1, <1>2, SetProc DEF Frame
<1>4. rec.pc = proc[p].pc /\ rec.builds = proc[p].builds \ {b} /\ rec.cold = proc[p].cold \ {b}
  BY <1>1 DEF Shaped, Fields
<1>5. Locks' /\ (\A c \in Boxes \ {b} : lock'[c] = lock[c]) /\ staged' = staged /\ b \in proc[p].builds
  BY DEF BuildEnds, Locks
<1> QED BY <1>3, <1>4, <1>5

LEMMA KillEffect ==
  ASSUME Shaped, Locks, NEW p \in Procs, Kill(p)
  PROVE  /\ Frame(p) /\ Locks'
         /\ proc'[p].pc = "killed" /\ proc'[p].queue = {} /\ proc'[p].waits = {}
         /\ proc'[p].builds = {} /\ proc'[p].cold = {}
         /\ (\A c \in Boxes : lock[c] # p => lock'[c] = lock[c]) /\ staged' = staged
<1> DEFINE rec == [Idle EXCEPT !.pc = "killed"]
<1>1. Set(p, rec)
  BY DEF Kill
<1>2. DOMAIN rec = Fields /\ rec = [f \in Fields |-> rec[f]]
  BY DEF Idle, Fields
<1>3. Frame(p) /\ proc'[p] = rec
  <2> HIDE DEF rec
  <2> QED BY <1>1, <1>2, SetProc DEF Frame
<1>4. Locks' /\ (\A c \in Boxes : lock[c] # p => lock'[c] = lock[c]) /\ staged' = staged
  BY DEF Kill, Locks
<1> QED BY <1>3, <1>4 DEF Idle

-----------------------------------------------------------------------------
(* The locks.                                                              *)

\* A step that neither begins nor ends a build leaves builds and locks alone.
LEMMA OwnedFrame ==
  ASSUME LockInv, NEW p \in Procs, Frame(p), lock' = lock,
         proc'[p].builds = proc[p].builds, proc'[p].cold = proc[p].cold
  PROVE  LockInv'
BY DEF LockInv, Frame, Locks, Owned

LEMMA LockStep == LockInv /\ [Next]_vars => LockInv'
<1> SUFFICES ASSUME LockInv, [Next]_vars PROVE LockInv'
  OBVIOUS
<1>0. Shaped /\ Locks /\ Owned /\ 0 \notin Procs
  BY BuildAssumption DEF LockInv
<1>1. CASE AllDone \/ UNCHANGED vars
  BY <1>1 DEF AllDone, vars, LockInv, Shaped, Locks, Owned
<1>2. ASSUME NEW p \in Procs, Step(p) \/ Kill(p) PROVE LockInv'
  <2>1. CASE Start(p)
    BY <1>0, <2>1, StartEffect, OwnedFrame
  <2>2. CASE Exchange(p)
    BY <1>0, <2>2, ExchangeEffect, OwnedFrame
  <2>3. CASE Rename(p)
    BY <1>0, <2>3, RenameEffect, OwnedFrame
  <2>4. CASE Order(p)
    BY <1>0, <2>4, OrderEffect, OwnedFrame
  <2>5. CASE NextLevel(p)
    BY <1>0, <2>5, NextLevelEffect, OwnedFrame
  <2>6. CASE Fails(p)
    BY <1>0, <2>6, FailsEffect, OwnedFrame
  <2>7. CASE Finish(p)
    BY <1>0, <2>7, FinishEffect, OwnedFrame
  <2>8. ASSUME NEW b \in Boxes, Take(p, b) PROVE LockInv'
    BY <1>0, <2>8, TakeEffect, OwnedFrame
  <2>9. ASSUME NEW b \in Boxes, BuildBegins(p, b) PROVE LockInv'
    <3>1. /\ Frame(p) /\ Locks'
          /\ proc'[p].builds = proc[p].builds \cup {b}
          /\ proc'[p].cold \subseteq proc[p].cold \cup {b}
          /\ lock[b] = 0 /\ lock'[b] = p /\ \A c \in Boxes \ {b} : lock'[c] = lock[c]
      BY <1>0, <2>9, BeginsEffect
    <3>2. \A q \in Procs : b \notin proc[q].builds
      BY <1>0, <3>1 DEF Owned
    <3> QED BY <1>0, <3>1, <3>2 DEF LockInv, Frame, Owned
  <2>10. ASSUME NEW b \in Boxes, BuildEnds(p, b) PROVE LockInv'
    <3>1. /\ Frame(p) /\ Locks' /\ b \in proc[p].builds
          /\ proc'[p].builds = proc[p].builds \ {b} /\ proc'[p].cold = proc[p].cold \ {b}
          /\ \A c \in Boxes \ {b} : lock'[c] = lock[c]
      BY <1>0, <2>10, EndsEffect
    <3>2. \A q \in Procs \ {p} : b \notin proc[q].builds
      BY <1>0, <3>1 DEF Owned
    <3> QED BY <1>0, <3>1, <3>2 DEF LockInv, Frame, Owned
  <2>11. CASE Kill(p)
    <3>1. /\ Frame(p) /\ Locks' /\ proc'[p].builds = {} /\ proc'[p].cold = {}
          /\ \A c \in Boxes : lock[c] # p => lock'[c] = lock[c]
      BY <1>0, <2>11, KillEffect
    <3> QED BY <1>0, <3>1 DEF LockInv, Frame, Owned
  <2> QED BY <1>2, <2>1, <2>2, <2>3, <2>4, <2>5, <2>6, <2>7, <2>8, <2>9, <2>10, <2>11 DEF Step
<1> QED BY <1>1, <1>2 DEF Next

\* "a shared intermediate built by many parallel beds is built COLD once" (buildImage under
\* the lock of the image), for any number of processes and whatever they build in which
\* order, with failures and kills.
THEOREM ColdBuilds == Spec => []ColdOnce
<1>1. LockInv => ColdOnce
  BY DEF LockInv, Owned, ColdOnce
<1> QED BY <1>1, LockInit, LockStep, PTL DEF Spec
-----------------------------------------------------------------------------
(* The staged directories.                                                 *)

\* The versions that are ever staged.
InPlay == Staged \cup {Ver[q] : q \in Procs}

\* So few versions are newer than that of a process that the pruning keeps its directory.
Recent == Keep = 0 \/ \A p \in Procs : Cardinality({v \in InPlay : v > Ver[p]}) < Keep

\* A build goes on only between its staging and its end, and its directory is there then.
Copies ==
  /\ staged \subseteq InPlay
  /\ \A p \in Procs :
       /\ proc[p].pc \in {"order", "build"} => Ver[p] \in staged
       /\ proc[p].pc # "build" => /\ proc[p].queue = {} /\ proc[p].waits = {}
                                  /\ proc[p].builds = {}

LEMMA FewNewer ==
  ASSUME NEW T \in SUBSET InPlay, NEW p \in Procs
  PROVE  /\ Cardinality({v \in T : v > Ver[p]}) \in Nat
         /\ Cardinality({v \in T : v > Ver[p]}) <= Cardinality({v \in InPlay : v > Ver[p]})
         /\ Cardinality({v \in InPlay : v > Ver[p]}) \in Nat
<1>1. InPlay \subseteq Versions /\ IsFiniteSet(Versions)
  BY BuildAssumption DEF InPlay
<1>2. IsFiniteSet({v \in InPlay : v > Ver[p]})
  <2>1. {v \in InPlay : v > Ver[p]} \subseteq Versions
    BY <1>1
  <2> QED BY <1>1, <2>1, FS_Subset
<1>3. {v \in T : v > Ver[p]} \subseteq {v \in InPlay : v > Ver[p]}
  OBVIOUS
<1>4. /\ IsFiniteSet({v \in T : v > Ver[p]})
      /\ Cardinality({v \in T : v > Ver[p]}) <= Cardinality({v \in InPlay : v > Ver[p]})
  BY <1>2, <1>3, FS_Subset
<1> QED BY <1>2, <1>4, FS_CardinalityType

\* pruneBuildCandyDirs keeps the directory of every process.
LEMMA PruneKeeps ==
  ASSUME Recent, Keep > 0, staged \subseteq InPlay, NEW p \in Procs, Ver[p] \in staged
  PROVE  Ver[p] \in Newest(Keep)
<1>1. Keep \in Nat
  BY BuildAssumption
<1>2. Cardinality({v \in InPlay : v > Ver[p]}) < Keep
  BY <1>1 DEF Recent
<1>3. Cardinality({w \in staged : w > Ver[p]}) < Keep
  <2>1. /\ Cardinality({w \in staged : w > Ver[p]}) \in Nat
        /\ Cardinality({w \in staged : w > Ver[p]}) <= Cardinality({v \in InPlay : v > Ver[p]})
        /\ Cardinality({v \in InPlay : v > Ver[p]}) \in Nat
    BY FewNewer
  <2> QED BY <1>1, <1>2, <2>1
<1> QED BY <1>3 DEF Newest

LEMMA CopiesInit == Init => Copies
<1> SUFFICES ASSUME Init PROVE Copies
  OBVIOUS
<1>1. proc = [p \in Procs |-> Idle] /\ staged = Staged
  BY DEF Init
<1> QED BY <1>1, IdleShape DEF Copies, InPlay

\* A step that leaves the directories alone, and keeps the process in order.
LEMMA CopiesFrame ==
  ASSUME Copies, NEW p \in Procs, Frame(p), staged' = staged,
         proc'[p].pc \in {"order", "build"} => Ver[p] \in staged,
         proc'[p].pc # "build" => /\ proc'[p].queue = {} /\ proc'[p].waits = {}
                                  /\ proc'[p].builds = {}
  PROVE  Copies'
BY DEF Copies, Frame

LEMMA CopiesStep == Recent /\ LockInv /\ Copies /\ [Next]_vars => Copies'
<1> SUFFICES ASSUME Recent, LockInv, Copies, [Next]_vars PROVE Copies'
  OBVIOUS
<1>0. Shaped /\ Locks
  BY DEF LockInv
<1>1. CASE AllDone \/ UNCHANGED vars
  BY <1>1 DEF AllDone, vars, Copies
<1>2. ASSUME NEW p \in Procs, Step(p) \/ Kill(p) PROVE Copies'
  <2>1. CASE Start(p)
    BY <1>0, <2>1, StartEffect, CopiesFrame DEF Copies
  <2>2. CASE Exchange(p)
    BY <1>0, <2>2, ExchangeEffect, CopiesFrame DEF Copies
  <2>3. CASE Rename(p)
    <3>1. /\ Frame(p) /\ proc[p].pc = "rename" /\ proc'[p].pc = "order"
          /\ proc'[p].queue = proc[p].queue /\ proc'[p].waits = proc[p].waits
          /\ proc'[p].builds = proc[p].builds /\ staged' = staged \cup {Ver[p]}
      BY <1>0, <2>3, RenameEffect
    <3>2. Ver[p] \in InPlay
      BY DEF InPlay
    <3> QED BY <3>1, <3>2 DEF Copies, Frame
  <2>4. CASE Order(p)
    BY <1>0, <2>4, OrderEffect, CopiesFrame DEF Copies
  <2>5. CASE NextLevel(p)
    BY <1>0, <2>5, NextLevelEffect, CopiesFrame DEF Copies
  <2>6. CASE Fails(p)
    BY <1>0, <2>6, FailsEffect, CopiesFrame DEF Copies
  <2>7. CASE Finish(p)
    <3>1. /\ Frame(p) /\ proc'[p].pc = "done" /\ proc'[p].queue = {} /\ proc'[p].waits = {}
          /\ proc'[p].builds = {}
          /\ staged' = (IF Keep > 0 THEN Newest(Keep) ELSE staged)
      BY <1>0, <2>7, FinishEffect
    <3>2. staged' \subseteq staged
      BY <3>1 DEF Newest
    <3>3. \A q \in Procs : Ver[q] \in staged => Ver[q] \in staged'
      BY <3>1, PruneKeeps DEF Copies
    <3> QED BY <3>1, <3>2, <3>3 DEF Copies, Frame
  <2>8. ASSUME NEW b \in Boxes, Take(p, b) PROVE Copies'
    <3>1. /\ Frame(p) /\ proc'[p].pc = proc[p].pc /\ proc[p].queue # {} /\ staged' = staged
      BY <1>0, <2>8, TakeEffect
    <3> QED BY <3>1, CopiesFrame DEF Copies
  <2>9. ASSUME NEW b \in Boxes, BuildBegins(p, b) PROVE Copies'
    <3>1. /\ Frame(p) /\ proc'[p].pc = proc[p].pc /\ proc[p].waits # {} /\ staged' = staged
      BY <1>0, <2>9, BeginsEffect
    <3> QED BY <3>1, CopiesFrame DEF Copies
  <2>10. ASSUME NEW b \in Boxes, BuildEnds(p, b) PROVE Copies'
    <3>1. /\ Frame(p) /\ proc'[p].pc = proc[p].pc /\ b \in proc[p].builds /\ staged' = staged
      BY <1>0, <2>10, EndsEffect
    <3> QED BY <3>1, CopiesFrame DEF Copies
  <2>11. CASE Kill(p)
    BY <1>0, <2>11, KillEffect, CopiesFrame DEF Copies
  <2> QED BY <1>2, <2>1, <2>2, <2>3, <2>4, <2>5, <2>6, <2>7, <2>8, <2>9, <2>10, <2>11 DEF Step
<1> QED BY <1>1, <1>2 DEF Next

\* "a concurrent reader (a podman build COPYing from _candy) always sees a COMPLETE artifact",
\* with installDirAtomic and whatever staging, builds and kills interleave, as long as the
\* pruning at the end of a build has no reason to take a version in use.
THEOREM CopiesStay == ASSUME Recent PROVE Spec => []CopyWhole
<1>1. Copies => CopyWhole
  BY DEF Copies, CopyWhole
<1>2. Init => LockInv /\ Copies
  BY LockInit, CopiesInit
<1>3. LockInv /\ Copies /\ [Next]_vars => (LockInv /\ Copies)'
  BY LockStep, CopiesStep
<1> QED BY <1>1, <1>2, <1>3, PTL DEF Spec

-----------------------------------------------------------------------------
(* The order of the boxes.                                                 *)

\* Sequences given by their elements, or one element longer.
LEMMA SequenceOf ==
  ASSUME NEW S, NEW n \in Nat, NEW f \in [1..n -> S]
  PROVE  f \in Seq(S) /\ Len(f) = n
OBVIOUS

LEMMA AppendOf ==
  ASSUME NEW S, NEW s \in Seq(S), NEW x \in S
  PROVE  Append(s, x) \in Seq(S)
OBVIOUS

-----------------------------------------------------------------------------
(* Loops as recursive functions: from d the loop goes on to nx[d] unless   *)
(* it stops, and a measure m goes down.                                    *)

\* A nonempty set of numbers has a least element; with it the inductions below are done on sets of
\* counterexamples.
LEMMA Least ==
  ASSUME NEW T, T \subseteq Nat, T # {}
  PROVE  \E n \in T : \A k \in T : ~(k < n)
<1>1. PICK n \in T : \A k \in T : <<k, n>> \notin OpToRel(<, Nat)
  BY WFMin, NatLessThanWellFounded, Zenon
<1>2. \A k \in T : k \in Nat
  OBVIOUS
<1>3. \A k \in T : ~(k < n)
  BY <1>1, <1>2, Zenon DEF OpToRel
<1> QED BY <1>3

Loops(f, D, stop, nx) == \A d \in D : f[d] = IF d \in stop THEN d ELSE f[nx[d]]

LEMMA LoopExists ==
  ASSUME NEW D, NEW stop \in SUBSET D, NEW nx \in [D -> D], NEW N \in Nat, NEW m \in [D -> 0..N],
         \A d \in D \ stop : m[nx[d]] < m[d]
  PROVE  \E f \in [D -> D] : Loops(f, D, stop, nx)
<1> DEFINE Solves(n, f) == \A d \in D : m[d] < n => f[d] = IF d \in stop THEN d ELSE f[nx[d]]
           Bad == {n \in Nat : ~ \E f \in [D -> D] : Solves(n, f)}
<1>1. SUFFICES Bad = {}
  <2>1. N + 1 \in Nat /\ \A d \in D : m[d] < N + 1
    OBVIOUS
  <2>2. ASSUME N + 1 \notin Bad
        PROVE  \E f \in [D -> D] : Loops(f, D, stop, nx)
    <3>1. PICK f \in [D -> D] : Solves(N + 1, f)
      <4> HIDE DEF Solves
      <4> QED BY <2>1, <2>2
    <3> QED BY <2>1, <3>1 DEF Loops
  <2> QED BY <2>1, <2>2
<1>2. SUFFICES ASSUME NEW n \in Bad, \A k \in Bad : ~(k < n)
               PROVE  FALSE
  <2>1. Bad \subseteq Nat
    OBVIOUS
  <2> HIDE DEF Bad
  <2> QED BY <2>1, Least
<1>3. n # 0
  <2>1. [d \in D |-> d] \in [D -> D] /\ Solves(0, [d \in D |-> d])
    OBVIOUS
  <2> HIDE DEF Solves
  <2> QED BY <2>1
<1>4. PICK f \in [D -> D] : Solves(n - 1, f)
  <2>1. n - 1 \in Nat /\ n - 1 < n
    BY <1>3
  <2>2. n - 1 \notin Bad
    BY <1>2, <2>1
  <2> HIDE DEF Solves
  <2> QED BY <2>1, <2>2
<1> DEFINE g == [d \in D |-> IF d \in stop THEN d ELSE f[nx[d]]]
<1>5. g \in [D -> D]
  OBVIOUS
<1>6. ASSUME NEW d \in D, m[d] < n
      PROVE  g[d] = IF d \in stop THEN d ELSE g[nx[d]]
  <2>1. CASE d \in stop
    BY <2>1
  <2>2. CASE d \notin stop
    <3>1. nx[d] \in D /\ m[nx[d]] < n - 1
      <4>1. nx[d] \in D /\ m[nx[d]] < m[d] /\ m[d] \in Nat /\ m[nx[d]] \in Nat /\ n \in Nat
        BY <2>2
      <4> QED BY <4>1, <1>6
    <3>2. f[nx[d]] = IF nx[d] \in stop THEN nx[d] ELSE f[nx[nx[d]]]
      BY <3>1, <1>4
    <3> QED BY <2>2, <3>1, <3>2
  <2> QED BY <2>1, <2>2
<1>7. Solves(n, g)
  <2> HIDE DEF g
  <2> QED BY <1>6
<1> HIDE DEF g, Solves
<1> QED BY <1>5, <1>7

\* What every turn of the loop keeps, its result has.
LEMMA LoopKeeps ==
  ASSUME NEW D, NEW stop \in SUBSET D, NEW nx \in [D -> D], NEW N \in Nat, NEW m \in [D -> 0..N],
         \A d \in D \ stop : m[nx[d]] < m[d],
         NEW f, \A d \in D : f[d] = IF d \in stop THEN d ELSE f[nx[d]],
         NEW I \in SUBSET D, \A d \in I \ stop : nx[d] \in I
  PROVE  \A d \in I : f[d] \in I
<1> DEFINE Bad == {n \in 0..N : \E d \in I : m[d] = n /\ f[d] \notin I}
<1>1. SUFFICES ASSUME Bad # {} PROVE FALSE
  OBVIOUS
<1>2. PICK n \in Bad : \A k \in Bad : ~(k < n)
  <2>1. Bad \subseteq Nat
    OBVIOUS
  <2> HIDE DEF Bad
  <2> QED BY <1>1, <2>1, Least
<1>3. PICK d \in I : m[d] = n /\ f[d] \notin I
  OBVIOUS
<1>4. d \notin stop
  BY <1>3 DEF Loops
<1>5. nx[d] \in I /\ m[nx[d]] < n /\ f[d] = f[nx[d]] /\ m[nx[d]] \in 0..N
  BY <1>3, <1>4 DEF Loops
<1> QED BY <1>2, <1>3, <1>5

\* The result is where the loop stops.
LEMMA LoopStops ==
  ASSUME NEW D, NEW stop \in SUBSET D, NEW nx \in [D -> D], NEW N \in Nat, NEW m \in [D -> 0..N],
         \A d \in D \ stop : m[nx[d]] < m[d],
         NEW f, Loops(f, D, stop, nx)
  PROVE  \A d \in D : f[d] \in stop
<1> DEFINE Bad == {n \in 0..N : \E d \in D : m[d] = n /\ f[d] \notin stop}
<1>1. SUFFICES ASSUME Bad # {} PROVE FALSE
  OBVIOUS
<1>2. PICK n \in Bad : \A k \in Bad : ~(k < n)
  <2>1. Bad \subseteq Nat
    OBVIOUS
  <2> HIDE DEF Bad
  <2> QED BY <1>1, <2>1, Least
<1>3. PICK d \in D : m[d] = n /\ f[d] \notin stop
  OBVIOUS
<1>4. d \notin stop
  BY <1>3 DEF Loops
<1>5. nx[d] \in D /\ m[nx[d]] < n /\ f[d] = f[nx[d]] /\ m[nx[d]] \in 0..N
  BY <1>3, <1>4 DEF Loops
<1> QED BY <1>2, <1>3, <1>5

-----------------------------------------------------------------------------
(* topoSort and topoLevels.                                                *)

\* The boxes that can be placed behind those of a set.
FreeAfter(placed) == {b \in Boxes \ placed : Deps(b) \subseteq placed}

\* What is left to place goes down with every box, or level, placed.
LEMMA LessLeft ==
  ASSUME NEW P, NEW Q, NEW b \in Boxes, b \notin P, b \in Q, P \subseteq Q
  PROVE  /\ Cardinality(Boxes \ Q) \in Nat /\ Cardinality(Boxes \ P) \in Nat
         /\ Cardinality(Boxes \ P) <= Cardinality(Boxes)
         /\ Cardinality(Boxes \ Q) < Cardinality(Boxes \ P)
<1>1. IsFiniteSet(Boxes)
  BY BuildAssumption
<1>2. IsFiniteSet(Boxes \ P) /\ Cardinality(Boxes \ P) <= Cardinality(Boxes)
  BY <1>1, FS_Subset
<1>3. IsFiniteSet(Boxes \ Q)
  BY <1>1, FS_Subset
<1>4. Boxes \ Q \in SUBSET (Boxes \ P) /\ Boxes \ Q # Boxes \ P
  OBVIOUS
<1>5. Cardinality(Boxes \ Q) <= Cardinality(Boxes \ P) /\ Cardinality(Boxes \ Q) # Cardinality(Boxes \ P)
  BY <1>2, <1>4, FS_Subset
<1>6. Cardinality(Boxes \ Q) \in Nat /\ Cardinality(Boxes \ P) \in Nat
  BY <1>2, <1>3, FS_CardinalityType
<1> QED BY <1>2, <1>5, <1>6

LEMMA Left ==
  ASSUME NEW P
  PROVE  Cardinality(Boxes) \in Nat /\ Cardinality(Boxes \ P) \in 0..Cardinality(Boxes)
<1>1. IsFiniteSet(Boxes)
  BY BuildAssumption
<1>2. IsFiniteSet(Boxes \ P) /\ Cardinality(Boxes \ P) <= Cardinality(Boxes)
  BY <1>1, FS_Subset
<1> QED BY <1>1, <1>2, FS_CardinalityType

LEMMA MinFree ==
  ASSUME NEW S \in SUBSET Boxes, S # {}
  PROVE  Min(S) \in S
<1>1. S \subseteq Nat
  BY BuildAssumption
<1>2. PICK n \in S : \A k \in S : ~(k < n)
  BY <1>1, Least
<1>3. \A k \in S : n <= k
  BY <1>1, <1>2
<1> QED BY <1>3 DEF Min

\* Every box of a sequence stands behind its dependencies.
InOrder(s) == \A i \in 1..Len(s) : Deps(s[i]) \subseteq {s[j] : j \in 1..(i - 1)}

\* No box is placed twice.
Once(s) == \A i, j \in 1..Len(s) : s[i] = s[j] => i = j

\* What topoSort returns has every box once and in order, and none is left that could be placed.
LEMMA SortFacts ==
  /\ TopoSort \in Seq(Boxes) /\ InOrder(TopoSort) /\ Once(TopoSort)
  /\ FreeAfter(ToSet(TopoSort)) = {}
<1> DEFINE D == Seq(Boxes)
           free(s) == FreeAfter(ToSet(s))
           stop == {s \in D : free(s) = {}}
           nx == [s \in D |-> IF free(s) = {} THEN s ELSE Append(s, Min(free(s)))]
           N == Cardinality(Boxes)
           m == [s \in D |-> Cardinality(Boxes \ ToSet(s))]
           I == {s \in D : InOrder(s) /\ Once(s)}
           Sorts(f) == f = [s \in D |-> IF free(s) = {} THEN s ELSE f[Append(s, Min(free(s)))]]
           g == CHOOSE f : Sorts(f)
<1>1. ASSUME NEW s \in D, free(s) # {}
      PROVE  Min(free(s)) \in free(s) /\ Append(s, Min(free(s))) \in D
  <2>1. free(s) \in SUBSET Boxes
    BY DEF FreeAfter
  <2>2. Min(free(s)) \in free(s)
    BY <1>1, <2>1, MinFree
  <2> QED BY <2>1, <2>2
<1>2. nx \in [D -> D] /\ stop \in SUBSET D
  BY <1>1
<1>3. N \in Nat /\ m \in [D -> 0..N]
  BY Left
<1>4. ASSUME NEW s \in D \ stop PROVE m[nx[s]] < m[s]
  <2> DEFINE b == Min(free(s))
  <2>1. b \in free(s) /\ nx[s] = Append(s, b) /\ nx[s] \in D
    BY <1>1
  <2>2. b \in Boxes /\ b \notin ToSet(s)
    BY <2>1 DEF FreeAfter
  <2> HIDE DEF b
  <2>3. b \in ToSet(Append(s, b)) /\ ToSet(s) \subseteq ToSet(Append(s, b))
    <3>1. /\ DOMAIN s = 1..Len(s) /\ DOMAIN Append(s, b) = 1..(Len(s) + 1) /\ Len(s) \in Nat
          /\ Append(s, b)[Len(s) + 1] = b
          /\ \A i \in 1..Len(s) : Append(s, b)[i] = s[i]
      OBVIOUS
    <3> QED BY <3>1 DEF ToSet
  <2>4. Cardinality(Boxes \ ToSet(Append(s, b))) < Cardinality(Boxes \ ToSet(s))
    BY <2>2, <2>3, LessLeft
  <2> QED BY <2>1, <2>4
<1>5. ASSUME NEW s \in I \ stop PROVE nx[s] \in I
  <2> DEFINE b == Min(free(s))
  <2>1. s \in D /\ InOrder(s) /\ Once(s) /\ b \in free(s) /\ nx[s] = Append(s, b) /\ nx[s] \in D
    BY <1>1
  <2>2. Deps(b) \subseteq ToSet(s) /\ b \notin ToSet(s)
    BY <2>1 DEF FreeAfter
  <2> HIDE DEF b
  <2>3. /\ Len(s) \in Nat /\ Len(Append(s, b)) = Len(s) + 1
        /\ Append(s, b)[Len(s) + 1] = b
        /\ \A i \in 1..Len(s) : Append(s, b)[i] = s[i]
    BY <2>1
  <2>4. ToSet(s) = {s[j] : j \in 1..Len(s)}
    BY <2>1 DEF ToSet
  <2>5. ASSUME NEW i \in 1..(Len(s) + 1)
        PROVE  Deps(Append(s, b)[i]) \subseteq {Append(s, b)[j] : j \in 1..(i - 1)}
    <3>1. {Append(s, b)[j] : j \in 1..(i - 1)} = {s[j] : j \in 1..(i - 1)}
      BY <2>3
    <3>2. CASE i \in 1..Len(s)
      BY <3>1, <3>2, <2>1, <2>3 DEF InOrder
    <3>3. CASE i = Len(s) + 1
      BY <3>1, <3>3, <2>2, <2>3, <2>4
    <3> QED BY <3>2, <3>3, <2>3, SMTT(30)
  <2>6. InOrder(Append(s, b))
    BY <2>3, <2>5 DEF InOrder
  <2>7. Once(Append(s, b))
    BY <2>1, <2>2, <2>3, <2>4 DEF Once
  <2> QED BY <2>1, <2>6, <2>7
<1>6. PICK h \in [D -> D] : Loops(h, D, stop, nx)
  <2>1. \A s \in D \ stop : m[nx[s]] < m[s]
    BY <1>4
  <2> HIDE DEF D, stop, nx, m, N
  <2> QED BY <1>2, <1>3, <2>1, LoopExists, Zenon
<1>7. Sorts(h)
  <2>1. \A s \in D : h[s] = IF free(s) = {} THEN s ELSE h[Append(s, Min(free(s)))]
    BY <1>6 DEF Loops
  <2>2. h = [s \in D |-> h[s]]
    OBVIOUS
  <2> HIDE DEF D, free
  <2> QED BY <2>1, <2>2
<1>8. Sorts(g)
  <2> HIDE DEF Sorts
  <2> QED BY <1>7
<1> HIDE DEF g
<1>9. Loops(g, D, stop, nx)
  BY <1>8 DEF Loops
<1>10. \A s \in I : g[s] \in I
  <2>1. I \in SUBSET D
    OBVIOUS
  <2> HIDE DEF D, stop, nx, m, N, I
  <2> QED BY <2>1, <1>2, <1>3, <1>4, <1>5, <1>9, LoopKeeps DEF Loops
<1>11. <<>> \in I
  BY DEF InOrder, Once
<1>12. TopoSort = g[<<>>]
  BY DEF TopoSort, g, FreeAfter
<1>13. \A s \in D : g[s] \in stop
  <2>1. \A d \in D \ stop : m[nx[d]] < m[d]
    BY <1>4
  <2> HIDE DEF D, stop, nx, m, N
  <2> QED BY <1>2, <1>3, <1>9, <2>1, LoopStops, ZenonT(60)
<1> QED BY <1>10, <1>11, <1>12, <1>13

\* "Returns nodes in dependency order (dependencies before dependents)" (graph.go).
THEOREM SortInOrder ==
  TopoSort \in Seq(Boxes) /\ InOrder(TopoSort)
BY SortFacts

\* Every box of a level stands behind its dependencies.
LevelsInOrder(ls) ==
  \A i \in 1..Len(ls) : \A b \in ls[i] : Deps(b) \subseteq UNION {ls[j] : j \in 1..(i - 1)}

\* No box is in two levels.
Disjoint(ls) == \A i, j \in 1..Len(ls) : \A b \in ls[i] : b \in ls[j] => i = j

LEMMA LevelFacts ==
  /\ TopoLevels \in Seq(SUBSET Boxes) /\ LevelsInOrder(TopoLevels) /\ Disjoint(TopoLevels)
  /\ FreeAfter(UNION ToSet(TopoLevels)) = {}
<1> DEFINE D == Seq(SUBSET Boxes)
           free(ls) == FreeAfter(UNION ToSet(ls))
           stop == {ls \in D : free(ls) = {}}
           nx == [ls \in D |-> IF free(ls) = {} THEN ls ELSE Append(ls, free(ls))]
           N == Cardinality(Boxes)
           m == [ls \in D |-> Cardinality(Boxes \ UNION ToSet(ls))]
           I == {ls \in D : LevelsInOrder(ls) /\ Disjoint(ls)}
           Sorts(f) == f = [ls \in D |-> IF free(ls) = {} THEN ls ELSE f[Append(ls, free(ls))]]
           g == CHOOSE f : Sorts(f)
<1>1. ASSUME NEW ls \in D
      PROVE  free(ls) \in SUBSET Boxes /\ Append(ls, free(ls)) \in D
  <2>1. free(ls) \in SUBSET Boxes
    BY DEF FreeAfter
  <2> HIDE DEF free
  <2> QED BY <2>1, AppendOf, Zenon
<1>2. nx \in [D -> D] /\ stop \in SUBSET D
  BY <1>1
<1>3. N \in Nat /\ m \in [D -> 0..N]
  BY Left
<1>4. ASSUME NEW ls \in D \ stop PROVE m[nx[ls]] < m[ls]
  <2> DEFINE F == free(ls)
  <2>1. F # {} /\ F \in SUBSET Boxes /\ nx[ls] = Append(ls, F) /\ nx[ls] \in D
    BY <1>1
  <2>2. PICK b \in F : b \in Boxes /\ b \notin UNION ToSet(ls)
    BY <2>1 DEF FreeAfter
  <2> HIDE DEF F
  <2>3. b \in UNION ToSet(Append(ls, F)) /\ UNION ToSet(ls) \subseteq UNION ToSet(Append(ls, F))
    <3>1. /\ DOMAIN ls = 1..Len(ls) /\ DOMAIN Append(ls, F) = 1..(Len(ls) + 1) /\ Len(ls) \in Nat
          /\ Append(ls, F)[Len(ls) + 1] = F
          /\ \A i \in 1..Len(ls) : Append(ls, F)[i] = ls[i]
      OBVIOUS
    <3>2. F \in ToSet(Append(ls, F)) /\ ToSet(ls) \subseteq ToSet(Append(ls, F))
      BY <3>1 DEF ToSet
    <3> QED BY <2>2, <3>2
  <2>4. Cardinality(Boxes \ UNION ToSet(Append(ls, F))) < Cardinality(Boxes \ UNION ToSet(ls))
    BY <2>2, <2>3, LessLeft
  <2> QED BY <2>1, <2>4
<1>5. ASSUME NEW ls \in I \ stop PROVE nx[ls] \in I
  <2> DEFINE F == free(ls)
  <2>1. ls \in D /\ LevelsInOrder(ls) /\ Disjoint(ls) /\ nx[ls] = Append(ls, F) /\ nx[ls] \in D
    BY <1>1
  <2>2. \A b \in F : Deps(b) \subseteq UNION ToSet(ls) /\ b \notin UNION ToSet(ls)
    BY <2>1 DEF FreeAfter
  <2> HIDE DEF F
  <2>3. /\ Len(ls) \in Nat /\ Len(Append(ls, F)) = Len(ls) + 1
        /\ Append(ls, F)[Len(ls) + 1] = F
        /\ \A i \in 1..Len(ls) : Append(ls, F)[i] = ls[i]
    BY <2>1
  <2>4. ToSet(ls) = {ls[j] : j \in 1..Len(ls)}
    BY <2>1 DEF ToSet
  <2>5. ASSUME NEW i \in 1..(Len(ls) + 1), NEW b \in Append(ls, F)[i]
        PROVE  Deps(b) \subseteq UNION {Append(ls, F)[j] : j \in 1..(i - 1)}
    <3>1. {Append(ls, F)[j] : j \in 1..(i - 1)} = {ls[j] : j \in 1..(i - 1)}
      BY <2>3
    <3>2. CASE i \in 1..Len(ls)
      BY <3>1, <3>2, <2>1, <2>3 DEF LevelsInOrder
    <3>3. CASE i = Len(ls) + 1
      BY <3>1, <3>3, <2>2, <2>3, <2>4
    <3> QED BY <3>2, <3>3, <2>3
  <2>6. LevelsInOrder(Append(ls, F))
    BY <2>3, <2>5 DEF LevelsInOrder
  <2>7. Disjoint(Append(ls, F))
    <3> SUFFICES ASSUME NEW i \in 1..(Len(ls) + 1), NEW j \in 1..(Len(ls) + 1), NEW b \in Append(ls, F)[i],
                        b \in Append(ls, F)[j]
                 PROVE  i = j
      BY <2>3 DEF Disjoint
    <3>1. \A k \in 1..Len(ls) : F \cap ls[k] = {}
      BY <2>2, <2>4
    <3>2. (i \in 1..Len(ls) \/ i = Len(ls) + 1) /\ (j \in 1..Len(ls) \/ j = Len(ls) + 1)
      BY <2>3
    <3> QED BY <2>1, <2>3, <3>1, <3>2 DEF Disjoint
  <2> QED BY <2>1, <2>6, <2>7
<1>6. PICK h \in [D -> D] : Loops(h, D, stop, nx)
  <2>1. \A ls \in D \ stop : m[nx[ls]] < m[ls]
    BY <1>4
  <2> HIDE DEF D, stop, nx, m, N
  <2> QED BY <1>2, <1>3, <2>1, LoopExists, Zenon
<1>7. Sorts(h)
  <2>1. \A ls \in D : h[ls] = IF free(ls) = {} THEN ls ELSE h[Append(ls, free(ls))]
    BY <1>6 DEF Loops
  <2>2. h = [ls \in D |-> h[ls]]
    OBVIOUS
  <2> HIDE DEF D, free
  <2> QED BY <2>1, <2>2
<1>8. Sorts(g)
  <2> HIDE DEF Sorts
  <2> QED BY <1>7
<1> HIDE DEF g
<1>9. Loops(g, D, stop, nx)
  BY <1>8 DEF Loops
<1>10. \A ls \in I : g[ls] \in I
  <2>1. I \in SUBSET D
    OBVIOUS
  <2> HIDE DEF D, stop, nx, m, N, I
  <2> QED BY <2>1, <1>2, <1>3, <1>4, <1>5, <1>9, LoopKeeps DEF Loops
<1>11. <<>> \in I
  BY DEF LevelsInOrder, Disjoint
<1>12. TopoLevels = g[<<>>]
  BY DEF TopoLevels, g, FreeAfter
<1>13. \A ls \in D : g[ls] \in stop
  <2>1. \A d \in D \ stop : m[nx[d]] < m[d]
    BY <1>4
  <2> HIDE DEF D, stop, nx, m, N
  <2> QED BY <1>2, <1>3, <1>9, <2>1, LoopStops, ZenonT(60)
<1> QED BY <1>10, <1>11, <1>12, <1>13

\* The levels of topoLevels: a box stands behind the levels of all its dependencies.
THEOREM LevelsAreInOrder ==
  TopoLevels \in Seq(SUBSET Boxes) /\ LevelsInOrder(TopoLevels)
BY LevelFacts

-----------------------------------------------------------------------------
(* filterBox and the plan of a build.                                      *)

\* What a box is built from stands in an earlier set.
Sound(plan) == \A i \in 1..Len(plan) : \A b \in plan[i] : Used(b) \subseteq UNION {plan[j] : j \in 1..(i - 1)}

LEMMA UsedDeps ==
  ASSUME NEW b
  PROVE  Used(b) \subseteq Deps(b) /\ Deps(b) \subseteq DirectDeps(b, TRUE)
BY DEF Used, Deps, DirectDeps

LEMMA DepsAreBoxes ==
  ASSUME project \in Project, NEW b \in Boxes
  PROVE  DirectDeps(b, TRUE) \subseteq Boxes
BY DEF Project, DirectDeps, External

\* filterBox leaves nothing out that a box it takes is built from, and keeps the order.
LEMMA FilterSound ==
  ASSUME project \in Project, NEW order \in Seq(Boxes), InOrder(order), NEW request \in SUBSET Boxes
  PROVE  /\ Filter(order, request) \in Seq(SUBSET Boxes)
         /\ Sound(Filter(order, request))
<1> DEFINE Closed(X) == request \subseteq X /\ \A c \in X : DirectDeps(c, TRUE) \subseteq X
           needed == {b \in Boxes : \A X \in SUBSET Boxes : Closed(X) => b \in X}
           plan == [i \in 1..Len(order) |-> {order[i]} \cap needed]
<1>1. ASSUME NEW b \in needed PROVE DirectDeps(b, TRUE) \subseteq needed
  BY DepsAreBoxes
<1>2. Filter(order, request) = plan
  BY DEF Filter
<1> HIDE DEF needed
<1>3. Len(plan) = Len(order) /\ plan \in Seq(SUBSET Boxes)
  <2>0. needed \subseteq Boxes
    BY DEF needed
  <2>1. Len(order) \in Nat /\ plan \in [1..Len(order) -> SUBSET Boxes]
    BY <2>0
  <2> HIDE DEF plan
  <2> QED BY <2>1, SequenceOf, Zenon
<1>4. ASSUME NEW i \in 1..Len(order), NEW b \in plan[i], NEW c \in Used(b)
      PROVE  c \in UNION {plan[j] : j \in 1..(i - 1)}
  <2>1. b = order[i] /\ b \in needed
    OBVIOUS
  <2>2. c \in Deps(b) /\ c \in needed
    BY <2>1, <1>1, UsedDeps
  <2>3. PICK j \in 1..(i - 1) : c = order[j]
    BY <2>1, <2>2 DEF InOrder
  <2>4. j \in 1..Len(order) /\ c \in plan[j]
    BY <2>2, <2>3
  <2> QED BY <2>3, <2>4
<1> HIDE DEF plan
<1>5. Sound(plan)
  BY <1>3, <1>4 DEF Sound
<1> QED BY <1>2, <1>3, <1>5

\* The plan of a build has every box behind what it is built from, also for a request of some boxes.
THEOREM PlanSound ==
  ASSUME project \in Project, NEW request \in SUBSET Boxes
  PROVE  Plan(request) \in Seq(SUBSET Boxes) /\ Sound(Plan(request))
<1>1. CASE request # {}
  BY <1>1, SortInOrder, FilterSound DEF Plan
<1>2. CASE request = {}
  <2>1. \A i \in 1..Len(TopoLevels) : \A b \in TopoLevels[i] :
          Used(b) \subseteq UNION {TopoLevels[j] : j \in 1..(i - 1)}
    BY LevelsAreInOrder, UsedDeps DEF LevelsInOrder
  <2> QED BY <1>2, <2>1, LevelsAreInOrder DEF Plan, Sound
<1> QED BY <1>1, <1>2

-----------------------------------------------------------------------------
(* What is behind a box: the least set with what it is built from that is  *)
(* closed under being built from.                                          *)

Grow(X) == X \cup UNION {Used(c) : c \in X}

\* f is the recursive function of Behind(b), up to n.
Reaches(f, b, n) == /\ f \in [0..n -> SUBSET Boxes] /\ f[0] = Used(b)
                    /\ \A i \in 1..n : f[i] = Grow(f[i - 1])

LEMMA UsedAreBoxes ==
  ASSUME project \in Project, NEW b \in Boxes
  PROVE  Used(b) \subseteq Boxes /\ Used(b) = Deps(b)
<1>1. Used(b) = Deps(b)
  BY DEF Used, Deps, DirectDeps
<1> QED BY <1>1, UsedDeps, DepsAreBoxes

LEMMA GrowBoxes ==
  ASSUME project \in Project, NEW X \in SUBSET Boxes
  PROVE  Grow(X) \in SUBSET Boxes
BY UsedAreBoxes DEF Grow

LEMMA ReachExists ==
  ASSUME project \in Project, NEW b \in Boxes, NEW N \in Nat
  PROVE  \E f : Reaches(f, b, N)
<1> DEFINE Bad == {n \in Nat : ~ \E f : Reaches(f, b, n)}
<1>1. SUFFICES ASSUME Bad # {} PROVE FALSE
  OBVIOUS
<1>2. PICK n \in Bad : \A k \in Bad : ~(k < n)
  <2>1. Bad \subseteq Nat
    OBVIOUS
  <2> HIDE DEF Bad
  <2> QED BY <1>1, <2>1, Least
<1>3. n # 0
  <2>1. Reaches([i \in 0..0 |-> Used(b)], b, 0)
    BY UsedAreBoxes DEF Reaches
  <2> QED BY <2>1
<1>4. PICK f : Reaches(f, b, n - 1)
  <2>1. n - 1 \in Nat /\ n - 1 < n
    BY <1>3
  <2> QED BY <1>2, <2>1
<1> DEFINE g == [i \in 0..n |-> IF i = n THEN Grow(f[n - 1]) ELSE f[i]]
<1>5. n \in Nat \ {0} /\ \A i \in 0..(n - 1) : f[i] \in SUBSET Boxes
  BY <1>3, <1>4 DEF Reaches
<1>6. Grow(f[n - 1]) \in SUBSET Boxes
  BY <1>5, GrowBoxes
<1>7. g \in [0..n -> SUBSET Boxes] /\ g[0] = Used(b)
  BY <1>4, <1>5, <1>6 DEF Reaches
<1>8. ASSUME NEW i \in 1..n PROVE g[i] = Grow(g[i - 1])
  <2>1. g[i - 1] = f[i - 1]
    BY <1>5
  <2>2. CASE i = n
    BY <2>1, <2>2
  <2>3. CASE i # n
    BY <1>4, <1>5, <2>1, <2>3 DEF Reaches
  <2> QED BY <2>2, <2>3
<1> HIDE DEF g
<1>9. Reaches(g, b, n)
  BY <1>7, <1>8 DEF Reaches
<1> QED BY <1>9

\* Behind(b) is the value of such a function, which exists, at the number of the boxes.
LEMMA BehindReaches ==
  ASSUME project \in Project, NEW b \in Boxes
  PROVE  \E f : Reaches(f, b, Cardinality(Boxes)) /\ Behind(b) = f[Cardinality(Boxes)]
<1> DEFINE N == Cardinality(Boxes)
           Is(f) == f = [n \in 0..N |-> IF n = 0 THEN Used(b) ELSE f[n - 1] \cup UNION {Used(c) : c \in f[n - 1]}]
           g == CHOOSE f : Is(f)
<1>1. N \in Nat
  BY Left
<1>2. PICK h : Reaches(h, b, N)
  BY <1>1, ReachExists
<1>3. Is(h)
  <2>1. \A n \in 0..N : n # 0 => n \in 1..N
    BY <1>1
  <2>2. \A n \in 0..N : h[n] = IF n = 0 THEN Used(b) ELSE h[n - 1] \cup UNION {Used(c) : c \in h[n - 1]}
    BY <1>2, <2>1 DEF Reaches, Grow
  <2>3. h = [n \in 0..N |-> h[n]]
    BY <1>2 DEF Reaches
  <2> HIDE DEF N
  <2> QED BY <2>2, <2>3
<1>4. Is(g)
  <2> HIDE DEF Is
  <2> QED BY <1>3
<1> HIDE DEF g
<1>5. /\ DOMAIN g = 0..N /\ g[0] = Used(b) /\ g = [n \in 0..N |-> g[n]]
      /\ \A i \in 1..N : g[i] = Grow(g[i - 1])
  <2>1. \A n \in 0..N : g[n] = IF n = 0 THEN Used(b) ELSE g[n - 1] \cup UNION {Used(c) : c \in g[n - 1]}
    BY <1>4
  <2>2. DOMAIN g = 0..N /\ g = [n \in 0..N |-> g[n]]
    BY <1>4
  <2>3. 0 \in 0..N /\ \A i \in 1..N : i \in 0..N /\ i # 0
    BY <1>1
  <2> HIDE DEF N
  <2> QED BY <2>1, <2>2, <2>3 DEF Grow
<1>6. \A n \in 0..N : g[n] \in SUBSET Boxes
  <2> DEFINE Bad == {n \in 0..N : g[n] \notin SUBSET Boxes}
  <2>1. SUFFICES ASSUME Bad # {} PROVE FALSE
    OBVIOUS
  <2>2. PICK n \in Bad : \A k \in Bad : ~(k < n)
    <3>1. Bad \subseteq Nat
      BY <1>1
    <3> HIDE DEF Bad
    <3> QED BY <2>1, <3>1, Least
  <2>3. n \in 1..N
    BY <1>1, <1>5, UsedAreBoxes
  <2>4. n - 1 \in 0..N /\ n - 1 < n
    BY <1>1, <2>3
  <2>5. g[n - 1] \in SUBSET Boxes
    BY <2>2, <2>4
  <2> QED BY <1>5, <2>3, <2>5, GrowBoxes
<1>7. g \in [0..N -> SUBSET Boxes]
  BY <1>5, <1>6
<1>8. Behind(b) = g[N]
  BY DEF Behind, g
<1> HIDE DEF N
<1> QED BY <1>5, <1>7, <1>8 DEF Reaches, N

LEMMA BehindLeast ==
  ASSUME project \in Project, NEW b \in Boxes, NEW S, Used(b) \subseteq S,
         \A c \in S \cap Boxes : Used(c) \subseteq S
  PROVE  Behind(b) \subseteq S
<1> DEFINE N == Cardinality(Boxes)
<1>1. PICK f : Reaches(f, b, N) /\ Behind(b) = f[N]
  BY BehindReaches
<1>2. N \in Nat
  BY Left
<1> HIDE DEF N
<1> DEFINE Bad == {n \in 0..N : ~(f[n] \subseteq S)}
<1>3. SUFFICES ASSUME Bad # {} PROVE FALSE
  BY <1>1, <1>2
<1>4. PICK n \in Bad : \A k \in Bad : ~(k < n)
  <2>1. Bad \subseteq Nat
    BY <1>2
  <2> HIDE DEF Bad
  <2> QED BY <1>3, <2>1, Least
<1>5. n \in 1..N
  BY <1>1, <1>2 DEF Reaches
<1>6. n - 1 \in 0..N /\ n - 1 < n
  BY <1>2, <1>5
<1>7. f[n - 1] \subseteq S /\ f[n - 1] \subseteq Boxes
  BY <1>1, <1>4, <1>6 DEF Reaches
<1>8. f[n] \subseteq S
  BY <1>1, <1>5, <1>7 DEF Reaches, Grow
<1> QED BY <1>8

LEMMA BehindClosed ==
  ASSUME project \in Project, NEW b \in Boxes
  PROVE  /\ Behind(b) \subseteq Boxes /\ Used(b) \subseteq Behind(b)
         /\ \A c \in Behind(b) : Used(c) \subseteq Behind(b)
<1> DEFINE N == Cardinality(Boxes)
           Closed(X) == \A c \in X : Used(c) \subseteq X
           Wide(X, n) == Used(b) \subseteq X /\ (Closed(X) \/ Cardinality(X) > n)
<1>1. PICK f : Reaches(f, b, N) /\ Behind(b) = f[N]
  BY BehindReaches
<1>2. N \in Nat /\ IsFiniteSet(Boxes)
  BY Left, BuildAssumption
<1>3. ASSUME NEW X \in SUBSET Boxes
      PROVE  IsFiniteSet(X) /\ Cardinality(X) \in Nat /\ Cardinality(X) <= N
  <2>1. IsFiniteSet(X) /\ Cardinality(X) <= N
    BY <1>2, FS_Subset
  <2> QED BY <2>1, FS_CardinalityType
<1> HIDE DEF N
<1>4. \A n \in 0..N : f[n] \in SUBSET Boxes
  BY <1>1 DEF Reaches
<1>5. \A n \in 0..N : Wide(f[n], n)
  <2> DEFINE Bad == {n \in 0..N : ~Wide(f[n], n)}
  <2>1. SUFFICES ASSUME Bad # {} PROVE FALSE
    OBVIOUS
  <2>2. PICK n \in Bad : \A k \in Bad : ~(k < n)
    <3>1. Bad \subseteq Nat
      BY <1>2
    <3> HIDE DEF Bad
    <3> QED BY <2>1, <3>1, Least
  <2>3. CASE n = 0
    <3>1. f[0] = Used(b) /\ f[0] \in SUBSET Boxes /\ 0 \in 0..N
      BY <1>1, <1>2, <1>4 DEF Reaches
    <3>2. ~Closed(f[0]) => f[0] # {}
      OBVIOUS
    <3>3. f[0] # {} => Cardinality(f[0]) # 0
      BY <1>3, <3>1, FS_EmptySet
    <3>4. Cardinality(f[0]) \in Nat
      BY <1>3, <3>1
    <3> HIDE DEF Closed
    <3>5. Closed(f[0]) \/ Cardinality(f[0]) > 0
      BY <3>2, <3>3, <3>4
    <3> QED BY <2>2, <2>3, <3>1, <3>5
  <2>4. CASE n # 0
    <3> DEFINE X == f[n - 1]
               Y == f[n]
    <3>1. n \in 1..N /\ n - 1 \in 0..N /\ n - 1 < n
      BY <1>2, <2>4
    <3>2. Wide(X, n - 1)
      BY <2>2, <3>1
    <3>3. Y = Grow(X) /\ X \in SUBSET Boxes /\ Y \in SUBSET Boxes
      BY <1>1, <1>4, <3>1 DEF Reaches
    <3>4. X \subseteq Y /\ Used(b) \subseteq Y
      BY <3>2, <3>3 DEF Grow
    <3>5. CASE Closed(X)
      <4>1. Y = X
        BY <3>3, <3>5 DEF Grow
      <4> HIDE DEF X, Y
      <4>2. Closed(Y)
        BY <3>5, <4>1
      <4> QED BY <2>2, <3>4, <4>2 DEF Y
    <3>6. CASE ~Closed(X)
      <4>1. X # Y
        BY <3>3, <3>6 DEF Grow
      <4>2. Cardinality(X) > n - 1
        BY <3>2, <3>6
      <4>3. Cardinality(X) <= Cardinality(Y) /\ Cardinality(X) # Cardinality(Y)
        <5>1. IsFiniteSet(Y) /\ X \in SUBSET Y
          BY <1>3, <3>3, <3>4
        <5> HIDE DEF X, Y
        <5> QED BY <4>1, <5>1, FS_Subset
      <4>4. Cardinality(X) \in Nat /\ Cardinality(Y) \in Nat
        BY <1>3, <3>3
      <4>5. Cardinality(Y) > n
        <5> HIDE DEF X, Y
        <5> QED BY <3>1, <4>2, <4>3, <4>4
      <4> QED BY <2>2, <3>4, <4>5
    <3> QED BY <3>5, <3>6
  <2> QED BY <2>3, <2>4
<1>6. Wide(Behind(b), N) /\ Behind(b) \in SUBSET Boxes
  BY <1>1, <1>2, <1>4, <1>5
<1>7. Cardinality(Behind(b)) \in Nat /\ Cardinality(Behind(b)) <= N
  BY <1>3, <1>6
<1>8. Closed(Behind(b))
  <2> HIDE DEF Closed
  <2> QED BY <1>2, <1>6, <1>7
<1> QED BY <1>6, <1>8

\* When some boxes cannot be placed behind the others, one of them is behind itself.
LEMMA Stuck ==
  ASSUME project \in Project, NEW P \in SUBSET Boxes, FreeAfter(P) = {}, P # Boxes
  PROVE  Cyclic
<1> DEFINE R == Boxes \ P
           size(b) == Cardinality(Behind(b))
           Sizes == {size(b) : b \in R}
<1>1. \A b \in R : size(b) \in Nat /\ IsFiniteSet(Behind(b)) /\ Behind(b) \subseteq Boxes
  <2> TAKE b \in R
  <2>1. Behind(b) \subseteq Boxes
    BY BehindClosed
  <2>2. IsFiniteSet(Behind(b))
    BY <2>1, BuildAssumption, FS_Subset
  <2> QED BY <2>1, <2>2, FS_CardinalityType
<1>2. PICK b \in R : \A c \in R : ~(size(c) < size(b))
  <2>1. Sizes \subseteq Nat /\ Sizes # {}
    BY <1>1
  <2>2. PICK n \in Sizes : \A k \in Sizes : ~(k < n)
    <3> HIDE DEF Sizes
    <3> QED BY <2>1, Least
  <2> HIDE DEF size
  <2> QED BY <2>2
<1>3. PICK c \in Used(b) : c \in R
  <2>1. ~(Deps(b) \subseteq P)
    BY DEF FreeAfter
  <2> QED BY <2>1, UsedAreBoxes
<1>4. c \in Behind(b) /\ Behind(c) \subseteq Behind(b)
  <2>1. c \in Behind(b) /\ Used(c) \subseteq Behind(b) /\ \A d \in Behind(b) : Used(d) \subseteq Behind(b)
    BY <1>3, BehindClosed
  <2> QED BY <1>3, <2>1, BehindLeast
<1>5. Behind(c) = Behind(b)
  <2>1. Cardinality(Behind(c)) <= Cardinality(Behind(b))
    BY <1>1, <1>4, FS_Subset
  <2>2. ~(size(c) < size(b)) /\ size(c) \in Nat /\ size(b) \in Nat
    BY <1>1, <1>2, <1>3
  <2>3. Cardinality(Behind(c)) = Cardinality(Behind(b))
    BY <2>1, <2>2
  <2> QED BY <1>1, <1>4, <2>3, FS_Subset
<1> QED BY <1>3, <1>4, <1>5 DEF Cyclic

\* What is behind a box stands before it in the order, ...
LEMMA BehindBefore ==
  ASSUME project \in Project, NEW s \in Seq(Boxes), InOrder(s), Once(s), NEW j \in 1..Len(s)
  PROVE  \A b \in Behind(s[j]) : \E k \in 1..(j - 1) : b = s[k]
<1> DEFINE S == {s[k] : k \in 1..(j - 1)}
<1>1. s[j] \in Boxes /\ Used(s[j]) \subseteq S
  <2>1. s[j] \in Boxes
    OBVIOUS
  <2>2. Deps(s[j]) \subseteq S
    BY DEF InOrder
  <2> QED BY <2>1, <2>2, UsedAreBoxes
<1>2. ASSUME NEW c \in S PROVE Used(c) \subseteq S
  <2>1. PICK k \in 1..(j - 1) : c = s[k]
    OBVIOUS
  <2>2. k \in 1..Len(s) /\ c \in Boxes
    BY <2>1
  <2>3. Deps(c) \subseteq {s[i] : i \in 1..(k - 1)}
    BY <2>1, <2>2 DEF InOrder
  <2>4. 1..(k - 1) \subseteq 1..(j - 1)
    OBVIOUS
  <2> QED BY <2>2, <2>3, <2>4, UsedAreBoxes
<1> HIDE DEF S
<1>3. Behind(s[j]) \subseteq S
  BY <1>1, <1>2, BehindLeast
<1> QED BY <1>3 DEF S

\* ... and in an earlier level.
LEMMA BehindLevels ==
  ASSUME project \in Project, NEW l \in Seq(SUBSET Boxes), LevelsInOrder(l), NEW j \in 1..Len(l), NEW c \in l[j]
  PROVE  \A b \in Behind(c) : \E k \in 1..(j - 1) : b \in l[k]
<1> DEFINE S == UNION {l[k] : k \in 1..(j - 1)}
<1>1. c \in Boxes /\ Used(c) \subseteq S
  <2>1. c \in Boxes /\ Deps(c) \subseteq S
    BY DEF LevelsInOrder
  <2> QED BY <2>1, UsedAreBoxes
<1>2. ASSUME NEW d \in S PROVE Used(d) \subseteq S
  <2>1. PICK k \in 1..(j - 1) : d \in l[k]
    OBVIOUS
  <2>2. k \in 1..Len(l) /\ d \in Boxes /\ Deps(d) \subseteq UNION {l[i] : i \in 1..(k - 1)}
    BY <2>1 DEF LevelsInOrder
  <2>3. 1..(k - 1) \subseteq 1..(j - 1)
    OBVIOUS
  <2> QED BY <2>2, <2>3, UsedAreBoxes
<1> HIDE DEF S
<1>3. Behind(c) \subseteq S
  BY <1>1, <1>2, BehindLeast
<1> QED BY <1>3 DEF S

\* topoSort fails just if there is a cycle, and so does topoLevels.
LEMMA SortFails ==
  ASSUME project \in Project
  PROVE  (Len(TopoSort) # Cardinality(Boxes)) <=> Cyclic
<1> DEFINE s == TopoSort
<1>1. s \in Seq(Boxes) /\ InOrder(s) /\ Once(s) /\ FreeAfter(ToSet(s)) = {}
  BY SortFacts
<1> HIDE DEF s
<1>2. ToSet(s) \in SUBSET Boxes /\ ToSet(s) = {s[i] : i \in 1..Len(s)}
  BY <1>1 DEF ToSet
<1>3. Cardinality(ToSet(s)) = Len(s)
  <2>1. s \in Bijection(1..Len(s), ToSet(s))
    <3>1. s \in [1..Len(s) -> ToSet(s)]
      BY <1>1, <1>2
    <3>2. \A i, j \in 1..Len(s) : i # j => s[i] # s[j]
      BY <1>1 DEF Once
    <3>3. \A x \in ToSet(s) : \E i \in 1..Len(s) : s[i] = x
      BY <1>2
    <3> QED BY <3>1, <3>2, <3>3 DEF Bijection, Injection, Surjection, IsInjective
  <2>2. ExistsBijection(1..Len(s), ToSet(s))
    BY <2>1 DEF ExistsBijection
  <2>3. Len(s) \in Nat /\ IsFiniteSet(ToSet(s))
    BY <1>1, <1>2, BuildAssumption, FS_Subset, SMTT(30)
  <2> QED BY <2>2, <2>3, FS_CountingElements
<1>4. Len(s) # Cardinality(Boxes) <=> ToSet(s) # Boxes
  BY <1>2, <1>3, BuildAssumption, FS_Subset
<1>5. ToSet(s) # Boxes => Cyclic
  BY <1>1, <1>2, Stuck
<1>6. ASSUME ToSet(s) = Boxes, Cyclic PROVE FALSE
  <2>1. PICK b \in Boxes : b \in Behind(b)
    BY <1>6 DEF Cyclic
  <2>2. PICK j \in 1..Len(s) : b = s[j]
    BY <1>2, <1>6
  <2>3. PICK k \in 1..(j - 1) : b = s[k]
    BY <1>1, <2>1, <2>2, BehindBefore, ZenonT(60)
  <2>4. k \in 1..Len(s) /\ k # j
    BY <2>3
  <2> QED BY <1>1, <2>2, <2>3, <2>4 DEF Once
<1> QED BY <1>4, <1>5, <1>6 DEF s

LEMMA LevelsFail ==
  ASSUME project \in Project
  PROVE  (Cardinality(UNION ToSet(TopoLevels)) # Cardinality(Boxes)) <=> Cyclic
<1> DEFINE l == TopoLevels
           P == UNION ToSet(l)
<1>1. l \in Seq(SUBSET Boxes) /\ LevelsInOrder(l) /\ Disjoint(l) /\ FreeAfter(P) = {}
  BY LevelFacts
<1> HIDE DEF l
<1>2. P \in SUBSET Boxes /\ \A b \in P : \E i \in 1..Len(l) : b \in l[i]
  BY <1>1 DEF ToSet
<1>3. Cardinality(P) # Cardinality(Boxes) <=> P # Boxes
  BY <1>2, BuildAssumption, FS_Subset
<1>4. P # Boxes => Cyclic
  BY <1>1, <1>2, Stuck
<1>5. ASSUME P = Boxes, Cyclic PROVE FALSE
  <2>1. PICK b \in Boxes : b \in Behind(b)
    BY <1>5 DEF Cyclic
  <2>2. PICK j \in 1..Len(l) : b \in l[j]
    BY <1>2, <1>5
  <2>3. PICK k \in 1..(j - 1) : b \in l[k]
    BY <1>1, <2>1, <2>2, BehindLevels
  <2>4. k \in 1..Len(l) /\ k # j
    BY <2>3
  <2> QED BY <1>1, <2>2, <2>3, <2>4 DEF Disjoint
<1> QED BY <1>3, <1>4, <1>5 DEF l

LEMMA OrderIsSound ==
  ASSUME project \in Project
  PROVE  OrderSound
<1> DEFINE s == TopoSort
           l == TopoLevels
<1>1. CycleError({}) <=> Cyclic
  BY LevelsFail DEF CycleError
<1>2. CycleError(Boxes) <=> Cyclic
  BY SortFails, LevelsFail DEF CycleError
<1>3. s \in Seq(Boxes) /\ InOrder(s) /\ Once(s)
  BY SortFacts
<1>4. l \in Seq(SUBSET Boxes) /\ LevelsInOrder(l) /\ Disjoint(l)
  BY LevelFacts
<1> HIDE DEF s, l
<1>5. ASSUME NEW i \in 1..Len(s), NEW j \in 1..Len(s), s[i] \in Behind(s[j]) \/ s[i] = s[j]
      PROVE  i <= j
  <2>1. CASE s[i] = s[j]
    <3>1. i = j
      BY <1>3, <2>1 DEF Once
    <3> QED BY <3>1
  <2>2. CASE s[i] \in Behind(s[j])
    <3>1. PICK k \in 1..(j - 1) : s[i] = s[k]
      BY <1>3, <2>2, BehindBefore
    <3>2. k \in 1..Len(s)
      OBVIOUS
    <3>3. i = k
      BY <1>3, <3>1, <3>2 DEF Once
    <3> QED BY <3>3
  <2> QED BY <1>5, <2>1, <2>2
<1>6. ASSUME NEW i \in 1..Len(l), NEW j \in 1..Len(l), NEW b \in l[i], NEW c \in l[j], b \in Behind(c)
      PROVE  i < j
  <2>1. PICK k \in 1..(j - 1) : b \in l[k]
    BY <1>4, <1>6, BehindLevels
  <2>2. k \in 1..Len(l)
    OBVIOUS
  <2>3. i = k
    BY <1>4, <2>1, <2>2 DEF Disjoint
  <2> QED BY <2>3
<1> QED BY <1>1, <1>2, <1>5, <1>6 DEF OrderSound, s, l

\* topoSort and topoLevels fail just if a box is behind itself; otherwise, for any boxes and
\* dependencies, they place every box once, and behind all that is behind it.
THEOREM OrdersSound == Spec => []OrderSound
<1>1. Init => project \in Project
  BY BuildAssumption, SMTT(30) DEF Init
<1>2. project \in Project /\ [Next]_vars => (project \in Project)'
  BY ZenonT(60) DEF Next, vars, AllDone, Step, Start, Exchange, Rename, Order, NextLevel, Fails, Finish, Take,
         BuildBegins, BuildEnds, Kill
<1>3. project \in Project => OrderSound
  BY OrderIsSound
<1> QED BY <1>1, <1>2, <1>3, PTL DEF Spec

-----------------------------------------------------------------------------
(* A build runs when what it is built from is there.                       *)

\* The boxes of a process that are to be built at once.
Current(r) == r.queue \cup r.waits \cup r.builds

\* The images a process at version v counts on, for its state r and the images im: what it builds
\* now has them, and what is to be built later gets them before, as long as no build failed.
Typed(r) == /\ r.todo \in Seq(SUBSET Boxes) /\ r.request \in SUBSET Boxes /\ Current(r) \subseteq Boxes
Ready(r, v, im) == \A b \in Current(r) : \A c \in Used(b) : v \in im[c]
Later(r, v, im) ==
  r.failed \/ \A i \in 1..Len(r.todo) : \A b \in r.todo[i] : \A c \in Used(b) :
                v \in im[c] \/ c \in Current(r) \/ \E j \in 1..(i - 1) : c \in r.todo[j]
Counts(r, v, im) == Typed(r) /\ Ready(r, v, im) /\ Later(r, v, im)

Grown(im, jm) == \A c \in Boxes : im[c] \subseteq jm[c]

\* A step that leaves the boxes of the process where they are, or starts some of its level.
LEMMA Stays ==
  ASSUME project \in Project, NEW r, NEW s, NEW v, NEW im, NEW jm, Grown(im, jm), Counts(r, v, im),
         s.todo = r.todo, s.request \in SUBSET Boxes, s.failed = r.failed, Current(s) = Current(r)
  PROVE  Counts(s, v, jm)
<1>1. \A b \in Boxes : Used(b) \subseteq Boxes
  BY UsedDeps, DepsAreBoxes
<1>2. Typed(s)
  BY DEF Counts, Typed
<1>3. Ready(s, v, jm)
  BY <1>1 DEF Counts, Typed, Ready, Grown
<1>4. \A i \in 1..Len(r.todo) : r.todo[i] \in SUBSET Boxes
  BY DEF Counts, Typed
<1>5. Later(s, v, jm)
  BY <1>1, <1>4 DEF Counts, Later, Grown
<1> QED BY <1>2, <1>3, <1>5 DEF Counts

\* The next level: the builds of the one before are all through.
LEMMA LevelCounts ==
  ASSUME project \in Project, NEW r, NEW s, NEW v, NEW im, Counts(r, v, im),
         ~r.failed, r.todo # <<>>, Current(r) = {},
         s.todo = Tail(r.todo), s.request = r.request, Current(s) = Head(r.todo)
  PROVE  Counts(s, v, im)
<1>1. /\ r.todo \in Seq(SUBSET Boxes) /\ Len(r.todo) \in Nat \ {0}
      /\ s.todo \in Seq(SUBSET Boxes) /\ Len(s.todo) = Len(r.todo) - 1
      /\ Current(s) = r.todo[1] /\ r.todo[1] \in SUBSET Boxes
      /\ \A i \in 1..Len(s.todo) : s.todo[i] = r.todo[i + 1]
  BY DEF Counts, Typed
<1>2. Typed(s)
  BY <1>1 DEF Counts, Typed
<1>3. ASSUME NEW i \in 1..Len(r.todo), NEW b \in r.todo[i], NEW c \in Used(b)
      PROVE  v \in im[c] \/ \E j \in 1..(i - 1) : c \in r.todo[j]
  BY DEF Counts, Later
<1>4. Ready(s, v, im)
  <2>1. 1 \in 1..Len(r.todo) /\ 1..(1 - 1) = {}
    BY <1>1
  <2> QED BY <2>1, <1>1, <1>3 DEF Ready
<1>5. ASSUME NEW i \in 1..Len(s.todo), NEW b \in s.todo[i], NEW c \in Used(b)
      PROVE  v \in im[c] \/ c \in Current(s) \/ \E j \in 1..(i - 1) : c \in s.todo[j]
  <2>1. i + 1 \in 1..Len(r.todo) /\ b \in r.todo[i + 1]
    BY <1>1
  <2>2. CASE v \in im[c]
    BY <2>2
  <2>3. CASE v \notin im[c]
    <3>1. PICK j \in 1..i : c \in r.todo[j]
      BY <2>1, <2>3, <1>3
    <3>2. CASE j = 1
      BY <3>1, <3>2, <1>1
    <3>3. CASE j # 1
      <4>1. j - 1 \in 1..(i - 1) /\ j - 1 \in 1..Len(s.todo) /\ s.todo[j - 1] = r.todo[j]
        BY <3>1, <3>3, <1>1
      <4> QED BY <3>1, <4>1
    <3> QED BY <3>2, <3>3
  <2> QED BY <2>2, <2>3
<1>6. Later(s, v, im)
  BY <1>5 DEF Later
<1> QED BY <1>2, <1>4, <1>6 DEF Counts

\* A build ends: with its image, or as a failure after which no other level follows.
LEMMA EndCounts ==
  ASSUME project \in Project, NEW r, NEW s, NEW v, NEW im, NEW jm, Grown(im, jm), Counts(r, v, im),
         NEW b \in Boxes, s.todo = r.todo, s.request = r.request,
         Current(s) \subseteq Current(r), Current(r) \subseteq Current(s) \cup {b},
         s.failed \/ (s.failed = r.failed /\ v \in jm[b])
  PROVE  Counts(s, v, jm)
<1>1. \A c \in Boxes : Used(c) \subseteq Boxes
  BY UsedDeps, DepsAreBoxes
<1>2. Typed(s)
  BY DEF Counts, Typed
<1>3. Ready(s, v, jm)
  BY <1>1 DEF Counts, Typed, Ready, Grown
<1>4. \A i \in 1..Len(r.todo) : r.todo[i] \in SUBSET Boxes
  BY DEF Counts, Typed
<1>5. ASSUME ~s.failed, NEW i \in 1..Len(r.todo), NEW a \in r.todo[i], NEW c \in Used(a)
      PROVE  v \in jm[c] \/ c \in Current(s) \/ \E j \in 1..(i - 1) : c \in r.todo[j]
  <2>1. c \in Boxes
    BY <1>1, <1>4
  <2>2. v \in im[c] \/ c \in Current(r) \/ \E j \in 1..(i - 1) : c \in r.todo[j]
    BY <1>5 DEF Counts, Later
  <2> QED BY <2>1, <2>2, <1>5 DEF Grown
<1>6. Later(s, v, jm)
  BY <1>5 DEF Later
<1> QED BY <1>2, <1>3, <1>6 DEF Counts

\* A new plan for a process that builds nothing yet.
LEMMA PlanCounts ==
  ASSUME project \in Project, NEW r, NEW s, NEW v, NEW im, Counts(r, v, im),
         s.todo = Plan(r.request), s.request = r.request, Current(s) = Current(r)
  PROVE  Counts(s, v, im)
<1>1. s.todo \in Seq(SUBSET Boxes) /\ Sound(s.todo)
  BY PlanSound DEF Counts, Typed
<1>2. Typed(s)
  BY <1>1 DEF Counts, Typed
<1>3. Ready(s, v, im)
  BY DEF Counts, Ready
<1>4. Later(s, v, im)
  BY <1>1 DEF Sound, Later
<1> QED BY <1>2, <1>3, <1>4 DEF Counts

-----------------------------------------------------------------------------
DepsInv == /\ Shaped /\ project \in Projects /\ DOMAIN images = Boxes
           /\ \A p \in Procs : Counts(proc[p], Ver[p], images)

LEMMA DepsInit == Init => DepsInv
<1> SUFFICES ASSUME Init PROVE DepsInv
  OBVIOUS
<1>1. Shaped
  BY LockInit DEF LockInv
<1>2. proc = [p \in Procs |-> Idle] /\ DOMAIN images = Boxes /\ project \in Projects
  BY DEF Init
<1>3. ASSUME NEW v, NEW im PROVE Counts(Idle, v, im)
  BY DEF Idle, Counts, Typed, Ready, Later, Current
<1> QED BY <1>1, <1>2, <1>3 DEF DepsInv

\* What a step of a process must do: its next state counts on images that are there, and images
\* are never taken away.
Moves(p, rec) == /\ Set(p, rec) /\ DOMAIN rec = Fields /\ rec = [f \in Fields |-> rec[f]]
                 /\ Counts(rec, Ver[p], images')
Fair(p) == /\ project' = project /\ DOMAIN images' = Boxes /\ Grown(images, images')
           /\ \E rec : Moves(p, rec)

\* A process is where it was, or starts some of its level.
LEMMA StaysFair ==
  ASSUME DepsInv, NEW p \in Procs, NEW rec, Set(p, rec), DOMAIN rec = Fields, rec = [f \in Fields |-> rec[f]],
         UNCHANGED <<project, images>>, rec.todo = proc[p].todo, rec.request \in SUBSET Boxes,
         rec.failed = proc[p].failed, Current(rec) = Current(proc[p])
  PROVE  Fair(p)
<1>1. Grown(images, images) /\ project \in Project /\ Counts(proc[p], Ver[p], images)
  BY BuildAssumption DEF Grown, DepsInv
<1>2. Counts(rec, Ver[p], images)
  BY <1>1, Stays
<1> QED BY <1>1, <1>2 DEF Fair, Moves, DepsInv

LEMMA StartFair ==
  ASSUME DepsInv, NEW p \in Procs, Start(p)
  PROVE  Fair(p)
<1>1. PICK request \in SUBSET Boxes : Set(p, [proc[p] EXCEPT !.pc = "exchange", !.request = request])
  BY DEF Start
<1> DEFINE r == proc[p]
           rec == [r EXCEPT !.pc = "exchange", !.request = request]
<1>2. Shaped /\ UNCHANGED <<project, images>> /\ Set(p, rec)
  BY <1>1 DEF DepsInv, Start
<1>3. /\ DOMAIN rec = Fields /\ rec = [f \in Fields |-> rec[f]]
      /\ rec.todo = r.todo /\ rec.request = request /\ rec.failed = r.failed /\ Current(rec) = Current(r)
  BY <1>2 DEF Shaped, Fields, Current
<1> HIDE DEF rec
<1> QED BY <1>2, <1>3, StaysFair

LEMMA ExchangeFair ==
  ASSUME DepsInv, NEW p \in Procs, Exchange(p)
  PROVE  Fair(p)
<1> DEFINE r == proc[p]
           rec == [r EXCEPT !.pc = IF Ver[p] \in staged THEN "order" ELSE "rename"]
<1>1. /\ Shaped /\ r.request \in SUBSET Boxes /\ UNCHANGED <<project, images>>
      /\ Set(p, rec)
  BY DEF DepsInv, Counts, Typed, Exchange
<1>2. /\ DOMAIN rec = Fields /\ rec = [f \in Fields |-> rec[f]]
      /\ rec.todo = r.todo /\ rec.request = r.request /\ rec.failed = r.failed /\ Current(rec) = Current(r)
  BY <1>1 DEF Shaped, Fields, Current
<1> HIDE DEF rec
<1> QED BY <1>1, <1>2, StaysFair

LEMMA RenameFair ==
  ASSUME DepsInv, NEW p \in Procs, Rename(p)
  PROVE  Fair(p)
<1> DEFINE r == proc[p]
           rec == [r EXCEPT !.pc = "order"]
<1>1. /\ Shaped /\ r.request \in SUBSET Boxes /\ UNCHANGED <<project, images>>
      /\ Set(p, rec)
  BY DEF DepsInv, Counts, Typed, Rename
<1>2. /\ DOMAIN rec = Fields /\ rec = [f \in Fields |-> rec[f]]
      /\ rec.todo = r.todo /\ rec.request = r.request /\ rec.failed = r.failed /\ Current(rec) = Current(r)
  BY <1>1 DEF Shaped, Fields, Current
<1> HIDE DEF rec
<1> QED BY <1>1, <1>2, StaysFair

LEMMA FailsFair ==
  ASSUME DepsInv, NEW p \in Procs, Fails(p)
  PROVE  Fair(p)
<1> DEFINE r == proc[p]
           rec == [r EXCEPT !.pc = "failed"]
<1>1. /\ Shaped /\ r.request \in SUBSET Boxes /\ UNCHANGED <<project, images>>
      /\ Set(p, rec)
  BY DEF DepsInv, Counts, Typed, Fails
<1>2. /\ DOMAIN rec = Fields /\ rec = [f \in Fields |-> rec[f]]
      /\ rec.todo = r.todo /\ rec.request = r.request /\ rec.failed = r.failed /\ Current(rec) = Current(r)
  BY <1>1 DEF Shaped, Fields, Current
<1> HIDE DEF rec
<1> QED BY <1>1, <1>2, StaysFair

LEMMA FinishFair ==
  ASSUME DepsInv, NEW p \in Procs, Finish(p)
  PROVE  Fair(p)
<1> DEFINE r == proc[p]
           rec == [r EXCEPT !.pc = "done"]
<1>1. /\ Shaped /\ r.request \in SUBSET Boxes /\ UNCHANGED <<project, images>>
      /\ Set(p, rec)
  BY DEF DepsInv, Counts, Typed, Finish
<1>2. /\ DOMAIN rec = Fields /\ rec = [f \in Fields |-> rec[f]]
      /\ rec.todo = r.todo /\ rec.request = r.request /\ rec.failed = r.failed /\ Current(rec) = Current(r)
  BY <1>1 DEF Shaped, Fields, Current
<1> HIDE DEF rec
<1> QED BY <1>1, <1>2, StaysFair

LEMMA TakeFair ==
  ASSUME DepsInv, NEW p \in Procs, NEW b \in Boxes, Take(p, b)
  PROVE  Fair(p)
<1> DEFINE r == proc[p]
           rec == [r EXCEPT !.queue = @ \ {b}, !.waits = @ \cup {b}]
<1>1. /\ Shaped /\ r.request \in SUBSET Boxes /\ UNCHANGED <<project, images>>
      /\ Set(p, rec) /\ b \in r.queue
  BY DEF DepsInv, Counts, Typed, Take
<1>2. /\ DOMAIN rec = Fields /\ rec = [f \in Fields |-> rec[f]]
      /\ rec.todo = r.todo /\ rec.request = r.request /\ rec.failed = r.failed /\ Current(rec) = Current(r)
  BY <1>1 DEF Shaped, Fields, Current
<1> HIDE DEF rec
<1> QED BY <1>1, <1>2, StaysFair

LEMMA BeginsFair ==
  ASSUME DepsInv, NEW p \in Procs, NEW b \in Boxes, BuildBegins(p, b)
  PROVE  Fair(p)
<1> DEFINE r == proc[p]
           rec == [r EXCEPT !.waits = @ \ {b}, !.builds = @ \cup {b},
                              !.cold = IF Ver[p] \in images[b] THEN @ ELSE @ \cup {b}]
<1>1. /\ Shaped /\ r.request \in SUBSET Boxes /\ UNCHANGED <<project, images>>
      /\ Set(p, rec) /\ b \in r.waits
  BY DEF DepsInv, Counts, Typed, BuildBegins
<1>2. /\ DOMAIN rec = Fields /\ rec = [f \in Fields |-> rec[f]]
      /\ rec.todo = r.todo /\ rec.request = r.request /\ rec.failed = r.failed /\ Current(rec) = Current(r)
  BY <1>1, ZenonT(60) DEF Shaped, Fields, Current
<1> HIDE DEF rec
<1> QED BY <1>1, <1>2, StaysFair

LEMMA OrderFair ==
  ASSUME DepsInv, NEW p \in Procs, Order(p)
  PROVE  Fair(p)
<1> DEFINE r == proc[p]
           cycle == [r EXCEPT !.pc = "cycle"]
           build == [r EXCEPT !.pc = "build", !.todo = Plan(r.request)]
<1>1. /\ Shaped /\ r.request \in SUBSET Boxes /\ UNCHANGED <<project, images>> /\ (Set(p, cycle) \/ Set(p, build))
      /\ project \in Project /\ Counts(r, Ver[p], images) /\ Grown(images, images)
  BY BuildAssumption DEF DepsInv, Counts, Typed, Order, Grown
<1>2. /\ DOMAIN cycle = Fields /\ cycle = [f \in Fields |-> cycle[f]]
      /\ cycle.todo = r.todo /\ cycle.request = r.request /\ cycle.failed = r.failed /\ Current(cycle) = Current(r)
  BY <1>1 DEF Shaped, Fields, Current
<1>3. /\ DOMAIN build = Fields /\ build = [f \in Fields |-> build[f]]
      /\ build.todo = Plan(r.request) /\ build.request = r.request /\ Current(build) = Current(r)
  BY <1>1 DEF Shaped, Fields, Current
<1> HIDE DEF cycle, build
<1>4. CASE Set(p, cycle)
  BY <1>1, <1>2, <1>4, StaysFair
<1>5. CASE Set(p, build)
  <2>1. Counts(build, Ver[p], images)
    BY <1>1, <1>3, PlanCounts
  <2> QED BY <1>1, <1>3, <1>5, <2>1 DEF Fair, Moves, DepsInv
<1> QED BY <1>1, <1>4, <1>5

LEMMA LevelFair ==
  ASSUME DepsInv, NEW p \in Procs, NextLevel(p)
  PROVE  Fair(p)
<1> DEFINE r == proc[p]
           rec == [r EXCEPT !.queue = Head(r.todo), !.todo = Tail(@)]
<1>1. /\ Shaped /\ UNCHANGED <<project, images>> /\ Set(p, rec)
      /\ ~r.failed /\ r.todo # <<>> /\ r.queue = {} /\ r.waits = {} /\ r.builds = {}
      /\ project \in Project /\ Counts(r, Ver[p], images) /\ Grown(images, images)
  BY BuildAssumption DEF DepsInv, NextLevel, Between, Grown
<1>2. /\ DOMAIN rec = Fields /\ rec = [f \in Fields |-> rec[f]] /\ Current(r) = {}
      /\ rec.todo = Tail(r.todo) /\ rec.request = r.request /\ Current(rec) = Head(r.todo)
  BY <1>1 DEF Shaped, Fields, Current
<1> HIDE DEF rec
<1>3. Counts(rec, Ver[p], images)
  BY <1>1, <1>2, LevelCounts
<1> QED BY <1>1, <1>2, <1>3 DEF Fair, Moves, DepsInv

LEMMA EndsFair ==
  ASSUME DepsInv, NEW p \in Procs, NEW b \in Boxes, BuildEnds(p, b)
  PROVE  Fair(p)
<1> DEFINE r == proc[p]
           good == [r EXCEPT !.builds = @ \ {b}, !.cold = @ \ {b}]
           bad  == [r EXCEPT !.builds = @ \ {b}, !.cold = @ \ {b}, !.failed = TRUE]
<1>1. /\ Shaped /\ project' = project /\ b \in r.builds /\ DOMAIN images = Boxes
      /\ project \in Project /\ Counts(r, Ver[p], images)
      /\ \/ images' = [images EXCEPT ![b] = @ \cup {Ver[p]}] /\ Set(p, good)
         \/ images' = images /\ Set(p, bad)
  BY BuildAssumption DEF DepsInv, BuildEnds
<1>2. /\ DOMAIN good = Fields /\ good = [f \in Fields |-> good[f]]
      /\ good.todo = r.todo /\ good.request = r.request /\ good.failed = r.failed
      /\ Current(good) \subseteq Current(r) /\ Current(r) \subseteq Current(good) \cup {b}
  BY <1>1 DEF Shaped, Fields, Current
<1>3. /\ DOMAIN bad = Fields /\ bad = [f \in Fields |-> bad[f]]
      /\ bad.todo = r.todo /\ bad.request = r.request /\ bad.failed
      /\ Current(bad) \subseteq Current(r) /\ Current(r) \subseteq Current(bad) \cup {b}
  BY <1>1, ZenonT(60) DEF Shaped, Fields, Current
<1> HIDE DEF good, bad
<1>4. Grown(images, images') /\ DOMAIN images' = Boxes
  BY <1>1 DEF Grown
<1>5. CASE images' = [images EXCEPT ![b] = @ \cup {Ver[p]}] /\ Set(p, good)
  <2>1. Ver[p] \in images'[b]
    BY <1>1, <1>5
  <2>2. Counts(good, Ver[p], images')
    BY <1>1, <1>2, <1>4, <2>1, EndCounts
  <2> QED BY <1>1, <1>2, <1>4, <1>5, <2>2 DEF Fair, Moves
<1>6. CASE images' = images /\ Set(p, bad)
  <2>1. Counts(bad, Ver[p], images')
    BY <1>1, <1>3, <1>4, EndCounts
  <2> QED BY <1>1, <1>3, <1>4, <1>6, <2>1 DEF Fair, Moves
<1> QED BY <1>1, <1>5, <1>6

LEMMA KillFair ==
  ASSUME DepsInv, NEW p \in Procs, Kill(p)
  PROVE  Fair(p)
<1> DEFINE rec == [Idle EXCEPT !.pc = "killed"]
<1>1. UNCHANGED <<project, images>> /\ Set(p, rec) /\ Grown(images, images)
  BY DEF Kill, Grown
<1>2. DOMAIN rec = Fields /\ rec = [f \in Fields |-> rec[f]]
  BY DEF Idle, Fields
<1>3. Counts(rec, Ver[p], images)
  BY DEF Idle, Counts, Typed, Ready, Later, Current
<1> HIDE DEF rec
<1> QED BY <1>1, <1>2, <1>3 DEF Fair, Moves, DepsInv

\* Only the process of a step changes what it counts on.
LEMMA FairStep ==
  ASSUME DepsInv, NEW p \in Procs, Fair(p)
  PROVE  DepsInv'
<1>1. PICK rec : Moves(p, rec)
  BY DEF Fair
<1>2. Shaped' /\ proc'[p] = rec /\ \A q \in Procs \ {p} : proc'[q] = proc[q]
  <2>1. Shaped /\ Set(p, rec) /\ DOMAIN rec = Fields /\ rec = [f \in Fields |-> rec[f]]
    BY <1>1 DEF DepsInv, Moves
  <2> QED BY <2>1, SetProc
<1>3. /\ project' = project /\ project \in Projects /\ project \in Project
      /\ DOMAIN images' = Boxes /\ Grown(images, images')
  BY BuildAssumption DEF Fair, DepsInv
<1>4. ASSUME NEW q \in Procs PROVE Counts(proc'[q], Ver[q], images')
  <2>1. CASE q = p
    BY <1>1, <1>2, <2>1 DEF Moves
  <2>2. CASE q # p
    <3>1. Counts(proc[q], Ver[q], images) /\ proc'[q] = proc[q] /\ proc[q].request \in SUBSET Boxes
      BY <1>2, <2>2 DEF DepsInv, Counts, Typed
    <3> QED BY <1>3, <3>1, Stays
  <2> QED BY <2>1, <2>2
<1>5. \A b : Used(b)' = Used(b)
  BY <1>3 DEF Used
<1>6. ASSUME NEW q \in Procs PROVE Counts(proc[q], Ver[q], images)'
  BY <1>4, <1>5 DEF Counts, Typed, Ready, Later, Current
<1> QED BY <1>2, <1>3, <1>6 DEF DepsInv

LEMMA DepsNext == DepsInv /\ [Next]_vars => DepsInv'
<1> SUFFICES ASSUME DepsInv, [Next]_vars PROVE DepsInv'
  OBVIOUS
<1>1. ASSUME UNCHANGED vars PROVE DepsInv'
  BY <1>1 DEF DepsInv, vars, Shaped, Counts, Typed, Ready, Later, Current, Used
<1>2. ASSUME NEW p \in Procs, Step(p) PROVE DepsInv'
  <2>1. ASSUME NEW b \in Boxes, Take(p, b) \/ BuildBegins(p, b) \/ BuildEnds(p, b)
        PROVE  Fair(p)
    BY <2>1, TakeFair, BeginsFair, EndsFair
  <2> QED BY <1>2, <2>1, FairStep, StartFair, ExchangeFair, RenameFair, OrderFair, LevelFair,
             FailsFair, FinishFair DEF Step
<1>3. ASSUME NEW p \in Procs, Kill(p) PROVE DepsInv'
  BY <1>3, KillFair, FairStep
<1> QED BY <1>1, <1>2, <1>3 DEF Next, AllDone

\* Whatever the dependencies and the request, a build begins only when all that it is built from
\* is there at the version of its process (boxDirectDeps, filterBox, the levels of build.go).
THEOREM DepsBuilt == Spec => []DepsFirst
<1>1. DepsInv => DepsFirst
  BY DEF DepsInv, Counts, Ready, Current, DepsFirst
<1> QED BY <1>1, DepsInit, DepsNext, PTL DEF Spec
=============================================================================
