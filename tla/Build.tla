-------------------------------- MODULE Build --------------------------------
(***************************************************************************)
(* `charly box build` by several processes in one project: the order of    *)
(* the boxes (charly/graph.go), the builds with their locks                *)
(* (charly/build.go) and the staged copies of remote candies               *)
(* (charly/generate.go, charly/build_stage_atomic.go, charly/clean.go).    *)
(*                                                                         *)
(* The processes may resolve the candies at different versions; a version  *)
(* stands for all that a process takes from its configuration.             *)
(***************************************************************************)
EXTENDS Integers, FiniteSets, FiniteSetsExt, Sequences, SequencesExt

CONSTANTS
  Procs,    \* processes, each one build
  Boxes,    \* the names of the boxes, numbered in the order of their names
  Projects, \* what the boxes may depend on
  Versions, \* numbers
  Ver,      \* [Procs -> Versions]  the version a process resolves
  Staged,   \* the versions an earlier build has staged
  Keep,     \* keep_images, 0 for no pruning
  Jobs      \* builds of one process at a time

External == 0

Project == [base      : [Boxes -> Boxes \cup {External}],
            builder   : [Boxes -> SUBSET Boxes],
            bootstrap : [Boxes -> Boxes \cup {External}],
            needs     : [Boxes -> BOOLEAN]]

ASSUME BuildAssumption ==
  /\ IsFiniteSet(Boxes) /\ Boxes \subseteq Nat \ {0}
  /\ Projects \subseteq Project
  /\ IsFiniteSet(Versions) /\ Versions \subseteq Nat /\ Ver \in [Procs -> Versions]
  /\ Staged \subseteq Versions
  /\ Keep \in Nat /\ Jobs \in Nat \ {0}
  /\ 0 \notin Procs

VARIABLES
  project, \* one of Projects
  staged,  \* the versions with a directory under .build/_candy
  lock,    \* [Boxes -> Procs \cup {0}]  .build/.locks/<box>.lock
  images,  \* [Boxes -> SUBSET Versions] the images in local storage
  proc     \* [Procs -> ...]             the local state of the builds

vars == <<project, staged, lock, images, proc>>

Idle == [pc |-> "start", request |-> {}, todo |-> <<>>, queue |-> {}, waits |-> {},
         builds |-> {}, cold |-> {}, failed |-> FALSE]

Init ==
  /\ project \in Projects
  /\ staged = Staged
  /\ lock = [b \in Boxes |-> 0]
  /\ images = [b \in Boxes |-> {}]
  /\ proc = [p \in Procs |-> Idle]

-----------------------------------------------------------------------------
(* graph.go.                                                               *)

\* boxDirectDeps: what must be built before b.
DirectDeps_bug(b, formatBuilders) ==
  (IF project.base[b] # External THEN {project.base[b]} ELSE {})
  \cup (IF formatBuilders THEN project.builder[b] \ {b} ELSE {})

DirectDeps(b, formatBuilders) ==
  (IF project.base[b] # External THEN {project.base[b]} ELSE {})
  \cup (IF formatBuilders THEN project.builder[b] \ {b} ELSE {})
  \cup ({project.bootstrap[b]} \ {b, External})

\* A format builder counts only where a candy of the box itself needs one.
Deps(b) == DirectDeps(b, project.needs[b])

\* topoSort: of the boxes whose dependencies are all placed, the first by name comes next.
TopoSort ==
  LET f[s \in Seq(Boxes)] ==
        LET free == {b \in Boxes \ ToSet(s) : Deps(b) \subseteq ToSet(s)}
        IN  IF free = {} THEN s ELSE f[Append(s, Min(free))]
  IN  f[<<>>]

\* topoLevels: all of them come next, at once.
TopoLevels ==
  LET f[ls \in Seq(SUBSET Boxes)] ==
        LET placed == UNION ToSet(ls)
            free   == {b \in Boxes \ placed : Deps(b) \subseteq placed}
        IN  IF free = {} THEN ls ELSE f[Append(ls, free)]
  IN  f[<<>>]

Filter_bug(order, request) ==
  LET needed == {b \in Boxes : \A S \in SUBSET Boxes :
                   request \subseteq S /\ (\A c \in S : ({project.base[c]} \ {External}) \cup project.builder[c] \subseteq S)
                   => b \in S}
  IN  [i \in 1..Len(order) |-> {order[i]} \cap needed]

\* filterBox: the requested boxes with all that they reach, in the order; every format builder is
\* taken along. (In the first form the bootstrap builder is overlooked, as it once was.)
Filter(order, request) ==
  LET needed == {b \in Boxes : \A S \in SUBSET Boxes :
                   request \subseteq S /\ (\A c \in S : DirectDeps(c, TRUE) \subseteq S) => b \in S}
  IN  [i \in 1..Len(order) |-> {order[i]} \cap needed]

\* The sets of boxes to build one after the other, at most one box each time for a request.
Plan(request) == IF request # {} THEN Filter(TopoSort, request) ELSE TopoLevels

\* Not all boxes could be placed.
CycleError(request) ==
  (IF request # {} THEN Len(TopoSort) ELSE Cardinality(UNION ToSet(TopoLevels))) # Cardinality(Boxes)

-----------------------------------------------------------------------------
(* Staging.                                                                *)

Set(p, rec) == proc' = [proc EXCEPT ![p] = rec]

\* The command line; the candy is copied to a directory of its own.
Start(p) ==
  /\ proc[p].pc = "start"
  /\ \E request \in SUBSET Boxes :
       Set(p, [proc[p] EXCEPT !.pc = "exchange", !.request = request])
  /\ UNCHANGED <<project, staged, lock, images>>

\* In the first form the old directory is removed first.
Exchange_bug(p) ==
  /\ proc[p].pc = "exchange"
  /\ Set(p, [proc[p] EXCEPT !.pc = "rename"])
  /\ staged' = staged \ {Ver[p]}
  /\ UNCHANGED <<project, lock, images>>

\* installDirAtomic: the copy and the directory that is there change places ...
Exchange(p) ==
  /\ proc[p].pc = "exchange"
  /\ Set(p, [proc[p] EXCEPT !.pc = IF Ver[p] \in staged THEN "order" ELSE "rename"])
  /\ UNCHANGED <<project, staged, lock, images>>

\* ... or it gets the name, unless another process was faster.
Rename(p) ==
  /\ proc[p].pc = "rename"
  /\ Set(p, [proc[p] EXCEPT !.pc = "order"])
  /\ staged' = staged \cup {Ver[p]}
  /\ UNCHANGED <<project, lock, images>>

-----------------------------------------------------------------------------
(* buildImages and buildImage.                                             *)

Order(p) ==
  LET request == proc[p].request
  IN  /\ proc[p].pc = "order"
      /\ IF CycleError(request)
         THEN Set(p, [proc[p] EXCEPT !.pc = "cycle"])
         ELSE Set(p, [proc[p] EXCEPT !.pc = "build", !.todo = Plan(request)])
      /\ UNCHANGED <<project, staged, lock, images>>

Between(p) == proc[p].pc = "build" /\ proc[p].queue \cup proc[p].waits \cup proc[p].builds = {}

NextLevel(p) ==
  /\ Between(p) /\ ~proc[p].failed /\ proc[p].todo # <<>>
  /\ Set(p, [proc[p] EXCEPT !.queue = Head(proc[p].todo), !.todo = Tail(@)])
  /\ UNCHANGED <<project, staged, lock, images>>

\* A worker takes a box of the level and asks for its lock; a build of the same level that
\* failed does not keep it from starting.
Take(p, b) ==
  /\ b \in proc[p].queue
  /\ Cardinality(proc[p].waits \cup proc[p].builds) < Jobs
  /\ Set(p, [proc[p] EXCEPT !.queue = @ \ {b}, !.waits = @ \cup {b}])
  /\ UNCHANGED <<project, staged, lock, images>>

Unlocked_bug(b) == TRUE

Unlocked(b) == lock[b] = 0

\* The build begins; it is a cold one if the image is not there yet.
BuildBegins(p, b) ==
  /\ b \in proc[p].waits
  /\ Unlocked(b)
  /\ lock' = [lock EXCEPT ![b] = p]
  /\ Set(p, [proc[p] EXCEPT !.waits = @ \ {b}, !.builds = @ \cup {b},
                            !.cold = IF Ver[p] \in images[b] THEN @ ELSE @ \cup {b}])
  /\ UNCHANGED <<project, staged, images>>

BuildEnds(p, b) ==
  /\ b \in proc[p].builds
  /\ lock' = [lock EXCEPT ![b] = 0]
  /\ \/ /\ images' = [images EXCEPT ![b] = @ \cup {Ver[p]}]
        /\ Set(p, [proc[p] EXCEPT !.builds = @ \ {b}, !.cold = @ \ {b}])
     \/ /\ Set(p, [proc[p] EXCEPT !.builds = @ \ {b}, !.cold = @ \ {b}, !.failed = TRUE])
        /\ UNCHANGED images
  /\ UNCHANGED <<project, staged>>

\* A build that failed ends the command after its level.
Fails(p) ==
  /\ Between(p) /\ proc[p].failed
  /\ Set(p, [proc[p] EXCEPT !.pc = "failed"])
  /\ UNCHANGED <<project, staged, lock, images>>

\* pruneBuildCandyDirs: all but the newest directories go, and nobody is asked.
Newest(n) == {v \in staged : Cardinality({w \in staged : w > v}) < n}

Finish(p) ==
  /\ Between(p) /\ ~proc[p].failed /\ proc[p].todo = <<>>
  /\ Set(p, [proc[p] EXCEPT !.pc = "done"])
  /\ staged' = IF Keep > 0 THEN Newest(Keep) ELSE staged
  /\ UNCHANGED <<project, lock, images>>

Kill(p) ==
  /\ proc[p].pc \in {"exchange", "rename", "order", "build"}
  /\ Set(p, [Idle EXCEPT !.pc = "killed"])
  /\ lock' = [b \in Boxes |-> IF lock[b] = p THEN 0 ELSE lock[b]]
  /\ UNCHANGED <<project, staged, images>>

Ended == {"done", "failed", "cycle", "killed"}

AllDone == (\A p \in Procs : proc[p].pc \in Ended) /\ UNCHANGED vars

Step(p) == \/ Start(p) \/ Exchange(p) \/ Rename(p) \/ Order(p) \/ NextLevel(p)
           \/ Fails(p) \/ Finish(p)
           \/ \E b \in Boxes : Take(p, b) \/ BuildBegins(p, b) \/ BuildEnds(p, b)

Next == AllDone \/ \E p \in Procs : Step(p) \/ Kill(p)

Spec == Init /\ [][Next]_vars

-----------------------------------------------------------------------------
(* Properties.                                                             *)

\* What a build of b reads: its base, the rootfs of its bootstrap builder and the format
\* builders it needs, and all that is behind these.
Used(b) == (({project.base[b]} \cup ({project.bootstrap[b]} \ {b})) \ {External})
             \cup (IF project.needs[b] THEN project.builder[b] \ {b} ELSE {})

Behind(b) ==
  LET f[n \in 0..Cardinality(Boxes)] ==
        IF n = 0 THEN Used(b) ELSE f[n - 1] \cup UNION {Used(c) : c \in f[n - 1]}
  IN  f[Cardinality(Boxes)]

Cyclic == \E b \in Boxes : b \in Behind(b)

\* The two sorts agree with the dependencies: they fail just if there is a cycle, and
\* otherwise place every box once, behind all that it is built from.
OrderSound ==
  LET s == TopoSort
      l == TopoLevels
  IN  (\A p \in Procs : proc[p].pc = "start") =>
      /\ CycleError(Boxes) <=> Cyclic
      /\ CycleError({}) <=> Cyclic
      /\ \A i, j \in 1..Len(s) : s[i] \in Behind(s[j]) \/ s[i] = s[j] => i <= j
      /\ \A i, j \in 1..Len(l) : \A b \in l[i], c \in l[j] : b \in Behind(c) => i < j

\* "dependencies before dependents": what a box is built from has been built before, at the
\* version of the process, also for a request of some boxes only.
DepsFirst ==
  \A p \in Procs : \A b \in proc[p].builds : \A c \in Used(b) : Ver[p] \in images[c]

\* "a shared intermediate built by many parallel beds is built COLD once".
ColdOnce ==
  \A p, q \in Procs : \A b \in Boxes :
    b \in proc[p].cold \cap proc[q].cold /\ Ver[p] = Ver[q] => p = q

\* "a concurrent reader (a podman build COPYing from _candy) always sees a COMPLETE artifact".
CopyWhole == \A p \in Procs : proc[p].builds # {} => Ver[p] \in staged
=============================================================================
