------------------------------ MODULE CheckBed ------------------------------
(***************************************************************************)
(* The acceptance sequence of `charly check run <bed>`: runCheckBed of     *)
(* charly/check_bed_run.go with bringUpMembers and tearDownMembers of      *)
(* charly/bundle_members.go.                                               *)
(*                                                                         *)
(* Several runs are under way at the same time.  What a run does is the    *)
(* sequence of its steps, settled by the kind of the bed, its check level  *)
(* and the options; every step is a command of its own that may fail.  A   *)
(* run can be killed between two of them, and leaves behind what is up.    *)
(***************************************************************************)
EXTENDS Naturals, Sequences, SequencesExt

CONSTANTS
  Runs,     \* processes that run a bed, each one once
  Beds,     \* the disposable bundles
  Kind,     \* [Beds -> Kinds]
  Root,     \* [Beds -> Targets]        the container, domain or place of its root; None for a group
  Members,  \* [Beds -> Seq(Targets)]   its peers, in the order of their names
  Children, \* [Beds -> Seq(Kids)]      what is nested in its root, in that order
  Vms,      \* the targets that are domains
  InGuest,  \* the children that the deployment of a domain brings up itself
  Unprobed, \* the children that are no venue of their own (android)
  Options,  \* the levels, --keep and --no-rebuild that a run may have
  None      \* no run, and no target

Kinds   == {"pod", "vm", "inplace", "group"}
Targets == ({Root[b] : b \in Beds} \cup UNION {ToSet(Members[b]) : b \in Beds}) \ {None}
Kids    == UNION {ToSet(Children[b]) : b \in Beds}
Levels  == <<"none", "build", "noagent", "agent">>

ASSUME CheckBedAssumption ==
  /\ Kind \in [Beds -> Kinds]
  /\ \A b \in Beds : Members[b] \in Seq(Targets) /\ Children[b] \in Seq(Kids)
  /\ \A b \in Beds : Root[b] = None <=> Kind[b] = "group"
  /\ None \notin Runs
  /\ Vms \subseteq Targets /\ InGuest \subseteq Kids /\ Unprobed \subseteq Kids
  /\ Options \subseteq [level : ToSet(Levels), keep : BOOLEAN, norebuild : BOOLEAN]
  /\ \A b \in Beds : Kind[b] \in {"inplace", "group"} => Children[b] = <<>>

VARIABLES
  lock, \* [Beds -> Runs \cup {None}]  .check/<bed>/.lock
  run,  \* [Runs -> ...]               the local state of runCheckBed
  up,   \* [Targets -> ...]            what is up: who brought it up, before or after the rebuild
  kids, \* [Kids -> ...]               the same of the nested deployments
  mine, \* history: [Runs -> SUBSET Targets]  what the run has brought up and not taken down
  seen  \* history: [Runs -> ...]      what was up when the run's last check passed

vars == <<lock, run, up, kids, mine, seen>>

Down   == [by |-> None, rebuilt |-> FALSE]
Nobody == [by |-> None, rebuilt |-> FALSE, whole |-> FALSE]

Init ==
  /\ lock = [b \in Beds |-> None]
  /\ run = [r \in Runs |-> [pc |-> "start", todo |-> <<>>, ok |-> TRUE, lease |-> "none",
                            rebuilt |-> FALSE, left |-> FALSE]]
  /\ up = [t \in Targets |-> Down]
  /\ kids = [k \in Kids |-> Down]
  /\ mine = [r \in Runs |-> {}]
  /\ seen = [r \in Runs |-> Nobody]

-----------------------------------------------------------------------------
(* The sequence of steps.                                                  *)

Rank(level) == CHOOSE i \in 1..Len(Levels) : Levels[i] = level

CheckLevelReaches(have, want) == Rank(have) >= Rank(want)

S(op, x) == <<[op |-> op, on |-> x]>>

When(c, steps) == IF c THEN steps ELSE <<>>

EachBut(op, xs, those) == FlattenSeq([i \in 1..Len(xs) |-> When(xs[i] \notin those, S(op, xs[i]))])

Each(op, xs) == EachBut(op, xs, {})

\* The image of a pod, or the image or disk of each member, and its check.
Build(b, level) ==
  LET Image(t) == S("image", t) \o When(CheckLevelReaches(level, "build") /\ t \notin Vms, S("check box", t))
  IN  When(Kind[b] = "pod", Image(Root[b]))
      \o When(Kind[b] = "group", FlattenSeq([i \in 1..Len(Members[b]) |-> Image(Members[b][i])]))

\* The nested deployments are deployed one by one, but those the deployment of a domain brings up.
Nested(b) == EachBut("child", Children[b], IF Kind[b] = "pod" THEN {} ELSE InGuest)

\* What an earlier run left behind is cleared first, then the root is brought up.
Deploy(b) ==
  CASE Kind[b] = "vm" ->
         S("clear", Root[b]) \o S("image", Root[b]) \o S("create", Root[b])
         \o S("deploy", Root[b]) \o Nested(b)
    [] Kind[b] = "group" -> Each("clear", Members[b])
    [] Kind[b] = "inplace" ->
         S("clear", Root[b]) \o Each("clear", Members[b]) \o S("deploy", Root[b])
    [] Kind[b] = "pod" ->
         S("clear", Root[b]) \o Each("clear", Members[b]) \o S("deploy", Root[b])
         \o S("config", Root[b]) \o S("start", Root[b]) \o Nested(b)

\* bringUpMembers.
Peers(b) ==
  LET Peer(t) == IF t \in Vms THEN S("clear", t) \o S("peer create", t) \o S("peer", t)
                              ELSE S("peer", t)
  IN  FlattenSeq([i \in 1..Len(Members[b]) |-> Peer(Members[b][i])])

CheckLive(b) == S("check live", b)

Feature(b) == When(Kind[b] = "pod", S("feature run", b))

\* The fresh rebuild: of the members of a group, or of the root, whose children must then be
\* deployed again unless they are on the disk of a domain.
Rebuild_bug(b, runtime) ==
  IF Kind[b] = "group"
  THEN S("rebuild", b) \o EachBut("image", Members[b], Vms)
       \o Each("clear", Members[b]) \o When(runtime, Peers(b) \o CheckLive(b))
  ELSE S("rebuild", b) \o S("update", Root[b])
       \o When(runtime /\ Kind[b] # "inplace" /\ Children[b] # <<>>, CheckLive(b))
       \o When(runtime, Feature(b))

Rebuild(b, runtime) ==
  IF Kind[b] = "group"
  THEN S("rebuild", b) \o EachBut("image", Members[b], Vms)
       \o Each("clear", Members[b]) \o When(runtime, Peers(b) \o CheckLive(b))
  ELSE S("rebuild", b) \o S("update", Root[b])
       \o When(runtime /\ Kind[b] # "inplace" /\ Children[b] # <<>>,
               When(Kind[b] = "pod", Nested(b)) \o CheckLive(b))
       \o When(runtime, Feature(b))

\* `charly remove` or `vm destroy` or `bundle del`, and the members.
Cleanup(b) == S("cleanup", Root[b]) \o Each("clear", Members[b])

Sequence(b, o) ==
  LET runtime == CheckLevelReaches(o.level, "noagent")
  IN  Build(b, o.level) \o Deploy(b)
      \o When(runtime, Peers(b) \o CheckLive(b) \o Feature(b))
      \o When(~o.norebuild, Rebuild(b, runtime))
      \o When(~o.keep, Cleanup(b))

\* What a bed brings up and takes down; and that no two beds have any of it in common.
Own(b) == ({Root[b]} \cup ToSet(Members[b])) \ {None}

Apart == \A b, c \in Beds : b # c => Own(b) \cap Own(c) = {}

-----------------------------------------------------------------------------
(* A run from its lock to its end.                                         *)

Start(r) ==
  /\ run[r].pc = "start"
  /\ \E b \in Beds, o \in Options :
       run' = [run EXCEPT ![r] = [bed |-> b, opts |-> o, pc |-> "lock", todo |-> Sequence(b, o),
                 ok |-> TRUE, lease |-> "none", rebuilt |-> FALSE, left |-> FALSE]]
  /\ UNCHANGED <<lock, up, kids, mine, seen>>

Free_bug(b) == TRUE

Free(b) == lock[b] = None

\* A second run of the same bed is refused.
Lock(r) ==
  LET b == run[r].bed
  IN  /\ run[r].pc = "lock"
      /\ \/ /\ Free(b)
            /\ lock' = [lock EXCEPT ![b] = r]
            /\ run' = [run EXCEPT ![r].pc = "acquire"]
         \/ /\ ~Free(b)
            /\ run' = [run EXCEPT ![r].pc = "error", ![r].ok = FALSE]
            /\ UNCHANGED lock
      /\ UNCHANGED <<up, kids, mine, seen>>

\* The claim of the resources, owned by this process.
Acquire(r) ==
  /\ run[r].pc = "acquire"
  /\ \/ run' = [run EXCEPT ![r].pc = "steps", ![r].lease = "held"]
     \/ run' = [run EXCEPT ![r].pc = "unlock", ![r].ok = FALSE]
  /\ UNCHANGED <<lock, up, kids, mine, seen>>

At(r, ops) == run[r].pc = "steps" /\ run[r].todo # <<>> /\ Head(run[r].todo).op \in ops

On(r) == Head(run[r].todo).on

Go(r) == run' = [run EXCEPT ![r].todo = Tail(@)]

\* fail: what is up stays up.
Fails(r, steps) ==
  /\ At(r, steps)
  /\ run' = [run EXCEPT ![r].pc = "release", ![r].ok = FALSE]
  /\ UNCHANGED <<lock, up, kids, mine, seen>>

\* The failure of a member is reported like every other, but is no step of the summary: the
\* run keeps its OK.
PeerFails(r) ==
  /\ At(r, {"peer create", "peer"})
  /\ run' = [run EXCEPT ![r].pc = "release"]
  /\ UNCHANGED <<lock, up, kids, mine, seen>>

StepFails(r) ==
  Fails(r, {"image", "check box", "create", "deploy", "config", "start", "child", "check live",
            "feature run", "update"})

\* The children of the deployment at t.
ChildrenAt(t) == UNION {ToSet(Children[b]) : b \in {c \in Beds : Root[c] = t}}

TakeDown(r, t) ==
  /\ up' = [up EXCEPT ![t] = Down]
  /\ kids' = [k \in Kids |-> IF k \in ChildrenAt(t) THEN Down ELSE kids[k]]
  /\ mine' = [mine EXCEPT ![r] = @ \ {t}]

Put(r) == [by |-> r, rebuilt |-> run[r].rebuilt]

BringUp(r, t) ==
  /\ up' = [up EXCEPT ![t] = Put(r)]
  /\ mine' = [mine EXCEPT ![r] = @ \cup {t}]

\* A build, or a check of what was built.
Passes(r) ==
  /\ At(r, {"image", "check box", "feature run", "config", "start"})
  /\ Go(r)
  /\ UNCHANGED <<lock, up, kids, mine, seen>>

\* A best-effort tear-down; that it failed is at most a warning.
Clear(r) ==
  /\ At(r, {"clear"})
  /\ \/ Go(r) /\ TakeDown(r, On(r))
     \/ /\ up[On(r)] # Down
        /\ run' = [run EXCEPT ![r].todo = Tail(@), ![r].left = TRUE]
        /\ UNCHANGED <<up, kids, mine>>
  /\ UNCHANGED <<lock, seen>>

\* `vm create` does not replace a domain.
Create(r) ==
  /\ At(r, {"create", "peer create"})
  /\ up[On(r)] = Down
  /\ Go(r)
  /\ BringUp(r, On(r))
  /\ UNCHANGED <<lock, kids, seen>>

\* `bundle add`: a domain is there already, or booted on the way, and gets its in-guest
\* children; any other target is registered.
DeployRoot(r) ==
  /\ At(r, {"deploy"})
  /\ Go(r)
  /\ IF On(r) \in Vms /\ up[On(r)] # Down
     THEN UNCHANGED <<up, mine>>
     ELSE BringUp(r, On(r))
  /\ kids' = [k \in Kids |-> IF k \in ChildrenAt(On(r)) \cap InGuest THEN Put(r) ELSE kids[k]]
  /\ UNCHANGED <<lock, seen>>

Child(r) ==
  /\ At(r, {"child"})
  /\ Go(r)
  /\ kids' = [kids EXCEPT ![On(r)] = Put(r)]
  /\ UNCHANGED <<lock, up, mine, seen>>

\* `config` and `start` of a pod member change nothing if it runs already; a domain is there
\* by now and gets its candies.
Peer(r) ==
  /\ At(r, {"peer"})
  /\ Go(r)
  /\ IF up[On(r)] # Down THEN UNCHANGED <<up, mine>> ELSE BringUp(r, On(r))
  /\ UNCHANGED <<lock, kids, seen>>

\* The bed is all there as this run has made it, the last rebuild included.
Whole(r) ==
  LET b == run[r].bed
  IN  /\ Kind[b] # "group" => up[Root[b]] = Put(r)
      /\ \A m \in ToSet(Members[b]) :
           up[m] = [by |-> r, rebuilt |-> Kind[b] = "group" /\ run[r].rebuilt]
      /\ \A k \in ToSet(Children[b]) :
           kids[k] = [by |-> r, rebuilt |-> Kind[b] = "pod" /\ run[r].rebuilt]

\* checkLiveTree: the root and every child that is a venue, tried until the cap.
CheckPasses(r) ==
  LET b == run[r].bed
  IN  /\ At(r, {"check live"})
      /\ Kind[b] # "group" => up[Root[b]] # Down
      /\ \A k \in ToSet(Children[b]) \ Unprobed : kids[k] # Down
      /\ Go(r)
      /\ seen' = [seen EXCEPT ![r] = [by |-> r, rebuilt |-> run[r].rebuilt, whole |-> Whole(r)]]
      /\ UNCHANGED <<lock, up, kids, mine>>

\* From here on what is built is a fresh image.
RebuildBegins(r) ==
  /\ At(r, {"rebuild"})
  /\ run' = [run EXCEPT ![r].todo = Tail(@), ![r].rebuilt = TRUE]
  /\ UNCHANGED <<lock, up, kids, mine, seen>>

\* `update` makes a container anew, without its children; a domain keeps its disk.
Update(r) ==
  /\ At(r, {"update"})
  /\ Go(r)
  /\ BringUp(r, On(r))
  /\ kids' = [k \in Kids |-> IF k \in ChildrenAt(On(r)) /\ On(r) \notin Vms THEN Down ELSE kids[k]]
  /\ UNCHANGED <<lock, seen>>

\* The tear-down at the end is a step, and its failure fails the run.
CleanupRoot(r) ==
  /\ At(r, {"cleanup"})
  /\ \/ /\ Go(r)
        /\ IF On(r) = None THEN UNCHANGED <<up, kids, mine>> ELSE TakeDown(r, On(r))
     \/ /\ run' = [run EXCEPT ![r].todo = Tail(@), ![r].ok = FALSE]
        /\ UNCHANGED <<up, kids, mine>>
  /\ UNCHANGED <<lock, seen>>

\* All steps are done: the summary, and an error if one of them was not OK.
Summary(r) ==
  /\ run[r].pc = "steps" /\ run[r].todo = <<>>
  /\ run' = [run EXCEPT ![r].pc = IF run[r].ok THEN "pass" ELSE "release"]
  /\ UNCHANGED <<lock, up, kids, mine, seen>>

\* The deferred release of the claim, by what the summary says, and then of the lock.
Release(r) ==
  /\ run[r].pc \in {"release", "pass"}
  /\ run[r].lease = "held"
  /\ run' = [run EXCEPT ![r].lease = IF run[r].ok THEN "released" ELSE "failed"]
  /\ UNCHANGED <<lock, up, kids, mine, seen>>

Unlock(r) ==
  /\ run[r].pc \in {"unlock", "release", "pass"} /\ run[r].lease # "held"
  /\ run' = [run EXCEPT ![r].pc = IF run[r].pc = "pass" THEN "passed" ELSE "error"]
  /\ lock' = [lock EXCEPT ![run[r].bed] = None]
  /\ UNCHANGED <<up, kids, mine, seen>>

\* The kernel drops the lock of a killed run; its lease and its deployments stay.
Kill(r) ==
  /\ run[r].pc \in {"acquire", "steps", "release", "pass", "unlock"}
  /\ run' = [run EXCEPT ![r].pc = "killed", ![r].todo = <<>>]
  /\ lock' = [lock EXCEPT ![run[r].bed] = None]
  /\ UNCHANGED <<up, kids, mine, seen>>

Finished == {"passed", "error", "killed"}

AllDone == (\A r \in Runs : run[r].pc \in Finished) /\ UNCHANGED vars

Step(r) ==
  \/ Start(r) \/ Lock(r) \/ Acquire(r)
  \/ StepFails(r) \/ PeerFails(r) \/ Passes(r) \/ Clear(r) \/ Create(r) \/ DeployRoot(r)
  \/ Child(r) \/ Peer(r) \/ CheckPasses(r) \/ RebuildBegins(r) \/ Update(r) \/ CleanupRoot(r)
  \/ Summary(r) \/ Release(r) \/ Unlock(r)

Next == AllDone \/ \E r \in Runs : Step(r) \/ Kill(r)

Spec == Init /\ [][Next]_vars

-----------------------------------------------------------------------------
(* Properties.                                                             *)

Ops == {"image", "check box", "clear", "create", "deploy", "config", "start", "update", "child", "peer create",
        "peer", "check live", "feature run", "rebuild", "cleanup"}

Runner == [pc : {"start"}, todo : {<<>>}, ok : {TRUE}, lease : {"none"}, rebuilt : {FALSE}, left : {FALSE}]
          \cup [bed : Beds, opts : Options, todo : Seq([op : Ops, on : Targets \cup Kids \cup Beds \cup {None}]),
                pc : {"lock", "acquire", "steps", "release", "pass", "unlock"} \cup Finished,
                ok : BOOLEAN, lease : {"none", "held", "released", "failed"},
                rebuilt : BOOLEAN, left : BOOLEAN]

Presence == [by : Runs \cup {None}, rebuilt : BOOLEAN]

\* The types; a lock is held by a run of that bed that is under way.
TypeOK ==
  /\ lock \in [Beds -> Runs \cup {None}]
  /\ \A b \in Beds : lock[b] # None => run[lock[b]].pc \notin Finished /\ run[lock[b]].bed = b
  /\ run \in [Runs -> Runner]
  /\ up \in [Targets -> Presence]
  /\ kids \in [Kids -> Presence]
  /\ mine \in [Runs -> SUBSET Targets]
  /\ seen \in [Runs -> [by : Runs \cup {None}, rebuilt : BOOLEAN, whole : BOOLEAN]]

\* A run never has its live target wiped by another: what it brought up, and has not taken
\* down itself, is there and its own until it has ended.
NoWipe == \A r \in Runs : run[r].pc = "steps" => \A t \in mine[r] : up[t].by = r

Passed(r) == run[r].pc = "passed" /\ ~run[r].left

\* "R10 acceptance gate": a run that passed at a level with runtime acceptance has checked its
\* bed when root, members and children were all there by its own doing, and has done so
\* again on the rebuild if the bed is a group or has children; unless an earlier deployment
\* could not be cleared.
PassIsTested ==
  \A r \in Runs : Passed(r) /\ CheckLevelReaches(run[r].opts.level, "noagent") =>
    /\ seen[r].whole
    /\ ~run[r].opts.norebuild /\ (Kind[run[r].bed] = "group" \/ Children[run[r].bed] # <<>>)
         => seen[r].rebuilt

\* A run that ended with an error does not have OK in its summary.
SummaryHonest == \A r \in Runs : run[r].pc = "error" => ~run[r].ok
=============================================================================
