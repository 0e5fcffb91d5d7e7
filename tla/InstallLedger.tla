---------------------------- MODULE InstallLedger ----------------------------
(***************************************************************************)
(* The install ledger of charly/install_ledger.go and the two commands     *)
(* that work on it: `charly bundle add` applies a plan to a venue and      *)
(* records how to undo it, `charly bundle del` replays the record.  There  *)
(* are two kinds of records on disk: deploys/<id>.json names the candy     *)
(* record of a deployment, layers/<candy>.json has the set of deployments  *)
(* that use it and the reverse operations.                                 *)
(*                                                                         *)
(* Every element of Procs or Children is ONE charly process, which runs    *)
(* one session and ends or is killed.  Only `bundle del` takes the flock.  *)
(* A record file is written by rename, so a read or a write of one is one  *)
(* step; a command that reads, changes and writes takes several.           *)
(***************************************************************************)
EXTENDS Naturals, Sequences, SequencesExt

CONSTANTS
  Procs,       \* the charly processes the operator starts
  Children,    \* and those a `bundle del` starts
  Deploys,     \* deployment names; a DeployRecord is keyed by computeDeployID(name)
  Candies,     \* keys of the candy records
  CandyOf,     \* [Deploys -> Candies]  the Record.Candy a deploy plugin answers
  Files,       \* what a step can leave on a venue and its reverse operation removes
  Units,       \* systemd units that come with a distro package
  Lifecycle,   \* deployments whose substrate (a pod) charly brings up and down
  Plans,       \* [Deploys -> the plans a deployment may be compiled to]
  Members,     \* [Deploys -> SUBSET Deploys]  kind:local members
  Envd,        \* [Candies -> Files \cup {None}]  env.d/<candy>.env
  Base,        \* the units that were enabled before charly came
  Faults,      \* what may go wrong, a subset of AllFaults
  Overlapping, \* may a `bundle add` overlap another session on its candy record?
  MaxCrashes,  \* bound: processes killed in mid-session
  None         \* no file, no record, nobody

\* "walk": a step of a plan fails; "undo": a reverse operation fails; "post": the
\* cleanup after a teardown fails.
AllFaults == {"walk", "undo", "post"}

\* What can be on a venue: a file, an enabled unit, a substrate that is up.
Things == Files \cup Units \cup Lifecycle

\* A step that leaves a file (a package, a repo, an env.d file, a custom unit ...), or
\* one that enables a packaged unit, with or without a drop-in.
Step == [kind : {"File"}, at : Files] \cup
        [kind : {"ServicePackaged"}, at : Units, dropin : Files \cup {None}]

ReverseOp == [kind : {"rm", "dropin"}, of : Files] \cup
             [kind : {"disable", "restore"}, of : Units]

CandyRecord == [deployedBy : SUBSET Deploys, ops : Seq(ReverseOp)]

AllProcs == Procs \cup Children

ASSUME LedgerAssumption ==
  /\ Procs \cap Children = {}
  /\ CandyOf \in [Deploys -> Candies]
  /\ Lifecycle \subseteq Deploys
  /\ Plans \in [Deploys -> SUBSET Seq(Step)]
  /\ Members \in [Deploys -> SUBSET Deploys]
  /\ Envd \in [Candies -> Files \cup {None}]
  /\ Base \subseteq Units
  /\ Files \cap Units = {} /\ Files \cap Deploys = {} /\ Units \cap Deploys = {}
  /\ Faults \subseteq AllFaults
  /\ Overlapping \in BOOLEAN
  /\ MaxCrashes \in Nat
  /\ None \notin AllProcs \cup Deploys \cup Candies \cup Files \cup Units
  /\ None \notin CandyRecord

VARIABLES
  host,     \* the Things on the venues
  candy,    \* layers/*.json
  deploys,  \* deploys/*.json: the candy each names
  lock,     \* the process that has the ledger flock, or None
  pc,       \* where each process is
  job,      \* the local state of each process
  stray,    \* history: Things nobody promised to undo, see NoOrphan
  whole,    \* history: what each deployment was recorded with, until its own teardown
  crashes   \* number of kills so far

ledger == <<candy, deploys>>
vars   == <<host, candy, deploys, lock, pc, job, stray, whole, crashes>>

Job == [who : Deploys \cup {None},   \* the deployment
        keep : BOOLEAN,              \* --keep-services
        plan : Seq(Step),            \* what is still to be walked
        prior : SUBSET Units,        \* the units prepareReverseState found enabled
        ops : Seq(ReverseOp),        \* add: collected so far; del: still to be run
        mem : CandyRecord \cup {None},    \* the candy record as it was read
        todo : SUBSET Deploys,       \* members to be torn down first
        child : AllProcs \cup {None}]   \* the member's `bundle del` it waits for

AddPCs == {"prepare", "walk", "write", "deploy"}
DelPCs == {"lock", "members", "wait", "candy", "undo", "drop", "post"}
Active(p) == pc[p] \in AddPCs \cup DelPCs

Idle == [who |-> None, keep |-> FALSE, plan |-> <<>>, prior |-> {}, ops |-> <<>>,
         mem |-> None, todo |-> {}, child |-> None]

Init ==
  /\ host = Base
  /\ candy = [c \in Candies |-> None]
  /\ deploys = [d \in Deploys |-> None]
  /\ lock = None
  /\ pc = [p \in AllProcs |-> "new"]
  /\ job = [p \in AllProcs |-> Idle]
  /\ stray = {}
  /\ whole = [d \in Deploys |-> {}]
  /\ crashes = 0

-----------------------------------------------------------------------------
(* Steps and their reverse operations.                                     *)

\* (Names ending in _bug are mutations of the definition they stand before.)
\* What a step leaves on the venue.
Effect(step) ==
  IF step.kind = "File" THEN {step.at} ELSE {step.at, step.dropin} \ {None}

\* FileStep.Reverse and ServicePackagedStep.Reverse.
ReverseOps(step, prior) ==
  IF step.kind = "File" THEN <<[kind |-> "rm", of |-> step.at]>>
  ELSE <<[kind |-> "disable", of |-> step.at]>>
       \o (IF step.at \in prior THEN <<[kind |-> "restore", of |-> step.at]>> ELSE <<>>)
       \o (IF step.dropin # None THEN <<[kind |-> "dropin", of |-> step.dropin]>> ELSE <<>>)

\* The operations --keep-services turns into nothing.
Kept(op, keep) == keep /\ op.kind \in {"disable", "restore", "dropin"}

\* The venue after the operation.
Undo1(op, h) == IF op.kind = "restore" THEN h \cup {op.of} ELSE h \ {op.of}

Undoes(ops) == {ops[i].of : i \in {j \in DOMAIN ops : ops[j].kind # "restore"}}

\* `bundle del` of some deployment leads to an operation that undoes x.
Covered(x) ==
  \E d \in Deploys :
    /\ deploys[d] # None
    /\ \/ x = d
       \/ candy[deploys[d]] # None /\ x \in Undoes(candy[deploys[d]].ops)

\* The record that undoes x names a deployment that has no deploy record: its add is
\* between its two writes, or was killed there.
HalfRecorded(x) ==
  \E c \in Candies :
    /\ candy[c] # None /\ x \in Undoes(candy[c].ops)
    /\ \E d \in candy[c].deployedBy : deploys[d] = None

-----------------------------------------------------------------------------
(* Sessions.                                                               *)

\* The candy records a session on d works on.
Touches(d) == {CandyOf[m] : m \in {d} \cup Members[d]}

\* A process among pcs is at work on one of these records.
Working(cs, pcs) ==
  \E q \in AllProcs : pc[q] \in pcs /\ Touches(job[q].who) \cap cs # {}

Finish(p) ==
  /\ pc' = [pc EXCEPT ![p] = "done"]
  /\ job' = [job EXCEPT ![p] = Idle]
  /\ lock' = IF lock = p THEN None ELSE lock

Go(p, l, j) == pc' = [pc EXCEPT ![p] = l] /\ job' = [job EXCEPT ![p] = j]

-----------------------------------------------------------------------------
(* charly bundle add                                                       *)

StartAdd(p) ==
  \E d \in Deploys : \E plan \in Plans[d] :
    /\ pc[p] = "new"
    /\ Overlapping \/ ~Working(Touches(d), AddPCs \cup DelPCs)
    /\ Go(p, "prepare", [Idle EXCEPT !.who = d, !.plan = plan])
    /\ UNCHANGED <<host, ledger, lock, stray, whole, crashes>>

\* What p would put on the venue next.
InHand(p) ==
  CASE pc[p] = "prepare" -> {job[p].who} \cap Lifecycle
    [] pc[p] = "walk" /\ job[p].plan # <<>> -> Effect(Head(job[p].plan))
    [] OTHER -> {}

\* These come to the venue.
Put(S) == /\ host' = host \cup S
          /\ stray' = stray \cup {x \in S : ~Covered(x)}

\* prepareReverseState asks systemd which units are enabled.
PriorEnabled(h) == h \cap Units

\* PrepareVenue brings the substrate up.
Prepare(p) ==
  /\ pc[p] = "prepare"
  /\ Put(InHand(p))
  /\ Go(p, "walk", [job[p] EXCEPT !.prior = PriorEnabled(host')])
  /\ UNCHANGED <<ledger, lock, whole, crashes>>

\* WalkPlans: one step.
Walk(p) ==
  /\ pc[p] = "walk" /\ job[p].plan # <<>>
  /\ LET step == Head(job[p].plan)
     IN  /\ Put(InHand(p))
         /\ Go(p, "walk", [job[p] EXCEPT !.plan = Tail(@),
                             !.ops = @ \o ReverseOps(step, job[p].prior)])
  /\ UNCHANGED <<ledger, lock, whole, crashes>>

\* The session ends here, with any part of it done.
BreakOff(p) ==
  /\ \E S \in SUBSET InHand(p) : Put(S)
  /\ Finish(p)
  /\ UNCHANGED <<ledger, whole>>

\* An error of PrepareVenue or of a step ends the command: nothing is recorded.
AddFails(p) ==
  /\ "walk" \in Faults
  /\ pc[p] \in {"prepare", "walk"}
  /\ BreakOff(p)
  /\ UNCHANGED crashes

\* AddCandyDeployment reads the record ...
RecordRead(p) ==
  /\ pc[p] = "walk" /\ job[p].plan = <<>>
  /\ Go(p, "write", [job[p] EXCEPT !.mem = candy[CandyOf[job[p].who]], !.prior = {}])
  /\ UNCHANGED <<host, ledger, lock, stray, whole, crashes>>

\* ... and writes it, with the deployment added and the operations replaced.
RecordWrite(p) ==
  /\ pc[p] = "write"
  /\ LET mem == job[p].mem
         old == IF mem = None THEN {} ELSE mem.deployedBy
     IN  candy' = [candy EXCEPT ![CandyOf[job[p].who]] =
                     [deployedBy |-> old \cup {job[p].who}, ops |-> job[p].ops]]
  /\ Go(p, "deploy", [job[p] EXCEPT !.mem = None])
  /\ UNCHANGED <<host, deploys, lock, stray, whole, crashes>>

\* WriteDeployRecord.
RecordDeploy(p) ==
  LET d == job[p].who
  IN  /\ pc[p] = "deploy"
      /\ deploys' = [deploys EXCEPT ![d] = CandyOf[d]]
      /\ stray' = stray \ (Undoes(job[p].ops) \cup {d})
      /\ whole' = [whole EXCEPT ![d] = Undoes(job[p].ops) \cup ({d} \cap Lifecycle)]
      /\ Finish(p)
      /\ UNCHANGED <<host, candy, crashes>>

-----------------------------------------------------------------------------
(* charly bundle del                                                       *)

StartDel(p) ==
  \E d \in Deploys, keep \in BOOLEAN :
    /\ pc[p] = "new"
    /\ Overlapping \/ ~Working(Touches(d), AddPCs)
    /\ Go(p, "lock", [Idle EXCEPT !.who = d, !.keep = keep, !.todo = Members[d]])
    /\ UNCHANGED <<host, ledger, lock, stray, whole, crashes>>

\* AcquireLedgerLock blocks.
LedgerLock(p) ==
  /\ pc[p] = "lock" /\ lock = None
  /\ lock' = p
  /\ Go(p, "members", job[p])
  /\ UNCHANGED <<host, ledger, stray, whole, crashes>>

\* tearDownMembers runs `charly bundle del <member>` for a kind:local member ...
SpawnDel(p) ==
  \E m \in job[p].todo, q \in Children :
    /\ pc[p] = "members" /\ pc[q] = "new"
    /\ pc' = [pc EXCEPT ![p] = "wait", ![q] = "lock"]
    /\ job' = [job EXCEPT ![p].todo = @ \ {m}, ![p].child = q,
                          ![q] = [Idle EXCEPT !.who = m, !.todo = Members[m]]]
    /\ UNCHANGED <<host, ledger, lock, stray, whole, crashes>>

\* ... and waits for it; an error is only a warning.
ReapDel(p) ==
  /\ pc[p] = "wait" /\ pc[job[p].child] = "done"
  /\ Go(p, "members", [job[p] EXCEPT !.child = None])
  /\ UNCHANGED <<host, ledger, lock, stray, whole, crashes>>

\* Del: without a deploy record there is nothing to do.
ReadDeploy(p) ==
  /\ pc[p] = "members" /\ job[p].todo = {}
  /\ \/ deploys[job[p].who] = None /\ Finish(p)
     \/ deploys[job[p].who] # None /\ Go(p, "candy", job[p]) /\ UNCHANGED lock
  /\ UNCHANGED <<host, ledger, stray, whole, crashes>>

Replay_bug(ops) == ops

\* The order runReverseOps runs the operations in: backwards.
Replay(ops) == Reverse(ops)

OthersUse_bug(p) == FALSE

\* The candy record is still used by another deployment.
OthersUse(p) == candy[deploys[job[p].who]].deployedBy \ {job[p].who} # {}

\* RemoveCandyDeployment: the record of the last deployment is not written, it goes
\* when its operations have run.
DropRef(p) ==
  LET d == job[p].who  c == deploys[d]  rec == candy[c]
  IN  /\ pc[p] = "candy"
      /\ \/ /\ rec = None
            /\ Go(p, "drop", job[p]) /\ UNCHANGED candy
         \/ /\ rec # None /\ OthersUse(p)
            /\ candy' = [candy EXCEPT ![c].deployedBy = @ \ {d}]
            /\ Go(p, "drop", job[p])
         \/ /\ rec # None /\ ~OthersUse(p)
            /\ Go(p, "undo", [job[p] EXCEPT !.ops = Replay(rec.ops)]) /\ UNCHANGED candy
      /\ whole' = [whole EXCEPT ![d] = {}]
      /\ UNCHANGED <<host, deploys, lock, stray, crashes>>


\* One operation; an error is only logged.
UndoOp(p) ==
  LET op == Head(job[p].ops)
  IN  /\ pc[p] = "undo" /\ job[p].ops # <<>>
      /\ \/ /\ ~Kept(op, job[p].keep)
            /\ host' = Undo1(op, host)
            /\ stray' = stray \ {op.of}
         \/ /\ Kept(op, job[p].keep) \/ "undo" \in Faults
            /\ stray' = stray \cup {op.of}
            /\ UNCHANGED host
      /\ Go(p, "undo", [job[p] EXCEPT !.ops = Tail(@)])
      /\ UNCHANGED <<ledger, lock, whole, crashes>>

\* RemoveEnvdFile and DeleteCandyRecord.
ForgetCandy(p) ==
  LET c == deploys[job[p].who]
  IN  /\ pc[p] = "undo" /\ job[p].ops = <<>>
      /\ host' = host \ {Envd[c]}
      /\ candy' = [candy EXCEPT ![c] = None]
      /\ Go(p, "drop", job[p])
      /\ UNCHANGED <<deploys, lock, stray, whole, crashes>>

\* DeleteDeployRecord.
ForgetDeploy(p) ==
  LET d == job[p].who
  IN  /\ pc[p] = "drop"
      /\ deploys' = [deploys EXCEPT ![d] = None]
      /\ stray' = stray \cup ({d} \cap Lifecycle)
      /\ \/ d \in Lifecycle /\ Go(p, "post", job[p]) /\ UNCHANGED lock
         \/ d \notin Lifecycle /\ Finish(p)
      /\ UNCHANGED <<host, candy, whole, crashes>>

\* PostTeardown brings the substrate down, or fails; in both cases the session ends.
PostTeardown(p) ==
  /\ pc[p] = "post"
  /\ \/ host' = host \ {job[p].who} /\ stray' = stray \ {job[p].who}
     \/ "post" \in Faults /\ UNCHANGED <<host, stray>>
  /\ Finish(p)
  /\ UNCHANGED <<ledger, whole, crashes>>

-----------------------------------------------------------------------------
\* The process is killed; the kernel drops its flock, a child goes on.
Crash(p) ==
  /\ Active(p) /\ crashes < MaxCrashes
  /\ crashes' = crashes + 1
  /\ BreakOff(p)

AddStep(p) ==
  Prepare(p) \/ Walk(p) \/ AddFails(p) \/ RecordRead(p) \/ RecordWrite(p) \/ RecordDeploy(p)

DelStep(p) ==
  \/ LedgerLock(p) \/ SpawnDel(p) \/ ReapDel(p) \/ ReadDeploy(p) \/ DropRef(p)
  \/ UndoOp(p) \/ ForgetCandy(p) \/ ForgetDeploy(p) \/ PostTeardown(p)

Next ==
  \/ \E p \in Procs : StartAdd(p) \/ StartDel(p) \/ AddStep(p)
  \/ \E p \in AllProcs : DelStep(p) \/ Crash(p)

Spec == Init /\ [][Next]_vars

\* A process that can go on does so.
FairSpec == /\ Spec
            /\ \A p \in Procs : WF_vars(AddStep(p))
            /\ \A p \in AllProcs : WF_vars(DelStep(p))

-----------------------------------------------------------------------------
(* Properties.                                                             *)

TypeOK ==
  /\ host \subseteq Things
  /\ candy \in [Candies -> CandyRecord \cup {None}]
  /\ deploys \in [Deploys -> Candies \cup {None}]
  /\ lock \in AllProcs \cup {None}
  /\ pc \in [AllProcs -> {"new", "done"} \cup AddPCs \cup DelPCs]
  /\ job \in [AllProcs -> Job]
  /\ stray \subseteq Things
  /\ whole \in [Deploys -> SUBSET Things]
  /\ crashes \in 0..MaxCrashes

\* Whatever charly put on a venue can be taken off it with `bundle del`, kill it where
\* you like: a record leads to the operation that undoes it.  Not promised are the units
\* that were there before, and the stray ones: put there by an add that has not (or not
\* yet) reached its record, kept on purpose, or reported as not undone, a substrate
\* whose deploy record is gone before PostTeardown has run, and half-recorded ones.
NoOrphan == host \subseteq Base \cup stray \cup {x \in Things : Covered(x) \/ HalfRecorded(x)}

\* A deployment keeps all it was recorded with until its own `bundle del` begins, whatever
\* the teardowns of the deployments that share its candy record do.
StaysWhole == \A d \in Deploys : whole[d] \subseteq host

\* A teardown leaves a unit as it was before charly touched it: one that was enabled is
\* enabled again.  "we re-enable (and restart) here so the user's prior state is preserved"
RestoresPrior == \A u \in Base \ host : Covered(u) \/ \E p \in AllProcs : Active(p)

\* Every `bundle del` ends, and not by being killed.
EveryDelEnds == \A p \in AllProcs : pc[p] = "lock" ~> pc[p] = "done"
=============================================================================
