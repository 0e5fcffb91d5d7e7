------------------------------- MODULE Arbiter -------------------------------
(***************************************************************************)
(* The resource arbiter of candy/plugin-preempt together with the charly   *)
(* commands that drive it: a crash-safe lease ledger on disk, an advisory  *)
(* flock, preemptible holders that are stopped for a claimant and started  *)
(* again afterwards, and the driver mode of GPU-backed tokens.             *)
(*                                                                         *)
(* Every element of Procs is ONE charly process: it is started at most     *)
(* once, runs one command and ends or is killed.  The pair                 *)
(* (OwnerPID, OwnerStart) of a lease is therefore just an element of Procs.*)
(* The order of the leases in the file and of the holders in a list is     *)
(* abstracted to an arbitrary order.                                       *)
(***************************************************************************)
EXTENDS Naturals

CONSTANTS
  Procs,        \* the charly processes
  Deploys,      \* deployments: claimants and preemptible holders alike
  Tokens,       \* arbitration tokens
  GpuTokens,    \* the tokens the project maps to a GPU
  Requires,     \* [Deploys -> SUBSET Tokens]  requires_exclusive / requires_shared
  SharedClaim,  \* the deployments whose Requires is a requires_shared list
  Holds,        \* [Deploys -> SUBSET Tokens]  preemptible.holds ({}: not preemptible)
  OnSuccess,    \* the holders with restore: on-success (the others: always)
  Workload,     \* the <<command, deployment>> pairs the processes may run
  Faults,       \* what may go wrong, a subset of AllFaults
  MaxCrashes,   \* bound: processes killed in mid-command
  MaxReboots,   \* bound: host reboots
  NoProc,       \* the flock is free
  NoLease       \* the ledger has no lease of this claimant

AllCommands == {"check", "start", "stop", "vmstop", "restore", "reconcile"}

\* What may go wrong.  Seams that answer with an error: "stop" (a holder does not
\* stop), "late" (it stops, but after the wait timed out), "restore" / "rollback" (a holder does not start, on release / when an
\* acquire is undone), "flip" / "unflip" (the driver switch of an acquire /
\* release fails) and "wedge" / "unwedge" (it wedges the device_lock).  Outcomes
\* of the surrounding commands: "halt" (stopping the claimant fails), "linger" (the
\* guest that `vm stop` asked to shut down is still up), "bringup"
\* (it does not come up), "bedfail" (a check fails: the bed is left up), "keep"
\* (--keep).  The world: "down" (a deployment goes down by itself), "opstart"
\* (the operator starts a holder), "stall" (a wedge was a mere stall and ends),
\* "recover" (charly vm gpu recover).
AllFaults == {"stop", "late", "restore", "rollback", "flip", "unflip", "wedge", "unwedge",
              "halt", "linger", "bringup", "bedfail", "keep", "down", "opstart", "stall",
              "recover"}

\* ValidatePreemptibleOnNode rejects a node that holds a token it requires.
ASSUME ArbiterAssumption ==
  /\ GpuTokens \subseteq Tokens
  /\ Requires \in [Deploys -> SUBSET Tokens]
  /\ Holds \in [Deploys -> SUBSET Tokens]
  /\ \A d \in Deploys : Requires[d] \cap Holds[d] = {}
  /\ SharedClaim \subseteq Deploys
  /\ OnSuccess \subseteq Deploys
  /\ Workload \subseteq AllCommands \X Deploys
  /\ Faults \subseteq AllFaults
  /\ Deploys # {}
  /\ MaxCrashes \in Nat
  /\ MaxReboots \in Nat
  /\ NoProc \notin Procs

VARIABLES
  ledger,    \* leases.yml
  poison,    \* GPU tokens with a poison marker of the current boot
  lock,      \* the process that has the arbiter flock, or NoProc
  running,   \* the deployments that are up
  mode,      \* the driver each GPU token's IOMMU group is bound to
  wedges,    \* how many switches are stuck on each GPU token's device_lock
  pc,        \* where each process is
  job,       \* the local state of each process
  owed,      \* history: holders the arbiter stopped and nobody started again
  crashes,   \* number of kills so far
  reboots    \* number of reboots so far

disk  == <<ledger, poison>>
host  == <<running, mode, wedges>>
count == <<crashes, reboots>>
vars  == <<ledger, poison, lock, running, mode, wedges, pc, job, owed, crashes, reboots>>

-----------------------------------------------------------------------------
(* Leases.  Tokens, Shared, Mode and Claim of a lease are functions of its *)
(* claimant; `preempted` maps each holder to the tokens it was stopped for.*)

Preempted == [Deploys -> SUBSET Tokens]
Lease  == [transient : BOOLEAN, owner : Procs, preempted : Preempted]
Ledger == [Deploys -> Lease \cup {NoLease}]

ASSUME LeaseAssumption == NoLease \notin Lease

NoneP   == [d \in Deploys |-> {}]
Empty   == [d \in Deploys |-> NoLease]
Leases(L) == {c \in Deploys : L[c] # NoLease}
Listed(preempted) == {h \in Deploys : preempted[h] # {}}
Without(L, c) == [L EXCEPT ![c] = NoLease]

Overlap(c, d) == Requires[c] \cap Requires[d] # {}

\* (Names ending in _bug are mutations of the definition they stand before.)
ClaimedExclusively_bug(L, c) == FALSE

\* The refusal both acquire operations start with: a token of c is under an
\* exclusive lease.
ClaimedExclusively(L, c) ==
  \E d \in Leases(L) : d \notin SharedClaim /\ Overlap(c, d)

\* Only gpu-backed tokens can be poisoned.
firstPoisonedToken(c) == Requires[c] \cap GpuTokens \cap poison # {}

tokenClaimed_bug(L, toks) == FALSE

\* Some lease still claims a token of toks.
tokenClaimed(L, toks) == \E d \in Leases(L) : Requires[d] \cap toks # {}

tokenHeldByShared(L, c) == \E d \in Leases(L) : d \in SharedClaim /\ Overlap(c, d)

desiredModeForToken_bug(L, t) == "vfio"

\* vfio under any exclusive claim, nvidia while a shared one remains, else vfio.
desiredModeForToken(L, t) ==
  LET users == {d \in Leases(L) : t \in Requires[d]}
  IN  IF users # {} /\ users \subseteq SharedClaim THEN "nvidia" ELSE "vfio"

claimMode_bug(c) == IF c \in SharedClaim THEN "unbound" ELSE "vfio"

claimMode(c) == IF c \in SharedClaim THEN "nvidia" ELSE "vfio"

-----------------------------------------------------------------------------
(* Processes.                                                              *)

Job == [op : AllCommands,          \* the command
        who : Deploys,             \* its deployment
        rel : BOOLEAN,             \* inside ReleaseClaimant
        good : BOOLEAN,            \* its `success` argument
        mem : Ledger,              \* the ledger as this process has it in memory
        dirty : BOOLEAN,           \* reconcileStranded: `changed`
        seen : SUBSET Deploys,     \* reconcileStranded: leases it is past
        cur : Deploys,             \* the lease being released
        bad : BOOLEAN,             \* restoreHolders: a holder did not start
        todo : SUBSET Deploys,     \* holders to start, or the first ones to stop
        later : SUBSET Deploys,    \* carried-over holders, stopped next
        pods : SUBSET Deploys,     \* pods of the dropped shared leases, stopped last
        done : SUBSET Deploys,     \* stopHolders: toStop[:i]
        toks : SUBSET GpuTokens]   \* tokens whose mode is still to be set

PCs == {"new", "halt", "wait", "scan", "restore", "unflip", "flush", "decide", "append",
        "stop", "flip", "rollback", "up", "boot", "busy", "relwait", "commit", "done"}

NewJob(o, d) ==
  [op |-> o, who |-> d, rel |-> FALSE, good |-> TRUE, mem |-> Empty, dirty |-> FALSE,
   seen |-> {}, cur |-> d, bad |-> FALSE, todo |-> {}, later |-> {}, pods |-> {},
   done |-> {}, toks |-> {}]

\* ownerAlive: the process exists.
ownerAlive(p) == pc[p] \notin {"new", "done"}

leaseLive_bug(L, c) == c \in running
leaseLive_bug2(L, c) == ownerAlive(L[c].owner)

\* A transient lease lives with the process that took it, a persistent one with
\* the deployment or with the process that is bringing it up.
leaseLive(L, c) ==
  IF L[c].transient THEN ownerAlive(L[c].owner)
                    ELSE c \in running \/ ownerAlive(L[c].owner)

Goto(p, l) == pc' = [pc EXCEPT ![p] = l]

\* The command ends: the deferred unlock runs, or the kernel drops the flock.
Finish(p) ==
  /\ pc' = [pc EXCEPT ![p] = "done"]
  /\ job' = [job EXCEPT ![p] = NewJob(job[p].op, job[p].who)]
  /\ lock' = IF lock = p THEN NoProc ELSE lock

Init ==
  /\ ledger = Empty
  /\ poison = {}
  /\ lock = NoProc
  /\ running \in SUBSET {d \in Deploys : Requires[d] = {}}
  /\ mode \in [GpuTokens -> {"vfio", "nvidia"}]
  /\ wedges = [t \in GpuTokens |-> 0]
  /\ pc = [p \in Procs |-> "new"]
  /\ job = [p \in Procs |-> NewJob("reconcile", CHOOSE d \in Deploys : TRUE)]
  /\ owed = {}
  /\ crashes = 0
  /\ reboots = 0

-----------------------------------------------------------------------------
(* Starting a command.                                                     *)

\* A deployment is worked on by one command at a time (the bed lock of a check
\* run; elsewhere the operator's own discipline).
Sole(p, d) == \A q \in Procs \ {p} : ownerAlive(q) /\ job[q].op # "reconcile" => job[q].who # d

\* `charly preempt restore` without a claimant goes straight to
\* reconcileStranded, with no flock; stop commands stop their deployment first.
Begin(p, o, d) ==
  /\ pc[p] = "new"
  /\ <<o, d>> \in Workload
  /\ o # "reconcile" => Sole(p, d)
  /\ Goto(p, CASE o \in {"stop", "vmstop"} -> "halt"
               [] o \in {"check", "start"} -> "wait"
               [] o = "restore"            -> "relwait"
               [] o = "reconcile"          -> "scan")
  /\ job' = [job EXCEPT ![p] = [NewJob(o, d) EXCEPT !.mem = IF o = "reconcile" THEN ledger ELSE @]]
  /\ UNCHANGED <<disk, lock, host, owed, count>>

\* StopCmd, RemoveCmd and VmDestroyCmd defer the release, so a failed stop does
\* not prevent it; VmStopCmd returns.  VmStopCmd only asks for an ACPI shutdown and
\* does not wait for it.
Halt(p) ==
  /\ pc[p] = "halt"
  /\ \/ /\ running' = running \ {job[p].who}
        /\ Goto(p, "relwait")
        /\ UNCHANGED <<job, lock>>
     \/ /\ "linger" \in Faults /\ job[p].op = "vmstop"
        /\ Goto(p, "relwait")
        /\ UNCHANGED <<running, job, lock>>
     \/ /\ "halt" \in Faults
        /\ IF job[p].op = "stop" THEN Goto(p, "relwait") /\ UNCHANGED <<job, lock>>
                                 ELSE Finish(p)
        /\ UNCHANGED running
  /\ UNCHANGED <<disk, mode, wedges, owed, count>>

-----------------------------------------------------------------------------
(* reconcileStranded and releaseLeaseEffects.                              *)

\* Of the holders c's lease lists: those a failed claim leaves stopped, those a
\* surviving lease still keeps from their tokens, and those to start now.
Skipped(L, c, good) == {h \in Listed(L[c].preempted) : ~good /\ h \in OnSuccess}
Carry(L, c, good) ==
  {h \in Listed(L[c].preempted) \ Skipped(L, c, good) :
     tokenClaimed(Without(L, c), L[c].preempted[h])}
ToRestore(L, c, good) ==
  Listed(L[c].preempted) \ (Skipped(L, c, good) \cup Carry(L, c, good))

\* attachPreemptedToSurvivor: a carried holder goes to a surviving lease that
\* overlaps it, unless that lease already lists it.
Heirs(L, c, good) ==
  {heir \in [Carry(L, c, good) -> Leases(L) \ {c}] :
     \A h \in DOMAIN heir : Requires[heir[h]] \cap L[c].preempted[h] # {}}
Attach_bug(L, c, heir) == Without(L, c)
Attach(L, c, heir) ==
  [d \in Deploys |->
     IF d = c \/ L[d] = NoLease THEN NoLease
     ELSE [L[d] EXCEPT !.preempted = [h \in Deploys |->
             IF h \in DOMAIN heir /\ heir[h] = d /\ L[d].preempted[h] = {}
             THEN L[c].preempted[h] ELSE L[d].preempted[h]]]]

\* The blocking flock, then the load of the ledger.
LockAcquire(p) ==
  /\ pc[p] = "wait" /\ lock = NoProc
  /\ lock' = p
  /\ Goto(p, "scan")
  /\ job' = [job EXCEPT ![p].mem = ledger]
  /\ UNCHANGED <<disk, host, owed, count>>

\* ReleaseClaimant: nothing to do without a lease.
LockRelease(p) ==
  /\ pc[p] = "relwait" /\ lock = NoProc
  /\ LET c == job[p].who IN
     IF ledger[c] = NoLease
     THEN Finish(p)
     ELSE /\ lock' = p
          /\ Goto(p, "restore")
          /\ job' = [job EXCEPT ![p].mem = ledger, ![p].rel = TRUE, ![p].cur = c,
                                ![p].todo = ToRestore(ledger, c, job[p].good)]
  /\ UNCHANGED <<disk, host, owed, count>>

\* One turn of the loop of reconcileStranded.
Visit(p, c) ==
  /\ pc[p] = "scan"
  /\ c \in Leases(job[p].mem) \ job[p].seen
  /\ IF leaseLive(job[p].mem, c)
     THEN /\ job' = [job EXCEPT ![p].seen = @ \cup {c}]
          /\ UNCHANGED pc
     ELSE /\ job' = [job EXCEPT ![p].cur = c, ![p].todo = ToRestore(job[p].mem, c, TRUE)]
          /\ Goto(p, "restore")
  /\ UNCHANGED <<disk, lock, host, owed, count>>

\* The loop is over: an acquire goes on, `charly preempt restore` ends.
AfterScan(p) ==
  IF job[p].op = "reconcile"
  THEN Finish(p)
  ELSE /\ Goto(p, "decide")
       /\ job' = [job EXCEPT ![p] = NewJob(job[p].op, job[p].who)]
       /\ UNCHANGED lock

ScanEnd(p) ==
  /\ pc[p] = "scan"
  /\ Leases(job[p].mem) \subseteq job[p].seen
  /\ IF job[p].dirty THEN Goto(p, "flush") /\ UNCHANGED <<job, lock>> ELSE AfterScan(p)
  /\ UNCHANGED <<disk, host, owed, count>>

Flush(p) ==
  /\ pc[p] = "flush"
  /\ ledger' = job[p].mem
  /\ AfterScan(p)
  /\ UNCHANGED <<poison, host, owed, count>>

\* Starting h again, by whoever does it.
StartHolder(h) ==
  /\ running' = running \cup {h}
  /\ owed' = owed \ {h}

\* restoreHolders, for a release.
Restore(p, h) ==
  /\ pc[p] = "restore" /\ h \in job[p].todo
  /\ \/ /\ h \in running
        /\ job' = [job EXCEPT ![p].todo = @ \ {h}]
        /\ UNCHANGED <<running, owed>>
     \/ /\ h \notin running
        /\ StartHolder(h)
        /\ job' = [job EXCEPT ![p].todo = @ \ {h}]
     \/ /\ h \notin running /\ "restore" \in Faults
        /\ job' = [job EXCEPT ![p].todo = @ \ {h}, ![p].bad = TRUE]
        /\ UNCHANGED <<running, owed>>
  /\ UNCHANGED <<disk, lock, mode, wedges, pc, count>>

\* A holder that did not start: the lease is retained.
Retain(p) ==
  /\ pc[p] = "restore" /\ job[p].todo = {} /\ job[p].bad
  /\ IF job[p].rel
     THEN Finish(p)
     ELSE /\ Goto(p, "scan")
          /\ job' = [job EXCEPT ![p].bad = FALSE, ![p].seen = @ \cup {job[p].cur}]
          /\ UNCHANGED lock
  /\ UNCHANGED <<disk, host, owed, count>>

\* Every holder that could be started is up: the lease goes, in memory.
Released(p) ==
  /\ pc[p] = "restore" /\ job[p].todo = {} /\ ~job[p].bad
  /\ LET L == job[p].mem
         c == job[p].cur
         good == job[p].rel => job[p].good
     IN  \E heir \in Heirs(L, c, good) :
           job' = [job EXCEPT ![p].mem = Attach(L, c, heir),
                              ![p].toks = Requires[c] \cap GpuTokens]
  /\ Goto(p, "unflip")
  /\ UNCHANGED <<disk, lock, host, owed, count>>

\* A switch that reaches a card whose device_lock is wedged gets stuck as well.
Stuck(t) == wedges' = [wedges EXCEPT ![t] = IF @ = 0 THEN 1 ELSE 2]

\* switchModeForToken: an error is only logged, and a poison marker is not looked at.
Unflip(p, t) ==
  /\ pc[p] = "unflip" /\ t \in job[p].toks
  /\ LET target == desiredModeForToken(job[p].mem, t) IN
     \/ /\ wedges[t] = 0 \/ mode[t] = target
        /\ mode' = [mode EXCEPT ![t] = target]
        /\ UNCHANGED wedges
     \/ /\ mode[t] # target /\ wedges[t] = 0 /\ "unflip" \in Faults
        /\ UNCHANGED <<mode, wedges>>
     \/ /\ mode[t] # target /\ (wedges[t] > 0 \/ "unwedge" \in Faults)
        /\ Stuck(t)
        /\ UNCHANGED mode
  /\ job' = [job EXCEPT ![p].toks = @ \ {t}]
  /\ UNCHANGED <<disk, lock, running, pc, owed, count>>

UnflipEnd(p) ==
  /\ pc[p] = "unflip" /\ job[p].toks = {}
  /\ IF job[p].rel
     THEN Goto(p, "commit") /\ UNCHANGED job
     ELSE Goto(p, "scan") /\ job' = [job EXCEPT ![p].dirty = TRUE]
  /\ UNCHANGED <<disk, lock, host, owed, count>>

Commit(p) ==
  /\ pc[p] = "commit"
  /\ ledger' = job[p].mem
  /\ Finish(p)
  /\ UNCHANGED <<poison, host, owed, count>>

-----------------------------------------------------------------------------
(* AcquireExclusive and AcquireShared, under the flock.                    *)

\* holdersToStop: the running preemptible holders of a token of c.
holdersToStop(c) == {h \in Deploys \ {c} : h \in running /\ Holds[h] \cap Requires[c] # {}}

\* An exclusive claim drops every overlapping shared lease ...
Dropped(L, c) == {d \in Leases(L) : d \in SharedClaim /\ Overlap(c, d)}

CarriedOver_bug(L, c) == {}

\* ... and takes over what those leases owe.
CarriedOver(L, c) ==
  (UNION {Listed(L[d].preempted) : d \in Dropped(L, c)}) \ holdersToStop(c)
Donors(L, c) ==
  {from \in [CarriedOver(L, c) -> Dropped(L, c)] :
     \A h \in DOMAIN from : L[from[h]].preempted[h] # {}}

NewLease(p, c, fresh, L, from) ==
  [transient |-> job[p].op = "check",
   owner     |-> p,
   preempted |-> [h \in Deploys |->
                    IF h \in fresh THEN Holds[h] \cap Requires[c]
                    ELSE IF h \in DOMAIN from THEN L[from[h]].preempted[h]
                    ELSE {}]]

\* The claimant already has a lease: nothing is done, the claim is active.
Reacquire(p) ==
  /\ pc[p] = "decide" /\ ledger[job[p].who] # NoLease
  /\ Goto(p, "up")
  /\ lock' = NoProc
  /\ UNCHANGED <<disk, host, job, owed, count>>

Refuse(p) ==
  /\ pc[p] = "decide" /\ ledger[job[p].who] = NoLease
  /\ ClaimedExclusively(ledger, job[p].who) \/ firstPoisonedToken(job[p].who)
  /\ Finish(p)
  /\ UNCHANGED <<disk, host, owed, count>>

Admissible(p) ==
  /\ pc[p] = "decide" /\ ledger[job[p].who] = NoLease
  /\ ~ClaimedExclusively(ledger, job[p].who) /\ ~firstPoisonedToken(job[p].who)

DecideExclusive(p) ==
  /\ Admissible(p) /\ job[p].who \notin SharedClaim
  /\ LET c == job[p].who
         kept == [d \in Deploys |-> IF d \in Dropped(ledger, c) THEN NoLease ELSE ledger[d]]
     IN  \E from \in Donors(ledger, c) :
           job' = [job EXCEPT
             ![p].mem   = [kept EXCEPT ![c] = NewLease(p, c, holdersToStop(c), ledger, from)],
             ![p].todo  = holdersToStop(c),
             ![p].later = CarriedOver(ledger, c),
             ![p].pods  = Dropped(ledger, c) \cap running]
  /\ Goto(p, "append")
  /\ UNCHANGED <<disk, lock, host, owed, count>>

\* Only the first shared claim of a token stops its holders.
DecideShared(p) ==
  /\ Admissible(p) /\ job[p].who \in SharedClaim
  /\ LET c == job[p].who
         fresh == IF tokenHeldByShared(ledger, c) THEN {} ELSE holdersToStop(c)
     IN  job' = [job EXCEPT
           ![p].mem  = [ledger EXCEPT ![c] = NewLease(p, c, fresh, ledger, [d \in {} |-> d])],
           ![p].todo = fresh]
  /\ Goto(p, "append")
  /\ UNCHANGED <<disk, lock, host, owed, count>>

\* The lease is on disk before any holder is stopped.
Append(p) ==
  /\ pc[p] = "append"
  /\ ledger' = job[p].mem
  /\ Goto(p, "stop")
  /\ UNCHANGED <<poison, lock, host, job, owed, count>>

\* stopHolders goes through the list in order: own holders, carried ones, pods.
NextStops(p) ==
  IF job[p].todo # {} THEN job[p].todo
  ELSE IF job[p].later # {} THEN job[p].later ELSE job[p].pods

Stop(p, h) ==
  /\ pc[p] = "stop" /\ h \in NextStops(p)
  /\ running' = running \ {h}
  /\ owed' = IF h \in running /\ h \in Listed(job[p].mem[job[p].who].preempted)
             THEN owed \cup {h} ELSE owed
  /\ job' = [job EXCEPT ![p].todo = @ \ {h}, ![p].later = @ \ {h},
                        ![p].pods = @ \ {h}, ![p].done = @ \cup {h}]
  /\ UNCHANGED <<disk, lock, mode, wedges, pc, count>>

\* A holder does not stop in time: start again what was stopped before it.  The
\* shutdown it was asked for may still happen.
StopFails(p, h) ==
  /\ pc[p] = "stop" /\ h \in NextStops(p)
  /\ \/ /\ "stop" \in Faults
        /\ UNCHANGED <<running, owed>>
     \/ /\ "late" \in Faults /\ h \in running
        /\ running' = running \ {h}
        /\ owed' = IF h \in Listed(job[p].mem[job[p].who].preempted) THEN owed \cup {h} ELSE owed
  /\ Goto(p, "rollback")
  /\ job' = [job EXCEPT ![p].todo = job[p].done, ![p].later = {}, ![p].pods = {}]
  /\ UNCHANGED <<disk, lock, mode, wedges, count>>

StopsEnd_bug(p) ==
  /\ pc[p] = "stop" /\ job[p].done # {}
  /\ Goto(p, "flip")
  /\ job' = [job EXCEPT ![p].toks = Requires[job[p].who] \cap GpuTokens]
  /\ UNCHANGED <<disk, lock, host, owed, count>>

StopsEnd(p) ==
  /\ pc[p] = "stop" /\ NextStops(p) = {}
  /\ Goto(p, "flip")
  /\ job' = [job EXCEPT ![p].toks = Requires[job[p].who] \cap GpuTokens]
  /\ UNCHANGED <<disk, lock, host, owed, count>>

\* applyMode, one token: it is in the mode already, or is switched to it.
Flip(p, t) ==
  /\ pc[p] = "flip" /\ t \in job[p].toks /\ t \notin poison
  /\ wedges[t] = 0 \/ mode[t] = claimMode(job[p].who)
  /\ mode' = [mode EXCEPT ![t] = claimMode(job[p].who)]
  /\ job' = [job EXCEPT ![p].toks = @ \ {t}]
  /\ UNCHANGED <<disk, lock, running, wedges, pc, owed, count>>

\* Setting t fails: it is poisoned, or the switch fails, or it gets stuck.
FlipFault(p, t, stuck) ==
  \/ t \in poison /\ ~stuck
  \/ /\ t \notin poison /\ mode[t] # claimMode(job[p].who)
     /\ IF stuck THEN wedges[t] > 0 \/ "wedge" \in Faults
                 ELSE wedges[t] = 0 /\ "flip" \in Faults

FlipFails_bug(p, t) ==
  /\ pc[p] = "flip" /\ t \in job[p].toks
  /\ \E stuck \in BOOLEAN :
       /\ FlipFault(p, t, stuck)
       /\ IF stuck THEN Stuck(t) ELSE UNCHANGED wedges
  /\ Goto(p, "rollback")
  /\ job' = [job EXCEPT ![p].todo = Listed(job[p].mem[job[p].who].preempted), ![p].toks = {}]
  /\ UNCHANGED <<disk, lock, running, mode, owed, count>>

\* A stuck switch poisons the token; the holders of the lease are started again.
FlipFails(p, t) ==
  /\ pc[p] = "flip" /\ t \in job[p].toks
  /\ \E stuck \in BOOLEAN :
       /\ FlipFault(p, t, stuck)
       /\ IF stuck THEN Stuck(t) /\ poison' = poison \cup {t}
                   ELSE UNCHANGED <<wedges, poison>>
  /\ Goto(p, "rollback")
  /\ job' = [job EXCEPT ![p].todo = Listed(job[p].mem[job[p].who].preempted), ![p].toks = {}]
  /\ UNCHANGED <<ledger, lock, running, mode, owed, count>>

FlipEnd_bug(p) ==
  /\ pc[p] = "flip" /\ job[p].toks = {}
  /\ Goto(p, "up")
  /\ job' = [job EXCEPT ![p] = NewJob(job[p].op, job[p].who)]
  /\ UNCHANGED <<disk, lock, host, owed, count>>

FlipEnd(p) ==
  /\ pc[p] = "flip" /\ job[p].toks = {}
  /\ Goto(p, "up")
  /\ job' = [job EXCEPT ![p] = NewJob(job[p].op, job[p].who)]
  /\ lock' = NoProc
  /\ UNCHANGED <<disk, host, owed, count>>

\* Undoing an acquire: start errors are ignored ...
Rollback(p, h) ==
  /\ pc[p] = "rollback" /\ h \in job[p].todo
  /\ \/ h \in running /\ UNCHANGED <<running, owed>>
     \/ h \notin running /\ StartHolder(h)
     \/ h \notin running /\ "rollback" \in Faults /\ UNCHANGED <<running, owed>>
  /\ job' = [job EXCEPT ![p].todo = @ \ {h}]
  /\ UNCHANGED <<disk, lock, mode, wedges, pc, count>>

\* ... and removeLease drops the lease.
Drop(p) ==
  /\ pc[p] = "rollback" /\ job[p].todo = {}
  /\ ledger' = Without(ledger, job[p].who)
  /\ Finish(p)
  /\ UNCHANGED <<poison, host, owed, count>>

-----------------------------------------------------------------------------
(* The claimant, once its acquire has returned.                            *)

\* A check run first clears what an earlier run left of its bed.
ClearBed(p) ==
  /\ pc[p] = "up" /\ job[p].op = "check"
  /\ running' = running \ {job[p].who}
  /\ Goto(p, "boot")
  /\ UNCHANGED <<disk, lock, mode, wedges, job, owed, count>>

\* `charly start` and `charly vm create` bring it up and exit.
BringUp(p) ==
  /\ pc[p] = "up" /\ job[p].op # "check"
  /\ \/ running' = running \cup {job[p].who} /\ owed' = owed \ {job[p].who}
     \/ "bringup" \in Faults /\ UNCHANGED <<running, owed>>
  /\ Finish(p)
  /\ UNCHANGED <<disk, mode, wedges, count>>

\* A check run builds, deploys and goes on; a step that fails fails the run.
BootBed(p) ==
  /\ pc[p] = "boot"
  /\ \/ /\ running' = running \cup {job[p].who}
        /\ owed' = owed \ {job[p].who}
        /\ UNCHANGED job
     \/ /\ "bringup" \in Faults
        /\ job' = [job EXCEPT ![p].good = FALSE]
        /\ UNCHANGED <<running, owed>>
  /\ Goto(p, "busy")
  /\ UNCHANGED <<disk, lock, mode, wedges, count>>

CheckEnd_bug(p) ==
  /\ pc[p] = "busy"
  /\ Goto(p, "relwait")
  /\ UNCHANGED <<disk, lock, host, job, owed, count>>

CheckEnd_bug2(p) ==
  /\ pc[p] = "busy"
  /\ running' = running \ {job[p].who}
  /\ Finish(p)
  /\ UNCHANGED <<disk, mode, wedges, owed, count>>

\* runCheckBed ends: torn down on success, left up on failure or with --keep,
\* and in every case the deferred release follows.
CheckEnd(p) ==
  /\ pc[p] = "busy"
  /\ \/ /\ job[p].good
        /\ running' = running \ {job[p].who}
        /\ UNCHANGED job
     \/ /\ job[p].good /\ "keep" \in Faults
        /\ UNCHANGED <<running, job>>
     \/ /\ ~job[p].good \/ "bedfail" \in Faults
        /\ job' = [job EXCEPT ![p].good = FALSE]
        /\ UNCHANGED running
  /\ Goto(p, "relwait")
  /\ UNCHANGED <<disk, lock, mode, wedges, owed, count>>

-----------------------------------------------------------------------------
(* The world.                                                              *)

Crash(p) ==
  /\ ownerAlive(p) /\ crashes < MaxCrashes
  /\ Finish(p)
  /\ crashes' = crashes + 1
  /\ UNCHANGED <<disk, host, owed, reboots>>

\* The markers of the earlier boot no longer count.
Reboot ==
  /\ reboots < MaxReboots
  /\ reboots' = reboots + 1
  /\ pc' = [p \in Procs |-> IF ownerAlive(p) THEN "done" ELSE pc[p]]
  /\ job' = [p \in Procs |-> NewJob(job[p].op, job[p].who)]
  /\ lock' = NoProc
  /\ running' = {}
  /\ wedges' = [t \in GpuTokens |-> 0]
  /\ poison' = {}
  /\ UNCHANGED <<ledger, mode, owed, crashes>>

GoesDown(d) ==
  /\ "down" \in Faults /\ d \in running
  /\ running' = running \ {d}
  /\ UNCHANGED <<disk, lock, mode, wedges, pc, job, owed, count>>

OperatorStart(h) ==
  /\ "opstart" \in Faults /\ Requires[h] = {} /\ h \notin running
  /\ StartHolder(h)
  /\ UNCHANGED <<disk, lock, mode, wedges, pc, job, count>>

StallEnds(t) ==
  /\ "stall" \in Faults /\ wedges[t] > 0
  /\ wedges' = [wedges EXCEPT ![t] = 0]
  /\ UNCHANGED <<disk, lock, running, mode, pc, job, owed, count>>

\* `charly vm gpu recover`: refused on a wedged card, else vfio and no marker.
GpuRecover(t) ==
  /\ "recover" \in Faults /\ wedges[t] = 0
  /\ mode' = [mode EXCEPT ![t] = "vfio"]
  /\ poison' = poison \ {t}
  /\ UNCHANGED <<ledger, lock, running, wedges, pc, job, owed, count>>

-----------------------------------------------------------------------------

\* What a command does once it has begun.
Step(p) ==
  \/ Halt(p) \/ LockAcquire(p) \/ LockRelease(p)
  \/ \E c \in Deploys : Visit(p, c)
  \/ ScanEnd(p) \/ Flush(p)
  \/ \E h \in Deploys : Restore(p, h)
  \/ Retain(p) \/ Released(p)
  \/ \E t \in GpuTokens : Unflip(p, t)
  \/ UnflipEnd(p) \/ Commit(p)
  \/ Reacquire(p) \/ Refuse(p) \/ DecideExclusive(p) \/ DecideShared(p) \/ Append(p)
  \/ \E h \in Deploys : Stop(p, h) \/ StopFails(p, h)
  \/ StopsEnd(p)
  \/ \E t \in GpuTokens : Flip(p, t) \/ FlipFails(p, t)
  \/ FlipEnd(p)
  \/ \E h \in Deploys : Rollback(p, h)
  \/ Drop(p) \/ ClearBed(p) \/ BringUp(p) \/ BootBed(p) \/ CheckEnd(p)

World ==
  \/ \E p \in Procs : Crash(p)
  \/ Reboot
  \/ \E d \in Deploys : GoesDown(d) \/ OperatorStart(d)
  \/ \E t \in GpuTokens : StallEnds(t) \/ GpuRecover(t)

\* Every command that was begun has ended.
Quiet == (\A p \in Procs : ~ownerAlive(p)) /\ UNCHANGED vars

Next ==
  \/ \E p \in Procs, o \in AllCommands, d \in Deploys : Begin(p, o, d)
  \/ \E p \in Procs : Step(p)
  \/ World
  \/ Quiet

Spec == Init /\ [][Next]_vars

-----------------------------------------------------------------------------
(* Properties.                                                             *)

\* The state has its type (one per module).
TypeOK ==
  /\ ledger \in Ledger
  /\ poison \subseteq GpuTokens
  /\ lock \in Procs \cup {NoProc}
  /\ running \subseteq Deploys
  /\ mode \in [GpuTokens -> {"vfio", "nvidia"}]
  /\ wedges \in [GpuTokens -> 0..2]
  /\ pc \in [Procs -> PCs]
  /\ job \in [Procs -> Job]
  /\ owed \subseteq Deploys
  /\ crashes \in 0..MaxCrashes
  /\ reboots \in 0..MaxReboots

\* Two leases that overlap are both shared.
Compatible(L) ==
  \A c, d \in Leases(L) : c # d /\ Overlap(c, d) => c \in SharedClaim /\ d \in SharedClaim

\* The ledger on disk never grants one token to two claimants of which one
\* wants it for itself, whatever crashes, reconciles or fails in between
\* (the two refusal loops, arbiter.go:197-206 and :284-293).
LeaseExclusion == Compatible(ledger)

\* Crash safety, "the ledger is written BEFORE any holder is stopped"
\* (arbiter.go:28): a holder that the arbiter stopped and nobody started again
\* is listed by some lease on disk, so that a release or a reconcile finds it.
NoStrandedHolder == \A h \in owed : \E c \in Leases(ledger) : ledger[c].preempted[h] # {}

Using == {"up", "boot", "busy"}

\* A process past a successful exclusive acquire has its claim on disk until it
\* releases it itself: no concurrent command loses or steals it.
ClaimKept ==
  \A p \in Procs : LET c == job[p].who IN
    pc[p] \in Using /\ c \notin SharedClaim => ledger[c] # NoLease

\* While a process uses its claim, each GPU token of a lease it has on disk is
\* bound to the driver the claim needs, also after other leases came and went.
ClaimMode ==
  \A p \in Procs : LET c == job[p].who IN
    pc[p] \in Using /\ ledger[c] # NoLease
      => \A t \in Requires[c] \cap GpuTokens : mode[t] = claimMode(c)

\* AcquireExclusive gives SOLE use of the tokens: between two operations, no
\* other deployment that holds or requires a token of a running exclusive
\* claimant is up.
SoleUse ==
  lock = NoProc =>
    \A c \in Leases(ledger) \cap running : c \notin SharedClaim =>
      \A d \in running \ {c} : (Holds[d] \cup Requires[d]) \cap Requires[c] = {}

\* A process that uses its claim, exclusive or shared, does not find a
\* preemptible holder of one of its tokens up.
HoldersYield ==
  \A p \in Procs : LET c == job[p].who IN
    pc[p] \in Using /\ ledger[c] # NoLease
      => \A h \in running \ {c} : Holds[h] \cap Requires[c] = {}

\* A wedged card gets no second driver switch ("no later claimant may re-wedge").
NoRewedge == \A t \in GpuTokens : wedges[t] <= 1

\* p starts h while it releases the lease of job[p].cur.
Restores(p, h) == pc[p] = "restore" /\ h \in job[p].todo \ running /\ h \in running'

\* No holder is started under a live claim of another claimant on any of the
\* tokens it holds.
RestoreRespectsClaims ==
  [][\A p \in Procs, h \in Deploys : Restores(p, h) =>
       \A c \in Leases(ledger) \ {job[p].cur} :
         leaseLive(ledger, c) => Requires[c] \cap Holds[h] = {}]_vars

\* The holders of a claim are started again only when the claimant is down.
RestoreAfterTeardown ==
  [][\A p \in Procs, h \in Deploys : Restores(p, h) => job[p].cur \notin running]_vars

\* Every command of the arbiter gets its turn and ends.
EveryCommandEnds == \A p \in Procs : ownerAlive(p) ~> ~ownerAlive(p)

\* Every holder a check run stopped is up again in the end.
EveryHolderComesBack == \A h \in Deploys : h \in owed ~> h \notin owed

FairSpec == Spec /\ \A p \in Procs : WF_vars(Step(p))

\* The arbiter implements the claim table: a lease on disk is a claim, the
\* holders the leases list are its debts.
Owing == UNION {Listed(ledger[c].preempted) : c \in Leases(ledger)}
Promise == INSTANCE ClaimTable WITH claims <- Leases(ledger), debts <- Owing, up <- running

\* With every kill in it, but no reboot and no failing seam, each step of the
\* processes is one step of the claim table or none.
ImplementsClaimTable == Promise!Spec

=============================================================================
