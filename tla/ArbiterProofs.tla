---------------------------- MODULE ArbiterProofs ----------------------------
(***************************************************************************)
(* Type correctness of the arbiter and exclusion of the leases on disk,    *)
(* for every set of processes, deployments and tokens, every workload and  *)
(* every combination of faults, kills and reboots.  Then, each under the   *)
(* hypotheses it needs: a claim is kept, a restore respects the claims of  *)
(* others and finds its own claimant down, no holder is stranded, the      *)
(* arbiter implements ClaimTable, a claimant finds its drivers set, the    *)
(* holders of its tokens down and, if all claims are exclusive, nobody     *)
(* else up that wants them, and a wedged card is left alone.               *)
(***************************************************************************)
EXTENDS Arbiter, TLAPS

-----------------------------------------------------------------------------
(* The local state of a process keeps its type.  These lemmas are the only *)
(* ones that open the record type Job.                                     *)

LEMMA JobFields ==
  ASSUME NEW j \in Job
  PROVE  /\ j.op \in AllCommands /\ j.who \in Deploys /\ j.cur \in Deploys
         /\ j.rel \in BOOLEAN /\ j.good \in BOOLEAN
         /\ j.mem \in Ledger /\ j.seen \in SUBSET Deploys
         /\ j.todo \in SUBSET Deploys /\ j.later \in SUBSET Deploys
         /\ j.pods \in SUBSET Deploys /\ j.done \in SUBSET Deploys
         /\ j.toks \in SUBSET GpuTokens
BY DEF Job

LEMMA SetMem ==
  ASSUME NEW J \in [Procs -> Job], NEW p \in Procs,
         NEW L \in Ledger
  PROVE  [J EXCEPT ![p].mem = L] \in [Procs -> Job]
<1>1. [J[p] EXCEPT !.mem = L] \in Job
  BY DEF Job
<1> QED BY <1>1

LEMMA SetTodo ==
  ASSUME NEW J \in [Procs -> Job], NEW p \in Procs,
         NEW s \in SUBSET Deploys
  PROVE  [J EXCEPT ![p].todo = s] \in [Procs -> Job]
<1>1. [J[p] EXCEPT !.todo = s] \in Job
  BY DEF Job
<1> QED BY <1>1

LEMMA SetTodoBad ==
  ASSUME NEW J \in [Procs -> Job], NEW p \in Procs,
         NEW s \in SUBSET Deploys
  PROVE  [J EXCEPT ![p].todo = s, ![p].bad = TRUE] \in [Procs -> Job]
<1>1. [J[p] EXCEPT !.todo = s, !.bad = TRUE] \in Job
  BY ZenonT(60) DEF Job
<1> QED BY <1>1

LEMMA SetCurTodo ==
  ASSUME NEW J \in [Procs -> Job], NEW p \in Procs,
         NEW c \in Deploys, NEW s \in SUBSET Deploys
  PROVE  [J EXCEPT ![p].cur = c, ![p].todo = s] \in [Procs -> Job]
<1>1. [J[p] EXCEPT !.cur = c, !.todo = s] \in Job
  BY ZenonT(60) DEF Job
<1> QED BY <1>1

LEMMA SetSeen ==
  ASSUME NEW J \in [Procs -> Job], NEW p \in Procs,
         NEW s \in SUBSET Deploys
  PROVE  [J EXCEPT ![p].seen = s] \in [Procs -> Job]
<1>1. [J[p] EXCEPT !.seen = s] \in Job
  BY DEF Job
<1> QED BY <1>1

LEMMA SetBadSeen ==
  ASSUME NEW J \in [Procs -> Job], NEW p \in Procs,
         NEW s \in SUBSET Deploys
  PROVE  [J EXCEPT ![p].bad = FALSE, ![p].seen = s] \in [Procs -> Job]
<1>1. [J[p] EXCEPT !.bad = FALSE, !.seen = s] \in Job
  BY ZenonT(60) DEF Job
<1> QED BY <1>1

LEMMA SetDirty ==
  ASSUME NEW J \in [Procs -> Job], NEW p \in Procs
  PROVE  [J EXCEPT ![p].dirty = TRUE] \in [Procs -> Job]
<1>1. [J[p] EXCEPT !.dirty = TRUE] \in Job
  BY ZenonT(60) DEF Job
<1> QED BY <1>1

LEMMA SetGood ==
  ASSUME NEW J \in [Procs -> Job], NEW p \in Procs
  PROVE  [J EXCEPT ![p].good = FALSE] \in [Procs -> Job]
<1>1. [J[p] EXCEPT !.good = FALSE] \in Job
  BY ZenonT(60) DEF Job
<1> QED BY <1>1

LEMMA SetToks ==
  ASSUME NEW J \in [Procs -> Job], NEW p \in Procs,
         NEW t \in SUBSET GpuTokens
  PROVE  [J EXCEPT ![p].toks = t] \in [Procs -> Job]
<1>1. [J[p] EXCEPT !.toks = t] \in Job
  BY DEF Job
<1> QED BY <1>1

LEMMA SetMemToks ==
  ASSUME NEW J \in [Procs -> Job], NEW p \in Procs,
         NEW L \in Ledger, NEW t \in SUBSET GpuTokens
  PROVE  [J EXCEPT ![p].mem = L, ![p].toks = t] \in [Procs -> Job]
<1>1. [J[p] EXCEPT !.mem = L, !.toks = t] \in Job
  BY ZenonT(60) DEF Job
<1> QED BY <1>1

LEMMA SetTodoToks ==
  ASSUME NEW J \in [Procs -> Job], NEW p \in Procs,
         NEW s \in SUBSET Deploys, NEW t \in SUBSET GpuTokens
  PROVE  [J EXCEPT ![p].todo = s, ![p].toks = t] \in [Procs -> Job]
<1>1. [J[p] EXCEPT !.todo = s, !.toks = t] \in Job
  BY ZenonT(60) DEF Job
<1> QED BY <1>1

LEMMA SetMemTodo ==
  ASSUME NEW J \in [Procs -> Job], NEW p \in Procs,
         NEW L \in Ledger, NEW s \in SUBSET Deploys
  PROVE  [J EXCEPT ![p].mem = L, ![p].todo = s] \in [Procs -> Job]
<1>1. [J[p] EXCEPT !.mem = L, !.todo = s] \in Job
  BY ZenonT(60) DEF Job
<1> QED BY <1>1

LEMMA SetRelease ==
  ASSUME NEW J \in [Procs -> Job], NEW p \in Procs,
         NEW L \in Ledger, NEW c \in Deploys, NEW s \in SUBSET Deploys
  PROVE  [J EXCEPT ![p].mem = L, ![p].rel = TRUE, ![p].cur = c, ![p].todo = s] \in [Procs -> Job]
<1>1. [J[p] EXCEPT !.mem = L, !.rel = TRUE, !.cur = c, !.todo = s] \in Job
  BY ZenonT(60) DEF Job
<1> QED BY <1>1

LEMMA SetRollback ==
  ASSUME NEW J \in [Procs -> Job], NEW p \in Procs,
         NEW s \in SUBSET Deploys
  PROVE  [J EXCEPT ![p].todo = s, ![p].later = {}, ![p].pods = {}] \in [Procs -> Job]
<1>1. [J[p] EXCEPT !.todo = s, !.later = {}, !.pods = {}] \in Job
  BY ZenonT(60) DEF Job
<1> QED BY <1>1

LEMMA SetStopped ==
  ASSUME NEW J \in [Procs -> Job], NEW p \in Procs,
         NEW a \in SUBSET Deploys, NEW b \in SUBSET Deploys,
         NEW c \in SUBSET Deploys, NEW d \in SUBSET Deploys
  PROVE  [J EXCEPT ![p].todo = a, ![p].later = b, ![p].pods = c, ![p].done = d] \in [Procs -> Job]
<1>1. [J[p] EXCEPT !.todo = a, !.later = b, !.pods = c, !.done = d] \in Job
  BY ZenonT(60) DEF Job
<1> QED BY <1>1

LEMMA SetClaim ==
  ASSUME NEW J \in [Procs -> Job], NEW p \in Procs,
         NEW L \in Ledger, NEW a \in SUBSET Deploys,
         NEW b \in SUBSET Deploys, NEW c \in SUBSET Deploys
  PROVE  [J EXCEPT ![p].mem = L, ![p].todo = a, ![p].later = b, ![p].pods = c] \in [Procs -> Job]
<1>1. [J[p] EXCEPT !.mem = L, !.todo = a, !.later = b, !.pods = c] \in Job
  BY ZenonT(60) DEF Job
<1> QED BY <1>1

-----------------------------------------------------------------------------
(* The values the actions compute have their type.                         *)

LEMMA NewJobType ==
  ASSUME NEW o \in AllCommands, NEW d \in Deploys
  PROVE  NewJob(o, d) \in Job
BY DEF NewJob, Job, Ledger, Empty

LEMMA WithoutType ==
  ASSUME NEW L \in Ledger, NEW c \in Deploys
  PROVE  Without(L, c) \in Ledger
BY DEF Without, Ledger

LEMMA AttachType ==
  ASSUME NEW L \in Ledger, NEW c \in Leases(L), NEW good \in BOOLEAN,
         NEW heir \in Heirs(L, c, good)
  PROVE  Attach(L, c, heir) \in Ledger
<1> DEFINE lst(d) == [h \in Deploys |->
             IF h \in DOMAIN heir /\ heir[h] = d /\ L[d].preempted[h] = {}
             THEN L[c].preempted[h] ELSE L[d].preempted[h]]
<1>1. SUFFICES ASSUME NEW d \in Deploys, d # c, L[d] # NoLease
               PROVE  [L[d] EXCEPT !.preempted = lst(d)] \in Lease
  BY DEF Attach, Ledger
<1>2. L[d] \in Lease
  BY <1>1 DEF Ledger
<1>3. L[c] \in Lease
  BY DEF Leases, Ledger
<1>4. lst(d) \in Preempted
  BY <1>2, <1>3 DEF Lease, Preempted
<1> HIDE DEF lst
<1> QED BY <1>2, <1>4 DEF Lease

LEMMA NewLeaseType ==
  ASSUME TypeOK, NEW p \in Procs, NEW c \in Deploys, NEW fresh \in SUBSET Deploys,
         NEW L \in Ledger, NEW from,
         \A h \in DOMAIN from : from[h] \in Leases(L)
  PROVE  NewLease(p, c, fresh, L, from) \in Lease
<1> DEFINE lst == [h \in Deploys |->
             IF h \in fresh THEN Holds[h] \cap Requires[c]
             ELSE IF h \in DOMAIN from THEN L[from[h]].preempted[h]
             ELSE {}]
<1>1. \A h \in DOMAIN from : L[from[h]] \in Lease
  BY DEF Leases, Ledger
<1>2. lst \in Preempted
  BY <1>1, ArbiterAssumption DEF Lease, Preempted
<1> HIDE DEF lst
<1>3. (job[p].op = "check") \in BOOLEAN
  OBVIOUS
<1> QED BY <1>2, <1>3 DEF NewLease, Lease, lst

\* The part of TypeOK that a process changes by itself.
ProcOK ==
  /\ lock \in Procs \cup {NoProc}
  /\ pc \in [Procs -> PCs]
  /\ job \in [Procs -> Job]

LEMMA FinishType ==
  ASSUME TypeOK, NEW p \in Procs, Finish(p)
  PROVE  ProcOK'
<1>1. NewJob(job[p].op, job[p].who) \in Job
  BY NewJobType, JobFields DEF TypeOK
<1> QED BY <1>1 DEF TypeOK, ProcOK, Finish, PCs

LEMMA GotoType ==
  ASSUME TypeOK, NEW p \in Procs, NEW l \in PCs, Goto(p, l)
  PROVE  pc' \in [Procs -> PCs]
BY DEF TypeOK, Goto

LEMMA StartHolderType ==
  ASSUME TypeOK, NEW h \in Deploys, StartHolder(h)
  PROVE  running' \subseteq Deploys /\ owed' \subseteq Deploys
BY DEF TypeOK, StartHolder

\* The lease a process is releasing is one of its ledger.
Releasing == \A p \in Procs : pc[p] = "restore" => job[p].cur \in Leases(job[p].mem)

TypeInv == TypeOK /\ Releasing

LEMMA BeginType ==
  ASSUME TypeInv, NEW p \in Procs, NEW o \in AllCommands, NEW d \in Deploys, Begin(p, o, d)
  PROVE  TypeInv'
<1> USE DEF TypeInv
<1>1. pc' \in [Procs -> PCs] /\ pc'[p] # "restore"
  BY DEF TypeOK, Begin, Goto, PCs, AllCommands
<1>2. [NewJob(o, d) EXCEPT !.mem = IF o = "reconcile" THEN ledger ELSE @] \in Job
  <2>1. NewJob(o, d) \in Job /\ ledger \in Ledger
    BY NewJobType DEF TypeOK
  <2>2. ASSUME NEW j \in Job, NEW L \in Ledger PROVE [j EXCEPT !.mem = L] \in Job
    BY DEF Job
  <2> QED BY <2>1, <2>2, JobFields
<1>3. TypeOK'
  BY <1>1, <1>2 DEF TypeOK, Begin, disk, host, count
<1>4. Releasing'
  BY <1>1 DEF TypeOK, Begin, Goto, Releasing
<1> QED BY <1>3, <1>4

LEMMA HaltType ==
  ASSUME TypeInv, NEW p \in Procs, Halt(p)
  PROVE  TypeInv'
<1> USE DEF TypeInv
<1>1. ProcOK' /\ running' \subseteq Deploys
  BY FinishType, GotoType DEF TypeOK, Halt, PCs, ProcOK
<1>2. TypeOK'
  BY <1>1 DEF TypeOK, ProcOK, Halt, disk, count
<1>3. Releasing'
  BY DEF TypeOK, Halt, Goto, Finish, Releasing
<1> QED BY <1>2, <1>3

LEMMA ReleasedType ==
  ASSUME TypeInv, NEW p \in Procs, Released(p)
  PROVE  TypeInv'
<1> USE DEF TypeInv
<1> DEFINE L == job[p].mem
           c == job[p].cur
           good == job[p].rel => job[p].good
<1>1. PICK heir \in Heirs(L, c, good) :
        job' = [job EXCEPT ![p].mem = Attach(L, c, heir), ![p].toks = Requires[c] \cap GpuTokens]
  BY DEF Released
<1>2. L \in Ledger /\ c \in Leases(L) /\ good \in BOOLEAN /\ c \in Deploys
  BY JobFields DEF TypeOK, Released, Releasing
<1>3. Attach(L, c, heir) \in Ledger
  BY <1>2, AttachType
<1> HIDE DEF L, c, good
<1>4. Requires[c] \cap GpuTokens \in SUBSET GpuTokens
  OBVIOUS
<1>5. job' \in [Procs -> Job]
  BY <1>1, <1>3, <1>4, SetMemToks, ZenonT(30) DEF TypeOK
<1>6. TypeOK'
  BY <1>5, GotoType DEF TypeOK, Released, PCs, disk, host, count
<1>7. Releasing'
  BY <1>1 DEF TypeOK, Released, Goto, Releasing
<1> QED BY <1>6, <1>7

LEMMA AfterScanType ==
  ASSUME TypeOK, NEW p \in Procs, AfterScan(p)
  PROVE  ProcOK'
<1>1. NewJob(job[p].op, job[p].who) \in Job
  BY NewJobType, JobFields DEF TypeOK
<1> QED BY <1>1, FinishType DEF TypeOK, ProcOK, AfterScan, Goto, PCs

LEMMA LockAcquireType ==
  ASSUME TypeInv, NEW p \in Procs, LockAcquire(p)
  PROVE  TypeInv'
<1> USE DEF TypeInv
<1>1. job' \in [Procs -> Job]
  BY SetMem DEF TypeOK, LockAcquire
<1>8. TypeOK'
  BY <1>1, GotoType DEF TypeOK, LockAcquire, PCs, disk, host, count
<1>9. Releasing'
  BY DEF TypeOK, LockAcquire, Goto, Finish, Releasing
<1> QED BY <1>8, <1>9

LEMMA VisitType ==
  ASSUME TypeInv, NEW p \in Procs, NEW c \in Deploys, Visit(p, c)
  PROVE  TypeInv'
<1> USE DEF TypeInv
<1>1. job' \in [Procs -> Job]
  <2> DEFINE todo == ToRestore(job[p].mem, c, TRUE)
  <2>1. \/ job' = [job EXCEPT ![p].seen = job[p].seen \cup {c}]
        \/ job' = [job EXCEPT ![p].cur = c, ![p].todo = todo]
    BY DEF Visit
  <2>2. /\ job[p].seen \cup {c} \in SUBSET Deploys /\ todo \in SUBSET Deploys
        /\ job \in [Procs -> Job]
    BY JobFields DEF TypeOK, ToRestore, Listed
  <2> HIDE DEF todo
  <2>3. CASE job' = [job EXCEPT ![p].seen = job[p].seen \cup {c}]
    BY <2>2, <2>3, SetSeen
  <2>4. CASE job' = [job EXCEPT ![p].cur = c, ![p].todo = todo]
    BY <2>2, <2>4, SetCurTodo
  <2> QED BY <2>1, <2>3, <2>4
<1>8. TypeOK'
  BY <1>1, GotoType DEF TypeOK, Visit, PCs, disk, host, count, ToRestore, Listed
<1>9. Releasing'
  <2>1. job[p] \in Job /\ pc[p] = "scan" /\ c \in Leases(job[p].mem)
    BY DEF TypeOK, Visit
  <2>2. \A q \in Procs \ {p} : job'[q] = job[q] /\ pc'[q] = pc[q]
    BY DEF TypeOK, Visit, Goto
  <2>3. pc'[p] = "restore" => job'[p].mem = job[p].mem /\ job'[p].cur = c
    <3> DEFINE todo == ToRestore(job[p].mem, c, TRUE)
    <3> SUFFICES ASSUME pc'[p] = "restore"
                 PROVE  job'[p].mem = job[p].mem /\ job'[p].cur = c
      OBVIOUS
    <3>1. job' = [job EXCEPT ![p].cur = c, ![p].todo = todo]
      BY <2>1 DEF TypeOK, Visit
    <3> HIDE DEF todo
    <3> QED BY <2>1, <3>1 DEF TypeOK, Job
  <2> QED BY <2>1, <2>2, <2>3 DEF Releasing
<1> QED BY <1>8, <1>9

LEMMA ScanEndType ==
  ASSUME TypeInv, NEW p \in Procs, ScanEnd(p)
  PROVE  TypeInv'
<1> USE DEF TypeInv
<1>8. TypeOK'
  BY FinishType, GotoType, AfterScanType DEF TypeOK, ScanEnd, PCs, disk, host, count, ProcOK
<1>9. Releasing'
  BY DEF TypeOK, ScanEnd, Goto, Finish, Releasing, AfterScan
<1> QED BY <1>8, <1>9

LEMMA FlushType ==
  ASSUME TypeInv, NEW p \in Procs, Flush(p)
  PROVE  TypeInv'
<1> USE DEF TypeInv
<1>8. TypeOK'
  BY JobFields, AfterScanType DEF TypeOK, Flush, PCs, disk, host, count, ProcOK
<1>9. Releasing'
  BY DEF TypeOK, Flush, Goto, Finish, Releasing, AfterScan
<1> QED BY <1>8, <1>9

LEMMA RestoreType ==
  ASSUME TypeInv, NEW p \in Procs, NEW h \in Deploys, Restore(p, h)
  PROVE  TypeInv'
<1> USE DEF TypeInv
<1>1. job' \in [Procs -> Job]
  <2>1. job[p].todo \ {h} \in SUBSET Deploys /\ job \in [Procs -> Job]
    BY JobFields DEF TypeOK
  <2>2. CASE job' = [job EXCEPT ![p].todo = job[p].todo \ {h}]
    BY <2>1, <2>2, SetTodo
  <2>3. CASE job' = [job EXCEPT ![p].todo = job[p].todo \ {h}, ![p].bad = TRUE]
    BY <2>1, <2>3, SetTodoBad
  <2> QED BY <2>2, <2>3 DEF Restore
<1>8. TypeOK'
  BY <1>1, StartHolderType DEF TypeOK, Restore, PCs, disk, host, count
<1>9. Releasing'
  <2>1. job \in [Procs -> Job]
    BY DEF TypeOK
  <2>2. \A q \in Procs : job'[q].mem = job[q].mem /\ job'[q].cur = job[q].cur
    BY <2>1 DEF Restore, Job
  <2>3. pc' = pc
    BY DEF Restore
  <2> QED BY <2>2, <2>3 DEF Releasing
<1> QED BY <1>8, <1>9

LEMMA RetainType ==
  ASSUME TypeInv, NEW p \in Procs, Retain(p)
  PROVE  TypeInv'
<1> USE DEF TypeInv
<1>1. ASSUME job' = [job EXCEPT ![p].bad = FALSE, ![p].seen = job[p].seen \cup {job[p].cur}]
      PROVE  job' \in [Procs -> Job]
  <2>1. job[p].seen \cup {job[p].cur} \in SUBSET Deploys
    BY JobFields DEF TypeOK
  <2> QED BY <1>1, <2>1, SetBadSeen, ZenonT(30) DEF TypeOK
<1>8. TypeOK'
  BY <1>1, FinishType, GotoType, ZenonT(30) DEF TypeOK, Retain, PCs, disk, host, count, ProcOK
<1>9. Releasing'
  BY DEF TypeOK, Retain, Goto, Finish, Releasing
<1> QED BY <1>8, <1>9

LEMMA UnflipType ==
  ASSUME TypeInv, NEW p \in Procs, NEW t \in GpuTokens, Unflip(p, t)
  PROVE  TypeInv'
<1> USE DEF TypeInv
<1>1. job' \in [Procs -> Job]
  <2>1. job' = [job EXCEPT ![p].toks = job[p].toks \ {t}]
    BY DEF Unflip
  <2>2. job[p].toks \ {t} \in SUBSET GpuTokens
    BY JobFields DEF TypeOK
  <2> QED BY <2>1, <2>2, SetToks DEF TypeOK
<1>8. TypeOK'
  BY <1>1 DEF TypeOK, Unflip, PCs, disk, host, count, desiredModeForToken, Stuck
<1>9. Releasing'
  BY DEF TypeOK, Unflip, Goto, Finish, Releasing
<1> QED BY <1>8, <1>9

LEMMA UnflipEndType ==
  ASSUME TypeInv, NEW p \in Procs, UnflipEnd(p)
  PROVE  TypeInv'
<1> USE DEF TypeInv
<1>1. job' \in [Procs -> Job]
  BY SetDirty DEF TypeOK, UnflipEnd
<1>8. TypeOK'
  BY <1>1, GotoType DEF TypeOK, UnflipEnd, PCs, disk, host, count
<1>9. Releasing'
  BY DEF TypeOK, UnflipEnd, Goto, Finish, Releasing
<1> QED BY <1>8, <1>9

LEMMA CommitType ==
  ASSUME TypeInv, NEW p \in Procs, Commit(p)
  PROVE  TypeInv'
<1> USE DEF TypeInv
<1>8. TypeOK'
  BY JobFields, FinishType DEF TypeOK, Commit, PCs, disk, host, count, ProcOK
<1>9. Releasing'
  BY DEF TypeOK, Commit, Goto, Finish, Releasing
<1> QED BY <1>8, <1>9

LEMMA ReacquireType ==
  ASSUME TypeInv, NEW p \in Procs, Reacquire(p)
  PROVE  TypeInv'
<1> USE DEF TypeInv
<1>8. TypeOK'
  BY GotoType DEF TypeOK, Reacquire, PCs, disk, host, count
<1>9. Releasing'
  BY DEF TypeOK, Reacquire, Goto, Finish, Releasing
<1> QED BY <1>8, <1>9

LEMMA RefuseType ==
  ASSUME TypeInv, NEW p \in Procs, Refuse(p)
  PROVE  TypeInv'
<1> USE DEF TypeInv
<1>8. TypeOK'
  BY FinishType DEF TypeOK, Refuse, PCs, disk, host, count, ProcOK
<1>9. Releasing'
  BY DEF TypeOK, Refuse, Goto, Finish, Releasing
<1> QED BY <1>8, <1>9

LEMMA AppendType ==
  ASSUME TypeInv, NEW p \in Procs, Append(p)
  PROVE  TypeInv'
<1> USE DEF TypeInv
<1>8. TypeOK'
  BY JobFields, GotoType DEF TypeOK, Append, PCs, disk, host, count
<1>9. Releasing'
  BY DEF TypeOK, Append, Goto, Finish, Releasing
<1> QED BY <1>8, <1>9

LEMMA StopType ==
  ASSUME TypeInv, NEW p \in Procs, NEW h \in Deploys, Stop(p, h)
  PROVE  TypeInv'
<1> USE DEF TypeInv
<1>1. job' \in [Procs -> Job]
  <2>1. job' = [job EXCEPT ![p].todo = job[p].todo \ {h}, ![p].later = job[p].later \ {h},
                           ![p].pods = job[p].pods \ {h}, ![p].done = job[p].done \cup {h}]
    BY DEF Stop
  <2>2. /\ job[p].todo \ {h} \in SUBSET Deploys /\ job[p].later \ {h} \in SUBSET Deploys
        /\ job[p].pods \ {h} \in SUBSET Deploys /\ job[p].done \cup {h} \in SUBSET Deploys
    BY JobFields DEF TypeOK
  <2>3. job \in [Procs -> Job]
    BY DEF TypeOK
  <2> QED BY <2>1, <2>2, <2>3, SetStopped, ZenonT(30)
<1>8. TypeOK'
  BY <1>1 DEF TypeOK, Stop, PCs, disk, host, count
<1>9. Releasing'
  BY DEF TypeOK, Stop, Goto, Finish, Releasing
<1> QED BY <1>8, <1>9

LEMMA StopFailsType ==
  ASSUME TypeInv, NEW p \in Procs, NEW h \in Deploys, StopFails(p, h)
  PROVE  TypeInv'
<1> USE DEF TypeInv
<1>1. job' \in [Procs -> Job]
  <2>1. job' = [job EXCEPT ![p].todo = job[p].done, ![p].later = {}, ![p].pods = {}]
    BY DEF StopFails
  <2>2. job[p].done \in SUBSET Deploys
    BY JobFields DEF TypeOK
  <2> QED BY <2>1, <2>2, SetRollback DEF TypeOK
<1>8. TypeOK'
  BY <1>1, GotoType DEF TypeOK, StopFails, PCs, disk, host, count
<1>9. Releasing'
  BY DEF TypeOK, StopFails, Goto, Finish, Releasing
<1> QED BY <1>8, <1>9

LEMMA StopsEndType ==
  ASSUME TypeInv, NEW p \in Procs, StopsEnd(p)
  PROVE  TypeInv'
<1> USE DEF TypeInv
<1>1. job' \in [Procs -> Job]
  <2>1. job' = [job EXCEPT ![p].toks = Requires[job[p].who] \cap GpuTokens]
    BY DEF StopsEnd
  <2> QED BY <2>1, SetToks DEF TypeOK
<1>8. TypeOK'
  BY <1>1, GotoType DEF TypeOK, StopsEnd, PCs, disk, host, count
<1>9. Releasing'
  BY DEF TypeOK, StopsEnd, Goto, Finish, Releasing
<1> QED BY <1>8, <1>9

LEMMA FlipType ==
  ASSUME TypeInv, NEW p \in Procs, NEW t \in GpuTokens, Flip(p, t)
  PROVE  TypeInv'
<1> USE DEF TypeInv
<1>1. job' \in [Procs -> Job]
  <2>1. job' = [job EXCEPT ![p].toks = job[p].toks \ {t}]
    BY DEF Flip
  <2>2. job[p].toks \ {t} \in SUBSET GpuTokens
    BY JobFields DEF TypeOK
  <2> QED BY <2>1, <2>2, SetToks DEF TypeOK
<1>8. TypeOK'
  BY <1>1 DEF TypeOK, Flip, PCs, disk, host, count, claimMode
<1>9. Releasing'
  BY DEF TypeOK, Flip, Goto, Finish, Releasing
<1> QED BY <1>8, <1>9

LEMMA FlipFailsType ==
  ASSUME TypeInv, NEW p \in Procs, NEW t \in GpuTokens, FlipFails(p, t)
  PROVE  TypeInv'
<1> USE DEF TypeInv
<1>1. job' \in [Procs -> Job]
  <2> DEFINE todo == Listed(job[p].mem[job[p].who].preempted)
  <2>1. job' = [job EXCEPT ![p].todo = todo, ![p].toks = {}]
    BY DEF FlipFails
  <2>2. todo \in SUBSET Deploys /\ {} \in SUBSET GpuTokens
    BY DEF Listed
  <2> HIDE DEF todo
  <2> QED BY <2>1, <2>2, SetTodoToks, ZenonT(30) DEF TypeOK
<1>8. TypeOK'
  BY <1>1, GotoType DEF TypeOK, FlipFails, PCs, disk, host, count, Listed, Stuck
<1>9. Releasing'
  BY DEF TypeOK, FlipFails, Goto, Finish, Releasing
<1> QED BY <1>8, <1>9

LEMMA FlipEndType ==
  ASSUME TypeInv, NEW p \in Procs, FlipEnd(p)
  PROVE  TypeInv'
<1> USE DEF TypeInv
<1>1. job' \in [Procs -> Job]
  <2>1. NewJob(job[p].op, job[p].who) \in Job
    BY NewJobType, JobFields DEF TypeOK
  <2> QED BY <2>1 DEF TypeOK, FlipEnd
<1>8. TypeOK'
  BY <1>1, GotoType DEF TypeOK, FlipEnd, PCs, disk, host, count
<1>9. Releasing'
  BY DEF TypeOK, FlipEnd, Goto, Finish, Releasing
<1> QED BY <1>8, <1>9

LEMMA RollbackType ==
  ASSUME TypeInv, NEW p \in Procs, NEW h \in Deploys, Rollback(p, h)
  PROVE  TypeInv'
<1> USE DEF TypeInv
<1>1. job' \in [Procs -> Job]
  <2>1. job' = [job EXCEPT ![p].todo = job[p].todo \ {h}]
    BY DEF Rollback
  <2>2. job[p].todo \ {h} \in SUBSET Deploys
    BY JobFields DEF TypeOK
  <2> QED BY <2>1, <2>2, SetTodo DEF TypeOK
<1>8. TypeOK'
  BY <1>1, StartHolderType DEF TypeOK, Rollback, PCs, disk, host, count
<1>9. Releasing'
  BY DEF TypeOK, Rollback, Goto, Finish, Releasing
<1> QED BY <1>8, <1>9

LEMMA DropType ==
  ASSUME TypeInv, NEW p \in Procs, Drop(p)
  PROVE  TypeInv'
<1> USE DEF TypeInv
<1>8. TypeOK'
  BY JobFields, WithoutType, FinishType DEF TypeOK, Drop, PCs, disk, host, count, ProcOK
<1>9. Releasing'
  BY DEF TypeOK, Drop, Goto, Finish, Releasing
<1> QED BY <1>8, <1>9

LEMMA ClearBedType ==
  ASSUME TypeInv, NEW p \in Procs, ClearBed(p)
  PROVE  TypeInv'
<1> USE DEF TypeInv
<1>8. TypeOK'
  BY GotoType DEF TypeOK, ClearBed, PCs, disk, host, count
<1>9. Releasing'
  BY DEF TypeOK, ClearBed, Goto, Finish, Releasing
<1> QED BY <1>8, <1>9

LEMMA BringUpType ==
  ASSUME TypeInv, NEW p \in Procs, BringUp(p)
  PROVE  TypeInv'
<1> USE DEF TypeInv
<1>8. TypeOK'
  BY JobFields, FinishType, GotoType DEF TypeOK, BringUp, PCs, disk, host, count, ProcOK
<1>9. Releasing'
  BY DEF TypeOK, BringUp, Goto, Finish, Releasing
<1> QED BY <1>8, <1>9

LEMMA BootBedType ==
  ASSUME TypeInv, NEW p \in Procs, BootBed(p)
  PROVE  TypeInv'
<1> USE DEF TypeInv
<1>1. job' \in [Procs -> Job]
  BY SetGood DEF TypeOK, BootBed
<1>8. TypeOK'
  BY JobFields, <1>1, GotoType DEF TypeOK, BootBed, PCs, disk, host, count
<1>9. Releasing'
  BY DEF TypeOK, BootBed, Goto, Releasing
<1> QED BY <1>8, <1>9

LEMMA CheckEndType ==
  ASSUME TypeInv, NEW p \in Procs, CheckEnd(p)
  PROVE  TypeInv'
<1> USE DEF TypeInv
<1>1. job' \in [Procs -> Job]
  BY SetGood DEF TypeOK, CheckEnd
<1>8. TypeOK'
  BY <1>1, GotoType DEF TypeOK, CheckEnd, PCs, disk, host, count
<1>9. Releasing'
  BY DEF TypeOK, CheckEnd, Goto, Finish, Releasing
<1> QED BY <1>8, <1>9

LEMMA CrashType ==
  ASSUME TypeInv, NEW p \in Procs, Crash(p)
  PROVE  TypeInv'
<1> USE DEF TypeInv
<1>8. TypeOK'
  BY FinishType, ArbiterAssumption DEF TypeOK, Crash, PCs, disk, host, count, ProcOK
<1>9. Releasing'
  BY DEF TypeOK, Crash, Goto, Finish, Releasing
<1> QED BY <1>8, <1>9

LEMMA LockReleaseType ==
  ASSUME TypeInv, NEW p \in Procs, LockRelease(p)
  PROVE  TypeInv'
<1> USE DEF TypeInv
<1> DEFINE c == job[p].who
           todo == ToRestore(ledger, c, job[p].good)
           J == [job EXCEPT ![p].mem = ledger, ![p].rel = TRUE, ![p].cur = c, ![p].todo = todo]
<1>1. CASE ledger[c] = NoLease
  <2>1. ProcOK' /\ Finish(p)
    BY <1>1, FinishType DEF LockRelease
  <2>2. TypeOK'
    BY <2>1 DEF TypeOK, ProcOK, LockRelease, disk, host, count
  <2>3. Releasing'
    BY <2>1 DEF TypeOK, Finish, Releasing
  <2> QED BY <2>2, <2>3
<1>2. CASE ledger[c] # NoLease
  <2>1. Goto(p, "restore") /\ job' = J /\ lock' = p
    BY <1>2 DEF LockRelease
  <2>2. todo \in SUBSET Deploys /\ c \in Deploys /\ ledger \in Ledger
    BY JobFields DEF TypeOK, ToRestore, Listed
  <2>3. c \in Leases(ledger)
    BY <1>2, <2>2 DEF Leases
  <2> HIDE DEF todo, c
  <2>5. J \in [Procs -> Job]
    <3>1. job \in [Procs -> Job]
      BY DEF TypeOK
    <3> QED BY <2>2, <3>1, SetRelease, ZenonT(30)
  <2>6. TypeOK'
    BY <2>1, <2>5, GotoType DEF TypeOK, LockRelease, PCs, disk, host, count
  <2>7. J[p].mem = ledger /\ J[p].cur = c
    BY DEF TypeOK, Job
  <2>8. \A q \in Procs \ {p} : J[q] = job[q] /\ pc'[q] = pc[q]
    BY <2>1 DEF TypeOK, Goto
  <2>9. Releasing'
    BY <2>1, <2>3, <2>7, <2>8, ZenonT(30) DEF Releasing
  <2> QED BY <2>6, <2>9
<1> QED BY <1>1, <1>2

LEMMA DecideExclusiveType ==
  ASSUME TypeInv, NEW p \in Procs, DecideExclusive(p)
  PROVE  TypeInv'
<1> USE DEF TypeInv
<1> DEFINE c == job[p].who
           kept == [d \in Deploys |-> IF d \in Dropped(ledger, c) THEN NoLease ELSE ledger[d]]
           own == holdersToStop(c)
           owe == CarriedOver(ledger, c)
           live == Dropped(ledger, c) \cap running
           M(from) == [kept EXCEPT ![c] = NewLease(p, c, own, ledger, from)]
           J(from) == [job EXCEPT ![p].mem = M(from), ![p].todo = own,
                                  ![p].later = owe, ![p].pods = live]
<1>1. PICK from \in Donors(ledger, c) : job' = J(from)
  BY DEF DecideExclusive
<1>2. c \in Deploys /\ own \in SUBSET Deploys /\ owe \in SUBSET Deploys
      /\ live \in SUBSET Deploys /\ ledger \in Ledger
  BY JobFields DEF TypeOK, holdersToStop, CarriedOver, Listed
<1>3. \A h \in DOMAIN from : from[h] \in Leases(ledger)
  BY DEF Donors, Dropped
<1>4. NewLease(p, c, own, ledger, from) \in Lease
  BY <1>2, <1>3, NewLeaseType
<1>5. M(from) \in Ledger
  BY <1>2, <1>4 DEF Ledger
<1> HIDE DEF M, own, owe, live
<1>6. job \in [Procs -> Job]
  BY DEF TypeOK
<1>7. job' \in [Procs -> Job]
  BY <1>1, <1>2, <1>5, <1>6, SetClaim, ZenonT(30)
<1>8. TypeOK'
  BY <1>7, GotoType, ZenonT(30) DEF TypeOK, DecideExclusive, PCs, disk, host, count
<1>9. Releasing'
  BY <1>1 DEF TypeOK, DecideExclusive, Goto, Releasing
<1> QED BY <1>8, <1>9, SMTT(30)

LEMMA DecideSharedType ==
  ASSUME TypeInv, NEW p \in Procs, DecideShared(p)
  PROVE  TypeInv'
<1> USE DEF TypeInv
<1> DEFINE c == job[p].who
           fresh == IF tokenHeldByShared(ledger, c) THEN {} ELSE holdersToStop(c)
           none == [d \in {} |-> d]
           M == [ledger EXCEPT ![c] = NewLease(p, c, fresh, ledger, none)]
<1>1. job' = [job EXCEPT ![p].mem = M, ![p].todo = fresh]
  BY DEF DecideShared
<1>2. c \in Deploys /\ fresh \in SUBSET Deploys /\ ledger \in Ledger
  BY JobFields DEF TypeOK, holdersToStop
<1>3. \A h \in DOMAIN none : none[h] \in Leases(ledger)
  OBVIOUS
<1> HIDE DEF none
<1>4. NewLease(p, c, fresh, ledger, none) \in Lease
  BY <1>2, <1>3, NewLeaseType
<1>5. M \in Ledger
  BY <1>2, <1>4 DEF Ledger
<1> HIDE DEF M, fresh
<1>7. job' \in [Procs -> Job]
  BY <1>1, <1>2, <1>5, SetMemTodo, ZenonT(30) DEF TypeOK
<1>8. TypeOK'
  BY <1>7, GotoType DEF TypeOK, DecideShared, PCs, disk, host, count
<1>9. Releasing'
  BY <1>1 DEF TypeOK, DecideShared, Goto, Releasing
<1> QED BY <1>8, <1>9

LEMMA WorldType ==
  ASSUME TypeInv, World
  PROVE  TypeInv'
<1> USE DEF TypeInv
<1>1. ASSUME Reboot PROVE TypeInv'
  <2>1. \A p \in Procs : NewJob(job[p].op, job[p].who) \in Job
    BY NewJobType, JobFields DEF TypeOK
  <2>2. TypeOK'
    BY <1>1, <2>1, ArbiterAssumption DEF TypeOK, Reboot, PCs
  <2>3. Releasing'
    BY <1>1 DEF TypeOK, Reboot, Releasing, ownerAlive
  <2> QED BY <2>2, <2>3
<1>2. ASSUME NEW d \in Deploys, GoesDown(d) PROVE TypeInv'
  BY <1>2 DEF TypeOK, GoesDown, Releasing, disk, count
<1>3. ASSUME NEW d \in Deploys, OperatorStart(d) PROVE TypeInv'
  BY <1>3, StartHolderType DEF TypeOK, OperatorStart, Releasing, disk, count
<1>4. ASSUME NEW t \in GpuTokens, StallEnds(t) PROVE TypeInv'
  BY <1>4 DEF TypeOK, StallEnds, Releasing, disk, count
<1>5. ASSUME NEW t \in GpuTokens, GpuRecover(t) PROVE TypeInv'
  BY <1>5 DEF TypeOK, GpuRecover, Releasing, count
<1> QED BY <1>1, <1>2, <1>3, <1>4, <1>5, CrashType DEF World

LEMMA InitType == Init => TypeInv
<1> SUFFICES ASSUME Init PROVE TypeInv
  OBVIOUS
<1>1. (CHOOSE d \in Deploys : TRUE) \in Deploys
  BY ArbiterAssumption
<1>2. NewJob("reconcile", CHOOSE d \in Deploys : TRUE) \in Job
  BY <1>1, NewJobType DEF AllCommands
<1>3. TypeOK
  BY <1>2, ArbiterAssumption DEF TypeOK, Init, PCs, Ledger, Empty
<1>4. Releasing
  BY DEF Init, Releasing
<1> QED BY <1>3, <1>4 DEF TypeInv

LEMMA NextType == TypeInv /\ [Next]_vars => TypeInv'
<1> SUFFICES ASSUME TypeInv, [Next]_vars PROVE TypeInv'
  OBVIOUS
<1>1. ASSUME NEW p \in Procs, Step(p) PROVE TypeInv'
  BY <1>1, HaltType, LockAcquireType, LockReleaseType, VisitType, ScanEndType, FlushType,
     RestoreType, RetainType, ReleasedType, UnflipType, UnflipEndType, CommitType,
     ReacquireType, RefuseType, DecideExclusiveType, DecideSharedType, AppendType, StopType,
     StopFailsType, StopsEndType, FlipType, FlipFailsType, FlipEndType, RollbackType,
     DropType, ClearBedType, BringUpType, BootBedType, CheckEndType DEF Step
<1>2. CASE UNCHANGED vars
  BY <1>2 DEF TypeInv, TypeOK, Releasing, vars
<1> QED BY <1>1, <1>2, BeginType, WorldType DEF Next, Quiet

\* The state of the arbiter always has its type, whatever fails or is killed.
THEOREM TypeCorrect == Spec => []TypeOK
<1>1. TypeInv => TypeOK
  BY DEF TypeInv
<1> QED BY <1>1, InitType, NextType, PTL DEF Spec

-----------------------------------------------------------------------------
(* Exclusion.  A ledger is checked for a clash only when a claim is decided *)
(* on, and reaches the disk some steps later from the memory of a process:  *)
(* the inductive invariant says it of every copy, on disk and in memory.    *)

ExclusionInv ==
  /\ TypeInv
  /\ Compatible(ledger)
  /\ \A p \in Procs : Compatible(job[p].mem)

\* A process forgets its copy or keeps it, and the file stays.
KeepsCopies ==
  /\ ledger' = ledger
  /\ \A q \in Procs : job'[q].mem = job[q].mem \/ job'[q].mem = Empty

LEMMA FewerLeases ==
  ASSUME NEW L, NEW M, Leases(M) \subseteq Leases(L), Compatible(L)
  PROVE  Compatible(M)
BY DEF Compatible

LEMMA EmptyCompatible == Compatible(Empty)
BY DEF Compatible, Leases, Empty

LEMMA OverlapSymmetric ==
  ASSUME NEW c, NEW d, Overlap(c, d)
  PROVE  Overlap(d, c)
BY DEF Overlap

LEMMA FinishKeeps ==
  ASSUME TypeInv, NEW p \in Procs, Finish(p)
  PROVE  \A q \in Procs : job'[q].mem = job[q].mem \/ job'[q].mem = Empty
BY DEF TypeInv, TypeOK, Finish, NewJob

LEMMA AfterScanKeeps ==
  ASSUME TypeInv, NEW p \in Procs, AfterScan(p)
  PROVE  \A q \in Procs : job'[q].mem = job[q].mem \/ job'[q].mem = Empty
BY FinishKeeps DEF TypeInv, TypeOK, AfterScan, NewJob

\* The steps of a process that leave the ledgers alone.
LEMMA ProcessKeeps ==
  ASSUME TypeInv, NEW p \in Procs,
         \/ Halt(p) \/ ScanEnd(p) \/ Retain(p) \/ UnflipEnd(p) \/ Reacquire(p) \/ Refuse(p)
         \/ StopsEnd(p) \/ FlipEnd(p) \/ ClearBed(p) \/ BringUp(p) \/ BootBed(p)
         \/ CheckEnd(p)
         \/ \E d \in Deploys : Visit(p, d) \/ Restore(p, d) \/ Stop(p, d)
                               \/ StopFails(p, d) \/ Rollback(p, d)
         \/ \E t \in GpuTokens : Unflip(p, t) \/ Flip(p, t) \/ FlipFails(p, t)
  PROVE  KeepsCopies
<1> USE DEF TypeInv, KeepsCopies
<1> DEFINE Kept == \A q \in Procs : job'[q].mem = job[q].mem
<1>0. job \in [Procs -> Job]
  BY DEF TypeOK
<1>1. CASE Halt(p)
  BY <1>1, FinishKeeps DEF Halt, disk
<1>2. CASE ScanEnd(p)
  BY <1>2, AfterScanKeeps DEF ScanEnd, disk
<1>3. CASE Retain(p)
  BY <1>0, <1>3, FinishKeeps DEF Retain, disk, Job
<1>4. CASE UnflipEnd(p)
  BY <1>0, <1>4 DEF UnflipEnd, disk, Job
<1>5. CASE Reacquire(p) \/ Refuse(p)
  BY <1>5, FinishKeeps DEF Reacquire, Refuse, disk
<1>6. CASE StopsEnd(p)
  BY <1>0, <1>6 DEF StopsEnd, disk, Job
<1>7. CASE FlipEnd(p)
  BY <1>0, <1>7 DEF FlipEnd, disk, NewJob
<1>8. CASE ClearBed(p) \/ BringUp(p)
  BY <1>8, FinishKeeps DEF ClearBed, BringUp, disk
<1>9. CASE BootBed(p) \/ CheckEnd(p)
  BY <1>0, <1>9 DEF BootBed, CheckEnd, disk, Job
<1>10. ASSUME NEW d \in Deploys, Visit(p, d) PROVE KeepsCopies
  <2>1. Kept
    <3> DEFINE todo == ToRestore(job[p].mem, d, TRUE)
    <3>1. \/ job' = [job EXCEPT ![p].seen = @ \cup {d}]
          \/ job' = [job EXCEPT ![p].cur = d, ![p].todo = todo]
      BY <1>10 DEF Visit
    <3> HIDE DEF todo
    <3> QED BY <1>0, <3>1 DEF Job
  <2> QED BY <1>10, <2>1 DEF Visit, disk
<1>11. ASSUME NEW d \in Deploys, Restore(p, d) PROVE KeepsCopies
  BY <1>0, <1>11 DEF Restore, disk, Job
<1>12. ASSUME NEW d \in Deploys, Stop(p, d) PROVE KeepsCopies
  BY <1>0, <1>12, ZenonT(30) DEF Stop, disk, Job
<1>13. ASSUME NEW d \in Deploys, StopFails(p, d) PROVE KeepsCopies
  BY <1>0, <1>13 DEF StopFails, disk, Job
<1>14. ASSUME NEW d \in Deploys, Rollback(p, d) PROVE KeepsCopies
  BY <1>0, <1>14 DEF Rollback, disk, Job
<1>15. ASSUME NEW t \in GpuTokens, Unflip(p, t) PROVE KeepsCopies
  BY <1>0, <1>15 DEF Unflip, disk, Job
<1>16. ASSUME NEW t \in GpuTokens, Flip(p, t) PROVE KeepsCopies
  BY <1>0, <1>16 DEF Flip, disk, Job
<1>17. ASSUME NEW t \in GpuTokens, FlipFails(p, t) PROVE KeepsCopies
  <2>1. Kept
    <3> DEFINE todo == Listed(job[p].mem[job[p].who].preempted)
    <3>1. job' = [job EXCEPT ![p].todo = todo, ![p].toks = {}]
      BY <1>17 DEF FlipFails
    <3> HIDE DEF todo
    <3> QED BY <1>0, <3>1 DEF Job
  <2> QED BY <1>17, <2>1 DEF FlipFails
<1> QED BY <1>1, <1>2, <1>3, <1>4, <1>5, <1>6, <1>7, <1>8, <1>9, <1>10, <1>11, <1>12, <1>13,
        <1>14, <1>15, <1>16, <1>17

LEMMA WorldKeeps ==
  ASSUME TypeInv, World
  PROVE  KeepsCopies
<1>1. ASSUME NEW p \in Procs, Crash(p) PROVE KeepsCopies
  BY <1>1, FinishKeeps DEF KeepsCopies, Crash, disk
<1>2. CASE Reboot
  BY <1>2 DEF KeepsCopies, Reboot, NewJob
<1> QED BY <1>1, <1>2 DEF World, KeepsCopies, GoesDown, OperatorStart, StallEnds, GpuRecover, disk

\* Deciding on a claim: the new ledger is compatible because the refusal did not
\* apply and an exclusive claim drops the shared leases it overlaps.
LEMMA GrantCompatible ==
  ASSUME NEW L, NEW c \in Deploys, NEW M, Compatible(L), ~ClaimedExclusively(L, c),
         Leases(M) \subseteq Leases(L) \cup {c},
         c \in SharedClaim \/ Leases(M) \cap Dropped(L, c) \subseteq {c}
  PROVE  Compatible(M)
<1> SUFFICES ASSUME NEW a \in Leases(M), NEW b \in Leases(M), a # b, Overlap(a, b)
             PROVE  a \in SharedClaim /\ b \in SharedClaim
  BY DEF Compatible
<1>1. ASSUME NEW d \in Leases(M), d # c, Overlap(c, d)
      PROVE  c \in SharedClaim /\ d \in SharedClaim
  BY <1>1 DEF ClaimedExclusively, Dropped
<1>2. CASE a = c \/ b = c
  BY <1>1, <1>2, OverlapSymmetric
<1>3. CASE a # c /\ b # c
  BY <1>3 DEF Compatible
<1> QED BY <1>2, <1>3

\* What an acquire, a release or a reconcile does to the ledgers.
LEMMA LedgerSteps ==
  ASSUME ExclusionInv, NEW p \in Procs,
         \/ LockAcquire(p) \/ LockRelease(p) \/ Flush(p) \/ Released(p) \/ Commit(p)
         \/ DecideExclusive(p) \/ DecideShared(p) \/ Append(p) \/ Drop(p)
  PROVE  Compatible(ledger') /\ \A q \in Procs : Compatible(job'[q].mem)
<1> USE DEF ExclusionInv, TypeInv
<1>0. job \in [Procs -> Job] /\ ledger \in Ledger
  BY DEF TypeOK
<1>1. CASE LockAcquire(p)
  BY <1>0, <1>1 DEF LockAcquire, disk, Job
<1>2. CASE LockRelease(p)
  <2>1. CASE ledger[job[p].who] = NoLease
    BY <1>2, <2>1, FinishKeeps, EmptyCompatible DEF LockRelease, disk
  <2>2. CASE ledger[job[p].who] # NoLease
    <3> DEFINE todo == ToRestore(ledger, job[p].who, job[p].good)
    <3>1. job' = [job EXCEPT ![p].mem = ledger, ![p].rel = TRUE,
                             ![p].cur = job[p].who, ![p].todo = todo]
      BY <1>2, <2>2 DEF LockRelease
    <3> HIDE DEF todo
    <3>2. \A q \in Procs : job'[q].mem = job[q].mem \/ job'[q].mem = ledger
      BY <1>0, <3>1 DEF Job
    <3> QED BY <1>2, <3>2 DEF LockRelease, disk
  <2> QED BY <2>1, <2>2
<1>3. CASE Flush(p)
  BY <1>3, AfterScanKeeps, EmptyCompatible DEF Flush
<1>4. CASE Released(p)
  <2> DEFINE L == job[p].mem
             c == job[p].cur
             good == job[p].rel => job[p].good
  <2>1. PICK heir \in Heirs(L, c, good) :
          job' = [job EXCEPT ![p].mem = Attach(L, c, heir), ![p].toks = Requires[c] \cap GpuTokens]
    BY <1>4 DEF Released
  <2>2. Compatible(Attach(L, c, heir))
    <3>1. Leases(Attach(L, c, heir)) \subseteq Leases(L)
      BY DEF Leases, Attach
    <3> QED BY <3>1, FewerLeases
  <2> HIDE DEF L, c, good
  <2>3. \A q \in Procs : job'[q].mem = job[q].mem \/ job'[q].mem = Attach(L, c, heir)
    BY <1>0, <2>1 DEF Job
  <2> QED BY <1>4, <2>2, <2>3 DEF Released, disk
<1>5. CASE Commit(p)
  BY <1>5, FinishKeeps, EmptyCompatible DEF Commit
<1>6. CASE DecideExclusive(p)
  <2> DEFINE c == job[p].who
             kept == [d \in Deploys |-> IF d \in Dropped(ledger, c) THEN NoLease ELSE ledger[d]]
             own == holdersToStop(c)
             owe == CarriedOver(ledger, c)
             live == Dropped(ledger, c) \cap running
             M(from) == [kept EXCEPT ![c] = NewLease(p, c, own, ledger, from)]
  <2>1. PICK from \in Donors(ledger, c) :
          job' = [job EXCEPT ![p].mem = M(from), ![p].todo = own, ![p].later = owe, ![p].pods = live]
    BY <1>6, ZenonT(30) DEF DecideExclusive
  <2>2. c \in Deploys
    BY <1>0 DEF Job
  <2>3. Leases(M(from)) \subseteq (Leases(ledger) \ Dropped(ledger, c)) \cup {c}
    BY <2>2, SMTT(30) DEF Leases
  <2>4. ~ClaimedExclusively(ledger, c)
    BY <1>6, ZenonT(30) DEF DecideExclusive, Admissible
  <2> HIDE DEF M, c, own, owe, live
  <2>5. Compatible(M(from))
    BY <2>2, <2>3, <2>4, GrantCompatible
  <2>6. \A q \in Procs : job'[q].mem = job[q].mem \/ job'[q].mem = M(from)
    BY <1>0, <2>1, SMTT(30) DEF Job
  <2>7. ledger' = ledger
    BY <1>6, ZenonT(30) DEF DecideExclusive, disk
  <2> QED BY <2>5, <2>6, <2>7, ZenonT(30)
<1>7. CASE DecideShared(p)
  <2> DEFINE c == job[p].who
             fresh == IF tokenHeldByShared(ledger, c) THEN {} ELSE holdersToStop(c)
             M == [ledger EXCEPT ![c] = NewLease(p, c, fresh, ledger, [d \in {} |-> d])]
  <2>1. job' = [job EXCEPT ![p].mem = M, ![p].todo = fresh]
    BY <1>7 DEF DecideShared
  <2>2. c \in Deploys /\ c \in SharedClaim /\ ~ClaimedExclusively(ledger, c)
    BY <1>0, <1>7 DEF Job, DecideShared, Admissible
  <2>3. Leases(M) \subseteq Leases(ledger) \cup {c}
    BY <1>0, <2>2 DEF Leases, Ledger
  <2> HIDE DEF M, c, fresh
  <2>4. Compatible(M)
    BY <2>2, <2>3, GrantCompatible
  <2>5. \A q \in Procs : job'[q].mem = job[q].mem \/ job'[q].mem = M
    BY <1>0, <2>1 DEF Job
  <2> QED BY <1>7, <2>4, <2>5 DEF DecideShared, disk
<1>8. CASE Append(p)
  BY <1>8 DEF Append
<1>9. CASE Drop(p)
  <2>1. Leases(Without(ledger, job[p].who)) \subseteq Leases(ledger)
    BY <1>0 DEF Leases, Without, Ledger
  <2>2. Compatible(Without(ledger, job[p].who))
    BY <2>1, FewerLeases
  <2> QED BY <1>9, <2>2, FinishKeeps, EmptyCompatible DEF Drop
<1> QED BY <1>1, <1>2, <1>3, <1>4, <1>5, <1>6, <1>7, <1>8, <1>9

LEMMA ExclusionNext == ExclusionInv /\ [Next]_vars => ExclusionInv'
<1> SUFFICES ASSUME ExclusionInv, [Next]_vars PROVE ExclusionInv'
  OBVIOUS
<1>1. TypeInv'
  BY NextType DEF ExclusionInv
<1>2. ASSUME KeepsCopies PROVE ExclusionInv'
  BY <1>1, <1>2, EmptyCompatible DEF KeepsCopies, ExclusionInv
<1>3. ASSUME NEW p \in Procs, NEW o \in AllCommands, NEW d \in Deploys, Begin(p, o, d)
      PROVE  ExclusionInv'
  <2>1. job' = [job EXCEPT ![p] = [NewJob(o, d) EXCEPT !.mem = IF o = "reconcile" THEN ledger ELSE @]]
    BY <1>3 DEF Begin
  <2>2. \A q \in Procs : job'[q].mem = job[q].mem \/ job'[q].mem = Empty \/ job'[q].mem = ledger
    BY <2>1 DEF ExclusionInv, TypeInv, TypeOK, NewJob
  <2> QED BY <1>1, <1>3, <2>2, EmptyCompatible DEF ExclusionInv, Begin, disk
<1>4. ASSUME NEW p \in Procs, Step(p) PROVE ExclusionInv'
  <2>1. \/ KeepsCopies
        \/ Compatible(ledger') /\ \A q \in Procs : Compatible(job'[q].mem)
    BY <1>4, ProcessKeeps, LedgerSteps DEF Step, ExclusionInv
  <2> QED BY <1>1, <1>2, <2>1 DEF ExclusionInv
<1>5. CASE World
  BY <1>2, <1>5, WorldKeeps DEF ExclusionInv
<1>6. CASE UNCHANGED vars
  BY <1>1, <1>6 DEF ExclusionInv, vars
<1> QED BY <1>3, <1>4, <1>5, <1>6 DEF Next, Quiet

\* No token is ever leased to two claimants of which one wants it for itself:
\* for every workload, with every fault, with kills between any two steps, and
\* with reconciles that run outside the flock.
THEOREM Exclusion == Spec => []LeaseExclusion
<1>1. Init => ExclusionInv
  <2>1. Init => Compatible(ledger) /\ \A p \in Procs : Compatible(job[p].mem)
    BY EmptyCompatible DEF Init, NewJob
  <2> QED BY <2>1, InitType DEF ExclusionInv
<1>2. ExclusionInv => LeaseExclusion
  BY DEF ExclusionInv, LeaseExclusion
<1> QED BY <1>1, <1>2, ExclusionNext, PTL DEF Spec

-----------------------------------------------------------------------------
(* What each action does to the local state of the process that takes it.  *)
(* The later sections use these lemmas in place of the EXCEPTs.            *)

\* The other processes are not touched, and p goes on with its command.
Alone(p) ==
  /\ \A q \in Procs \ {p} : pc'[q] = pc[q] /\ job'[q] = job[q]
  /\ job'[p].op = job[p].op /\ job'[p].who = job[p].who

\* The part of the local state a release and a reconcile work with.
SameCopy(p) ==
  /\ job'[p].mem = job[p].mem /\ job'[p].dirty = job[p].dirty /\ job'[p].seen = job[p].seen
  /\ job'[p].cur = job[p].cur

SameFlags(p) ==
  job'[p].rel = job[p].rel /\ job'[p].good = job[p].good /\ job'[p].bad = job[p].bad

\* The lists of an acquire.
SameLists(p) ==
  /\ job'[p].todo = job[p].todo /\ job'[p].later = job[p].later
  /\ job'[p].pods = job[p].pods /\ job'[p].done = job[p].done

\* p has forgotten everything but its command.
Fresh(p) ==
  /\ job'[p].rel = FALSE /\ job'[p].good = TRUE /\ job'[p].bad = FALSE
  /\ job'[p].mem = Empty /\ job'[p].dirty = FALSE
  /\ job'[p].seen = {} /\ job'[p].todo = {} /\ job'[p].later = {} /\ job'[p].pods = {}
  /\ job'[p].done = {}

Ends(p) ==
  /\ Alone(p) /\ Fresh(p) /\ pc'[p] = "done"
  /\ lock' = IF lock = p THEN NoProc ELSE lock

LEMMA EndsEffect ==
  ASSUME TypeOK, NEW p \in Procs, Finish(p)
  PROVE  Ends(p)
BY DEF TypeOK, Finish, Ends, Alone, Fresh, NewJob

LEMMA ResetEffect ==
  ASSUME TypeOK, NEW p \in Procs, NEW l, Goto(p, l),
         job' = [job EXCEPT ![p] = NewJob(job[p].op, job[p].who)]
  PROVE  Alone(p) /\ Fresh(p) /\ pc'[p] = l
BY DEF TypeOK, Goto, Alone, Fresh, NewJob

LEMMA GotoEffect ==
  ASSUME TypeOK, NEW p \in Procs, NEW l, Goto(p, l), UNCHANGED job
  PROVE  Alone(p) /\ SameCopy(p) /\ SameFlags(p) /\ SameLists(p) /\ pc'[p] = l
BY DEF TypeOK, Goto, Alone, SameCopy, SameFlags, SameLists

LEMMA BeginEffect ==
  ASSUME TypeOK, NEW p \in Procs, NEW o \in AllCommands, NEW d \in Deploys, Begin(p, o, d)
  PROVE  /\ \A q \in Procs \ {p} : pc'[q] = pc[q] /\ job'[q] = job[q]
         /\ job'[p].op = o /\ job'[p].who = d
         /\ ~job'[p].rel /\ ~job'[p].bad /\ ~job'[p].dirty
         /\ job'[p].seen = {}
         /\ job'[p].mem = (IF o = "reconcile" THEN ledger ELSE Empty)
         /\ pc[p] = "new" /\ pc'[p] \in {"halt", "wait", "relwait", "scan"}
         /\ o \in {"stop", "vmstop"} => pc'[p] = "halt"
         /\ o \in {"check", "start"} => pc'[p] = "wait"
         /\ o = "restore" => pc'[p] = "relwait"
         /\ <<o, d>> \in Workload /\ (o # "reconcile" => Sole(p, d))
         /\ UNCHANGED <<ledger, lock, running, owed, poison, mode, wedges, crashes, reboots>>
<1> DEFINE m == IF o = "reconcile" THEN ledger ELSE Empty
<1>1. job' = [job EXCEPT ![p] = [NewJob(o, d) EXCEPT !.mem = m]]
  BY DEF Begin, NewJob
<1> HIDE DEF m
<1>2. /\ job'[p].op = o /\ job'[p].who = d /\ ~job'[p].rel /\ ~job'[p].bad /\ ~job'[p].dirty
      /\ job'[p].seen = {} /\ job'[p].mem = m
  BY <1>1 DEF NewJob, TypeOK
<1>3. \A q \in Procs \ {p} : job'[q] = job[q]
  BY <1>1 DEF TypeOK
<1>4. /\ \A q \in Procs \ {p} : pc'[q] = pc[q]
      /\ pc'[p] \in {"halt", "wait", "relwait", "scan"}
      /\ o \in {"stop", "vmstop"} => pc'[p] = "halt"
      /\ o \in {"check", "start"} => pc'[p] = "wait"
      /\ o = "restore" => pc'[p] = "relwait"
  BY DEF TypeOK, Begin, Goto, AllCommands
<1> QED BY <1>2, <1>3, <1>4 DEF m, Begin, disk, host, count

LEMMA HaltEffect ==
  ASSUME TypeOK, NEW p \in Procs, Halt(p)
  PROVE  /\ pc[p] = "halt"
         /\ \/ Alone(p) /\ SameCopy(p) /\ SameFlags(p) /\ SameLists(p) /\ pc'[p] = "relwait"
               /\ lock' = lock
            \/ Ends(p)
         /\ \/ running' = running \ {job[p].who}
            \/ UNCHANGED running
         /\ UNCHANGED <<ledger, owed, poison, mode, wedges, crashes, reboots>>
BY EndsEffect, GotoEffect DEF Halt, disk, count

LEMMA LockAcquireEffect ==
  ASSUME TypeOK, NEW p \in Procs, LockAcquire(p)
  PROVE  /\ pc[p] = "wait" /\ pc'[p] = "scan" /\ lock = NoProc /\ lock' = p
         /\ Alone(p) /\ SameFlags(p) /\ SameLists(p)
         /\ job'[p].mem = ledger /\ job'[p].dirty = job[p].dirty /\ job'[p].seen = job[p].seen
         /\ UNCHANGED <<ledger, running, owed, poison, mode, wedges, crashes, reboots>>
BY DEF TypeOK, Job, LockAcquire, Goto, Alone, SameFlags, SameLists, disk, host, count

LEMMA LockReleaseEffect ==
  ASSUME TypeOK, NEW p \in Procs, LockRelease(p)
  PROVE  /\ pc[p] = "relwait" /\ lock = NoProc
         /\ UNCHANGED <<ledger, running, owed, poison, mode, wedges, crashes, reboots>>
         /\ \/ ledger[job[p].who] = NoLease /\ Ends(p)
            \/ /\ ledger[job[p].who] # NoLease /\ lock' = p /\ pc'[p] = "restore"
               /\ Alone(p) /\ job'[p].mem = ledger /\ job'[p].rel = TRUE
               /\ job'[p].good = job[p].good
               /\ job'[p].bad = job[p].bad /\ job'[p].dirty = job[p].dirty
               /\ job'[p].cur = job[p].who /\ job'[p].seen = job[p].seen
               /\ job'[p].todo = ToRestore(ledger, job[p].who, job[p].good)
<1>1. CASE ledger[job[p].who] = NoLease
  BY <1>1, EndsEffect DEF LockRelease, disk, host, count
<1>2. CASE ledger[job[p].who] # NoLease
  <2> DEFINE todo == ToRestore(ledger, job[p].who, job[p].good)
  <2>1. /\ job' = [job EXCEPT ![p].mem = ledger, ![p].rel = TRUE, ![p].cur = job[p].who,
                              ![p].todo = todo]
        /\ lock' = p /\ Goto(p, "restore")
    BY <1>2 DEF LockRelease
  <2> HIDE DEF todo
  <2>2. /\ Alone(p) /\ job'[p].mem = ledger /\ job'[p].rel = TRUE /\ job'[p].good = job[p].good
        /\ job'[p].bad = job[p].bad /\ job'[p].dirty = job[p].dirty
        /\ job'[p].cur = job[p].who /\ job'[p].seen = job[p].seen /\ job'[p].todo = todo
        /\ pc'[p] = "restore"
    BY <2>1, SMTT(30) DEF TypeOK, Job, Alone, Goto
  <2> QED BY <1>2, <2>1, <2>2 DEF todo, LockRelease, disk, host, count
<1> QED BY <1>1, <1>2

LEMMA VisitEffect ==
  ASSUME TypeOK, NEW p \in Procs, NEW c \in Deploys, Visit(p, c)
  PROVE  /\ pc[p] = "scan" /\ c \in Leases(job[p].mem) \ job[p].seen
         /\ Alone(p) /\ SameFlags(p) /\ job'[p].mem = job[p].mem
         /\ job'[p].dirty = job[p].dirty
         /\ \/ /\ leaseLive(job[p].mem, c) /\ pc'[p] = "scan"
               /\ job'[p].seen = job[p].seen \cup {c}
            \/ /\ ~leaseLive(job[p].mem, c) /\ pc'[p] = "restore" /\ job'[p].cur = c
               /\ job'[p].seen = job[p].seen
               /\ job'[p].todo = ToRestore(job[p].mem, c, TRUE)
         /\ UNCHANGED <<ledger, lock, running, owed, poison, mode, wedges, crashes, reboots>>
<1> DEFINE todo == ToRestore(job[p].mem, c, TRUE)
<1>1. UNCHANGED <<ledger, lock, running, owed, poison, mode, wedges, crashes, reboots>>
      /\ pc[p] = "scan" /\ c \in Leases(job[p].mem) \ job[p].seen
  BY DEF Visit, disk, host, count
<1>2. CASE leaseLive(job[p].mem, c)
  <2>1. job' = [job EXCEPT ![p].seen = job[p].seen \cup {c}] /\ pc' = pc
    BY <1>2 DEF Visit
  <2>2. /\ Alone(p) /\ SameFlags(p) /\ job'[p].mem = job[p].mem /\ pc'[p] = "scan"
        /\ job'[p].dirty = job[p].dirty /\ job'[p].seen = job[p].seen \cup {c}
    BY <1>1, <2>1, SMTT(30) DEF TypeOK, Job, Alone, SameFlags
  <2> QED BY <1>1, <1>2, <2>2
<1>3. CASE ~leaseLive(job[p].mem, c)
  <2>1. job' = [job EXCEPT ![p].cur = c, ![p].todo = todo] /\ Goto(p, "restore")
    BY <1>3 DEF Visit
  <2> HIDE DEF todo
  <2>2. /\ Alone(p) /\ SameFlags(p) /\ job'[p].mem = job[p].mem /\ pc'[p] = "restore"
        /\ job'[p].dirty = job[p].dirty /\ job'[p].seen = job[p].seen
        /\ job'[p].cur = c /\ job'[p].todo = todo
    BY <2>1, SMTT(30) DEF TypeOK, Job, Alone, SameFlags, Goto
  <2> QED BY <1>1, <1>3, <2>2 DEF todo
<1> QED BY <1>2, <1>3

\* The loop of a reconcile under the flock is over.
Scanned(p) ==
  IF job[p].op = "reconcile" THEN Ends(p)
  ELSE Alone(p) /\ Fresh(p) /\ pc'[p] = "decide" /\ lock' = lock

LEMMA AfterScanEffect ==
  ASSUME TypeOK, NEW p \in Procs, AfterScan(p)
  PROVE  Scanned(p)
BY EndsEffect, ResetEffect DEF AfterScan, Scanned

LEMMA ScanEndEffect ==
  ASSUME TypeOK, NEW p \in Procs, ScanEnd(p)
  PROVE  /\ pc[p] = "scan" /\ Leases(job[p].mem) \subseteq job[p].seen
         /\ \/ /\ job[p].dirty /\ Alone(p) /\ SameCopy(p) /\ SameFlags(p) /\ SameLists(p)
               /\ pc'[p] = "flush" /\ lock' = lock
            \/ ~job[p].dirty /\ Scanned(p)
         /\ UNCHANGED <<ledger, running, owed, poison, mode, wedges, crashes, reboots>>
BY AfterScanEffect, GotoEffect DEF ScanEnd, disk, host, count

LEMMA FlushEffect ==
  ASSUME TypeOK, NEW p \in Procs, Flush(p)
  PROVE  /\ pc[p] = "flush" /\ ledger' = job[p].mem /\ Scanned(p)
         /\ UNCHANGED <<running, owed, poison, mode, wedges, crashes, reboots>>
BY AfterScanEffect DEF Flush, host, count

LEMMA RestoreEffect ==
  ASSUME TypeOK, NEW p \in Procs, NEW h \in Deploys, Restore(p, h)
  PROVE  /\ pc[p] = "restore" /\ pc'[p] = "restore" /\ h \in job[p].todo
         /\ Alone(p) /\ SameCopy(p) /\ job'[p].rel = job[p].rel /\ job'[p].good = job[p].good
         /\ job'[p].todo = job[p].todo \ {h}
         /\ \/ h \in running /\ job'[p].bad = job[p].bad /\ UNCHANGED <<running, owed>>
            \/ /\ h \notin running /\ job'[p].bad = job[p].bad
               /\ running' = running \cup {h} /\ owed' = owed \ {h}
            \/ /\ h \notin running /\ "restore" \in Faults /\ job'[p].bad = TRUE
               /\ UNCHANGED <<running, owed>>
         /\ UNCHANGED <<ledger, lock, poison, mode, wedges, crashes, reboots>>
<1> DEFINE todo == job[p].todo \ {h}
<1>1. /\ pc[p] = "restore" /\ pc' = pc /\ h \in job[p].todo
      /\ UNCHANGED <<ledger, lock, poison, mode, wedges, crashes, reboots>>
  BY DEF Restore, disk, count
<1>2. ASSUME job' = [job EXCEPT ![p].todo = todo]
      PROVE  Alone(p) /\ SameCopy(p) /\ SameFlags(p) /\ job'[p].todo = todo
  <2> HIDE DEF todo
  <2> QED BY <1>1, <1>2, SMTT(30) DEF TypeOK, Job, Alone, SameCopy, SameFlags
<1>3. ASSUME job' = [job EXCEPT ![p].todo = todo, ![p].bad = TRUE]
      PROVE  /\ Alone(p) /\ SameCopy(p) /\ job'[p].rel = job[p].rel
             /\ job'[p].good = job[p].good /\ job'[p].bad = TRUE
             /\ job'[p].todo = todo
  <2> HIDE DEF todo
  <2> QED BY <1>1, <1>3, SMTT(30) DEF TypeOK, Job, Alone, SameCopy
<1> QED BY <1>1, <1>2, <1>3 DEF Restore, StartHolder, TypeOK, SameFlags

LEMMA RetainEffect ==
  ASSUME TypeOK, NEW p \in Procs, Retain(p)
  PROVE  /\ pc[p] = "restore" /\ job[p].todo = {} /\ job[p].bad
         /\ \/ job[p].rel /\ Ends(p)
            \/ /\ ~job[p].rel /\ Alone(p) /\ pc'[p] = "scan" /\ lock' = lock
               /\ job'[p].mem = job[p].mem /\ job'[p].dirty = job[p].dirty
               /\ job'[p].rel = job[p].rel /\ job'[p].bad = FALSE
               /\ job'[p].seen = job[p].seen \cup {job[p].cur}
         /\ UNCHANGED <<ledger, running, owed, poison, mode, wedges, crashes, reboots>>
<1>1. ASSUME NEW s, s = job[p].seen \cup {job[p].cur}, Goto(p, "scan"),
             job' = [job EXCEPT ![p].bad = FALSE, ![p].seen = s]
      PROVE  /\ Alone(p) /\ pc'[p] = "scan"
             /\ job'[p].mem = job[p].mem /\ job'[p].dirty = job[p].dirty
             /\ job'[p].rel = job[p].rel /\ job'[p].bad = FALSE
             /\ job'[p].seen = s
  BY <1>1, SMTT(30) DEF TypeOK, Job, Alone, Goto
<1> QED BY <1>1, EndsEffect DEF Retain, disk, host, count

LEMMA ReleasedEffect ==
  ASSUME TypeOK, NEW p \in Procs, Released(p)
  PROVE  /\ pc[p] = "restore" /\ pc'[p] = "unflip" /\ job[p].todo = {} /\ ~job[p].bad
         /\ \E heir \in Heirs(job[p].mem, job[p].cur, job[p].rel => job[p].good) :
              job'[p].mem = Attach(job[p].mem, job[p].cur, heir)
         /\ Alone(p) /\ SameFlags(p)
         /\ job'[p].toks = Requires[job[p].cur] \cap GpuTokens
         /\ job'[p].dirty = job[p].dirty /\ job'[p].seen = job[p].seen /\ job'[p].cur = job[p].cur
         /\ UNCHANGED <<ledger, lock, running, owed, poison, mode, wedges, crashes, reboots>>
<1> DEFINE L == job[p].mem
           c == job[p].cur
           toks == Requires[c] \cap GpuTokens
           good == job[p].rel => job[p].good
<1>1. /\ pc[p] = "restore" /\ Goto(p, "unflip") /\ job[p].todo = {} /\ ~job[p].bad
      /\ UNCHANGED <<ledger, lock, running, owed, poison, mode, wedges, crashes, reboots>>
  BY DEF Released, disk, host, count
<1>2. PICK heir \in Heirs(L, c, good) :
        job' = [job EXCEPT ![p].mem = Attach(L, c, heir), ![p].toks = toks]
  BY DEF Released
<1> DEFINE M == Attach(L, c, heir)
<1> HIDE DEF M, toks
<1>3. /\ Alone(p) /\ SameFlags(p) /\ pc'[p] = "unflip" /\ job'[p].mem = M /\ job'[p].toks = toks
      /\ job'[p].dirty = job[p].dirty /\ job'[p].seen = job[p].seen /\ job'[p].cur = job[p].cur
  BY <1>1, <1>2, SMTT(30) DEF M, TypeOK, Job, Alone, SameFlags, Goto
<1> QED BY <1>1, <1>3 DEF M, toks

LEMMA UnflipEffect ==
  ASSUME TypeOK, NEW p \in Procs, NEW t \in GpuTokens, Unflip(p, t)
  PROVE  /\ pc[p] = "unflip" /\ pc'[p] = "unflip"
         /\ Alone(p) /\ SameCopy(p) /\ SameFlags(p) /\ SameLists(p)
         /\ job'[p].toks = job[p].toks \ {t}
         /\ UNCHANGED <<ledger, lock, running, owed, poison, crashes, reboots>>
<1> DEFINE toks == job[p].toks \ {t}
<1>1. /\ pc[p] = "unflip" /\ pc' = pc /\ job' = [job EXCEPT ![p].toks = toks]
      /\ UNCHANGED <<ledger, lock, running, owed, poison, crashes, reboots>>
  BY DEF Unflip, disk, count
<1> HIDE DEF toks
<1>2. Alone(p) /\ SameCopy(p) /\ SameFlags(p) /\ SameLists(p) /\ job'[p].toks = toks
  BY <1>1, SMTT(30) DEF TypeOK, Job, Alone, SameCopy, SameFlags, SameLists
<1> QED BY <1>1, <1>2 DEF toks

LEMMA UnflipEndEffect ==
  ASSUME TypeOK, NEW p \in Procs, UnflipEnd(p)
  PROVE  /\ pc[p] = "unflip"
         /\ Alone(p) /\ SameFlags(p) /\ SameLists(p)
         /\ job'[p].mem = job[p].mem /\ job'[p].seen = job[p].seen
         /\ \/ job[p].rel /\ pc'[p] = "commit"
            \/ ~job[p].rel /\ pc'[p] = "scan" /\ job'[p].dirty = TRUE
         /\ UNCHANGED <<ledger, lock, running, owed, poison, mode, wedges, crashes, reboots>>
<1>1. CASE job[p].rel
  BY <1>1, GotoEffect DEF UnflipEnd, SameCopy, disk, host, count
<1>2. CASE ~job[p].rel
  BY <1>2, SMTT(30) DEF UnflipEnd, TypeOK, Job, Alone, SameFlags, SameLists, Goto, disk, host, count
<1> QED BY <1>1, <1>2

LEMMA CommitEffect ==
  ASSUME TypeOK, NEW p \in Procs, Commit(p)
  PROVE  /\ pc[p] = "commit" /\ ledger' = job[p].mem /\ Ends(p)
         /\ UNCHANGED <<running, owed, poison, mode, wedges, crashes, reboots>>
BY EndsEffect DEF Commit, host, count

LEMMA ReacquireEffect ==
  ASSUME TypeOK, NEW p \in Procs, Reacquire(p)
  PROVE  /\ pc[p] = "decide" /\ ledger[job[p].who] # NoLease /\ pc'[p] = "up" /\ lock' = NoProc
         /\ Alone(p) /\ SameCopy(p) /\ SameFlags(p) /\ SameLists(p)
         /\ UNCHANGED <<ledger, running, owed, poison, mode, wedges, crashes, reboots>>
BY GotoEffect DEF Reacquire, disk, host, count

LEMMA RefuseEffect ==
  ASSUME TypeOK, NEW p \in Procs, Refuse(p)
  PROVE  /\ pc[p] = "decide" /\ Ends(p)
         /\ UNCHANGED <<ledger, running, owed, poison, mode, wedges, crashes, reboots>>
BY EndsEffect DEF Refuse, disk, host, count

\* The memory of p holds the ledger with its new lease, and its lists say whom
\* to stop.
Decided(p, M, own, owe, live) ==
  /\ pc[p] = "decide" /\ pc'[p] = "append"
  /\ Alone(p) /\ SameFlags(p)
  /\ job'[p].mem = M /\ job'[p].todo = own /\ job'[p].later = owe /\ job'[p].pods = live
  /\ job'[p].done = job[p].done /\ job'[p].seen = job[p].seen /\ job'[p].dirty = job[p].dirty
  /\ UNCHANGED <<ledger, lock, running, owed, poison, mode, wedges, crashes, reboots>>

Kept(c) == [d \in Deploys |-> IF d \in Dropped(ledger, c) THEN NoLease ELSE ledger[d]]
Granted(p, c, from) == [Kept(c) EXCEPT ![c] = NewLease(p, c, holdersToStop(c), ledger, from)]

LEMMA DecideExclusiveEffect ==
  ASSUME TypeOK, NEW p \in Procs, DecideExclusive(p)
  PROVE  /\ Admissible(p) /\ job[p].who \notin SharedClaim
         /\ \E from \in Donors(ledger, job[p].who) :
              Decided(p, Granted(p, job[p].who, from), holdersToStop(job[p].who),
                      CarriedOver(ledger, job[p].who), Dropped(ledger, job[p].who) \cap running)
<1> DEFINE c == job[p].who
           own == holdersToStop(c)
           owe == CarriedOver(ledger, c)
           live == Dropped(ledger, c) \cap running
<1>1. /\ pc[p] = "decide" /\ Goto(p, "append") /\ Admissible(p) /\ c \notin SharedClaim
      /\ UNCHANGED <<ledger, lock, running, owed, poison, mode, wedges, crashes, reboots>>
  BY ZenonT(30) DEF DecideExclusive, Admissible, disk, host, count
<1>2. PICK from \in Donors(ledger, c) :
        job' = [job EXCEPT ![p].mem = Granted(p, c, from), ![p].todo = own, ![p].later = owe,
                           ![p].pods = live]
  BY DEF DecideExclusive, Granted, Kept
<1> DEFINE M == Granted(p, c, from)
<1> HIDE DEF M, own, owe, live
<1>3. /\ Alone(p) /\ SameFlags(p) /\ pc'[p] = "append"
      /\ job'[p].mem = M /\ job'[p].todo = own /\ job'[p].later = owe /\ job'[p].pods = live
      /\ job'[p].done = job[p].done /\ job'[p].seen = job[p].seen
      /\ job'[p].dirty = job[p].dirty
  BY <1>1, <1>2, SMTT(60) DEF M, TypeOK, Job, Alone, SameFlags, Goto
<1> QED BY <1>1, <1>3, SMTT(30) DEF M, own, owe, live, Decided

FreshShared(c) == IF tokenHeldByShared(ledger, c) THEN {} ELSE holdersToStop(c)
GrantedShared(p, c) ==
  [ledger EXCEPT ![c] = NewLease(p, c, FreshShared(c), ledger, [d \in {} |-> d])]

LEMMA DecideSharedEffect ==
  ASSUME TypeOK, NEW p \in Procs, DecideShared(p)
  PROVE  /\ Admissible(p) /\ job[p].who \in SharedClaim
         /\ Decided(p, GrantedShared(p, job[p].who), FreshShared(job[p].who),
                    job[p].later, job[p].pods)
<1> DEFINE c == job[p].who
           own == FreshShared(c)
           M == GrantedShared(p, c)
<1>1. /\ pc[p] = "decide" /\ Goto(p, "append") /\ Admissible(p) /\ c \in SharedClaim
      /\ UNCHANGED <<ledger, lock, running, owed, poison, mode, wedges, crashes, reboots>>
  BY DEF DecideShared, Admissible, disk, host, count
<1>2. job' = [job EXCEPT ![p].mem = M, ![p].todo = own]
  BY DEF DecideShared, GrantedShared, FreshShared
<1> HIDE DEF M, own
<1>3. /\ Alone(p) /\ SameFlags(p) /\ pc'[p] = "append"
      /\ job'[p].mem = M /\ job'[p].todo = own /\ job'[p].later = job[p].later
      /\ job'[p].pods = job[p].pods
      /\ job'[p].done = job[p].done /\ job'[p].seen = job[p].seen
      /\ job'[p].dirty = job[p].dirty
  BY <1>1, <1>2, SMTT(60) DEF TypeOK, Job, Alone, SameFlags, Goto
<1> QED BY <1>1, <1>3 DEF M, own, Decided

LEMMA AppendEffect ==
  ASSUME TypeOK, NEW p \in Procs, Append(p)
  PROVE  /\ pc[p] = "append" /\ pc'[p] = "stop" /\ ledger' = job[p].mem
         /\ Alone(p) /\ SameCopy(p) /\ SameFlags(p) /\ SameLists(p)
         /\ UNCHANGED <<lock, running, owed, poison, mode, wedges, crashes, reboots>>
BY GotoEffect DEF Append, host, count

LEMMA StopEffect ==
  ASSUME TypeOK, NEW p \in Procs, NEW h \in Deploys, Stop(p, h)
  PROVE  /\ pc[p] = "stop" /\ pc'[p] = "stop" /\ h \in NextStops(p)
         /\ Alone(p) /\ SameCopy(p) /\ SameFlags(p)
         /\ job'[p].todo = job[p].todo \ {h} /\ job'[p].later = job[p].later \ {h}
         /\ job'[p].pods = job[p].pods \ {h} /\ job'[p].done = job[p].done \cup {h}
         /\ running' = running \ {h}
         /\ owed' = (IF h \in running /\ h \in Listed(job[p].mem[job[p].who].preempted)
                     THEN owed \cup {h} ELSE owed)
         /\ UNCHANGED <<ledger, lock, poison, mode, wedges, crashes, reboots>>
<1> DEFINE s1 == job[p].todo \ {h}
           s2 == job[p].later \ {h}
           s3 == job[p].pods \ {h}
           s4 == job[p].done \cup {h}
<1>1. /\ pc[p] = "stop" /\ pc' = pc /\ h \in NextStops(p)
      /\ job' = [job EXCEPT ![p].todo = s1, ![p].later = s2, ![p].pods = s3, ![p].done = s4]
      /\ running' = running \ {h}
      /\ owed' = (IF h \in running /\ h \in Listed(job[p].mem[job[p].who].preempted)
                  THEN owed \cup {h} ELSE owed)
      /\ UNCHANGED <<ledger, lock, poison, mode, wedges, crashes, reboots>>
  BY DEF Stop, disk, count
<1> HIDE DEF s1, s2, s3, s4
<1>2. /\ Alone(p) /\ SameCopy(p) /\ SameFlags(p)
      /\ job'[p].todo = s1 /\ job'[p].later = s2 /\ job'[p].pods = s3 /\ job'[p].done = s4
  BY <1>1, SMTT(60) DEF TypeOK, Job, Alone, SameCopy, SameFlags
<1> QED BY <1>1, <1>2 DEF s1, s2, s3, s4

LEMMA StopFailsEffect ==
  ASSUME TypeOK, NEW p \in Procs, NEW h \in Deploys, StopFails(p, h)
  PROVE  /\ pc[p] = "stop" /\ pc'[p] = "rollback" /\ h \in NextStops(p)
         /\ Alone(p) /\ SameCopy(p) /\ SameFlags(p)
         /\ job'[p].todo = job[p].done /\ job'[p].done = job[p].done
         /\ \/ "stop" \in Faults /\ UNCHANGED <<running, owed>>
            \/ "late" \in Faults /\ running' = running \ {h}
         /\ UNCHANGED <<ledger, lock, poison, mode, wedges, crashes, reboots>>
<1> DEFINE s == job[p].done
<1>1. /\ pc[p] = "stop" /\ Goto(p, "rollback") /\ h \in NextStops(p)
      /\ job' = [job EXCEPT ![p].todo = s, ![p].later = {}, ![p].pods = {}]
      /\ \/ "stop" \in Faults /\ UNCHANGED <<running, owed>>
         \/ "late" \in Faults /\ running' = running \ {h}
      /\ UNCHANGED <<ledger, lock, poison, mode, wedges, crashes, reboots>>
  BY DEF StopFails, disk, count
<1> HIDE DEF s
<1>2. /\ Alone(p) /\ SameCopy(p) /\ SameFlags(p) /\ pc'[p] = "rollback"
      /\ job'[p].todo = s /\ job'[p].done = job[p].done
  BY <1>1, SMTT(60) DEF TypeOK, Job, Alone, SameCopy, SameFlags, Goto
<1> QED BY <1>1, <1>2 DEF s

LEMMA StopsEndEffect ==
  ASSUME TypeOK, NEW p \in Procs, StopsEnd(p)
  PROVE  /\ pc[p] = "stop" /\ pc'[p] = "flip" /\ NextStops(p) = {}
         /\ Alone(p) /\ SameCopy(p) /\ SameFlags(p) /\ SameLists(p)
         /\ job'[p].toks = Requires[job[p].who] \cap GpuTokens
         /\ UNCHANGED <<ledger, lock, running, owed, poison, mode, wedges, crashes, reboots>>
<1> DEFINE s == Requires[job[p].who] \cap GpuTokens
<1>1. /\ pc[p] = "stop" /\ Goto(p, "flip") /\ NextStops(p) = {}
      /\ job' = [job EXCEPT ![p].toks = s]
      /\ UNCHANGED <<ledger, lock, running, owed, poison, mode, wedges, crashes, reboots>>
  BY DEF StopsEnd, disk, host, count
<1> HIDE DEF s
<1>2. /\ Alone(p) /\ SameCopy(p) /\ SameFlags(p) /\ SameLists(p) /\ pc'[p] = "flip"
      /\ job'[p].toks = s
  BY <1>1, SMTT(60) DEF TypeOK, Job, Alone, SameCopy, SameFlags, SameLists, Goto
<1> QED BY <1>1, <1>2 DEF s

LEMMA FlipEffect ==
  ASSUME TypeOK, NEW p \in Procs, NEW t \in GpuTokens, Flip(p, t)
  PROVE  /\ pc[p] = "flip" /\ pc'[p] = "flip" /\ t \in job[p].toks /\ t \notin poison
         /\ Alone(p) /\ SameCopy(p) /\ SameFlags(p) /\ SameLists(p)
         /\ job'[p].toks = job[p].toks \ {t}
         /\ mode' = [mode EXCEPT ![t] = claimMode(job[p].who)]
         /\ UNCHANGED <<ledger, lock, running, owed, poison, wedges, crashes, reboots>>
<1> DEFINE s == job[p].toks \ {t}
<1>1. /\ pc[p] = "flip" /\ pc' = pc /\ t \in job[p].toks /\ t \notin poison
      /\ job' = [job EXCEPT ![p].toks = s]
      /\ mode' = [mode EXCEPT ![t] = claimMode(job[p].who)]
      /\ UNCHANGED <<ledger, lock, running, owed, poison, wedges, crashes, reboots>>
  BY DEF Flip, disk, count
<1> HIDE DEF s
<1>2. /\ Alone(p) /\ SameCopy(p) /\ SameFlags(p) /\ SameLists(p) /\ job'[p].toks = s
  BY <1>1, SMTT(60) DEF TypeOK, Job, Alone, SameCopy, SameFlags, SameLists
<1> QED BY <1>1, <1>2 DEF s

LEMMA FlipFailsEffect ==
  ASSUME TypeOK, NEW p \in Procs, NEW t \in GpuTokens, FlipFails(p, t)
  PROVE  /\ pc[p] = "flip" /\ pc'[p] = "rollback"
         /\ Alone(p) /\ SameCopy(p) /\ SameFlags(p)
         /\ job'[p].todo = Listed(job[p].mem[job[p].who].preempted)
         /\ UNCHANGED <<ledger, lock, running, owed, mode, crashes, reboots>>
<1> DEFINE s == Listed(job[p].mem[job[p].who].preempted)
<1>1. /\ pc[p] = "flip" /\ Goto(p, "rollback")
      /\ job' = [job EXCEPT ![p].todo = s, ![p].toks = {}]
      /\ UNCHANGED <<ledger, lock, running, owed, mode, crashes, reboots>>
  BY DEF FlipFails, disk, count
<1> HIDE DEF s
<1>2. /\ Alone(p) /\ SameCopy(p) /\ SameFlags(p) /\ pc'[p] = "rollback" /\ job'[p].todo = s
  BY <1>1, SMTT(60) DEF TypeOK, Job, Alone, SameCopy, SameFlags, Goto
<1> QED BY <1>1, <1>2 DEF s

LEMMA FlipEndEffect ==
  ASSUME TypeOK, NEW p \in Procs, FlipEnd(p)
  PROVE  /\ pc[p] = "flip" /\ job[p].toks = {} /\ Alone(p) /\ Fresh(p) /\ pc'[p] = "up"
         /\ lock' = NoProc
         /\ UNCHANGED <<ledger, running, owed, poison, mode, wedges, crashes, reboots>>
BY ResetEffect DEF FlipEnd, disk, host, count

LEMMA RollbackEffect ==
  ASSUME TypeOK, NEW p \in Procs, NEW h \in Deploys, Rollback(p, h)
  PROVE  /\ pc[p] = "rollback" /\ pc'[p] = "rollback" /\ h \in job[p].todo
         /\ Alone(p) /\ SameCopy(p) /\ SameFlags(p)
         /\ job'[p].todo = job[p].todo \ {h}
         /\ \/ h \in running /\ UNCHANGED <<running, owed>>
            \/ h \notin running /\ running' = running \cup {h} /\ owed' = owed \ {h}
            \/ h \notin running /\ "rollback" \in Faults /\ UNCHANGED <<running, owed>>
         /\ UNCHANGED <<ledger, lock, poison, mode, wedges, crashes, reboots>>
<1> DEFINE s == job[p].todo \ {h}
<1>1. /\ pc[p] = "rollback" /\ pc' = pc /\ h \in job[p].todo
      /\ job' = [job EXCEPT ![p].todo = s]
      /\ \/ h \in running /\ UNCHANGED <<running, owed>>
         \/ h \notin running /\ running' = running \cup {h} /\ owed' = owed \ {h}
         \/ h \notin running /\ "rollback" \in Faults /\ UNCHANGED <<running, owed>>
      /\ UNCHANGED <<ledger, lock, poison, mode, wedges, crashes, reboots>>
  BY DEF Rollback, StartHolder, disk, count
<1> HIDE DEF s
<1>2. Alone(p) /\ SameCopy(p) /\ SameFlags(p) /\ job'[p].todo = s
  BY <1>1, SMTT(60) DEF TypeOK, Job, Alone, SameCopy, SameFlags
<1> QED BY <1>1, <1>2 DEF s

LEMMA DropEffect ==
  ASSUME TypeOK, NEW p \in Procs, Drop(p)
  PROVE  /\ pc[p] = "rollback" /\ job[p].todo = {} /\ Ends(p)
         /\ ledger' = Without(ledger, job[p].who)
         /\ UNCHANGED <<running, owed, poison, mode, wedges, crashes, reboots>>
BY EndsEffect DEF Drop, host, count

LEMMA ClearBedEffect ==
  ASSUME TypeOK, NEW p \in Procs, ClearBed(p)
  PROVE  /\ pc[p] = "up" /\ pc'[p] = "boot" /\ job[p].op = "check"
         /\ Alone(p) /\ SameCopy(p) /\ SameFlags(p) /\ SameLists(p)
         /\ running' = running \ {job[p].who}
         /\ UNCHANGED <<ledger, lock, owed, poison, mode, wedges, crashes, reboots>>
BY GotoEffect DEF ClearBed, disk, count

LEMMA BringUpEffect ==
  ASSUME TypeOK, NEW p \in Procs, BringUp(p)
  PROVE  /\ pc[p] = "up" /\ job[p].op # "check" /\ Ends(p)
         /\ \/ running' = running \cup {job[p].who} /\ owed' = owed \ {job[p].who}
            \/ UNCHANGED <<running, owed>>
         /\ UNCHANGED <<ledger, poison, mode, wedges, crashes, reboots>>
BY EndsEffect DEF BringUp, disk, count

LEMMA BootBedEffect ==
  ASSUME TypeOK, NEW p \in Procs, BootBed(p)
  PROVE  /\ pc[p] = "boot" /\ pc'[p] = "busy"
         /\ Alone(p) /\ SameCopy(p) /\ SameLists(p)
         /\ job'[p].rel = job[p].rel /\ job'[p].bad = job[p].bad
         /\ \/ running' = running \cup {job[p].who} /\ owed' = owed \ {job[p].who}
            \/ UNCHANGED <<running, owed>>
         /\ UNCHANGED <<ledger, lock, poison, mode, wedges, crashes, reboots>>
<1>1. ASSUME job' = [job EXCEPT ![p].good = FALSE]
      PROVE  /\ \A q \in Procs \ {p} : job'[q] = job[q]
             /\ job'[p].op = job[p].op /\ job'[p].who = job[p].who
             /\ SameCopy(p) /\ SameLists(p)
             /\ job'[p].rel = job[p].rel /\ job'[p].bad = job[p].bad
  BY <1>1, SMTT(60) DEF TypeOK, Job, SameCopy, SameLists
<1>2. ASSUME UNCHANGED job
      PROVE  /\ \A q \in Procs \ {p} : job'[q] = job[q]
             /\ job'[p].op = job[p].op /\ job'[p].who = job[p].who
             /\ SameCopy(p) /\ SameLists(p)
             /\ job'[p].rel = job[p].rel /\ job'[p].bad = job[p].bad
  BY <1>2 DEF SameCopy, SameLists
<1>3. (\A q \in Procs \ {p} : pc'[q] = pc[q]) /\ pc'[p] = "busy"
  BY DEF TypeOK, BootBed, Goto
<1> QED BY <1>1, <1>2, <1>3 DEF Alone, BootBed, disk, count

LEMMA CheckEndEffect ==
  ASSUME TypeOK, NEW p \in Procs, CheckEnd(p)
  PROVE  /\ pc[p] = "busy" /\ pc'[p] = "relwait"
         /\ Alone(p) /\ SameCopy(p) /\ SameLists(p)
         /\ job'[p].rel = job[p].rel /\ job'[p].bad = job[p].bad
         /\ \/ running' = running \ {job[p].who}
            \/ UNCHANGED running
         /\ UNCHANGED <<ledger, lock, owed, poison, mode, wedges, crashes, reboots>>
<1>1. ASSUME job' = [job EXCEPT ![p].good = FALSE]
      PROVE  /\ \A q \in Procs \ {p} : job'[q] = job[q]
             /\ job'[p].op = job[p].op /\ job'[p].who = job[p].who
             /\ SameCopy(p) /\ SameLists(p)
             /\ job'[p].rel = job[p].rel /\ job'[p].bad = job[p].bad
  BY <1>1, SMTT(60) DEF TypeOK, Job, SameCopy, SameLists
<1>2. ASSUME UNCHANGED job
      PROVE  /\ \A q \in Procs \ {p} : job'[q] = job[q]
             /\ job'[p].op = job[p].op /\ job'[p].who = job[p].who
             /\ SameCopy(p) /\ SameLists(p)
             /\ job'[p].rel = job[p].rel /\ job'[p].bad = job[p].bad
  BY <1>2 DEF SameCopy, SameLists
<1>3. (\A q \in Procs \ {p} : pc'[q] = pc[q]) /\ pc'[p] = "relwait"
  BY DEF TypeOK, CheckEnd, Goto
<1> QED BY <1>1, <1>2, <1>3 DEF Alone, CheckEnd, disk, count

LEMMA CrashEffect ==
  ASSUME TypeOK, NEW p \in Procs, Crash(p)
  PROVE  /\ ownerAlive(p) /\ Ends(p) /\ crashes < MaxCrashes
         /\ UNCHANGED <<ledger, running, owed, poison, mode, wedges, reboots>>
BY EndsEffect DEF Crash, disk, host

LEMMA RebootEffect ==
  ASSUME TypeOK, Reboot
  PROVE  /\ \A q \in Procs : /\ pc'[q] = (IF ownerAlive(q) THEN "done" ELSE pc[q])
                             /\ Fresh(q)
                             /\ job'[q].op = job[q].op /\ job'[q].who = job[q].who
         /\ lock' = NoProc /\ running' = {} /\ reboots < MaxReboots
         /\ wedges' = [t \in GpuTokens |-> 0]
         /\ UNCHANGED <<ledger, mode, owed, crashes>>
BY DEF TypeOK, Reboot, Fresh, NewJob

\* The rest of the world only touches the host.
OnHost ==
  /\ UNCHANGED <<ledger, lock, pc, job, crashes, reboots>>
  /\ \/ UNCHANGED <<running, owed>>
     \/ "down" \in Faults /\ owed' = owed /\ \E d \in Deploys : running' = running \ {d}
     \/ \E h \in Deploys : /\ "opstart" \in Faults /\ Requires[h] = {}
                           /\ running' = running \cup {h} /\ owed' = owed \ {h}

LEMMA WorldEffect ==
  ASSUME World
  PROVE  OnHost \/ Reboot \/ \E p \in Procs : Crash(p)
<1>1. ASSUME NEW d \in Deploys, GoesDown(d) PROVE OnHost
  BY <1>1 DEF GoesDown, OnHost, disk, count
<1>2. ASSUME NEW d \in Deploys, OperatorStart(d) PROVE OnHost
  BY <1>2 DEF OperatorStart, StartHolder, OnHost, disk, count
<1>3. ASSUME NEW t \in GpuTokens, StallEnds(t) PROVE OnHost
  BY <1>3 DEF StallEnds, OnHost, disk, count
<1>4. ASSUME NEW t \in GpuTokens, GpuRecover(t) PROVE OnHost
  BY <1>4 DEF GpuRecover, OnHost, disk, count
<1> QED BY <1>1, <1>2, <1>3, <1>4 DEF World

-----------------------------------------------------------------------------
(* The flock discipline.  Without the bare `charly preempt restore` (which *)
(* reconciles outside the flock) a process touches the ledger, the holders *)
(* and the drivers only while it has the flock, and a deployment is worked *)
(* on by one process at a time.                                            *)

NoReconcile == \A d \in Deploys : <<"reconcile", d>> \notin Workload

\* The steps of a reconcile or a release, and those of an acquire that was granted.
Trimming == {"scan", "restore", "unflip", "flush", "commit"}
Claiming == {"append", "stop", "flip", "rollback"}
Holding  == Trimming \cup Claiming \cup {"decide"}

\* p acquires, or has acquired, the claim of its command.
Acquiring(p) ==
  \/ pc[p] \in {"wait", "scan", "flush", "decide", "up", "boot", "busy"} \cup Claiming
  \/ pc[p] \in {"restore", "unflip"} /\ ~job[p].rel

AtWork(p) ==
  /\ pc[p] \in Holding => lock = p
  /\ pc[p] # "new" => <<job[p].op, job[p].who>> \in Workload
  /\ job[p].rel => pc[p] \in {"restore", "unflip", "commit"}
  /\ pc[p] = "commit" => job[p].rel
  /\ Acquiring(p) => job[p].op \in {"check", "start"}
  /\ pc[p] \in {"boot", "busy"} => job[p].op = "check"

LockInv ==
  /\ \A p \in Procs : AtWork(p)
  /\ \A p, q \in Procs : p # q /\ ownerAlive(p) /\ ownerAlive(q) => job[p].who # job[q].who

\* What a step of p does as far as the flock is concerned.
Onward(p) ==
  /\ Alone(p) /\ ownerAlive(p) /\ pc'[p] # "new"
  /\ AtWork(p)'
  /\ lock' = lock \/ lock = NoProc \/ lock = p

LEMMA OnwardLock ==
  ASSUME TypeOK, LockInv, NEW p \in Procs, Onward(p)
  PROVE  LockInv'
<1>1. \A q \in Procs \ {p} : AtWork(q)'
  <2> SUFFICES ASSUME NEW q \in Procs \ {p} PROVE AtWork(q)'
    OBVIOUS
  <2>1. pc'[q] = pc[q] /\ job'[q] = job[q] /\ AtWork(q)
    BY DEF Onward, Alone, LockInv
  <2>2. pc[q] \in Holding => lock' = q
    <3>1. NoProc # q
      BY ArbiterAssumption
    <3> QED BY <2>1, <3>1 DEF Onward, AtWork
  <2> QED BY <2>1, <2>2 DEF AtWork, Acquiring
<1>2. \A q, r \in Procs : q # r /\ ownerAlive(q)' /\ ownerAlive(r)' => job'[q].who # job'[r].who
  <2>1. \A q \in Procs : ownerAlive(q)' => ownerAlive(q) /\ job'[q].who = job[q].who
    BY DEF Onward, Alone, ownerAlive
  <2> QED BY <2>1 DEF LockInv
<1> QED BY <1>1, <1>2 DEF LockInv, Onward

\* The command of a process that has begun.
LEMMA OpsOf ==
  ASSUME NoReconcile, TypeOK, LockInv, NEW p \in Procs, pc[p] # "new"
  PROVE  job[p].op # "reconcile" /\ job[p].op \in AllCommands /\ job[p].who \in Deploys
BY JobFields DEF NoReconcile, TypeOK, LockInv, AtWork

LEMMA ReleaseOnward ==
  ASSUME NoReconcile, TypeOK, LockInv, NEW p \in Procs,
         \/ Halt(p) \/ LockAcquire(p) \/ LockRelease(p) \/ ScanEnd(p) \/ Flush(p) \/ Retain(p)
         \/ Released(p) \/ UnflipEnd(p) \/ Commit(p)
         \/ \E c \in Deploys : Visit(p, c) \/ Restore(p, c)
         \/ \E t \in GpuTokens : Unflip(p, t)
  PROVE  Onward(p)
<1> USE DEF LockInv, AtWork, Onward, Alone, SameFlags, Fresh, Ends, Acquiring, Holding, Trimming, Claiming,
            ownerAlive, Scanned
<1>0. AtWork(p) /\ (pc[p] # "new" => job[p].op # "reconcile")
  BY OpsOf
<1>1. CASE Halt(p)
  BY <1>0, <1>1, HaltEffect
<1>2. CASE LockAcquire(p)
  BY <1>0, <1>2, LockAcquireEffect
<1>3. CASE LockRelease(p)
  BY <1>0, <1>3, LockReleaseEffect
<1>4. CASE ScanEnd(p)
  BY <1>0, <1>4, ScanEndEffect
<1>5. CASE Flush(p)
  BY <1>0, <1>5, FlushEffect
<1>6. CASE Retain(p)
  BY <1>0, <1>6, RetainEffect
<1>7. CASE Released(p)
  BY <1>0, <1>7, ReleasedEffect
<1>8. CASE UnflipEnd(p)
  BY <1>0, <1>8, UnflipEndEffect
<1>9. CASE Commit(p)
  BY <1>0, <1>9, CommitEffect
<1>10. ASSUME NEW c \in Deploys, Visit(p, c) PROVE Onward(p)
  BY <1>0, <1>10, VisitEffect
<1>11. ASSUME NEW c \in Deploys, Restore(p, c) PROVE Onward(p)
  BY <1>0, <1>11, RestoreEffect
<1>12. ASSUME NEW t \in GpuTokens, Unflip(p, t) PROVE Onward(p)
  BY <1>0, <1>12, UnflipEffect
<1> QED BY <1>1, <1>2, <1>3, <1>4, <1>5, <1>6, <1>7, <1>8, <1>9, <1>10, <1>11, <1>12

LEMMA AcquireOnward ==
  ASSUME NoReconcile, TypeOK, LockInv, NEW p \in Procs,
         \/ Reacquire(p) \/ Refuse(p) \/ DecideExclusive(p) \/ DecideShared(p) \/ Append(p)
         \/ StopsEnd(p) \/ FlipEnd(p) \/ Drop(p) \/ ClearBed(p) \/ BringUp(p) \/ BootBed(p)
         \/ CheckEnd(p)
         \/ \E h \in Deploys : Stop(p, h) \/ StopFails(p, h) \/ Rollback(p, h)
         \/ \E t \in GpuTokens : Flip(p, t) \/ FlipFails(p, t)
  PROVE  Onward(p)
<1> USE DEF LockInv, AtWork, Onward, Alone, SameFlags, Fresh, Ends, Acquiring, Holding, Trimming, Claiming,
            ownerAlive, Decided
<1>0. AtWork(p) /\ (pc[p] # "new" => job[p].op # "reconcile")
  BY OpsOf
<1>1. CASE Reacquire(p)
  BY <1>0, <1>1, ReacquireEffect
<1>2. CASE Refuse(p)
  BY <1>0, <1>2, RefuseEffect
<1>3. CASE DecideExclusive(p)
  BY <1>0, <1>3, DecideExclusiveEffect
<1>4. CASE DecideShared(p)
  BY <1>0, <1>4, DecideSharedEffect
<1>5. CASE Append(p)
  BY <1>0, <1>5, AppendEffect
<1>6. CASE StopsEnd(p)
  BY <1>0, <1>6, StopsEndEffect
<1>7. CASE FlipEnd(p)
  BY <1>0, <1>7, FlipEndEffect
<1>8. CASE Drop(p)
  BY <1>0, <1>8, DropEffect
<1>9. CASE ClearBed(p)
  BY <1>0, <1>9, ClearBedEffect
<1>10. CASE BringUp(p)
  BY <1>0, <1>10, BringUpEffect
<1>11. CASE BootBed(p)
  BY <1>0, <1>11, BootBedEffect
<1>12. CASE CheckEnd(p)
  BY <1>0, <1>12, CheckEndEffect
<1>13. ASSUME NEW h \in Deploys, Stop(p, h) PROVE Onward(p)
  BY <1>0, <1>13, StopEffect
<1>14. ASSUME NEW h \in Deploys, StopFails(p, h) PROVE Onward(p)
  BY <1>0, <1>14, StopFailsEffect
<1>15. ASSUME NEW h \in Deploys, Rollback(p, h) PROVE Onward(p)
  BY <1>0, <1>15, RollbackEffect
<1>16. ASSUME NEW t \in GpuTokens, Flip(p, t) PROVE Onward(p)
  BY <1>0, <1>16, FlipEffect
<1>17. ASSUME NEW t \in GpuTokens, FlipFails(p, t) PROVE Onward(p)
  BY <1>0, <1>17, FlipFailsEffect
<1> QED BY <1>1, <1>2, <1>3, <1>4, <1>5, <1>6, <1>7, <1>8, <1>9, <1>10, <1>11, <1>12, <1>13,
           <1>14, <1>15, <1>16, <1>17

LEMMA StepOnward ==
  ASSUME NoReconcile, TypeOK, LockInv, NEW p \in Procs, Step(p)
  PROVE  Onward(p)
BY ReleaseOnward, AcquireOnward DEF Step

LEMMA BeginLock ==
  ASSUME NoReconcile, TypeOK, LockInv, NEW p \in Procs, NEW o \in AllCommands,
         NEW d \in Deploys, Begin(p, o, d)
  PROVE  LockInv' /\ o # "reconcile"
<1>1. /\ \A q \in Procs \ {p} : pc'[q] = pc[q] /\ job'[q] = job[q]
      /\ job'[p].op = o /\ job'[p].who = d /\ ~job'[p].rel
      /\ pc[p] = "new" /\ pc'[p] \in {"halt", "wait", "relwait", "scan"}
      /\ <<o, d>> \in Workload /\ (o # "reconcile" => Sole(p, d))
      /\ lock' = lock
      /\ o \in {"stop", "vmstop"} => pc'[p] = "halt"
      /\ o \in {"check", "start"} => pc'[p] = "wait"
      /\ o = "restore" => pc'[p] = "relwait"
  BY BeginEffect
<1>2. o # "reconcile" /\ Sole(p, d)
  BY <1>1 DEF NoReconcile
<1>3. AtWork(p)'
  BY <1>1, <1>2 DEF AtWork, Acquiring, Holding, Trimming, Claiming, AllCommands
<1>4. \A q \in Procs \ {p} : AtWork(q)'
  <2> SUFFICES ASSUME NEW q \in Procs \ {p} PROVE AtWork(q)'
    OBVIOUS
  <2> QED BY <1>1 DEF LockInv, AtWork, Acquiring
<1>5. \A q \in Procs \ {p} : ownerAlive(q)' => job'[q].who # d
  <2> SUFFICES ASSUME NEW q \in Procs \ {p}, ownerAlive(q)' PROVE job[q].who # d
    BY <1>1
  <2>1. ownerAlive(q) /\ job[q].op # "reconcile"
    BY <1>1, OpsOf DEF ownerAlive
  <2> QED BY <2>1, <1>2 DEF Sole
<1>6. \A q, r \in Procs : q # r /\ ownerAlive(q)' /\ ownerAlive(r)' => job'[q].who # job'[r].who
  <2>1. \A q \in Procs \ {p} : (ownerAlive(q)' => ownerAlive(q)) /\ job'[q].who = job[q].who
    BY <1>1 DEF ownerAlive
  <2> QED BY <1>1, <1>5, <2>1 DEF LockInv
<1> QED BY <1>2, <1>3, <1>4, <1>6 DEF LockInv

LEMMA WorldLock ==
  ASSUME TypeOK, LockInv, World
  PROVE  LockInv'
<1> USE DEF LockInv, AtWork, ownerAlive
<1>1. CASE OnHost
  BY <1>1 DEF OnHost, Acquiring
<1>2. CASE Reboot
  BY <1>2, RebootEffect, ZenonT(30) DEF Fresh, Acquiring, Holding, Trimming, Claiming
<1>3. ASSUME NEW p \in Procs, Crash(p) PROVE LockInv'
  <2>1. Onward(p)
    BY <1>3, CrashEffect DEF Onward, Ends, Alone, Fresh, Acquiring, Holding, Trimming, Claiming
  <2> QED BY <2>1, OnwardLock
<1> QED BY <1>1, <1>2, <1>3, WorldEffect

LEMMA LockInit == Init => LockInv
BY DEF Init, LockInv, AtWork, Acquiring, Holding, Trimming, Claiming, ownerAlive, NewJob

LEMMA LockNext ==
  ASSUME NoReconcile, TypeOK, LockInv, [Next]_vars
  PROVE  LockInv'
<1>1. CASE UNCHANGED vars
  BY <1>1 DEF vars, LockInv, AtWork, Acquiring, ownerAlive
<1> QED BY <1>1, BeginLock, WorldLock, StepOnward, OnwardLock DEF Next, Quiet

-----------------------------------------------------------------------------
(* Whose a lease is.  Every lease, on disk or in the memory of a process,  *)
(* was written by a process whose command acquires the claim of just that  *)
(* deployment, is transient when that command is a check run, and lists    *)
(* holders with tokens they hold.                                          *)

OwnedBy(q, c, transient) ==
  /\ pc[q] # "new" /\ job[q].who = c /\ job[q].op \in {"check", "start"}
  /\ transient = (job[q].op = "check")

Owned(L) ==
  \A c \in Leases(L) :
    /\ OwnedBy(L[c].owner, c, L[c].transient)
    /\ \A h \in Deploys : L[c].preempted[h] \subseteq Holds[h]

OwnerInv == Owned(ledger) /\ \A p \in Procs : Owned(job[p].mem)

\* A process that has begun stays the same command on the same deployment.
Persist ==
  \A q \in Procs : pc[q] # "new" =>
    pc'[q] # "new" /\ job'[q].op = job[q].op /\ job'[q].who = job[q].who

LEMMA LeaseFields ==
  ASSUME NEW L \in Ledger, NEW c \in Leases(L)
  PROVE  /\ c \in Deploys /\ L[c] # NoLease /\ L[c] \in Lease
         /\ L[c].owner \in Procs /\ L[c].transient \in BOOLEAN
         /\ L[c].preempted \in Preempted
         /\ \A h \in Deploys : L[c].preempted[h] \in SUBSET Tokens
<1>1. c \in Deploys /\ L[c] # NoLease /\ L[c] \in Lease
  BY DEF Leases, Ledger
<1>2. \A l \in Lease : /\ l.owner \in Procs /\ l.transient \in BOOLEAN
                       /\ l.preempted \in Preempted
  BY DEF Lease
<1> QED BY <1>1, <1>2 DEF Preempted

LEMMA PersistNext ==
  ASSUME NoReconcile, TypeOK, LockInv, [Next]_vars
  PROVE  Persist
<1>1. ASSUME NEW p \in Procs, NEW o \in AllCommands, NEW d \in Deploys, Begin(p, o, d)
      PROVE  Persist
  BY <1>1, BeginEffect DEF Persist
<1>2. ASSUME NEW p \in Procs, Step(p) PROVE Persist
  BY <1>2, StepOnward DEF Persist, Onward, Alone
<1>3. CASE World
  BY <1>3, WorldEffect, RebootEffect, CrashEffect DEF Persist, OnHost, Ends, Alone
<1>4. CASE UNCHANGED vars
  BY <1>4 DEF Persist, vars
<1> QED BY <1>1, <1>2, <1>3, <1>4 DEF Next, Quiet

\* Owned, of a ledger after the step.
OwnedNext(L) ==
  \A c \in Leases(L) :
    /\ pc'[L[c].owner] # "new" /\ job'[L[c].owner].who = c
    /\ job'[L[c].owner].op \in {"check", "start"}
    /\ L[c].transient = (job'[L[c].owner].op = "check")
    /\ \A h \in Deploys : L[c].preempted[h] \subseteq Holds[h]

LEMMA OwnedStays ==
  ASSUME TypeOK, Persist, NEW L \in Ledger, Owned(L)
  PROVE  OwnedNext(L)
BY LeaseFields DEF Owned, OwnedBy, OwnedNext, Persist

LEMMA OwnedEmpty == Owned(Empty) /\ Empty \in Ledger
BY DEF Owned, Leases, Empty, Ledger

LEMMA OwnedWithout ==
  ASSUME NEW L \in Ledger, NEW c \in Deploys, Owned(L)
  PROVE  Owned(Without(L, c))
<1>1. \A d \in Leases(Without(L, c)) : d \in Leases(L) /\ Without(L, c)[d] = L[d]
  BY DEF Leases, Without, Ledger
<1> QED BY <1>1 DEF Owned

\* What Attach leaves of a ledger.
LEMMA AttachFields ==
  ASSUME NEW L \in Ledger, NEW c \in Leases(L), NEW good \in BOOLEAN,
         NEW heir \in Heirs(L, c, good)
  PROVE  /\ Attach(L, c, heir) \in Ledger
         /\ Leases(Attach(L, c, heir)) = Leases(L) \ {c}
         /\ \A d \in Leases(L) \ {c} :
              /\ Attach(L, c, heir)[d].owner = L[d].owner
              /\ Attach(L, c, heir)[d].transient = L[d].transient
              /\ \A h \in Deploys :
                   Attach(L, c, heir)[d].preempted[h] =
                     IF h \in Carry(L, c, good) /\ heir[h] = d /\ L[d].preempted[h] = {}
                     THEN L[c].preempted[h] ELSE L[d].preempted[h]
<1> DEFINE lst(d) == [h \in Deploys |->
             IF h \in DOMAIN heir /\ heir[h] = d /\ L[d].preempted[h] = {}
             THEN L[c].preempted[h] ELSE L[d].preempted[h]]
<1>1. Attach(L, c, heir) \in Ledger
  BY AttachType
<1>2. DOMAIN heir = Carry(L, c, good)
  BY DEF Heirs
<1>3. ASSUME NEW d \in Leases(L) \ {c}
      PROVE  /\ Attach(L, c, heir)[d].owner = L[d].owner
             /\ Attach(L, c, heir)[d].transient = L[d].transient
             /\ Attach(L, c, heir)[d].preempted = lst(d)
             /\ Attach(L, c, heir)[d] \in Lease
  <2>1. L[d] \in Lease /\ L[d] # NoLease /\ d \in Deploys
    BY LeaseFields
  <2>2. Attach(L, c, heir)[d] = [L[d] EXCEPT !.preempted = lst(d)]
    BY <2>1 DEF Attach
  <2>4. lst(d) \in Preempted
    BY <2>1, LeaseFields DEF Lease, Preempted
  <2> HIDE DEF lst
  <2>3. \A l \in Lease, f \in Preempted : /\ [l EXCEPT !.preempted = f].owner = l.owner
                         /\ [l EXCEPT !.preempted = f].transient = l.transient
                         /\ [l EXCEPT !.preempted = f].preempted = f
                         /\ [l EXCEPT !.preempted = f] \in Lease
    BY DEF Lease
  <2> QED BY <2>1, <2>2, <2>3, <2>4
<1>4. Leases(Attach(L, c, heir)) \subseteq Leases(L) \ {c}
  BY DEF Leases, Attach
<1>5. Attach(L, c, heir)[c] = NoLease
  BY LeaseFields DEF Attach
<1>6. ASSUME NEW d \in Leases(L) \ {c} PROVE Attach(L, c, heir)[d] # NoLease
  BY <1>3, LeaseAssumption
<1>7. Leases(Attach(L, c, heir)) = Leases(L) \ {c}
  BY <1>4, <1>6 DEF Leases
<1>8. ASSUME NEW d \in Leases(L) \ {c}, NEW h \in Deploys
      PROVE  lst(d)[h] = IF h \in Carry(L, c, good) /\ heir[h] = d /\ L[d].preempted[h] = {}
                         THEN L[c].preempted[h] ELSE L[d].preempted[h]
  BY <1>2
<1> HIDE DEF lst
<1> QED BY <1>1, <1>3, <1>7, <1>8

\* The lease l that p writes for c: stopped(h) for each holder h is what the lease
\* keeps it from.
IsNewLease(l, p, stopped) ==
  /\ l \in Lease /\ l # NoLease /\ l.owner = p
  /\ l.transient = (job[p].op = "check")
  /\ \A h \in Deploys : l.preempted[h] = stopped[h]

LEMMA NewLeaseFields ==
  ASSUME TypeOK, NEW p \in Procs, NEW c \in Deploys, NEW fresh \in SUBSET Deploys,
         NEW from, \A h \in DOMAIN from : from[h] \in Leases(ledger)
  PROVE  IsNewLease(NewLease(p, c, fresh, ledger, from), p,
           [h \in Deploys |-> IF h \in fresh THEN Holds[h] \cap Requires[c]
                              ELSE IF h \in DOMAIN from THEN ledger[from[h]].preempted[h]
                              ELSE {}])
<1>0. ledger \in Ledger
  BY DEF TypeOK
<1>1. NewLease(p, c, fresh, ledger, from) \in Lease
  BY <1>0, NewLeaseType
<1>2. NewLease(p, c, fresh, ledger, from) # NoLease
  BY <1>1, LeaseAssumption
<1> QED BY <1>1, <1>2 DEF NewLease, IsNewLease

LEMMA DonorsLeases ==
  ASSUME NEW c, NEW from \in Donors(ledger, c)
  PROVE  /\ DOMAIN from = CarriedOver(ledger, c)
         /\ \A h \in DOMAIN from : /\ from[h] \in Leases(ledger) /\ from[h] \in Dropped(ledger, c)
                                   /\ ledger[from[h]].preempted[h] # {}
BY DEF Donors, Dropped

\* The holders an exclusive and a shared claim of c answers for.
StoppedFor(c, from) ==
  [h \in Deploys |-> IF h \in holdersToStop(c) THEN Holds[h] \cap Requires[c]
                     ELSE IF h \in CarriedOver(ledger, c) THEN ledger[from[h]].preempted[h]
                     ELSE {}]
StoppedForShared(c) ==
  [h \in Deploys |-> IF h \in FreshShared(c) THEN Holds[h] \cap Requires[c] ELSE {}]

\* M is the ledger with the new lease of p for c, without the leases of gone.
IsGrant(M, p, c, stopped, gone) ==
  /\ M \in Ledger /\ IsNewLease(M[c], p, stopped)
  /\ \A d \in Deploys \ {c} : M[d] = IF d \in gone THEN NoLease ELSE ledger[d]

LEMMA GrantFields ==
  ASSUME TypeOK, NEW p \in Procs, NEW c \in Deploys, NEW from \in Donors(ledger, c)
  PROVE  IsGrant(Granted(p, c, from), p, c, StoppedFor(c, from), Dropped(ledger, c))
<1> DEFINE own == holdersToStop(c)
           l == NewLease(p, c, own, ledger, from)
           S == [h \in Deploys |-> IF h \in own THEN Holds[h] \cap Requires[c]
                              ELSE IF h \in DOMAIN from THEN ledger[from[h]].preempted[h]
                              ELSE {}]
           M == [Kept(c) EXCEPT ![c] = l]
<1>1. own \in SUBSET Deploys /\ ledger \in Ledger
  BY DEF holdersToStop, TypeOK
<1>2. DOMAIN from = CarriedOver(ledger, c) /\ \A h \in DOMAIN from : from[h] \in Leases(ledger)
  BY DonorsLeases
<1>3. S = StoppedFor(c, from)
  BY <1>2 DEF StoppedFor
<1> HIDE DEF own
<1>4. IsNewLease(l, p, S)
  BY <1>1, <1>2, NewLeaseFields
<1> HIDE DEF l, S
<1>5. Kept(c) \in Ledger /\ \A d \in Deploys : Kept(c)[d] = IF d \in Dropped(ledger, c) THEN NoLease ELSE ledger[d]
  BY <1>1 DEF Kept, Ledger
<1>6. M \in Ledger /\ M[c] = l /\ \A d \in Deploys \ {c} : M[d] = Kept(c)[d]
  BY <1>4, <1>5 DEF Ledger, IsNewLease
<1>7. M = Granted(p, c, from)
  BY DEF Granted, l, own
<1> HIDE DEF M
<1> QED BY <1>3, <1>4, <1>5, <1>6, <1>7 DEF IsGrant

LEMMA SharedFields ==
  ASSUME TypeOK, NEW p \in Procs, NEW c \in Deploys
  PROVE  IsGrant(GrantedShared(p, c), p, c, StoppedForShared(c), {})
<1> DEFINE none == [d \in {} |-> d]
           own == FreshShared(c)
           l == NewLease(p, c, own, ledger, none)
           S == [h \in Deploys |-> IF h \in own THEN Holds[h] \cap Requires[c]
                              ELSE IF h \in DOMAIN none THEN ledger[none[h]].preempted[h]
                              ELSE {}]
           M == [ledger EXCEPT ![c] = l]
<1>1. own \in SUBSET Deploys /\ ledger \in Ledger
  BY DEF FreshShared, holdersToStop, TypeOK
<1>2. DOMAIN none = {} /\ \A h \in DOMAIN none : none[h] \in Leases(ledger)
  OBVIOUS
<1>3. S = StoppedForShared(c)
  BY <1>2 DEF StoppedForShared
<1> HIDE DEF none, own
<1>4. IsNewLease(l, p, S)
  BY <1>1, <1>2, NewLeaseFields
<1> HIDE DEF l, S
<1>5. M \in Ledger /\ M[c] = l /\ \A d \in Deploys \ {c} : M[d] = ledger[d]
  BY <1>1, <1>4 DEF Ledger, IsNewLease
<1>6. M = GrantedShared(p, c)
  BY DEF GrantedShared, l, own, none
<1> HIDE DEF M
<1> QED BY <1>3, <1>4, <1>5, <1>6 DEF IsGrant

\* The claim a process decides on is its own.
LEMMA OwnedDecision ==
  ASSUME NoReconcile, TypeOK, LockInv, OwnerInv, NEW p \in Procs, NEW M,
         \/ DecideExclusive(p) /\ \E from \in Donors(ledger, job[p].who) :
                                    M = Granted(p, job[p].who, from)
         \/ DecideShared(p) /\ M = GrantedShared(p, job[p].who)
  PROVE  Owned(M) /\ M \in Ledger
<1> DEFINE c == job[p].who
<1>1. /\ pc[p] = "decide" /\ job[p].op \in {"check", "start"} /\ c \in Deploys
      /\ ledger \in Ledger
  <2>1. pc[p] = "decide"
    BY ZenonT(30) DEF DecideExclusive, DecideShared, Admissible
  <2> QED BY <2>1, OpsOf, ZenonT(30) DEF LockInv, AtWork, Acquiring, TypeOK
<1>2. \E stopped, gone :
        /\ IsGrant(M, p, c, stopped, gone)
        /\ \A h \in Deploys :
             \/ stopped[h] = {} \/ stopped[h] = Holds[h] \cap Requires[c]
             \/ \E d \in Leases(ledger) : stopped[h] = ledger[d].preempted[h]
  <2>1. ASSUME NEW from \in Donors(ledger, c), M = Granted(p, c, from) PROVE <1>2
    <3> HIDE DEF c
    <3>1. IsGrant(M, p, c, StoppedFor(c, from), Dropped(ledger, c))
      BY <1>1, <2>1, GrantFields DEF TypeOK
    <3>2. \A h \in Deploys :
             \/ StoppedFor(c, from)[h] = {} \/ StoppedFor(c, from)[h] = Holds[h] \cap Requires[c]
             \/ \E d \in Leases(ledger) : StoppedFor(c, from)[h] = ledger[d].preempted[h]
      BY DonorsLeases DEF StoppedFor
    <3> QED BY <3>1, <3>2
  <2>2. ASSUME M = GrantedShared(p, c) PROVE <1>2
    <3> HIDE DEF c
    <3>1. IsGrant(M, p, c, StoppedForShared(c), {})
      BY <1>1, <2>2, SharedFields
    <3>2. \A h \in Deploys : \/ StoppedForShared(c)[h] = {}
                             \/ StoppedForShared(c)[h] = Holds[h] \cap Requires[c]
      BY DEF StoppedForShared
    <3> QED BY <3>1, <3>2
  <2> QED BY <2>1, <2>2
<1> USE DEF IsGrant, IsNewLease
<1>3. OwnedBy(p, c, M[c].transient)
  BY <1>1, <1>2 DEF OwnedBy
<1>4. \A h \in Deploys : M[c].preempted[h] \subseteq Holds[h]
  BY <1>2 DEF OwnerInv, Owned
<1>5. ASSUME NEW d \in Leases(M), d # c
      PROVE  OwnedBy(M[d].owner, d, M[d].transient) /\ \A h \in Deploys : M[d].preempted[h] \subseteq Holds[h]
  <2>1. d \in Leases(ledger) /\ M[d] = ledger[d]
    BY <1>2, <1>5 DEF Leases
  <2> QED BY <2>1 DEF OwnerInv, Owned
<1> QED BY <1>2, <1>3, <1>4, <1>5 DEF Owned

\* The ledgers after a step: the file and the copies, as they were or changed by
\* the process that has the flock.
LEMMA OwnedSteps ==
  ASSUME NoReconcile, TypeInv, LockInv, OwnerInv, [Next]_vars
  PROVE  \A L \in {ledger'} \cup {job'[q].mem : q \in Procs} : Owned(L) /\ L \in Ledger
<1> USE DEF TypeInv
<1>0. /\ ledger \in Ledger /\ \A q \in Procs : job[q].mem \in Ledger
      /\ \A q \in Procs : job[q].who \in Deploys
  BY JobFields DEF TypeOK
<1> DEFINE Good(L) == Owned(L) /\ L \in Ledger
<1>1. Good(ledger) /\ Good(Empty) /\ \A q \in Procs : Good(job[q].mem)
  BY <1>0, OwnedEmpty DEF OwnerInv
<1> SUFFICES Good(ledger') /\ \A q \in Procs : Good(job'[q].mem)
  OBVIOUS
<1>2. ASSUME KeepsCopies PROVE Good(ledger') /\ \A q \in Procs : Good(job'[q].mem)
  <2> HIDE DEF Good
  <2> QED BY <1>1, <1>2 DEF KeepsCopies
<1>3. ASSUME NEW p \in Procs, NEW o \in AllCommands, NEW d \in Deploys, Begin(p, o, d)
      PROVE  Good(ledger') /\ \A q \in Procs : Good(job'[q].mem)
  <2> HIDE DEF Good
  <2> QED BY <1>1, <1>3, BeginEffect, ZenonT(30)
<1>4. ASSUME NEW p \in Procs, LockAcquire(p) \/ LockRelease(p)
      PROVE  Good(ledger') /\ \A q \in Procs : Good(job'[q].mem)
  <2> HIDE DEF Good
  <2>1. CASE LockAcquire(p)
    BY <1>1, <2>1, LockAcquireEffect DEF Alone
  <2>2. CASE LockRelease(p)
    <3>1. /\ ledger' = ledger /\ job'[p].mem \in {ledger, Empty}
          /\ \A q \in Procs \ {p} : job'[q] = job[q]
      BY <2>2, LockReleaseEffect DEF Alone, Ends, Fresh
    <3> QED BY <1>1, <3>1
  <2> QED BY <1>4, <2>1, <2>2
<1>5. ASSUME NEW p \in Procs, Flush(p) \/ Commit(p) \/ Append(p)
      PROVE  Good(ledger') /\ \A q \in Procs : Good(job'[q].mem)
  <2> HIDE DEF Good
  <2>1. CASE Flush(p)
    BY <1>1, <2>1, FlushEffect, ZenonT(60) DEF Alone, Ends, Fresh, Scanned
  <2>2. CASE Commit(p)
    <3>1. ledger' = job[p].mem /\ job'[p].mem = Empty /\ \A q \in Procs \ {p} : job'[q] = job[q]
      BY <2>2, CommitEffect DEF Alone, Ends, Fresh
    <3> QED BY <1>1, <3>1
  <2>3. CASE Append(p)
    BY <1>1, <2>3, AppendEffect DEF Alone, SameCopy
  <2> QED BY <1>5, <2>1, <2>2, <2>3
<1>6. ASSUME NEW p \in Procs, Released(p)
      PROVE  Good(ledger') /\ \A q \in Procs : Good(job'[q].mem)
  <2> DEFINE L == job[p].mem
             c == job[p].cur
             good == job[p].rel => job[p].good
  <2>1. PICK heir \in Heirs(L, c, good) : job'[p].mem = Attach(L, c, heir)
    BY <1>6, ReleasedEffect
  <2>2. L \in Ledger /\ c \in Leases(L) /\ good \in BOOLEAN
    BY <1>0, <1>6, JobFields DEF TypeOK, Released, Releasing
  <2>3. ledger' = ledger /\ Alone(p)
    BY <1>6, ReleasedEffect
  <2>4. Owned(L)
    BY DEF OwnerInv
  <2> HIDE DEF L, c, good
  <2> DEFINE A == Attach(L, c, heir)
  <2>5. /\ A \in Ledger /\ Leases(A) = Leases(L) \ {c}
        /\ \A d \in Leases(L) \ {c} :
              /\ A[d].owner = L[d].owner
              /\ A[d].transient = L[d].transient
              /\ \A h \in Deploys : A[d].preempted[h] = L[c].preempted[h]
                                    \/ A[d].preempted[h] = L[d].preempted[h]
    BY <2>2, AttachFields
  <2> HIDE DEF A
  <2>6. Good(A)
    BY <2>2, <2>4, <2>5 DEF Owned
  <2> HIDE DEF Good
  <2> QED BY <1>1, <2>1, <2>3, <2>6 DEF Alone, A
<1>7. ASSUME NEW p \in Procs, DecideExclusive(p) \/ DecideShared(p)
      PROVE  Good(ledger') /\ \A q \in Procs : Good(job'[q].mem)
  <2>1. Good(job'[p].mem) /\ ledger' = ledger /\ Alone(p)
    <3>1. CASE DecideExclusive(p)
      <4>1. PICK from \in Donors(ledger, job[p].who) : job'[p].mem = Granted(p, job[p].who, from)
                  /\ ledger' = ledger /\ Alone(p)
        BY <3>1, DecideExclusiveEffect DEF Decided
      <4> QED BY <3>1, <4>1, OwnedDecision
    <3>2. CASE DecideShared(p)
      <4>1. job'[p].mem = GrantedShared(p, job[p].who) /\ ledger' = ledger /\ Alone(p)
        BY <3>2, DecideSharedEffect DEF Decided
      <4> QED BY <3>2, <4>1, OwnedDecision
    <3> QED BY <1>7, <3>1, <3>2
  <2> HIDE DEF Good
  <2> QED BY <1>1, <2>1 DEF Alone
<1>8. ASSUME NEW p \in Procs, Drop(p)
      PROVE  Good(ledger') /\ \A q \in Procs : Good(job'[q].mem)
  <2>1. Good(Without(ledger, job[p].who))
    BY <1>0, <1>1, OwnedWithout, WithoutType
  <2>2. /\ ledger' = Without(ledger, job[p].who) /\ job'[p].mem = Empty
        /\ \A q \in Procs \ {p} : job'[q] = job[q]
    BY <1>8, DropEffect DEF Ends, Alone, Fresh
  <2> HIDE DEF Good
  <2> QED BY <1>1, <2>1, <2>2
<1>9. ASSUME NEW p \in Procs, Step(p)
      PROVE  Good(ledger') /\ \A q \in Procs : Good(job'[q].mem)
  <2> HIDE DEF Good
  <2> QED BY <1>2, <1>4, <1>5, <1>6, <1>7, <1>8, <1>9, ProcessKeeps DEF Step
<1>10. CASE World
  BY <1>2, <1>10, WorldKeeps
<1>11. CASE UNCHANGED vars
  BY <1>2, <1>11 DEF vars, KeepsCopies
<1> QED BY <1>3, <1>9, <1>10, <1>11 DEF Next, Quiet

LEMMA OwnerNext ==
  ASSUME NoReconcile, TypeInv, LockInv, OwnerInv, [Next]_vars
  PROVE  OwnerInv'
<1>1. TypeOK /\ Persist
  BY PersistNext DEF TypeInv
<1>2. OwnedNext(ledger') /\ \A q \in Procs : OwnedNext(job'[q].mem)
  <2>1. \A L \in Ledger : Owned(L) => OwnedNext(L)
    BY <1>1, OwnedStays
  <2> QED BY <2>1, OwnedSteps
<1> QED BY <1>2 DEF OwnerInv, Owned, OwnedBy, OwnedNext

LEMMA OwnerInit == Init => OwnerInv
BY OwnedEmpty DEF Init, OwnerInv, NewJob

-----------------------------------------------------------------------------
(* The copy of the ledger a process works on, against the file.  A release *)
(* or a reconcile only takes leases out of its copy; an acquire adds its   *)
(* own lease, without the shared leases an exclusive claim drops.          *)

\* M has leases of L, and whose they are has not changed.
Within(M, L) ==
  \A d \in Leases(M) :
    d \in Leases(L) /\ M[d].owner = L[d].owner /\ M[d].transient = L[d].transient

\* M is L with a new lease of c, which is there in place of the dropped ones.
Adds(M, L, c) ==
  /\ L[c] = NoLease
  /\ \A d \in Deploys \ {c} :
       M[d] = L[d] \/ (M[d] = NoLease /\ c \notin SharedClaim /\ d \in Dropped(L, c))

\* The lists of an acquire: holders its lease lists, and pods that lost their lease.
Accounted(M, c, holders, pods) ==
  /\ \A h \in holders : M[c].preempted[h] # {}
  /\ \A d \in pods : d \in SharedClaim /\ M[d] = NoLease /\ Overlap(c, d)

Copy(p) ==
  /\ pc[p] \in Trimming => Within(job[p].mem, ledger)
  /\ pc[p] \in {"scan", "restore"} => job[p].dirty \/ job[p].mem = ledger
  /\ pc[p] = "decide" => job[p].later = {} /\ job[p].pods = {} /\ job[p].done = {}
  /\ pc[p] \in Claiming =>
       job[p].mem[job[p].who] # NoLease /\ job[p].mem[job[p].who].owner = p
  /\ pc[p] = "append" => job[p].done = {} /\ Adds(job[p].mem, ledger, job[p].who)
  /\ pc[p] \in {"stop", "flip", "rollback"} => job[p].mem = ledger
  /\ pc[p] \in {"append", "stop"} =>
       Accounted(job[p].mem, job[p].who, job[p].todo \cup job[p].later, job[p].pods)

CopyInv == \A p \in Procs : Copy(p)

\* The file is written by the process that has the flock.
LEMMA LedgerLocked ==
  ASSUME NoReconcile, TypeInv, LockInv, NEW p \in Procs, Step(p)
  PROVE  ledger' = ledger \/ lock = p
<1> USE DEF TypeInv
<1>1. KeepsCopies => ledger' = ledger
  BY DEF KeepsCopies
<1>2. ASSUME LockAcquire(p) \/ LockRelease(p) PROVE ledger' = ledger
  BY <1>2, LockAcquireEffect, LockReleaseEffect
<1>3. ASSUME Released(p) PROVE ledger' = ledger
  BY <1>3, ReleasedEffect
<1>4. ASSUME DecideExclusive(p) \/ DecideShared(p) PROVE ledger' = ledger
  BY <1>4, DecideExclusiveEffect, DecideSharedEffect DEF Decided
<1>5. ASSUME Flush(p) \/ Commit(p) \/ Append(p) \/ Drop(p) PROVE lock = p
  <2>1. pc[p] \in Holding
    BY <1>5, FlushEffect, CommitEffect, AppendEffect, DropEffect DEF Holding, Trimming, Claiming
  <2> QED BY <2>1 DEF LockInv, AtWork
<1> QED BY <1>1, <1>2, <1>3, <1>4, <1>5, ProcessKeeps DEF Step

\* The other processes keep their copy in step with the file.
LEMMA CopyOthers ==
  ASSUME NoReconcile, TypeInv, LockInv, CopyInv, NEW p \in Procs, Step(p),
         NEW q \in Procs \ {p}
  PROVE  Copy(q)'
<1>1. pc'[q] = pc[q] /\ job'[q] = job[q] /\ Copy(q)
  BY StepOnward DEF Onward, Alone, CopyInv, TypeInv
<1>2. pc[q] \in Holding => ledger' = ledger
  BY LedgerLocked DEF LockInv, AtWork
<1> QED BY <1>1, <1>2 DEF Copy, Holding, Trimming, Claiming

\* What a process that is past no ledger operation owes to the invariant: nothing.
LEMMA CopyIdle ==
  ASSUME NEW p \in Procs, pc'[p] \notin Trimming \cup Claiming \cup {"decide"}
  PROVE  Copy(p)'
BY DEF Copy, Trimming, Claiming

LEMMA CopyRelease ==
  ASSUME NoReconcile, TypeInv, LockInv, CopyInv, NEW p \in Procs,
         \/ Halt(p) \/ LockAcquire(p) \/ LockRelease(p) \/ ScanEnd(p) \/ Flush(p) \/ Retain(p)
         \/ Released(p) \/ UnflipEnd(p) \/ Commit(p)
         \/ \E c \in Deploys : Visit(p, c) \/ Restore(p, c)
         \/ \E t \in GpuTokens : Unflip(p, t)
  PROVE  Copy(p)'
<1> USE DEF TypeInv
<1>0. Copy(p)
  BY DEF CopyInv
<1>1. CASE Halt(p)
  BY <1>1, HaltEffect, CopyIdle DEF Ends, Trimming, Claiming
<1>2. CASE LockAcquire(p)
  BY <1>2, LockAcquireEffect DEF Copy, Within, Trimming, Claiming
<1>3. CASE LockRelease(p)
  BY <1>3, LockReleaseEffect DEF Copy, Within, Ends, Trimming, Claiming
<1>4. CASE ScanEnd(p)
  BY <1>0, <1>4, ScanEndEffect DEF Copy, Scanned, Ends, Fresh, SameCopy, Trimming, Claiming
<1>5. CASE Flush(p)
  BY <1>5, FlushEffect DEF Copy, Scanned, Ends, Fresh, Trimming, Claiming
<1>6. CASE Retain(p)
  BY <1>0, <1>6, RetainEffect DEF Copy, Ends, Trimming, Claiming
<1>7. CASE Released(p)
  <2> DEFINE L == job[p].mem
             c == job[p].cur
             good == job[p].rel => job[p].good
  <2>1. PICK heir \in Heirs(L, c, good) : job'[p].mem = Attach(L, c, heir)
    BY <1>7, ReleasedEffect
  <2>2. L \in Ledger /\ c \in Leases(L) /\ good \in BOOLEAN
    BY <1>7, JobFields DEF TypeOK, Released, Releasing
  <2>3. pc[p] = "restore" /\ pc'[p] = "unflip" /\ ledger' = ledger
    BY <1>7, ReleasedEffect
  <2>4. \A d \in Leases(L) : /\ d \in Leases(ledger) /\ L[d].owner = ledger[d].owner
                             /\ L[d].transient = ledger[d].transient
    BY <1>0, <2>3 DEF Copy, Within, Trimming
  <2> HIDE DEF L, c, good
  <2> DEFINE A == Attach(L, c, heir)
  <2>5. /\ Leases(A) = Leases(L) \ {c}
        /\ \A d \in Leases(L) \ {c} : A[d].owner = L[d].owner /\ A[d].transient = L[d].transient
    BY <2>2, AttachFields
  <2> HIDE DEF A
  <2>6. \A d \in Leases(A) : /\ d \in Leases(ledger) /\ A[d].owner = ledger[d].owner
                             /\ A[d].transient = ledger[d].transient
    BY <2>4, <2>5
  <2>7. job'[p].mem = A
    BY <2>1 DEF A
  <2> QED BY <2>3, <2>6, <2>7 DEF Copy, Within, Trimming, Claiming
<1>8. CASE UnflipEnd(p)
  BY <1>0, <1>8, UnflipEndEffect DEF Copy, Trimming, Claiming
<1>9. CASE Commit(p)
  BY <1>9, CommitEffect, CopyIdle DEF Ends, Trimming, Claiming
<1>10. ASSUME NEW c \in Deploys, Visit(p, c) PROVE Copy(p)'
  BY <1>0, <1>10, VisitEffect DEF Copy, Trimming, Claiming
<1>11. ASSUME NEW c \in Deploys, Restore(p, c) PROVE Copy(p)'
  BY <1>0, <1>11, RestoreEffect DEF Copy, SameCopy, Trimming, Claiming
<1>12. ASSUME NEW t \in GpuTokens, Unflip(p, t) PROVE Copy(p)'
  BY <1>0, <1>12, UnflipEffect DEF Copy, SameCopy, Trimming, Claiming
<1> QED BY <1>1, <1>2, <1>3, <1>4, <1>5, <1>6, <1>7, <1>8, <1>9, <1>10, <1>11, <1>12

LEMMA CopyDecide ==
  ASSUME NoReconcile, TypeInv, LockInv, OwnerInv, CopyInv, NEW p \in Procs,
         DecideExclusive(p) \/ DecideShared(p)
  PROVE  Copy(p)'
<1> USE DEF TypeInv
<1> DEFINE c == job[p].who
<1>0. /\ c \in Deploys /\ ledger \in Ledger
      /\ Copy(p)
  BY JobFields DEF CopyInv, TypeOK
<1>1. CASE DecideExclusive(p)
  <2> DEFINE own == holdersToStop(c)
             owe == CarriedOver(ledger, c)
             live == Dropped(ledger, c) \cap running
  <2>1. PICK from \in Donors(ledger, c) : Decided(p, Granted(p, c, from), own, owe, live)
    BY <1>1, DecideExclusiveEffect
  <2> DEFINE M == Granted(p, c, from)
             S == StoppedFor(c, from)
  <2>2. IsGrant(M, p, c, S, Dropped(ledger, c))
    BY <1>0, GrantFields
  <2>3. Admissible(p) /\ c \notin SharedClaim
    BY <1>1, DecideExclusiveEffect
  <2>4. \A h \in own \cup owe : h \in Deploys /\ S[h] # {}
    <3>1. ASSUME NEW h \in own PROVE h \in Deploys /\ S[h] # {}
      BY <3>1 DEF StoppedFor, holdersToStop
    <3>2. ASSUME NEW h \in owe, h \notin own PROVE h \in Deploys /\ S[h] # {}
      <4>1. h \in Deploys /\ ledger[from[h]].preempted[h] # {}
        BY <3>2, DonorsLeases DEF CarriedOver, Listed
      <4> QED BY <3>2, <4>1 DEF StoppedFor
    <3> QED BY <3>1, <3>2
  <2>5. \A d \in live : d \in SharedClaim /\ Overlap(c, d) /\ d \in Dropped(ledger, c) /\ d \in Deploys /\ d # c
    BY <2>3 DEF Dropped, Leases, Admissible
  <2> HIDE DEF own, owe, live, M, S
  <2>6. /\ job'[p].mem = M /\ job'[p].todo = own /\ job'[p].later = owe /\ job'[p].pods = live
        /\ job'[p].done = {} /\ job'[p].who = c /\ pc'[p] = "append" /\ ledger' = ledger
        /\ ledger[c] = NoLease
    BY <1>0, <2>1, <2>3 DEF Decided, Alone, Copy, M, Admissible
  <2> HIDE DEF c
  <2>7. /\ M[c] # NoLease /\ M[c].owner = p /\ \A h \in Deploys : M[c].preempted[h] = S[h]
        /\ \A d \in Deploys \ {c} : M[d] = IF d \in Dropped(ledger, c) THEN NoLease ELSE ledger[d]
    BY <2>2 DEF IsGrant, IsNewLease
  <2>8. \A h \in own \cup owe : M[c].preempted[h] # {}
    BY <2>4, <2>7
  <2>9. \A d \in live : d \in SharedClaim /\ M[d] = NoLease /\ Overlap(c, d)
    BY <2>5, <2>7
  <2>10. Adds(M, ledger, c) /\ Accounted(M, c, own \cup owe, live)
    BY <2>3, <2>6, <2>7, <2>8, <2>9 DEF Adds, Accounted
  <2> QED BY <2>6, <2>7, <2>10 DEF Copy, Trimming, Claiming
<1>2. CASE DecideShared(p)
  <2> DEFINE own == FreshShared(c)
             M == GrantedShared(p, c)
             S == StoppedForShared(c)
  <2>1. Decided(p, M, own, job[p].later, job[p].pods)
    BY <1>2, DecideSharedEffect
  <2>2. IsGrant(M, p, c, S, {})
    BY <1>0, SharedFields
  <2>3. Admissible(p)
    BY <1>2, DecideSharedEffect
  <2>4. \A h \in own : h \in Deploys /\ S[h] # {}
    BY DEF StoppedForShared, FreshShared, holdersToStop
  <2> HIDE DEF own, M, S
  <2>6. /\ job'[p].mem = M /\ job'[p].todo = own /\ job'[p].later = {} /\ job'[p].pods = {}
        /\ job'[p].done = {} /\ job'[p].who = c /\ pc'[p] = "append" /\ ledger' = ledger
        /\ ledger[c] = NoLease
    BY <1>0, <2>1, <2>3 DEF Decided, Alone, Copy, Admissible
  <2> HIDE DEF c
  <2>7. /\ M[c] # NoLease /\ M[c].owner = p /\ \A h \in Deploys : M[c].preempted[h] = S[h]
        /\ \A d \in Deploys \ {c} : M[d] = ledger[d]
    BY <2>2 DEF IsGrant, IsNewLease
  <2>8. \A h \in own : M[c].preempted[h] # {}
    BY <2>4, <2>7
  <2>9. Adds(M, ledger, c) /\ Accounted(M, c, own \cup {}, {})
    BY <2>6, <2>7, <2>8 DEF Adds, Accounted
  <2> QED BY <2>6, <2>7, <2>9 DEF Copy, Trimming, Claiming
<1> QED BY <1>1, <1>2

LEMMA CopyAcquire ==
  ASSUME NoReconcile, TypeInv, LockInv, CopyInv, NEW p \in Procs,
         \/ Reacquire(p) \/ Refuse(p) \/ Append(p)
         \/ StopsEnd(p) \/ FlipEnd(p) \/ Drop(p) \/ ClearBed(p) \/ BringUp(p) \/ BootBed(p)
         \/ CheckEnd(p)
         \/ \E h \in Deploys : Stop(p, h) \/ StopFails(p, h) \/ Rollback(p, h)
         \/ \E t \in GpuTokens : Flip(p, t) \/ FlipFails(p, t)
  PROVE  Copy(p)'
<1> USE DEF TypeInv
<1>0. Copy(p)
  BY DEF CopyInv
<1> USE DEF Trimming, Claiming
<1>1. CASE Reacquire(p)
  BY <1>1, ReacquireEffect, CopyIdle
<1>2. CASE Refuse(p)
  BY <1>2, RefuseEffect, CopyIdle DEF Ends
<1>3. CASE Append(p)
  BY <1>0, <1>3, AppendEffect DEF Copy, SameCopy, SameLists, Alone
<1>4. CASE StopsEnd(p)
  BY <1>0, <1>4, StopsEndEffect DEF Copy, SameCopy, Alone
<1>5. CASE FlipEnd(p)
  BY <1>5, FlipEndEffect, CopyIdle
<1>6. CASE Drop(p)
  BY <1>6, DropEffect, CopyIdle DEF Ends
<1>7. CASE ClearBed(p) \/ BringUp(p)
  BY <1>7, ClearBedEffect, BringUpEffect, CopyIdle DEF Ends
<1>8. CASE BootBed(p) \/ CheckEnd(p)
  BY <1>8, BootBedEffect, CheckEndEffect, CopyIdle
<1>9. ASSUME NEW h \in Deploys, Stop(p, h) PROVE Copy(p)'
  BY <1>0, <1>9, StopEffect DEF Copy, SameCopy, Alone, Accounted
<1>10. ASSUME NEW h \in Deploys, StopFails(p, h) PROVE Copy(p)'
  BY <1>0, <1>10, StopFailsEffect DEF Copy, SameCopy, Alone
<1>11. ASSUME NEW h \in Deploys, Rollback(p, h) PROVE Copy(p)'
  BY <1>0, <1>11, RollbackEffect DEF Copy, SameCopy, Alone
<1>12. ASSUME NEW t \in GpuTokens, Flip(p, t) PROVE Copy(p)'
  BY <1>0, <1>12, FlipEffect DEF Copy, SameCopy, Alone
<1>13. ASSUME NEW t \in GpuTokens, FlipFails(p, t) PROVE Copy(p)'
  BY <1>0, <1>13, FlipFailsEffect DEF Copy, SameCopy, Alone
<1> QED BY <1>1, <1>2, <1>3, <1>4, <1>5, <1>6, <1>7, <1>8, <1>9, <1>10, <1>11, <1>12, <1>13

LEMMA CopyInit == Init => CopyInv
BY DEF Init, CopyInv, Copy, Trimming, Claiming

LEMMA CopyNext ==
  ASSUME NoReconcile, TypeInv, LockInv, OwnerInv, CopyInv, [Next]_vars
  PROVE  CopyInv'
<1> USE DEF TypeInv
<1>1. ASSUME NEW p \in Procs, NEW o \in AllCommands, NEW d \in Deploys, Begin(p, o, d)
      PROVE  CopyInv'
  <2>1. /\ \A q \in Procs \ {p} : pc'[q] = pc[q] /\ job'[q] = job[q]
        /\ pc'[p] \in {"halt", "wait", "relwait"} /\ ledger' = ledger
    BY <1>1, BeginEffect, BeginLock, ZenonT(60) DEF AllCommands
  <2>2. Copy(p)'
    BY <2>1, CopyIdle DEF Trimming, Claiming
  <2>3. \A q \in Procs \ {p} : Copy(q)'
    <3> SUFFICES ASSUME NEW q \in Procs \ {p} PROVE Copy(q)'
      OBVIOUS
    <3>1. pc'[q] = pc[q] /\ job'[q] = job[q] /\ ledger' = ledger /\ Copy(q)
      BY <2>1 DEF CopyInv
    <3> QED BY <3>1 DEF Copy
  <2> QED BY <2>2, <2>3 DEF CopyInv
<1>2. ASSUME NEW p \in Procs, Step(p) PROVE CopyInv'
  <2>1. Copy(p)'
    BY <1>2, CopyRelease, CopyDecide, CopyAcquire DEF Step
  <2> QED BY <1>2, <2>1, CopyOthers DEF CopyInv
<1>3. CASE World
  <2>1. CASE OnHost
    BY <2>1 DEF OnHost, CopyInv, Copy
  <2>2. CASE Reboot
    <3>1. \A q \in Procs : pc'[q] \notin Trimming \cup Claiming \cup {"decide"}
      BY <2>2, RebootEffect DEF ownerAlive, Trimming, Claiming
    <3> QED BY <3>1, CopyIdle DEF CopyInv
  <2>3. ASSUME NEW p \in Procs, Crash(p) PROVE CopyInv'
    <3>1. Copy(p)'
      BY <2>3, CrashEffect, CopyIdle DEF Ends, Trimming, Claiming
    <3>2. ASSUME NEW q \in Procs \ {p} PROVE Copy(q)'
      <4>1. pc'[q] = pc[q] /\ job'[q] = job[q] /\ ledger' = ledger /\ Copy(q)
        BY <2>3, CrashEffect DEF CopyInv, Ends, Alone
      <4> QED BY <4>1 DEF Copy
    <3> QED BY <3>1, <3>2 DEF CopyInv
  <2> QED BY <1>3, <2>1, <2>2, <2>3, WorldEffect
<1>4. CASE UNCHANGED vars
  BY <1>4 DEF vars, CopyInv, Copy
<1> QED BY <1>1, <1>2, <1>3, <1>4 DEF Next, Quiet

-----------------------------------------------------------------------------
(* What a step of one process may do to the leases and to the deployments  *)
(* of the others.                                                          *)

\* Commands are run on claimants, and a claimant is not preemptible itself.
Claimants == \A o \in AllCommands, d \in Deploys :
               <<o, d>> \in Workload => Requires[d] # {} /\ Holds[d] = {}

\* The books: what the sections above establish about the ledgers.
Books == TypeInv /\ LockInv /\ OwnerInv /\ CopyInv

LEMMA BooksNext ==
  ASSUME NoReconcile, Books, [Next]_vars
  PROVE  Books'
BY NextType, LockNext, OwnerNext, CopyNext DEF Books, TypeInv

LEMMA BooksInit == Init => Books
BY InitType, LockInit, OwnerInit, CopyInit DEF Books

\* The lease of another deployment than its own is left as it is or goes.
LEMMA LedgerMoves ==
  ASSUME NoReconcile, Books, NEW p \in Procs, Step(p),
         NEW d \in Deploys, d # job[p].who, ledger'[d] # NoLease
  PROVE  /\ ledger[d] # NoLease /\ ledger'[d].owner = ledger[d].owner
         /\ ledger'[d].transient = ledger[d].transient
<1> USE DEF Books, TypeInv
<1>0. Copy(p)
  BY DEF CopyInv
<1>1. KeepsCopies => ledger' = ledger
  BY DEF KeepsCopies
<1>2. ASSUME LockAcquire(p) \/ LockRelease(p) PROVE ledger' = ledger
  BY <1>2, LockAcquireEffect, LockReleaseEffect
<1>3. ASSUME Released(p) PROVE ledger' = ledger
  BY <1>3, ReleasedEffect
<1>4. ASSUME DecideExclusive(p) \/ DecideShared(p) PROVE ledger' = ledger
  BY <1>4, DecideExclusiveEffect, DecideSharedEffect DEF Decided
<1>5. CASE Flush(p) \/ Commit(p)
  <2>1. ledger' = job[p].mem /\ Within(job[p].mem, ledger)
    BY <1>0, <1>5, FlushEffect, CommitEffect DEF Copy, Trimming
  <2> QED BY <2>1 DEF Within, Leases
<1>6. CASE Append(p)
  <2>1. ledger' = job[p].mem /\ Adds(job[p].mem, ledger, job[p].who)
    BY <1>0, <1>6, AppendEffect DEF Copy
  <2> QED BY <2>1 DEF Adds
<1>7. CASE Drop(p)
  BY <1>7, DropEffect DEF Without, TypeOK, Ledger
<1> QED BY <1>1, <1>2, <1>3, <1>4, <1>5, <1>6, <1>7, ProcessKeeps DEF Step

\* A process takes down its own deployment, or, with the flock, a holder it
\* answers for or a pod that has no lease any more.
LEMMA RunningMoves ==
  ASSUME NoReconcile, Books, NEW p \in Procs, Step(p), NEW d \in running, d \notin running'
  PROVE  \/ d = job[p].who
         \/ lock = p /\ (ledger[d] = NoLease \/ Holds[d] # {})
<1> USE DEF Books, TypeInv
<1>0. Copy(p) /\ AtWork(p)
  BY DEF CopyInv, LockInv
<1>1. ASSUME NEW h \in Deploys, Stop(p, h) \/ StopFails(p, h)
      PROVE  \/ running' = running
             \/ running' = running \ {h} /\ lock = p /\ (ledger[h] = NoLease \/ Holds[h] # {})
  <2>1. /\ h \in NextStops(p) /\ pc[p] = "stop"
        /\ running' = running \/ running' = running \ {h}
    BY <1>1, StopEffect, StopFailsEffect
  <2>2. /\ lock = p /\ job[p].mem = ledger
        /\ Accounted(ledger, job[p].who, job[p].todo \cup job[p].later, job[p].pods)
        /\ ledger[job[p].who] # NoLease
    BY <1>0, <2>1 DEF AtWork, Copy, Holding, Claiming
  <2>3. job[p].who \in Leases(ledger)
    BY <2>2, JobFields DEF Leases, TypeOK
  <2>4. h \in job[p].todo \cup job[p].later \/ h \in job[p].pods
    BY <2>1 DEF NextStops
  <2>5. CASE h \in job[p].todo \cup job[p].later
    <3>1. ledger[job[p].who].preempted[h] # {} /\ ledger[job[p].who].preempted[h] \subseteq Holds[h]
      BY <2>2, <2>3, <2>5 DEF Accounted, OwnerInv, Owned
    <3> QED BY <2>1, <2>2, <3>1
  <2>6. CASE h \in job[p].pods
    BY <2>1, <2>2, <2>6 DEF Accounted
  <2> QED BY <2>4, <2>5, <2>6
<1>2. ASSUME \/ Halt(p) \/ ClearBed(p) \/ BringUp(p) \/ BootBed(p) \/ CheckEnd(p)
      PROVE  running \subseteq running' \cup {job[p].who}
  BY <1>2, HaltEffect, ClearBedEffect, BringUpEffect, BootBedEffect, CheckEndEffect
<1>3. ASSUME \/ LockAcquire(p) \/ LockRelease(p) \/ ScanEnd(p) \/ Flush(p) \/ Retain(p)
             \/ Released(p) \/ UnflipEnd(p) \/ Commit(p)
             \/ \E c \in Deploys : Visit(p, c) \/ Restore(p, c)
             \/ \E t \in GpuTokens : Unflip(p, t)
      PROVE  running \subseteq running'
  BY <1>3, LockAcquireEffect, LockReleaseEffect, ScanEndEffect, FlushEffect, RetainEffect,
     ReleasedEffect, UnflipEndEffect, CommitEffect, VisitEffect, RestoreEffect, UnflipEffect
<1>4. ASSUME \/ Reacquire(p) \/ Refuse(p) \/ DecideExclusive(p) \/ DecideShared(p) \/ Append(p)
             \/ StopsEnd(p) \/ FlipEnd(p) \/ Drop(p)
             \/ \E h \in Deploys : Rollback(p, h)
             \/ \E t \in GpuTokens : Flip(p, t) \/ FlipFails(p, t)
      PROVE  running \subseteq running'
  BY <1>4, ReacquireEffect, RefuseEffect, DecideExclusiveEffect, DecideSharedEffect, AppendEffect,
     StopsEndEffect, FlipEndEffect, DropEffect, RollbackEffect, FlipEffect, FlipFailsEffect
     DEF Decided
<1> QED BY <1>1, <1>2, <1>3, <1>4 DEF Step

-----------------------------------------------------------------------------
(* A claim is kept.  No deployment has both check runs and a persistent    *)
(* start (a check run that finds a lease of `charly start` takes the       *)
(* deployment down, and the lease is then dead), no deployment goes down   *)
(* by itself and every holder that is started comes up.                    *)

OneKind == \A d \in Deploys : <<"check", d>> \in Workload => <<"start", d>> \notin Workload
Steady  == "down" \notin Faults /\ "restore" \notin Faults

\* The lease of p's deployment in L is alive for as long as p goes on.
Held(p, L) ==
  \/ L[job[p].who].owner = p
  \/ ~L[job[p].who].transient /\ job[p].who \in running

Keeps(p) ==
  /\ ~job[p].bad
  /\ pc[p] = "wait" => job[p].seen = {}
  /\ pc[p] = "flush" => Leases(job[p].mem) \subseteq job[p].seen
  /\ pc[p] \in {"scan", "restore", "unflip", "flush"} /\ ~job[p].rel =>
       (job[p].who \in job[p].seen /\ job[p].mem[job[p].who] # NoLease => Held(p, job[p].mem))
  /\ pc[p] \in {"decide"} \cup Using => (ledger[job[p].who] # NoLease => Held(p, ledger))
  /\ pc[p] \in Using /\ job[p].who \notin SharedClaim => ledger[job[p].who] # NoLease

\* While p uses its claim, no process is about to drop it.
Spares(q, p) ==
  pc[p] \in Using /\ pc[q] \in Trimming /\ ledger[job[p].who] # NoLease =>
    job[q].mem[job[p].who] # NoLease /\ (pc[q] = "restore" => job[q].cur # job[p].who)

KeptInv ==
  /\ \A p \in Procs : Keeps(p)
  /\ \A p, q \in Procs : Spares(q, p)

\* Another process does not take a claimant down under its lease.
LEMMA HeldStays ==
  ASSUME NoReconcile, Claimants, Books, NEW p \in Procs, Step(p), NEW q \in Procs \ {p},
         ownerAlive(q), ledger[job[q].who] # NoLease, job[q].who \in running
  PROVE  job[q].who \in running'
<1> USE DEF Books, TypeInv
<1>1. job[q].who # job[p].who
  BY StepOnward DEF Onward, LockInv
<1>2. Holds[job[q].who] = {}
  <2>1. pc[q] # "new"
    BY DEF ownerAlive
  <2>2. <<job[q].op, job[q].who>> \in Workload /\ job[q].op \in AllCommands /\ job[q].who \in Deploys
    BY <2>1, OpsOf DEF LockInv, AtWork
  <2> QED BY <2>2 DEF Claimants
<1> QED BY <1>1, <1>2, RunningMoves

\* Nobody else ends an exclusive claim that is in use.
LEMMA ExclusiveStays ==
  ASSUME NoReconcile, Books, KeptInv, NEW p \in Procs, Step(p), NEW q \in Procs \ {p},
         pc[q] \in Using, job[q].who \notin SharedClaim
  PROVE  ledger'[job[q].who] # NoLease
<1> USE DEF Books, TypeInv
<1> DEFINE d == job[q].who
<1>0. /\ Copy(p) /\ ledger[d] # NoLease /\ Spares(p, q) /\ d \in Deploys
      /\ d # job[p].who
  <2>1. ownerAlive(q)
    BY DEF ownerAlive, Using
  <2>2. d # job[p].who
    BY <2>1, StepOnward DEF Onward, LockInv
  <2> QED BY <2>2, JobFields DEF CopyInv, KeptInv, Keeps, TypeOK
<1>1. KeepsCopies => ledger' = ledger
  BY DEF KeepsCopies
<1>2. ASSUME LockAcquire(p) \/ LockRelease(p) PROVE ledger' = ledger
  BY <1>2, LockAcquireEffect, LockReleaseEffect
<1>3. ASSUME Released(p) PROVE ledger' = ledger
  BY <1>3, ReleasedEffect
<1>4. ASSUME DecideExclusive(p) \/ DecideShared(p) PROVE ledger' = ledger
  BY <1>4, DecideExclusiveEffect, DecideSharedEffect DEF Decided
<1>5. CASE Flush(p) \/ Commit(p)
  <2>1. ledger' = job[p].mem /\ pc[p] \in Trimming
    BY <1>5, FlushEffect, CommitEffect DEF Trimming
  <2> QED BY <1>0, <2>1 DEF Spares
<1>6. CASE Append(p)
  <2>1. ledger' = job[p].mem /\ Adds(job[p].mem, ledger, job[p].who)
    BY <1>0, <1>6, AppendEffect DEF Copy
  <2> QED BY <1>0, <2>1 DEF Adds, Dropped
<1>7. CASE Drop(p)
  BY <1>0, <1>7, DropEffect DEF Without, TypeOK, Ledger
<1> QED BY <1>0, <1>1, <1>2, <1>3, <1>4, <1>5, <1>6, <1>7, ProcessKeeps DEF Step

LEMMA KeepsOthers ==
  ASSUME NoReconcile, Claimants, Books, KeptInv, NEW p \in Procs, Step(p), NEW q \in Procs \ {p}
  PROVE  Keeps(q)'
<1> USE DEF Books, TypeInv
<1>1. pc'[q] = pc[q] /\ job'[q] = job[q] /\ Keeps(q) /\ Copy(q)
  BY StepOnward DEF Onward, Alone, KeptInv, CopyInv
<1>2. pc[q] \in Holding => ledger' = ledger
  BY LedgerLocked DEF LockInv, AtWork
<1> DEFINE d == job[q].who
<1>3. ASSUME pc[q] \in {"decide"} \cup Using, ledger'[d] # NoLease PROVE Held(q, ledger)'
  <2>1. ownerAlive(q)
    BY <1>3 DEF ownerAlive, Using
  <2>2. d # job[p].who /\ d \in Deploys
    BY <2>1, StepOnward, JobFields DEF Onward, LockInv, TypeOK
  <2>3. ledger[d] # NoLease /\ ledger'[d].owner = ledger[d].owner
        /\ ledger'[d].transient = ledger[d].transient
    BY <1>3, <2>2, LedgerMoves
  <2>4. Held(q, ledger)
    BY <1>1, <1>3, <2>3 DEF Keeps
  <2>5. d \in running => d \in running'
    BY <2>1, <2>3, HeldStays
  <2> QED BY <1>1, <2>3, <2>4, <2>5 DEF Held
<1>4. ASSUME pc[q] \in {"scan", "restore", "unflip", "flush"}, ~job[q].rel,
             d \in job[q].seen, job[q].mem[d] # NoLease
      PROVE  job[q].mem[d].owner = q \/ (~job[q].mem[d].transient /\ d \in running')
  <2>1. ownerAlive(q)
    BY <1>4 DEF ownerAlive
  <2>2. Held(q, job[q].mem)
    BY <1>1, <1>4 DEF Keeps
  <2>3. d \in Deploys
    BY JobFields DEF TypeOK
  <2>4. ledger[d] # NoLease
    BY <1>1, <1>4, <2>3 DEF Copy, Within, Trimming, Leases
  <2> QED BY <2>1, <2>2, <2>4, HeldStays DEF Held
<1>5. pc[q] \in Using /\ d \notin SharedClaim => ledger'[d] # NoLease
  BY ExclusiveStays
<1> QED BY <1>1, <1>3, <1>4, <1>5 DEF Keeps, Held

LEMMA KeepsRelease ==
  ASSUME NoReconcile, Steady, Books, KeptInv, NEW p \in Procs,
         \/ Halt(p) \/ LockAcquire(p) \/ LockRelease(p) \/ ScanEnd(p) \/ Flush(p) \/ Retain(p)
         \/ Released(p) \/ UnflipEnd(p) \/ Commit(p)
         \/ \E c \in Deploys : Visit(p, c) \/ Restore(p, c)
         \/ \E t \in GpuTokens : Unflip(p, t)
  PROVE  Keeps(p)'
<1> USE DEF Books, TypeInv, Using
<1>0. Keeps(p) /\ Copy(p) /\ AtWork(p) /\ job[p].who \in Deploys
  BY JobFields DEF KeptInv, CopyInv, LockInv, TypeOK
<1>1. CASE Halt(p)
  BY <1>0, <1>1, HaltEffect DEF Keeps, Ends, Fresh, SameFlags
<1>2. CASE LockAcquire(p)
  BY <1>0, <1>2, LockAcquireEffect DEF Keeps, SameFlags
<1>3. CASE LockRelease(p)
  BY <1>0, <1>3, LockReleaseEffect DEF Keeps, Ends, Fresh
<1>4. ASSUME ScanEnd(p) \/ Flush(p) PROVE Keeps(p)'
  <2>1. Leases(job[p].mem) \subseteq job[p].seen /\ ~job[p].rel /\ pc[p] \in {"scan", "flush"}
    BY <1>0, <1>4, ScanEndEffect, FlushEffect DEF Keeps, AtWork
  <2>2. job[p].mem[job[p].who] # NoLease => Held(p, job[p].mem)
    BY <1>0, <2>1 DEF Keeps, Leases
  <2>3. CASE job[p].dirty /\ ScanEnd(p)
    BY <1>0, <2>1, <2>2, <2>3, ScanEndEffect DEF Keeps, Alone, SameCopy, SameFlags, Held
  <2>4. CASE Flush(p) \/ (ScanEnd(p) /\ ~job[p].dirty)
    <3>1. Scanned(p) /\ ledger' = job[p].mem /\ running' = running
      BY <1>0, <2>1, <2>4, ScanEndEffect, FlushEffect DEF Copy
    <3>2. CASE job[p].op = "reconcile"
      BY <3>1, <3>2 DEF Scanned, Ends, Fresh, Keeps
    <3>3. CASE job[p].op # "reconcile"
      <4>1. job'[p].who = job[p].who /\ pc'[p] = "decide" /\ ~job'[p].bad
        BY <3>1, <3>3 DEF Scanned, Alone, Fresh
      <4> QED BY <2>2, <3>1, <4>1 DEF Keeps, Held
    <3> QED BY <3>2, <3>3
  <2> QED BY <1>4, <2>3, <2>4
<1>5. CASE Retain(p)
  BY <1>0, <1>5, RetainEffect DEF Keeps
<1>6. CASE Released(p)
  <2> DEFINE L == job[p].mem
             c == job[p].cur
             w == job[p].who
             good == job[p].rel => job[p].good
  <2>1. PICK heir \in Heirs(L, c, good) : job'[p].mem = Attach(L, c, heir)
    BY <1>6, ReleasedEffect
  <2>2. L \in Ledger /\ c \in Leases(L) /\ good \in BOOLEAN
    BY <1>6, JobFields DEF TypeOK, Released, Releasing
  <2>3. /\ pc[p] = "restore" /\ pc'[p] = "unflip" /\ running' = running
        /\ job'[p].seen = job[p].seen /\ job'[p].rel = job[p].rel /\ job'[p].bad = job[p].bad
        /\ job'[p].who = w
    BY <1>6, ReleasedEffect DEF Alone, SameFlags
  <2>4. ~job[p].rel /\ w \in job[p].seen /\ L[w] # NoLease =>
          L[w].owner = p \/ (~L[w].transient /\ w \in running)
    BY <1>0, <2>3 DEF Keeps, Held
  <2>5. w \in Deploys
    BY <1>0
  <2> HIDE DEF L, c, good, w
  <2> DEFINE A == Attach(L, c, heir)
  <2>6. /\ Leases(A) = Leases(L) \ {c}
        /\ \A d \in Leases(L) \ {c} : A[d].owner = L[d].owner /\ A[d].transient = L[d].transient
    BY <2>2, AttachFields
  <2>7. job'[p].mem = A
    BY <2>1 DEF A
  <2> HIDE DEF A
  <2>8. ~job[p].rel /\ w \in job[p].seen /\ A[w] # NoLease =>
          A[w].owner = p \/ (~A[w].transient /\ w \in running)
    BY <2>4, <2>5, <2>6 DEF Leases
  <2> QED BY <1>0, <2>3, <2>7, <2>8 DEF Keeps, Held
<1>7. CASE UnflipEnd(p)
  <2>1. /\ pc[p] = "unflip" /\ job'[p].mem = job[p].mem /\ job'[p].seen = job[p].seen
        /\ job'[p].rel = job[p].rel /\ job'[p].bad = job[p].bad /\ job'[p].who = job[p].who
        /\ running' = running
    BY <1>7, UnflipEndEffect DEF SameFlags, Alone
  <2>2. (job[p].rel /\ pc'[p] = "commit") \/ (~job[p].rel /\ pc'[p] = "scan")
    BY <1>7, UnflipEndEffect
  <2> QED BY <1>0, <2>1, <2>2 DEF Keeps, Held
<1>8. CASE Commit(p)
  BY <1>8, CommitEffect DEF Keeps, Ends, Fresh
<1>9. ASSUME NEW c \in Deploys, Visit(p, c) PROVE Keeps(p)'
  <2>1. /\ pc[p] = "scan" /\ c \in Leases(job[p].mem) /\ job'[p].mem = job[p].mem
        /\ running' = running /\ job'[p].who = job[p].who /\ job'[p].bad = job[p].bad
        /\ job'[p].rel = job[p].rel /\ pc'[p] \in {"scan", "restore"}
        /\ \/ job'[p].seen = job[p].seen
           \/ job'[p].seen = job[p].seen \cup {c} /\ leaseLive(job[p].mem, c)
    BY <1>9, VisitEffect DEF Alone, SameFlags
  <2>2. ASSUME c = job[p].who, leaseLive(job[p].mem, c) PROVE Held(p, job[p].mem)
    <3> DEFINE o == job[p].mem[c].owner
    <3>1. OwnedBy(o, c, job[p].mem[c].transient) /\ job[p].mem \in Ledger
      BY <2>1, JobFields DEF OwnerInv, Owned, TypeOK
    <3>2. o \in Procs
      BY <2>1, <3>1, LeaseFields
    <3>3. ownerAlive(o) => o = p
      <4>1. job[o].who = job[p].who /\ ownerAlive(p)
        BY <2>1, <2>2, <3>1 DEF OwnedBy, ownerAlive
      <4> HIDE DEF o
      <4> QED BY <3>2, <4>1 DEF LockInv
    <3> QED BY <2>2, <3>3 DEF leaseLive, Held
  <2>3. Held(p, job[p].mem)' <=> Held(p, job[p].mem)
    BY <2>1 DEF Held
  <2> QED BY <1>0, <2>1, <2>2, <2>3 DEF Keeps
<1>10. ASSUME NEW c \in Deploys, Restore(p, c) PROVE Keeps(p)'
  <2>1. /\ running \subseteq running' /\ ~job'[p].bad /\ pc'[p] = "restore" /\ pc[p] = "restore"
        /\ job'[p].rel = job[p].rel /\ SameCopy(p) /\ Alone(p)
    BY <1>0, <1>10, RestoreEffect DEF Keeps, Steady
  <2> QED BY <1>0, <2>1 DEF Keeps, SameCopy, Alone, Held
<1>11. ASSUME NEW t \in GpuTokens, Unflip(p, t) PROVE Keeps(p)'
  BY <1>0, <1>11, UnflipEffect DEF Keeps, SameCopy, SameFlags, Alone, Held
<1> QED BY <1>1, <1>2, <1>3, <1>4, <1>5, <1>6, <1>7, <1>8, <1>9, <1>10, <1>11

LEMMA KeepsAcquire ==
  ASSUME NoReconcile, OneKind, Books, KeptInv, NEW p \in Procs,
         \/ Reacquire(p) \/ Refuse(p) \/ DecideExclusive(p) \/ DecideShared(p) \/ Append(p)
         \/ StopsEnd(p) \/ FlipEnd(p) \/ Drop(p) \/ ClearBed(p) \/ BringUp(p) \/ BootBed(p)
         \/ CheckEnd(p)
         \/ \E h \in Deploys : Stop(p, h) \/ StopFails(p, h) \/ Rollback(p, h)
         \/ \E t \in GpuTokens : Flip(p, t) \/ FlipFails(p, t)
  PROVE  Keeps(p)'
<1> USE DEF Books, TypeInv, Using
<1>0. Keeps(p) /\ Copy(p) /\ AtWork(p) /\ job[p].who \in Deploys /\ ~job[p].bad
  BY JobFields DEF KeptInv, CopyInv, LockInv, TypeOK, Keeps
<1>1. CASE Reacquire(p)
  BY <1>0, <1>1, ReacquireEffect DEF Keeps, Alone, SameFlags, Held
<1>2. CASE Refuse(p)
  BY <1>2, RefuseEffect DEF Keeps, Ends, Fresh
<1>3. CASE DecideExclusive(p)
  BY <1>0, <1>3, DecideExclusiveEffect DEF Keeps, Decided, SameFlags
<1>4. CASE DecideShared(p)
  BY <1>0, <1>4, DecideSharedEffect DEF Keeps, Decided, SameFlags
<1>5. CASE Append(p)
  BY <1>0, <1>5, AppendEffect DEF Keeps, SameFlags
<1>6. CASE StopsEnd(p)
  BY <1>0, <1>6, StopsEndEffect DEF Keeps, SameFlags
<1>7. CASE FlipEnd(p)
  BY <1>0, <1>7, FlipEndEffect, ZenonT(30) DEF Keeps, Fresh, Alone, Held, Copy, Claiming
<1>8. CASE Drop(p)
  BY <1>8, DropEffect DEF Keeps, Ends, Fresh
<1>9. CASE ClearBed(p)
  <2>1. /\ pc[p] = "up" /\ pc'[p] = "boot" /\ job[p].op = "check" /\ ledger' = ledger
        /\ job'[p].who = job[p].who /\ job'[p].bad = job[p].bad
    BY <1>9, ClearBedEffect DEF Alone, SameFlags
  <2>2. ASSUME ledger[job[p].who] # NoLease PROVE ledger[job[p].who].owner = p
    <3> DEFINE c == job[p].who
               o == ledger[c].owner
    <3>1. Held(p, ledger) /\ c \in Leases(ledger) /\ OwnedBy(o, c, ledger[c].transient)
      BY <1>0, <2>1, <2>2 DEF Keeps, OwnerInv, Owned, Leases
    <3>2. ASSUME ~ledger[c].transient PROVE FALSE
      <4>1. o \in Procs
        BY <3>1, LeaseFields DEF TypeOK
      <4>2. pc[o] # "new" /\ job[o].who = c /\ job[o].op = "start"
        BY <3>1, <3>2 DEF OwnedBy
      <4>3. <<"start", c>> \in Workload
        <5> HIDE DEF o
        <5> QED BY <4>1, <4>2 DEF LockInv, AtWork
      <4>4. <<"check", c>> \in Workload
        BY <1>0, <2>1 DEF AtWork
      <4> QED BY <1>0, <4>3, <4>4 DEF OneKind
    <3> QED BY <3>1, <3>2 DEF Held
  <2> QED BY <1>0, <2>1, <2>2 DEF Keeps, Held
<1>10. CASE BringUp(p)
  BY <1>10, BringUpEffect DEF Keeps, Ends, Fresh
<1>11. CASE BootBed(p)
  <2>1. /\ running \subseteq running' /\ pc[p] = "boot" /\ pc'[p] = "busy" /\ ledger' = ledger
        /\ job'[p].bad = job[p].bad /\ job'[p].who = job[p].who
    BY <1>11, BootBedEffect DEF Alone
  <2> QED BY <1>0, <2>1 DEF Keeps, Held
<1>12. CASE CheckEnd(p)
  BY <1>0, <1>12, CheckEndEffect DEF Keeps
<1>13. ASSUME NEW h \in Deploys, Stop(p, h) \/ StopFails(p, h) \/ Rollback(p, h) PROVE Keeps(p)'
  BY <1>0, <1>13, StopEffect, StopFailsEffect, RollbackEffect DEF Keeps, SameFlags
<1>14. ASSUME NEW t \in GpuTokens, Flip(p, t) \/ FlipFails(p, t) PROVE Keeps(p)'
  BY <1>0, <1>14, FlipEffect, FlipFailsEffect DEF Keeps, SameFlags
<1> QED BY <1>1, <1>2, <1>3, <1>4, <1>5, <1>6, <1>7, <1>8, <1>9, <1>10, <1>11, <1>12, <1>13, <1>14

\* The process that steps is about to drop no claim in use ...
LEMMA SparesActing ==
  ASSUME NoReconcile, Books, KeptInv, NEW q \in Procs, Step(q), NEW p \in Procs \ {q}
  PROVE  Spares(q, p)'
<1> USE DEF Books, TypeInv
<1>0. /\ pc'[p] = pc[p] /\ job'[p] = job[p] /\ Keeps(p) /\ Spares(q, p) /\ Copy(q)
      /\ job'[q].who = job[q].who /\ job[p].who \in Deploys
  BY StepOnward, JobFields DEF Onward, Alone, KeptInv, CopyInv, TypeOK
<1> SUFFICES ASSUME pc[p] \in Using, pc'[q] \in Trimming, ledger'[job[p].who] # NoLease
             PROVE  /\ job'[q].mem[job[p].who] # NoLease
                    /\ pc'[q] = "restore" => job'[q].cur # job[p].who
  BY <1>0 DEF Spares
<1>1. job[p].who # job[q].who /\ ownerAlive(p)
  <2>1. ownerAlive(p) /\ ownerAlive(q)
    BY StepOnward DEF Onward, ownerAlive, Using
  <2> QED BY <2>1 DEF LockInv
<1>2. CASE LockAcquire(q)
  BY <1>2, LockAcquireEffect
<1>3. CASE LockRelease(q)
  BY <1>1, <1>3, LockReleaseEffect DEF Ends, Trimming
<1>4. ASSUME NEW c \in Deploys, Visit(q, c)
      PROVE  /\ job'[q].mem[job[p].who] # NoLease
             /\ pc'[q] = "restore" => job'[q].cur # job[p].who
  <2>1. /\ pc[q] = "scan" /\ job'[q].mem = job[q].mem /\ ledger' = ledger
        /\ (pc'[q] = "restore" => ~leaseLive(job[q].mem, c) /\ job'[q].cur = c)
        /\ c \in Leases(job[q].mem)
    BY <1>4, VisitEffect
  <2>2. job[q].mem[job[p].who] # NoLease
    BY <1>0, <2>1 DEF Spares, Trimming
  <2>3. ASSUME c = job[p].who PROVE leaseLive(job[q].mem, c)
    <3>1. Held(p, ledger)
      BY <1>0, <2>1 DEF Keeps
    <3>2. job[q].mem[c].owner = ledger[c].owner /\ job[q].mem[c].transient = ledger[c].transient
      BY <1>0, <2>1 DEF Copy, Within, Trimming
    <3> QED BY <1>1, <2>3, <3>1, <3>2 DEF Held, leaseLive
  <2> QED BY <2>1, <2>2, <2>3
<1> DEFINE Idle == pc'[q] \notin Trimming
           Goes == /\ pc[q] \in Trimming /\ ledger' = ledger /\ job'[q].mem = job[q].mem
                   /\ pc'[q] = "restore" => pc[q] = "restore" /\ job'[q].cur = job[q].cur
<1>5. ASSUME Goes
      PROVE  /\ job'[q].mem[job[p].who] # NoLease
             /\ pc'[q] = "restore" => job'[q].cur # job[p].who
  BY <1>0, <1>5 DEF Spares
<1>6. CASE Released(q)
  <2> DEFINE L == job[q].mem
             c == job[q].cur
             d == job[p].who
             good == job[q].rel => job[q].good
  <2>1. PICK heir \in Heirs(L, c, good) : job'[q].mem = Attach(L, c, heir)
    BY <1>6, ReleasedEffect
  <2>2. L \in Ledger /\ c \in Leases(L) /\ good \in BOOLEAN
    BY <1>6, JobFields DEF TypeOK, Released, Releasing
  <2>3. pc[q] = "restore" /\ pc'[q] = "unflip" /\ ledger' = ledger
    BY <1>6, ReleasedEffect
  <2>4. L[d] # NoLease /\ d # c /\ d \in Deploys
    BY <1>0, <2>3 DEF Spares, Trimming
  <2> HIDE DEF L, c, d, good
  <2> DEFINE A == Attach(L, c, heir)
  <2>5. Leases(A) = Leases(L) \ {c}
    BY <2>2, AttachFields
  <2> HIDE DEF A
  <2>6. A[d] # NoLease
    BY <2>4, <2>5 DEF Leases
  <2> QED BY <2>1, <2>3, <2>6 DEF A, d
<1>7. ASSUME \/ ScanEnd(q) \/ Retain(q) \/ UnflipEnd(q)
             \/ \E h \in Deploys : Restore(q, h)
             \/ \E t \in GpuTokens : Unflip(q, t)
      PROVE  Idle \/ Goes
  BY <1>7, ScanEndEffect, RetainEffect, UnflipEndEffect, RestoreEffect, UnflipEffect, ZenonT(30)
     DEF Trimming, Scanned, Ends, SameCopy
<1>8. ASSUME Halt(q) \/ Flush(q) \/ Commit(q) PROVE Idle
  BY <1>8, HaltEffect, FlushEffect, CommitEffect DEF Trimming, Scanned, Ends
<1>9. ASSUME \/ Reacquire(q) \/ Refuse(q) \/ DecideExclusive(q) \/ DecideShared(q) \/ Append(q)
             \/ StopsEnd(q) \/ FlipEnd(q) \/ Drop(q) \/ ClearBed(q) \/ BringUp(q) \/ BootBed(q)
             \/ CheckEnd(q)
             \/ \E h \in Deploys : Stop(q, h) \/ StopFails(q, h) \/ Rollback(q, h)
             \/ \E t \in GpuTokens : Flip(q, t) \/ FlipFails(q, t)
      PROVE  Idle
  BY <1>9, ReacquireEffect, RefuseEffect, DecideExclusiveEffect, DecideSharedEffect, AppendEffect,
     StopsEndEffect, FlipEndEffect, DropEffect, ClearBedEffect, BringUpEffect, BootBedEffect,
     CheckEndEffect, StopEffect, StopFailsEffect, RollbackEffect, FlipEffect, FlipFailsEffect
     DEF Trimming, Ends, Decided
<1> HIDE DEF Goes
<1> QED BY <1>2, <1>3, <1>4, <1>5, <1>6, <1>7, <1>8, <1>9 DEF Step

\* ... and none that is about to drop a claim makes way for its use.
LEMMA SparesUsing ==
  ASSUME NoReconcile, Books, KeptInv, NEW p \in Procs, Step(p), NEW q \in Procs \ {p}
  PROVE  Spares(q, p)'
<1> USE DEF Books, TypeInv
<1>0. /\ pc'[q] = pc[q] /\ job'[q] = job[q] /\ Spares(q, p) /\ job'[p].who = job[p].who
  BY StepOnward DEF Onward, Alone, KeptInv
<1> SUFFICES ASSUME pc'[p] \in Using, pc[q] \in Trimming
             PROVE  Spares(q, p)'
  BY <1>0 DEF Spares
<1>1. lock = q /\ ledger' = ledger /\ pc[p] \notin Holding
  BY LedgerLocked DEF LockInv, AtWork, Holding
<1>2. ASSUME pc[p] \in Using PROVE Spares(q, p)'
  BY <1>0, <1>1, <1>2 DEF Spares
<1>3. pc[p] \in Using \cup Holding
  <2> DEFINE Goal == pc[p] \in Holding \cup Using \/ pc'[p] \notin Using
  <2>1. ASSUME Halt(p) \/ LockAcquire(p) \/ LockRelease(p) \/ ScanEnd(p) PROVE Goal
    BY <2>1, HaltEffect, LockAcquireEffect, LockReleaseEffect, ScanEndEffect
       DEF Holding, Trimming, Using, Ends
  <2>2. ASSUME Flush(p) \/ Retain(p) \/ Released(p) \/ UnflipEnd(p) \/ Commit(p) PROVE Goal
    BY <2>2, FlushEffect, RetainEffect, ReleasedEffect, UnflipEndEffect, CommitEffect
       DEF Holding, Trimming, Using, Ends
  <2>3. ASSUME \/ \E c \in Deploys : Visit(p, c) \/ Restore(p, c)
               \/ \E t \in GpuTokens : Unflip(p, t)
        PROVE  Goal
    BY <2>3, VisitEffect, RestoreEffect, UnflipEffect DEF Holding, Trimming, Using, Ends
  <2>4. ASSUME Reacquire(p) \/ Refuse(p) \/ DecideExclusive(p) \/ DecideShared(p) PROVE Goal
    BY <2>4, ReacquireEffect, RefuseEffect, DecideExclusiveEffect, DecideSharedEffect
       DEF Holding, Claiming, Using, Admissible
  <2>5. ASSUME Append(p) \/ StopsEnd(p) \/ FlipEnd(p) \/ Drop(p) PROVE Goal
    BY <2>5, AppendEffect, StopsEndEffect, FlipEndEffect, DropEffect
       DEF Holding, Claiming, Using, Admissible
  <2>6. ASSUME ClearBed(p) \/ BringUp(p) \/ BootBed(p) \/ CheckEnd(p) PROVE Goal
    BY <2>6, ClearBedEffect, BringUpEffect, BootBedEffect, CheckEndEffect
       DEF Holding, Claiming, Using, Admissible
  <2>7. ASSUME \/ \E h \in Deploys : Stop(p, h) \/ StopFails(p, h) \/ Rollback(p, h)
               \/ \E t \in GpuTokens : Flip(p, t) \/ FlipFails(p, t)
        PROVE  Goal
    BY <2>7, StopEffect, StopFailsEffect, RollbackEffect, FlipEffect, FlipFailsEffect
       DEF Holding, Claiming, Using, Admissible
  <2> HIDE DEF Goal
  <2>8. Goal
    BY <2>1, <2>2, <2>3, <2>4, <2>5, <2>6, <2>7 DEF Step
  <2> QED BY <2>8 DEF Goal
<1> QED BY <1>1, <1>2, <1>3

LEMMA SparesOthers ==
  ASSUME NoReconcile, Books, KeptInv, NEW r \in Procs, Step(r), NEW p \in Procs \ {r},
         NEW q \in Procs \ {r}
  PROVE  Spares(q, p)'
<1>1. /\ pc'[q] = pc[q] /\ job'[q] = job[q] /\ pc'[p] = pc[p] /\ job'[p] = job[p] /\ Spares(q, p)
  BY StepOnward DEF Onward, Alone, KeptInv, Books, TypeInv
<1>2. pc[q] \in Trimming => ledger' = ledger
  BY LedgerLocked DEF Books, LockInv, AtWork, Holding
<1> QED BY <1>1, <1>2 DEF Spares

LEMMA KeptWorld ==
  ASSUME Steady, Books, KeptInv, World
  PROVE  KeptInv'
<1> USE DEF Books, TypeInv
<1>1. CASE OnHost
  <2>1. running \subseteq running' /\ UNCHANGED <<ledger, pc, job>>
    BY <1>1 DEF OnHost, Steady
  <2> QED BY <2>1 DEF KeptInv, Keeps, Held, Spares
<1>2. CASE Reboot
  <2>1. \A q \in Procs : pc'[q] \in {"new", "done"} /\ ~job'[q].bad
    BY <1>2, RebootEffect DEF ownerAlive, Fresh
  <2> QED BY <2>1 DEF KeptInv, Keeps, Spares, Using
<1>3. ASSUME NEW r \in Procs, Crash(r) PROVE KeptInv'
  <2>1. /\ UNCHANGED <<ledger, running>> /\ pc'[r] = "done" /\ ~job'[r].bad
        /\ \A q \in Procs \ {r} : pc'[q] = pc[q] /\ job'[q] = job[q]
    BY <1>3, CrashEffect DEF Ends, Alone, Fresh
  <2>2. Keeps(r)'
    BY <2>1 DEF Keeps, Using
  <2>3. ASSUME NEW q \in Procs \ {r} PROVE Keeps(q)'
    BY <2>1 DEF KeptInv, Keeps, Held
  <2>4. ASSUME NEW q \in Procs, NEW p \in Procs PROVE Spares(q, p)'
    <3>1. CASE p = r \/ q = r
      BY <2>1, <3>1 DEF Spares, Using, Trimming
    <3>2. CASE p # r /\ q # r
      BY <2>1, <3>2 DEF KeptInv, Spares
    <3> QED BY <3>1, <3>2
  <2> QED BY <2>2, <2>3, <2>4 DEF KeptInv
<1> QED BY <1>1, <1>2, <1>3, WorldEffect

LEMMA KeptBegin ==
  ASSUME NoReconcile, Books, KeptInv, NEW p \in Procs, NEW o \in AllCommands, NEW d \in Deploys,
         Begin(p, o, d)
  PROVE  KeptInv'
<1> USE DEF Books, TypeInv
<1>1. /\ \A q \in Procs \ {p} : pc'[q] = pc[q] /\ job'[q] = job[q]
      /\ pc'[p] \in {"halt", "wait", "relwait"} /\ ~job'[p].bad /\ job'[p].seen = {}
      /\ UNCHANGED <<ledger, running>>
  BY BeginEffect, BeginLock, ZenonT(30) DEF AllCommands
<1>2. Keeps(p)'
  BY <1>1 DEF Keeps, Using
<1>3. ASSUME NEW q \in Procs \ {p} PROVE Keeps(q)'
  BY <1>1 DEF KeptInv, Keeps, Held
<1>4. ASSUME NEW q \in Procs, NEW r \in Procs PROVE Spares(q, r)'
  <2>1. CASE q = p \/ r = p
    BY <1>1, <2>1 DEF Spares, Using, Trimming
  <2>2. CASE q # p /\ r # p
    BY <1>1, <2>2 DEF KeptInv, Spares
  <2> QED BY <2>1, <2>2
<1> QED BY <1>2, <1>3, <1>4 DEF KeptInv

LEMMA KeptInit == Init => KeptInv
BY DEF Init, KeptInv, Keeps, Spares, Using, NewJob

LEMMA KeptNext ==
  ASSUME NoReconcile, OneKind, Claimants, Steady, Books, KeptInv, [Next]_vars
  PROVE  KeptInv'
<1>1. ASSUME NEW r \in Procs, Step(r) PROVE KeptInv'
  <2>1. Keeps(r)'
    BY <1>1, KeepsRelease, KeepsAcquire DEF Step
  <2>2. \A q \in Procs \ {r} : Keeps(q)'
    BY <1>1, KeepsOthers
  <2>3. ASSUME NEW q \in Procs, NEW p \in Procs PROVE Spares(q, p)'
    <3>1. CASE p = q
      BY <3>1 DEF Spares, Using, Trimming
    <3> QED BY <1>1, <3>1, SparesActing, SparesUsing, SparesOthers
  <2> QED BY <2>1, <2>2, <2>3 DEF KeptInv
<1>2. CASE UNCHANGED vars
  BY <1>2 DEF vars, KeptInv, Keeps, Held, Spares
<1> QED BY <1>1, <1>2, KeptBegin, KeptWorld DEF Next, Quiet

\* A claim in use is neither lost nor stolen, through every interleaving of
\* acquires, releases and reconciles under the flock, every crash and every reboot.
THEOREM ClaimIsKept ==
  ASSUME NoReconcile, OneKind, Claimants, Steady
  PROVE  Spec => []ClaimKept
<1>1. Init => Books /\ KeptInv
  BY BooksInit, KeptInit
<1>2. Books /\ KeptInv /\ [Next]_vars => Books' /\ KeptInv'
  BY BooksNext, KeptNext
<1>3. KeptInv => ClaimKept
  BY DEF KeptInv, Keeps, ClaimKept
<1> QED BY <1>1, <1>2, <1>3, PTL DEF Spec

-----------------------------------------------------------------------------
(* A release starts no holder under a live claim.  A holder has one token, *)
(* as the `holds` of every project in the repository (a holder of two that *)
(* was stopped for one of them is started when that one is free).          *)

SingleHold == \A h \in Deploys : \A s, t \in Holds[h] : s = t

\* What p has left to start, and why the lease it is releasing may go: nobody who
\* would restore for it is left, or the release was asked for by its claimant.
Todo(p) ==
  pc[p] = "restore" =>
    /\ job[p].todo \subseteq ToRestore(job[p].mem, job[p].cur, job[p].rel => job[p].good)
    /\ ~job[p].rel => ~leaseLive(job[p].mem, job[p].cur)
    /\ job[p].rel => job[p].mem = ledger

\* The leases a reconcile has taken out of its copy are still dead.
Dead(p) ==
  pc[p] \in Trimming /\ ~job[p].rel =>
    \A c \in Leases(ledger) \ Leases(job[p].mem) : ~leaseLive(ledger, c)

TodoInv == \A p \in Procs : Todo(p) /\ Dead(p)

\* A claimant and a holder are different deployments.
LEMMA LeasesOfClaimants ==
  ASSUME NoReconcile, Claimants, Books, NEW c \in Leases(ledger)
  PROVE  Requires[c] # {} /\ Holds[c] = {} /\ c \in Deploys
<1> DEFINE q == ledger[c].owner
<1>1. OwnedBy(q, c, ledger[c].transient) /\ c \in Deploys /\ q \in Procs
  BY LeaseFields DEF Books, TypeInv, TypeOK, OwnerInv, Owned
<1> HIDE DEF q
<1>2. <<job[q].op, job[q].who>> \in Workload /\ job[q].op \in AllCommands /\ job[q].who = c
  BY <1>1, OpsOf DEF OwnedBy, Books, TypeInv, LockInv, AtWork
<1> QED BY <1>1, <1>2 DEF Claimants

\* A holder on p's list is one, and it holds what it was stopped for.
LEMMA TodoHolders ==
  ASSUME Books, TodoInv, NEW p \in Procs, pc[p] = "restore", NEW h \in job[p].todo
  PROVE  /\ h \in Deploys /\ job[p].cur \in Leases(job[p].mem)
         /\ job[p].mem[job[p].cur].preempted[h] # {}
         /\ job[p].mem[job[p].cur].preempted[h] \subseteq Holds[h]
         /\ ~tokenClaimed(Without(job[p].mem, job[p].cur), job[p].mem[job[p].cur].preempted[h])
<1> DEFINE L == job[p].mem
           c == job[p].cur
           good == job[p].rel => job[p].good
<1>1. h \in ToRestore(L, c, good) /\ c \in Leases(L) /\ Owned(L)
  BY DEF TodoInv, Todo, Books, TypeInv, Releasing, OwnerInv
<1> HIDE DEF L, c, good
<1>2. h \in Deploys /\ L[c].preempted[h] # {}
  BY <1>1 DEF ToRestore, Listed
<1>3. L[c].preempted[h] \subseteq Holds[h]
  BY <1>1, <1>2 DEF Owned
<1>4. ~tokenClaimed(Without(L, c), L[c].preempted[h])
  BY <1>1 DEF ToRestore, Carry
<1> QED BY <1>1, <1>2, <1>3, <1>4 DEF L, c

\* While p has the flock, no deployment with a dead lease comes up, and a process
\* that has ended stays so: a dead lease stays dead.
LEMMA DeadStays ==
  ASSUME NoReconcile, Claimants, Books, KeptInv, TodoInv, [Next]_vars,
         NEW p \in Procs, pc[p] \in Trimming,
         NEW c \in Leases(ledger), ~leaseLive(ledger, c)
  PROVE  pc'[ledger[c].owner] = "done" /\ (~ledger[c].transient => c \notin running')
<1> USE DEF Books, TypeInv
<1> DEFINE o == ledger[c].owner
<1>0. /\ o \in Procs /\ c \in Deploys /\ Requires[c] # {} /\ Holds[c] = {} /\ lock = p
      /\ ~ownerAlive(o) /\ (~ledger[c].transient => c \notin running)
      /\ pc[o] # "new"
  <2>1. o \in Procs /\ c \in Deploys /\ OwnedBy(o, c, ledger[c].transient)
    BY LeaseFields DEF TypeOK, OwnerInv, Owned
  <2>2. lock = p
    BY DEF LockInv, AtWork, Holding
  <2>3. ~ownerAlive(o) /\ (~ledger[c].transient => c \notin running)
    BY DEF leaseLive
  <2> QED BY <2>1, <2>2, <2>3, LeasesOfClaimants DEF OwnedBy
<1> HIDE DEF o
<1>1. pc[o] = "done"
  BY <1>0 DEF ownerAlive
<1>2. ASSUME NEW q \in Procs, NEW op \in AllCommands, NEW d \in Deploys, Begin(q, op, d)
      PROVE  pc'[o] = "done" /\ running' = running
  BY <1>0, <1>1, <1>2, BeginEffect
<1>3. ASSUME NEW q \in Procs, Step(q)
      PROVE  pc'[o] = "done" /\ (~ledger[c].transient => c \notin running')
  <2>1. q # o /\ pc'[o] = "done"
    BY <1>0, <1>1, <1>3, StepOnward DEF Onward, Alone
  <2>2. \/ running' \subseteq running
        \/ pc[q] = "rollback"
        \/ pc[q] = "restore" /\ \E h \in job[q].todo : running' \subseteq running \cup {h}
        \/ pc[q] \in {"up", "boot"} /\ running' \subseteq running \cup {job[q].who}
    <3>1. ASSUME \/ Halt(q) \/ LockAcquire(q) \/ LockRelease(q) \/ ScanEnd(q) \/ Flush(q)
                 \/ Retain(q) \/ Released(q) \/ UnflipEnd(q) \/ Commit(q)
                 \/ \E d \in Deploys : Visit(q, d)
                 \/ \E t \in GpuTokens : Unflip(q, t)
          PROVE  running' \subseteq running
      BY <3>1, HaltEffect, LockAcquireEffect, LockReleaseEffect, ScanEndEffect, FlushEffect,
         RetainEffect, ReleasedEffect, UnflipEndEffect, CommitEffect, VisitEffect, UnflipEffect
    <3>2. ASSUME \/ Reacquire(q) \/ Refuse(q) \/ DecideExclusive(q) \/ DecideShared(q) \/ Append(q)
                 \/ StopsEnd(q) \/ FlipEnd(q) \/ Drop(q) \/ ClearBed(q) \/ CheckEnd(q)
                 \/ \E h \in Deploys : Stop(q, h) \/ StopFails(q, h)
                 \/ \E t \in GpuTokens : Flip(q, t) \/ FlipFails(q, t)
          PROVE  running' \subseteq running
      BY <3>2, ReacquireEffect, RefuseEffect, DecideExclusiveEffect, DecideSharedEffect,
         AppendEffect, StopsEndEffect, FlipEndEffect, DropEffect, ClearBedEffect,
         CheckEndEffect, StopEffect, StopFailsEffect, FlipEffect, FlipFailsEffect DEF Decided
    <3>3. ASSUME NEW h \in Deploys, Restore(q, h) \/ Rollback(q, h)
          PROVE  \/ pc[q] = "rollback"
                 \/ pc[q] = "restore" /\ h \in job[q].todo /\ running' \subseteq running \cup {h}
      BY <3>3, RestoreEffect, RollbackEffect
    <3>4. ASSUME BringUp(q) \/ BootBed(q)
          PROVE  pc[q] \in {"up", "boot"} /\ running' \subseteq running \cup {job[q].who}
      BY <3>4, BringUpEffect, BootBedEffect
    <3> QED BY <1>3, <3>1, <3>2, <3>3, <3>4 DEF Step
  <2>3. pc[q] # "rollback" \/ q = p
    BY <1>0 DEF LockInv, AtWork, Holding, Claiming
  <2>4. CASE pc[q] = "rollback"
    BY <2>3, <2>4 DEF Trimming
  <2>5. ASSUME pc[q] = "restore", NEW h \in job[q].todo PROVE h # c
    BY <1>0, <2>5, TodoHolders
  <2>6. ASSUME pc[q] \in {"up", "boot"}, job[q].who = c PROVE FALSE
    <3>1. Held(q, ledger)
      BY <2>6 DEF KeptInv, Keeps, Using, Leases
    <3> QED BY <1>0, <2>1, <2>6, <3>1 DEF Held, o
  <2> QED BY <1>0, <2>1, <2>2, <2>4, <2>5, <2>6
<1>4. ASSUME World PROVE pc'[o] = "done" /\ (~ledger[c].transient => c \notin running')
  <2>1. ASSUME OnHost PROVE pc'[o] = "done" /\ (~ledger[c].transient => c \notin running')
    BY <1>0, <1>1, <2>1 DEF OnHost
  <2>2. ASSUME Reboot PROVE pc'[o] = "done" /\ running' = {}
    BY <1>0, <1>1, <2>2, RebootEffect DEF ownerAlive
  <2>3. ASSUME NEW q \in Procs, Crash(q) PROVE pc'[o] = "done" /\ running' = running
    BY <1>0, <1>1, <2>3, CrashEffect DEF Ends, Alone
  <2> QED BY <1>0, <1>4, <2>1, <2>2, <2>3, WorldEffect
<1>5. ASSUME UNCHANGED vars PROVE pc'[o] = "done" /\ running' = running
  BY <1>1, <1>5 DEF vars
<1>6. pc'[o] = "done" /\ (~ledger[c].transient => c \notin running')
  BY <1>0, <1>2, <1>3, <1>4, <1>5 DEF Next, Quiet
<1> QED BY <1>6 DEF o

\* The same of the lease a process is releasing, as it has it in memory.
LEMMA CopyStaysDead ==
  ASSUME NoReconcile, Claimants, Books, KeptInv, TodoInv, [Next]_vars,
         NEW p \in Procs, pc[p] \in Trimming,
         NEW c \in Leases(job[p].mem), ~leaseLive(job[p].mem, c)
  PROVE  /\ pc'[job[p].mem[c].owner] = "done"
         /\ ~job[p].mem[c].transient => c \notin running'
         /\ c \in Leases(ledger) /\ ~leaseLive(ledger, c)
<1>1. /\ c \in Leases(ledger) /\ job[p].mem[c].owner = ledger[c].owner
      /\ job[p].mem[c].transient = ledger[c].transient
  BY ZenonT(30) DEF Books, CopyInv, Copy, Within
<1>2. ~leaseLive(ledger, c)
  BY <1>1 DEF leaseLive
<1> QED BY <1>1, <1>2, DeadStays

\* What a step that leaves p's copy and its lists, or only shortens them, keeps.
LEMMA TodoStays ==
  ASSUME NoReconcile, Claimants, Books, KeptInv, TodoInv, [Next]_vars,
         NEW p \in Procs, pc[p] \in Trimming, ledger' = ledger,
         job'[p].mem = job[p].mem, job'[p].rel = job[p].rel,
         pc'[p] = "restore" => /\ pc[p] = "restore" /\ job'[p].cur = job[p].cur
                               /\ job'[p].good = job[p].good /\ job'[p].todo \subseteq job[p].todo
  PROVE  Todo(p)' /\ Dead(p)'
<1>1. Dead(p)'
  <2> SUFFICES ASSUME ~job[p].rel, NEW c \in Leases(ledger) \ Leases(job[p].mem)
               PROVE  ~leaseLive(ledger, c)'
    BY DEF Dead, Leases
  <2>1. ~leaseLive(ledger, c)
    BY DEF TodoInv, Dead
  <2>2. pc'[ledger[c].owner] = "done" /\ (~ledger[c].transient => c \notin running')
    BY <2>1, DeadStays
  <2> QED BY <2>2 DEF leaseLive, ownerAlive
<1>2. Todo(p)'
  <2> SUFFICES ASSUME pc'[p] = "restore" PROVE Todo(p)'
    BY DEF Todo
  <2> DEFINE L == job[p].mem
             d == job[p].cur
  <2>1. /\ pc[p] = "restore" /\ d \in Leases(L)
        /\ job[p].todo \subseteq ToRestore(L, d, job[p].rel => job[p].good)
        /\ ~job[p].rel => ~leaseLive(L, d)
        /\ job[p].rel => L = ledger
    BY DEF TodoInv, Todo, Books, TypeInv, Releasing
  <2>2. ~job[p].rel => pc'[L[d].owner] = "done" /\ (~L[d].transient => d \notin running')
    BY <2>1, CopyStaysDead
  <2>3. job'[p].todo \subseteq ToRestore(job'[p].mem, job'[p].cur, job'[p].rel => job'[p].good)
    BY <2>1
  <2>4. ~job'[p].rel => ~leaseLive(job[p].mem, job[p].cur)'
    BY <2>2, <2>1 DEF leaseLive, ownerAlive
  <2> QED BY <2>1, <2>3, <2>4 DEF Todo
<1> QED BY <1>1, <1>2

LEMMA TodoIdle ==
  ASSUME NEW p \in Procs, pc'[p] \notin Trimming
  PROVE  Todo(p)' /\ Dead(p)'
BY DEF Todo, Dead, Trimming

LEMMA TodoOthers ==
  ASSUME NoReconcile, Claimants, Books, KeptInv, TodoInv, [Next]_vars,
         NEW p \in Procs, pc'[p] = pc[p], job'[p] = job[p], lock # p \/ ledger' = ledger
  PROVE  Todo(p)' /\ Dead(p)'
<1>1. CASE pc[p] \in Trimming
  <2>1. ledger' = ledger
    BY <1>1 DEF Books, LockInv, AtWork, Holding
  <2> QED BY <1>1, <2>1, TodoStays
<1>2. CASE pc[p] \notin Trimming
  BY <1>2, TodoIdle
<1> QED BY <1>1, <1>2

LEMMA TodoRelease ==
  ASSUME NoReconcile, Claimants, Books, KeptInv, TodoInv, NEW p \in Procs, Step(p)
  PROVE  Todo(p)' /\ Dead(p)'
<1> USE DEF Books, TypeInv
<1>0. [Next]_vars
  BY DEF Next
<1> DEFINE Stays == /\ pc[p] \in Trimming /\ ledger' = ledger
                    /\ job'[p].mem = job[p].mem /\ job'[p].rel = job[p].rel
                    /\ pc'[p] = "restore" =>
                         /\ pc[p] = "restore" /\ job'[p].cur = job[p].cur
                         /\ job'[p].good = job[p].good /\ job'[p].todo \subseteq job[p].todo
           Idle == pc'[p] \notin Trimming
<1>1. Stays => Todo(p)' /\ Dead(p)'
  BY <1>0, TodoStays
<1>2. Idle => Todo(p)' /\ Dead(p)'
  BY TodoIdle
<1>3. CASE LockAcquire(p)
  BY <1>3, LockAcquireEffect DEF Todo, Dead, Leases
<1>4. CASE LockRelease(p)
  <2>1. CASE Ends(p)
    BY <1>2, <2>1 DEF Ends, Trimming
  <2>2. CASE ~Ends(p)
    <3>1. /\ ledger' = ledger /\ job'[p].mem = ledger /\ job'[p].rel /\ job'[p].cur = job[p].who
          /\ job'[p].good = job[p].good /\ job'[p].todo = ToRestore(ledger, job[p].who, job[p].good)
      BY <1>4, <2>2, LockReleaseEffect
    <3> DEFINE t == ToRestore(ledger, job[p].who, job[p].good)
    <3>2. job'[p].rel => job'[p].good <=> job[p].good
      BY <3>1
    <3>3. job[p].good \in BOOLEAN /\ job'[p].rel = TRUE
      BY <1>4, <2>2, JobFields, LockReleaseEffect DEF TypeOK
    <3>4. (job'[p].rel => job'[p].good) = job[p].good
      BY <3>1, <3>3, ZenonT(30)
    <3>5. ToRestore(job'[p].mem, job'[p].cur, job'[p].rel => job'[p].good) = t
      BY <3>1, <3>4, ZenonT(30)
    <3> QED BY <3>1, <3>5 DEF Todo, Dead
  <2> QED BY <2>1, <2>2
<1>5. ASSUME NEW c \in Deploys, Visit(p, c) PROVE Todo(p)' /\ Dead(p)'
  <2>1. /\ pc[p] = "scan" /\ c \in Leases(job[p].mem) /\ ~job[p].rel
        /\ job'[p].mem = job[p].mem /\ job'[p].rel = job[p].rel /\ UNCHANGED <<ledger, running>>
        /\ \A q \in Procs : pc[q] = "done" => pc'[q] = "done"
    <3>1. AtWork(p)
      BY DEF LockInv
    <3> QED BY <1>5, <3>1, VisitEffect DEF Alone, SameFlags, AtWork
  <2>2. CASE pc'[p] = "scan"
    <3>1. Stays
      BY <2>1, <2>2 DEF Trimming
    <3> QED BY <1>1, <3>1
  <2>3. CASE pc'[p] # "scan"
    <3>1. /\ ~leaseLive(job[p].mem, c) /\ job'[p].cur = c /\ pc'[p] = "restore"
          /\ job'[p].todo = ToRestore(job[p].mem, c, TRUE)
      BY <1>5, <2>3, VisitEffect
    <3>2. pc'[job[p].mem[c].owner] = "done" /\ (~job[p].mem[c].transient => c \notin running')
      BY <1>0, <2>1, <3>1, CopyStaysDead DEF Trimming
    <3>3. ~leaseLive(job[p].mem, job[p].cur)'
      BY <2>1, <3>1, <3>2 DEF leaseLive, ownerAlive
    <3>4. (job'[p].rel => job'[p].good) = TRUE
      BY <2>1, ZenonT(30)
    <3>5. Todo(p)'
      BY <2>1, <3>1, <3>3, <3>4 DEF Todo
    <3>6. Dead(p)'
      <4> SUFFICES ASSUME NEW d \in Leases(ledger) \ Leases(job[p].mem) PROVE ~leaseLive(ledger, d)'
        BY <2>1 DEF Dead, Leases
      <4>1. ~leaseLive(ledger, d)
        BY <2>1 DEF TodoInv, Dead, Trimming
      <4>2. pc'[ledger[d].owner] = "done" /\ (~ledger[d].transient => d \notin running')
        BY <1>0, <2>1, <4>1, DeadStays DEF Trimming
      <4> QED BY <2>1, <4>2 DEF leaseLive, ownerAlive
    <3> QED BY <3>5, <3>6
  <2> QED BY <2>2, <2>3
<1>6. CASE Released(p)
  <2> DEFINE L == job[p].mem
             c == job[p].cur
             good == job[p].rel => job[p].good
  <2>1. PICK heir \in Heirs(L, c, good) : job'[p].mem = Attach(L, c, heir)
    BY <1>6, ReleasedEffect
  <2>2. L \in Ledger /\ c \in Leases(L) /\ good \in BOOLEAN
    BY <1>6, JobFields DEF TypeOK, Released, Releasing
  <2>3. pc[p] = "restore" /\ pc'[p] = "unflip" /\ ledger' = ledger /\ job'[p].rel = job[p].rel
    BY <1>6, ReleasedEffect DEF SameFlags
  <2>4. ~job[p].rel => ~leaseLive(L, c) /\ \A d \in Leases(ledger) \ Leases(L) : ~leaseLive(ledger, d)
    BY <2>3 DEF TodoInv, Todo, Dead, Trimming
  <2>5. ~job[p].rel => ~leaseLive(ledger, c)
    BY <1>0, <2>2, <2>3, <2>4, CopyStaysDead DEF Trimming
  <2> HIDE DEF L, c, good
  <2> DEFINE A == Attach(L, c, heir)
  <2>6. Leases(A) = Leases(L) \ {c}
    BY <2>2, AttachFields
  <2> HIDE DEF A
  <2>7. job'[p].mem = A
    BY <2>1 DEF A
  <2>8. ASSUME ~job[p].rel, NEW d \in Leases(ledger) \ Leases(A) PROVE ~leaseLive(ledger, d)'
    <3>1. ~leaseLive(ledger, d)
      BY <2>4, <2>5, <2>6, <2>8
    <3>2. pc'[ledger[d].owner] = "done" /\ (~ledger[d].transient => d \notin running')
      BY <1>0, <2>3, <3>1, DeadStays DEF Trimming
    <3> QED BY <2>3, <3>2 DEF leaseLive, ownerAlive
  <2>9. Leases(ledger)' = Leases(ledger) /\ Leases(job'[p].mem) = Leases(A)
    BY <2>3, <2>7 DEF Leases
  <2> QED BY <2>3, <2>8, <2>9 DEF Todo, Dead
<1>7. ASSUME \/ ScanEnd(p) \/ Retain(p) \/ UnflipEnd(p)
             \/ \E h \in Deploys : Restore(p, h)
             \/ \E t \in GpuTokens : Unflip(p, t)
      PROVE  Idle \/ Stays
  BY <1>7, ScanEndEffect, RetainEffect, UnflipEndEffect, RestoreEffect, UnflipEffect, ZenonT(30)
     DEF Trimming, Scanned, Ends, SameCopy, SameFlags
<1>8. ASSUME Halt(p) \/ Flush(p) \/ Commit(p) PROVE Idle
  BY <1>8, HaltEffect, FlushEffect, CommitEffect DEF Trimming, Scanned, Ends
<1>9. ASSUME \/ Reacquire(p) \/ Refuse(p) \/ DecideExclusive(p) \/ DecideShared(p) \/ Append(p)
             \/ StopsEnd(p) \/ FlipEnd(p) \/ Drop(p) \/ ClearBed(p) \/ BringUp(p) \/ BootBed(p)
             \/ CheckEnd(p)
             \/ \E h \in Deploys : Stop(p, h) \/ StopFails(p, h) \/ Rollback(p, h)
             \/ \E t \in GpuTokens : Flip(p, t) \/ FlipFails(p, t)
      PROVE  Idle
  BY <1>9, ReacquireEffect, RefuseEffect, DecideExclusiveEffect, DecideSharedEffect, AppendEffect,
     StopsEndEffect, FlipEndEffect, DropEffect, ClearBedEffect, BringUpEffect, BootBedEffect,
     CheckEndEffect, StopEffect, StopFailsEffect, RollbackEffect, FlipEffect, FlipFailsEffect
     DEF Trimming, Ends, Decided
<1> HIDE DEF Stays, Idle
<1> QED BY <1>1, <1>2, <1>3, <1>4, <1>5, <1>6, <1>7, <1>8, <1>9 DEF Step

LEMMA TodoInit == Init => TodoInv
BY DEF Init, TodoInv, Todo, Dead, Trimming

LEMMA TodoNext ==
  ASSUME NoReconcile, Claimants, Books, KeptInv, TodoInv, [Next]_vars
  PROVE  TodoInv'
<1> USE DEF Books, TypeInv
<1>1. ASSUME NEW p \in Procs, Step(p) PROVE TodoInv'
  <2>1. Todo(p)' /\ Dead(p)'
    BY <1>1, TodoRelease
  <2>2. ASSUME NEW q \in Procs \ {p} PROVE Todo(q)' /\ Dead(q)'
    <3>1. pc'[q] = pc[q] /\ job'[q] = job[q] /\ (lock # q \/ ledger' = ledger)
      BY <1>1, StepOnward, LedgerLocked DEF Onward, Alone
    <3> QED BY <3>1, TodoOthers
  <2> QED BY <2>1, <2>2 DEF TodoInv
<1>2. ASSUME NEW p \in Procs, NEW o \in AllCommands, NEW d \in Deploys, Begin(p, o, d)
      PROVE  TodoInv'
  <2>1. /\ \A q \in Procs \ {p} : pc'[q] = pc[q] /\ job'[q] = job[q]
        /\ pc'[p] \in {"halt", "wait", "relwait"} /\ ledger' = ledger
    BY <1>2, BeginEffect, BeginLock, ZenonT(60) DEF AllCommands
  <2>2. Todo(p)' /\ Dead(p)'
    BY <2>1, TodoIdle DEF Trimming
  <2> QED BY <2>1, <2>2, TodoOthers DEF TodoInv
<1>3. ASSUME NEW p \in Procs, Crash(p) PROVE TodoInv'
  <2>1. /\ \A q \in Procs \ {p} : pc'[q] = pc[q] /\ job'[q] = job[q]
        /\ pc'[p] = "done" /\ ledger' = ledger
    BY <1>3, CrashEffect DEF Ends, Alone
  <2>2. Todo(p)' /\ Dead(p)'
    BY <2>1, TodoIdle DEF Trimming
  <2> QED BY <2>1, <2>2, TodoOthers DEF TodoInv
<1>4. CASE Reboot
  <2>1. \A q \in Procs : pc'[q] \notin Trimming
    BY <1>4, RebootEffect DEF ownerAlive, Trimming
  <2> QED BY <2>1, TodoIdle DEF TodoInv
<1>5. CASE OnHost \/ UNCHANGED vars
  <2>1. UNCHANGED <<pc, job, ledger>>
    BY <1>5 DEF OnHost, vars
  <2> QED BY <2>1, TodoOthers DEF TodoInv
<1> QED BY <1>1, <1>2, <1>3, <1>4, <1>5, WorldEffect DEF Next, Quiet

\* A holder that is still to be started is free of live claims.
LEMMA TodoIsFree ==
  ASSUME SingleHold, Books, TodoInv, NEW p \in Procs, pc[p] = "restore", NEW h \in job[p].todo,
         NEW c \in Leases(ledger) \ {job[p].cur}, leaseLive(ledger, c)
  PROVE  Requires[c] \cap Holds[h] = {}
<1> DEFINE L == job[p].mem
           d == job[p].cur
           held == L[d].preempted[h]
<1>1. h \in Deploys /\ held # {} /\ held \subseteq Holds[h] /\ ~tokenClaimed(Without(L, d), held)
  BY TodoHolders
<1>2. c \in Leases(L)
  BY DEF TodoInv, Todo, Dead, Trimming
<1>3. L \in Ledger /\ d \in Deploys /\ c \in Deploys /\ c # d
  BY JobFields DEF Books, TypeInv, TypeOK, Leases
<1> HIDE DEF L, d, held
<1>4. c \in Leases(Without(L, d))
  BY <1>2, <1>3 DEF Leases, Without, Ledger
<1>5. Requires[c] \cap held = {}
  BY <1>1, <1>4 DEF tokenClaimed
<1>6. held = Holds[h]
  BY <1>1 DEF SingleHold
<1> QED BY <1>5, <1>6

\* No holder is started under somebody else's live claim, in whatever order claims
\* are taken, released, crashed and cleaned up.
THEOREM RestoresRespectClaims ==
  ASSUME NoReconcile, OneKind, Claimants, Steady, SingleHold
  PROVE  Spec => RestoreRespectsClaims
<1> DEFINE Inv == Books /\ KeptInv /\ TodoInv
           Free == \A p \in Procs, h \in Deploys : Restores(p, h) =>
                     \A c \in Leases(ledger) \ {job[p].cur} :
                       leaseLive(ledger, c) => Requires[c] \cap Holds[h] = {}
<1>1. Init => Inv
  BY BooksInit, KeptInit, TodoInit
<1>2. Inv /\ [Next]_vars => Inv'
  BY BooksNext, KeptNext, TodoNext
<1>3. Inv => Free
  BY TodoIsFree DEF Restores
<1> HIDE DEF Inv
<1> QED BY <1>1, <1>2, <1>3, PTL DEF Spec, RestoreRespectsClaims

-----------------------------------------------------------------------------
(* No holder is stranded.  Every holder restores (restore: always), no     *)
(* stop times out late, a rollback starts what it was asked to, and a stop *)
(* that fails has no carried-over holders to forget: shared claims aside.  *)

Orderly ==
  /\ OnSuccess = {}
  /\ "late" \notin Faults /\ "rollback" \notin Faults
  /\ "stop" \in Faults => SharedClaim = {}

ListedIn(L, h) == \E c \in Leases(L) : L[c].preempted[h] # {}
Answered(L) == \A h \in owed : ListedIn(L, h)

\* p accounts for every stopped holder: its copy lists it, and what it is about to
\* release or to roll back it has on its list.
Answers(p) ==
  /\ pc[p] \in Trimming \cup Claiming => Answered(job[p].mem)
  /\ pc[p] = "restore" /\ ~job[p].bad =>
       owed \cap ToRestore(job[p].mem, job[p].cur, job[p].rel => job[p].good) \subseteq job[p].todo
  /\ pc[p] \in {"append", "stop"} =>
       /\ job[p].todo \cap owed = {}
       /\ "stop" \in Faults => Listed(job[p].mem[job[p].who].preempted) \cap owed \subseteq job[p].done
  /\ pc[p] = "rollback" =>
       \A h \in owed : h \in job[p].todo \/ ListedIn(Without(job[p].mem, job[p].who), h)

StrandInv ==
  /\ owed \cap running = {}
  /\ Answered(ledger)
  /\ \A p \in Procs : Answers(p)

\* What a process that does not have the flock owes to the invariant: nothing.
LEMMA AnswersIdle ==
  ASSUME NEW p \in Procs, pc'[p] \notin Trimming \cup Claiming
  PROVE  Answers(p)'
BY DEF Answers, Trimming, Claiming

\* Holders that come up only make it easier.
LEMMA AnswersStays ==
  ASSUME NEW p \in Procs, Answers(p), pc'[p] = pc[p], job'[p] = job[p], owed' \subseteq owed
  PROVE  Answers(p)'
BY DEF Answers, Answered

\* The steps that stop or start nobody and stay where they are.
LEMMA AnswersSame ==
  ASSUME NEW p \in Procs, Answers(p), pc[p] \in Trimming \cup Claiming, owed' \subseteq owed,
         job'[p].mem = job[p].mem, pc'[p] \notin {"restore", "append", "stop", "rollback"}
  PROVE  Answers(p)'
BY DEF Answers, Answered

\* A lease goes: its holders are with its heirs, but for those to start now.
LEMMA AttachLists ==
  ASSUME OnSuccess = {}, NEW L \in Ledger, NEW c \in Leases(L), NEW good \in BOOLEAN,
         NEW heir \in Heirs(L, c, good), NEW h \in Deploys
  PROVE  /\ ListedIn(L, h) => ListedIn(Attach(L, c, heir), h) \/ h \in ToRestore(L, c, good)
         /\ ListedIn(Attach(L, c, heir), h) => ListedIn(L, h)
<1> DEFINE A == Attach(L, c, heir)
<1>1. /\ Leases(A) = Leases(L) \ {c}
      /\ \A d \in Leases(L) \ {c} :
           A[d].preempted[h] = IF h \in Carry(L, c, good) /\ heir[h] = d /\ L[d].preempted[h] = {}
                               THEN L[c].preempted[h] ELSE L[d].preempted[h]
  BY AttachFields
<1> HIDE DEF A
<1>2. ASSUME NEW d \in Leases(L), L[d].preempted[h] # {}, h \notin ToRestore(L, c, good)
      PROVE  ListedIn(A, h)
  <2>1. CASE d # c
    <3>1. d \in Leases(A) /\ A[d].preempted[h] # {}
      BY <1>1, <1>2, <2>1
    <3> QED BY <3>1 DEF ListedIn
  <2>2. CASE d = c
    <3>1. h \in Carry(L, c, good)
      BY <1>2, <2>2 DEF ToRestore, Skipped, Listed
    <3>2. heir[h] \in Leases(L) \ {c}
      BY <3>1 DEF Heirs
    <3>3. A[heir[h]].preempted[h] # {}
      BY <1>1, <1>2, <2>2, <3>1, <3>2
    <3> QED BY <1>1, <3>2, <3>3 DEF ListedIn
  <2> QED BY <2>1, <2>2
<1>3. ASSUME NEW d \in Leases(A), A[d].preempted[h] # {}
      PROVE  ListedIn(L, h)
  BY <1>1, <1>3 DEF ListedIn
<1> QED BY <1>2, <1>3 DEF ListedIn, A

LEMMA AttachAnswers ==
  ASSUME OnSuccess = {}, NEW L \in Ledger, NEW c \in Leases(L), NEW good \in BOOLEAN,
         NEW heir \in Heirs(L, c, good), Answered(L), owed \cap ToRestore(L, c, good) = {},
         owed \subseteq Deploys
  PROVE  Answered(Attach(L, c, heir))
<1> SUFFICES ASSUME NEW h \in owed PROVE ListedIn(Attach(L, c, heir), h)
  BY DEF Answered
<1>1. ListedIn(L, h) /\ h \in Deploys /\ h \notin ToRestore(L, c, good)
  BY DEF Answered
<1> QED BY <1>1, AttachLists

LEMMA StrandRelease ==
  ASSUME NoReconcile, Orderly, Books, StrandInv, NEW p \in Procs,
         \/ Halt(p) \/ LockAcquire(p) \/ LockRelease(p) \/ ScanEnd(p) \/ Flush(p) \/ Retain(p)
         \/ Released(p) \/ UnflipEnd(p) \/ Commit(p)
         \/ \E c \in Deploys : Visit(p, c) \/ Restore(p, c)
         \/ \E t \in GpuTokens : Unflip(p, t)
  PROVE  Answers(p)' /\ Answered(ledger)' /\ (owed \cap running = {})' /\ owed' \subseteq owed
<1> USE DEF Books, TypeInv
<1>0. Answers(p) /\ Answered(ledger) /\ owed \cap running = {}
  BY DEF StrandInv
<1> DEFINE Still == UNCHANGED <<ledger, owed>> /\ running' \subseteq running
<1>01. Still => Answered(ledger)' /\ (owed \cap running = {})' /\ owed' \subseteq owed
  BY <1>0 DEF Answered
<1> DEFINE Goal == Answers(p)' /\ Answered(ledger)' /\ (owed \cap running = {})' /\ owed' \subseteq owed
<1>1. ASSUME Halt(p) PROVE Goal
  <2>1. Still /\ pc'[p] \notin Trimming \cup Claiming
    BY <1>1, HaltEffect DEF Ends, Trimming, Claiming
  <2> QED BY <1>01, <2>1, AnswersIdle
<1>2. ASSUME LockAcquire(p) PROVE Goal
  <2>1. Still /\ pc'[p] = "scan" /\ job'[p].mem = ledger
    BY <1>2, LockAcquireEffect
  <2> QED BY <1>0, <1>01, <2>1 DEF Answers, Answered, Trimming, Claiming
<1>3. ASSUME LockRelease(p) PROVE Goal
  <2>1. Still
    BY <1>3, LockReleaseEffect
  <2>2. CASE Ends(p)
    BY <1>01, <2>1, <2>2, AnswersIdle DEF Ends, Trimming, Claiming
  <2>3. CASE ~Ends(p)
    <3>1. /\ pc'[p] = "restore" /\ job'[p].mem = ledger /\ job'[p].cur = job[p].who
          /\ job'[p].rel = TRUE /\ job'[p].good = job[p].good /\ job[p].good \in BOOLEAN
          /\ job'[p].todo = ToRestore(ledger, job[p].who, job[p].good)
      BY <1>3, <2>3, LockReleaseEffect, JobFields DEF TypeOK
    <3>2. (job'[p].rel => job'[p].good) = job[p].good
      BY <3>1, ZenonT(30)
    <3>3. Answered(job[p].mem)'
      BY <1>0, <2>1, <3>1 DEF Answered
    <3>4. Answers(p)'
      BY <3>1, <3>2, <3>3 DEF Answers
    <3> QED BY <1>01, <2>1, <3>4
  <2> QED BY <2>2, <2>3
<1>4. ASSUME ScanEnd(p) PROVE Goal
  <2>1. Still /\ pc[p] = "scan"
    BY <1>4, ScanEndEffect
  <2>2. pc'[p] \notin Trimming \cup Claiming \/ (pc'[p] = "flush" /\ job'[p].mem = job[p].mem)
    BY <1>4, ScanEndEffect DEF Scanned, Ends, SameCopy, Trimming, Claiming
  <2>3. Answers(p)'
    BY <1>0, <2>1, <2>2, AnswersIdle, AnswersSame DEF Trimming
  <2> QED BY <1>01, <2>1, <2>3
<1>5. ASSUME Flush(p) \/ Commit(p) PROVE Goal
  <2>1. /\ ledger' = job[p].mem /\ UNCHANGED <<owed, running>> /\ pc[p] \in Trimming
        /\ pc'[p] \notin Trimming \cup Claiming
    BY <1>5, FlushEffect, CommitEffect DEF Scanned, Ends, Trimming, Claiming
  <2>2. Answered(ledger)'
    BY <1>0, <2>1 DEF Answers, Answered
  <2> QED BY <1>0, <2>1, <2>2, AnswersIdle
<1>6. ASSUME Retain(p) PROVE Goal
  <2>1. Still /\ pc[p] = "restore"
    BY <1>6, RetainEffect
  <2>2. pc'[p] \notin Trimming \cup Claiming \/ (pc'[p] = "scan" /\ job'[p].mem = job[p].mem)
    BY <1>6, RetainEffect DEF Ends, Trimming, Claiming
  <2>3. Answers(p)'
    BY <1>0, <2>1, <2>2, AnswersIdle, AnswersSame DEF Trimming
  <2> QED BY <1>01, <2>1, <2>3
<1>7. ASSUME Released(p) PROVE Goal
  <2> DEFINE L == job[p].mem
             c == job[p].cur
             good == job[p].rel => job[p].good
  <2>1. PICK heir \in Heirs(L, c, good) : job'[p].mem = Attach(L, c, heir)
    BY <1>7, ReleasedEffect
  <2>2. L \in Ledger /\ c \in Leases(L) /\ good \in BOOLEAN /\ owed \subseteq Deploys
    BY <1>7, JobFields DEF TypeOK, Released, Releasing
  <2>3. Still /\ pc[p] = "restore" /\ pc'[p] = "unflip" /\ job[p].todo = {} /\ ~job[p].bad
    BY <1>7, ReleasedEffect
  <2>4. Answered(L) /\ owed \cap ToRestore(L, c, good) = {}
    BY <1>0, <2>3 DEF Answers, Trimming
  <2> HIDE DEF L, c, good
  <2>5. Answered(Attach(L, c, heir))
    BY <2>2, <2>4, AttachAnswers DEF Orderly
  <2>6. Answered(job[p].mem)'
    BY <2>1, <2>3, <2>5 DEF Answered
  <2>7. Answers(p)'
    BY <2>3, <2>6 DEF Answers
  <2> QED BY <1>01, <2>3, <2>7
<1>8. ASSUME UnflipEnd(p) PROVE Goal
  <2>1. Still /\ pc[p] = "unflip" /\ pc'[p] \in {"commit", "scan"} /\ job'[p].mem = job[p].mem
    BY <1>8, UnflipEndEffect
  <2> QED BY <1>0, <1>01, <2>1, AnswersSame DEF Trimming
<1>9. ASSUME NEW c \in Deploys, Visit(p, c) PROVE Goal
  <2>1. Still /\ pc[p] = "scan" /\ job'[p].mem = job[p].mem /\ job'[p].rel = job[p].rel
    BY <1>9, VisitEffect DEF SameFlags
  <2>2. CASE pc'[p] = "scan"
    BY <1>0, <1>01, <2>1, <2>2, AnswersSame DEF Trimming
  <2>3. CASE pc'[p] # "scan"
    <3>1. /\ pc'[p] = "restore" /\ job'[p].cur = c
          /\ job'[p].todo = ToRestore(job[p].mem, c, TRUE)
      BY <1>9, <2>3, VisitEffect
    <3>2. ~job[p].rel
      BY <2>1 DEF LockInv, AtWork
    <3>3. (job'[p].rel => job'[p].good) = TRUE
      BY <2>1, <3>2, ZenonT(30)
    <3>4. Answered(job[p].mem)'
      BY <1>0, <2>1 DEF Answers, Answered, Trimming
    <3>5. Answers(p)'
      BY <2>1, <3>1, <3>3, <3>4 DEF Answers
    <3> QED BY <1>01, <2>1, <3>5
  <2> QED BY <2>2, <2>3
<1>10. ASSUME NEW h \in Deploys, Restore(p, h) PROVE Goal
  <2>1. /\ pc[p] = "restore" /\ pc'[p] = "restore" /\ job'[p].mem = job[p].mem
        /\ job'[p].cur = job[p].cur /\ job'[p].rel = job[p].rel /\ job'[p].good = job[p].good
        /\ job'[p].todo = job[p].todo \ {h} /\ ledger' = ledger
        /\ \/ h \in running /\ job'[p].bad = job[p].bad /\ UNCHANGED <<running, owed>>
           \/ job'[p].bad = job[p].bad /\ running' = running \cup {h} /\ owed' = owed \ {h}
           \/ job'[p].bad = TRUE /\ UNCHANGED <<running, owed>>
    BY <1>10, RestoreEffect DEF SameCopy
  <2>2. owed' \subseteq owed /\ (owed \cap running = {})' /\ Answered(ledger)'
    BY <1>0, <2>1 DEF Answered
  <2>3. job'[p].bad \/ (h \notin owed' /\ job'[p].bad = job[p].bad)
    BY <1>0, <2>1
  <2>4. Answered(job[p].mem)'
    BY <1>0, <2>1, <2>2 DEF Answers, Answered, Trimming
  <2>5. Answers(p)'
    BY <1>0, <2>1, <2>2, <2>3, <2>4 DEF Answers
  <2> QED BY <2>2, <2>5
<1>11. ASSUME NEW t \in GpuTokens, Unflip(p, t) PROVE Goal
  <2>1. Still /\ pc[p] = "unflip" /\ pc'[p] = "unflip" /\ job'[p].mem = job[p].mem
    BY <1>11, UnflipEffect DEF SameCopy
  <2> QED BY <1>0, <1>01, <2>1, AnswersSame DEF Trimming
<1> HIDE DEF Goal
<1>12. Goal
  BY <1>1, <1>2, <1>3, <1>4, <1>5, <1>6, <1>7, <1>8, <1>9, <1>10, <1>11
<1> QED BY <1>12 DEF Goal

LEMMA CarriedFrom ==
  ASSUME NEW c, NEW h
  PROVE  h \in CarriedOver(ledger, c) <=>
           h \notin holdersToStop(c) /\ \E d \in Dropped(ledger, c) : h \in Listed(ledger[d].preempted)
<1> DEFINE T == {Listed(ledger[d].preempted) : d \in Dropped(ledger, c)}
<1>1. (\E x \in T : h \in x) <=> \E d \in Dropped(ledger, c) : h \in Listed(ledger[d].preempted)
  BY Zenon
<1> HIDE DEF T
<1>2. h \in UNION T <=> \E x \in T : h \in x
  OBVIOUS
<1>3. CarriedOver(ledger, c) = (UNION T) \ holdersToStop(c)
  BY SMT DEF CarriedOver, T
<1> QED BY <1>1, <1>2, <1>3

\* A new exclusive claim takes over what the leases it drops list, and adds the
\* holders it is going to stop.
LEMMA GrantLists ==
  ASSUME TypeOK, NEW p \in Procs, NEW c \in Deploys, NEW from \in Donors(ledger, c),
         NEW M, IsGrant(M, p, c, StoppedFor(c, from), Dropped(ledger, c)), ledger[c] = NoLease
  PROVE  /\ \A h \in Deploys : ListedIn(ledger, h) => ListedIn(M, h)
         /\ \A h \in Deploys : ListedIn(M, h) => ListedIn(ledger, h) \/ h \in holdersToStop(c)
         /\ SharedClaim = {} => Listed(M[c].preempted) \subseteq holdersToStop(c)
<1> DEFINE S == StoppedFor(c, from)
<1>1. /\ M[c] # NoLease /\ \A h \in Deploys : M[c].preempted[h] = S[h]
      /\ \A d \in Deploys \ {c} : M[d] = IF d \in Dropped(ledger, c) THEN NoLease ELSE ledger[d]
  BY DEF IsGrant, IsNewLease
<1>2. \A h \in Deploys : h \in holdersToStop(c) \/ h \in CarriedOver(ledger, c) <=> S[h] # {}
  <2> SUFFICES ASSUME NEW h \in Deploys
               PROVE  h \in holdersToStop(c) \/ h \in CarriedOver(ledger, c) <=> S[h] # {}
    OBVIOUS
  <2>1. h \in CarriedOver(ledger, c) => ledger[from[h]].preempted[h] # {}
    BY DonorsLeases
  <2>2. h \in holdersToStop(c) => Holds[h] \cap Requires[c] # {}
    BY DEF holdersToStop
  <2> QED BY <2>1, <2>2 DEF StoppedFor
<1> HIDE DEF S
<1>3. ASSUME NEW h \in Deploys, ListedIn(ledger, h) PROVE ListedIn(M, h)
  <2>1. PICK d \in Leases(ledger) : ledger[d].preempted[h] # {}
    BY <1>3 DEF ListedIn
  <2>2. d # c /\ d \in Deploys
    BY DEF Leases
  <2>3. CASE d \in Dropped(ledger, c)
    <3>1. h \in holdersToStop(c) \/ h \in CarriedOver(ledger, c)
      BY <2>1, <2>3, CarriedFrom DEF Listed
    <3>2. M[c].preempted[h] # {} /\ c \in Leases(M)
      BY <1>1, <1>2, <3>1 DEF Leases
    <3> QED BY <3>2 DEF ListedIn
  <2>4. CASE d \notin Dropped(ledger, c)
    <3>1. M[d] = ledger[d] /\ d \in Leases(M)
      BY <1>1, <2>2, <2>4 DEF Leases
    <3> QED BY <2>1, <3>1 DEF ListedIn
  <2> QED BY <2>3, <2>4
<1>4. ASSUME NEW h \in Deploys, h \in CarriedOver(ledger, c) PROVE ListedIn(ledger, h)
  BY <1>4, CarriedFrom DEF Listed, ListedIn, Dropped
<1>5. ASSUME NEW h \in Deploys, NEW d \in Leases(M), M[d].preempted[h] # {}
      PROVE  ListedIn(ledger, h) \/ h \in holdersToStop(c)
  <2>1. CASE d = c
    BY <1>1, <1>2, <1>4, <1>5, <2>1
  <2>2. CASE d # c
    <3>1. d \in Leases(ledger) /\ M[d] = ledger[d]
      BY <1>1, <2>2 DEF Leases
    <3> QED BY <1>5, <3>1 DEF ListedIn
  <2> QED BY <2>1, <2>2
<1>6. ASSUME SharedClaim = {}, NEW h \in Listed(M[c].preempted) PROVE h \in holdersToStop(c)
  <2>1. h \in Deploys /\ S[h] # {}
    BY <1>1 DEF Listed
  <2>2. h \notin CarriedOver(ledger, c)
    BY <1>6, CarriedFrom DEF Dropped
  <2> QED BY <1>2, <2>1, <2>2
<1> QED BY <1>3, <1>5, <1>6 DEF ListedIn

LEMMA GrantAnswers ==
  ASSUME TypeOK, StrandInv, NEW p \in Procs, NEW c \in Deploys, NEW from \in Donors(ledger, c),
         NEW M, IsGrant(M, p, c, StoppedFor(c, from), Dropped(ledger, c)), ledger[c] = NoLease
  PROVE  /\ Answered(M)
         /\ SharedClaim = {} => Listed(M[c].preempted) \cap owed = {}
<1>1. holdersToStop(c) \cap owed = {} /\ Answered(ledger) /\ owed \subseteq Deploys
  BY DEF StrandInv, holdersToStop, TypeOK
<1>2. /\ \A h \in Deploys : ListedIn(ledger, h) => ListedIn(M, h)
      /\ SharedClaim = {} => Listed(M[c].preempted) \subseteq holdersToStop(c)
  BY GrantLists
<1> QED BY <1>1, <1>2 DEF Answered

LEMMA StrandDecide ==
  ASSUME NoReconcile, Orderly, Books, StrandInv, NEW p \in Procs,
         DecideExclusive(p) \/ DecideShared(p)
  PROVE  Answers(p)' /\ UNCHANGED <<ledger, running, owed>>
<1> USE DEF Books, TypeInv
<1> DEFINE c == job[p].who
<1>0. c \in Deploys /\ owed \cap running = {} /\ Answered(ledger)
  BY JobFields DEF TypeOK, StrandInv
<1>1. CASE DecideExclusive(p)
  <2> DEFINE own == holdersToStop(c)
             owe == CarriedOver(ledger, c)
             live == Dropped(ledger, c) \cap running
  <2>1. PICK from \in Donors(ledger, c) : Decided(p, Granted(p, c, from), own, owe, live)
    BY <1>1, DecideExclusiveEffect
  <2> DEFINE M == Granted(p, c, from)
  <2>2. ledger[c] = NoLease
    BY <1>1, DecideExclusiveEffect DEF Admissible
  <2>3. Answered(M) /\ (SharedClaim = {} => Listed(M[c].preempted) \cap owed = {})
    BY <1>0, <2>2, GrantFields, GrantAnswers
  <2>4. own \cap owed = {}
    BY <1>0 DEF holdersToStop
  <2> HIDE DEF own, owe, live, M
  <2>5. /\ job'[p].mem = M /\ job'[p].todo = own /\ job'[p].who = c /\ pc'[p] = "append"
        /\ UNCHANGED <<ledger, running, owed>>
    BY <2>1 DEF Decided, Alone, M
  <2>6. Answered(job[p].mem)'
    BY <2>3, <2>5 DEF Answered
  <2> HIDE DEF c
  <2> QED BY <2>3, <2>4, <2>5, <2>6 DEF Answers, Orderly
<1>2. CASE DecideShared(p)
  <2> DEFINE own == FreshShared(c)
             M == GrantedShared(p, c)
  <2>1. Decided(p, M, own, job[p].later, job[p].pods) /\ ledger[c] = NoLease /\ c \in SharedClaim
    BY <1>2, DecideSharedEffect DEF Admissible
  <2>2. IsGrant(M, p, c, StoppedForShared(c), {})
    BY <1>0, SharedFields
  <2>3. own \cap owed = {}
    BY <1>0 DEF FreshShared, holdersToStop
  <2> HIDE DEF own, M
  <2>4. Answered(M)
    <3> SUFFICES ASSUME NEW h \in owed PROVE ListedIn(M, h)
      BY DEF Answered
    <3>1. PICK d \in Leases(ledger) : ledger[d].preempted[h] # {}
      BY <1>0 DEF Answered, ListedIn
    <3>2. d \in Deploys \ {c} /\ M[d] = ledger[d]
      BY <2>1, <2>2 DEF Leases, IsGrant
    <3> QED BY <3>1, <3>2 DEF ListedIn, Leases
  <2>5. /\ job'[p].mem = M /\ job'[p].todo = own /\ job'[p].who = c /\ pc'[p] = "append"
        /\ UNCHANGED <<ledger, running, owed>>
    BY <2>1 DEF Decided, Alone
  <2>6. Answered(job[p].mem)'
    BY <2>4, <2>5 DEF Answered
  <2>7. "stop" \notin Faults
    BY <2>1 DEF Orderly
  <2> QED BY <2>3, <2>5, <2>6, <2>7 DEF Answers
<1> QED BY <1>1, <1>2

LEMMA StrandAcquire ==
  ASSUME NoReconcile, Orderly, Books, StrandInv, NEW p \in Procs,
         \/ Reacquire(p) \/ Refuse(p) \/ Append(p)
         \/ StopsEnd(p) \/ FlipEnd(p) \/ Drop(p) \/ ClearBed(p) \/ BringUp(p) \/ BootBed(p)
         \/ CheckEnd(p)
         \/ \E h \in Deploys : Stop(p, h) \/ StopFails(p, h) \/ Rollback(p, h)
         \/ \E t \in GpuTokens : Flip(p, t) \/ FlipFails(p, t)
  PROVE  /\ Answers(p)' /\ Answered(ledger)' /\ (owed \cap running = {})'
         /\ owed' \subseteq owed \/ lock = p
<1> USE DEF Books, TypeInv
<1>0. /\ Answers(p) /\ Answered(ledger) /\ owed \cap running = {} /\ Copy(p) /\ AtWork(p)
      /\ job[p].who \in Deploys /\ owed \subseteq Deploys /\ ledger \in Ledger
  BY JobFields DEF StrandInv, CopyInv, LockInv, TypeOK
<1> DEFINE c == job[p].who
           M == job[p].mem
           Still == /\ ledger' = ledger
                    /\ \/ running' \subseteq running /\ owed' = owed
                       \/ \E h \in Deploys : running' \subseteq running \cup {h} /\ owed' = owed \ {h}
           Goal == /\ Answers(p)' /\ Answered(ledger)' /\ (owed \cap running = {})'
                   /\ owed' \subseteq owed \/ lock = p
<1>01. Still => Answered(ledger)' /\ (owed \cap running = {})' /\ owed' \subseteq owed
  BY <1>0 DEF Answered
<1>1. ASSUME \/ Reacquire(p) \/ Refuse(p) \/ FlipEnd(p) \/ ClearBed(p) \/ BringUp(p) \/ BootBed(p)
             \/ CheckEnd(p)
      PROVE Goal
  <2>1. pc'[p] \notin Trimming \cup Claiming
    BY <1>1, ReacquireEffect, RefuseEffect, FlipEndEffect, ClearBedEffect, BringUpEffect,
       BootBedEffect, CheckEndEffect DEF Ends, Trimming, Claiming
  <2>2. Still
    BY <1>0, <1>1, ReacquireEffect, RefuseEffect, FlipEndEffect, ClearBedEffect, BringUpEffect,
       BootBedEffect, CheckEndEffect
  <2> QED BY <1>01, <2>1, <2>2, AnswersIdle
<1>2. ASSUME Append(p) PROVE Goal
  <2>1. /\ ledger' = M /\ UNCHANGED <<owed, running>> /\ pc[p] = "append" /\ pc'[p] = "stop"
        /\ job'[p].mem = M /\ job'[p].todo = job[p].todo /\ job'[p].done = job[p].done
        /\ job'[p].who = c
    BY <1>2, AppendEffect DEF SameCopy, SameLists, Alone
  <2>2. Answered(ledger)' /\ Answered(job[p].mem)'
    BY <1>0, <2>1 DEF Answers, Answered, Claiming
  <2> QED BY <1>0, <2>1, <2>2 DEF Answers
<1>3. ASSUME StopsEnd(p) PROVE Goal
  <2>1. Still /\ owed' = owed /\ pc[p] = "stop" /\ pc'[p] = "flip" /\ job'[p].mem = M
    BY <1>3, StopsEndEffect DEF SameCopy
  <2> QED BY <1>0, <1>01, <2>1, AnswersSame DEF Claiming
<1>4. ASSUME NEW t \in GpuTokens, Flip(p, t) PROVE Goal
  <2>1. Still /\ owed' = owed /\ pc[p] = "flip" /\ pc'[p] = "flip" /\ job'[p].mem = M
    BY <1>4, FlipEffect DEF SameCopy
  <2> QED BY <1>0, <1>01, <2>1, AnswersSame DEF Claiming
<1>5. ASSUME Drop(p) PROVE Goal
  <2>1. /\ pc[p] = "rollback" /\ job[p].todo = {} /\ ledger' = Without(ledger, c)
        /\ UNCHANGED <<owed, running>> /\ pc'[p] \notin Trimming \cup Claiming
    BY <1>5, DropEffect DEF Ends, Trimming, Claiming
  <2>2. M = ledger /\ \A h \in owed : ListedIn(Without(M, c), h)
    BY <1>0, <2>1 DEF Copy, Answers
  <2>3. Answered(ledger)'
    BY <2>1, <2>2 DEF Answered
  <2> QED BY <1>0, <2>1, <2>3, AnswersIdle
<1>6. ASSUME NEW h \in Deploys, Stop(p, h) PROVE Goal
  <2>1. /\ pc[p] = "stop" /\ pc'[p] = "stop" /\ job'[p].mem = M /\ job'[p].who = c
        /\ job'[p].todo = job[p].todo \ {h} /\ job'[p].done = job[p].done \cup {h}
        /\ running' = running \ {h} /\ ledger' = ledger
        /\ owed' = owed \/ (owed' = owed \cup {h} /\ h \in Listed(M[c].preempted))
    BY <1>6, StopEffect DEF SameCopy, Alone
  <2>2. lock = p /\ M = ledger /\ M[c] # NoLease
    BY <1>0, <2>1 DEF AtWork, Copy, Holding, Claiming
  <2>3. Answered(ledger)' /\ Answered(job[p].mem)'
    <3>1. \A g \in owed' : ListedIn(ledger, g)
      <4>1. h \in Listed(M[c].preempted) => ListedIn(ledger, h)
        BY <1>0, <2>2 DEF Listed, ListedIn, Leases
      <4> QED BY <1>0, <2>1, <4>1 DEF Answered
    <3> QED BY <2>1, <2>2, <3>1 DEF Answered
  <2>4. (owed \cap running = {})'
    BY <1>0, <2>1
  <2>5. Answers(p)'
    BY <1>0, <2>1, <2>3 DEF Answers
  <2> QED BY <2>2, <2>3, <2>4, <2>5
<1>7. ASSUME NEW h \in Deploys, StopFails(p, h) PROVE Goal
  <2>1. /\ pc[p] = "stop" /\ pc'[p] = "rollback" /\ job'[p].mem = M /\ job'[p].who = c
        /\ job'[p].todo = job[p].done /\ "stop" \in Faults /\ UNCHANGED <<ledger, running, owed>>
    BY <1>7, StopFailsEffect DEF SameCopy, Alone, Orderly
  <2>2. Answered(M) /\ Listed(M[c].preempted) \cap owed \subseteq job[p].done
    BY <1>0, <2>1 DEF Answers, Claiming
  <2>3. ASSUME NEW g \in owed, g \notin job[p].done PROVE ListedIn(Without(M, c), g)
    <3>1. PICK d \in Leases(M) : M[d].preempted[g] # {}
      BY <2>2 DEF Answered, ListedIn
    <3>2. d # c
      BY <1>0, <2>2, <2>3, <3>1 DEF Listed
    <3>3. M \in Ledger
      BY JobFields DEF TypeOK
    <3>4. d \in Leases(Without(M, c)) /\ Without(M, c)[d] = M[d]
      BY <3>2, <3>3 DEF Without, Leases, Ledger
    <3> QED BY <3>1, <3>4 DEF ListedIn
  <2>4. Answered(job[p].mem)'
    BY <2>1, <2>2 DEF Answered
  <2>5. Answers(p)'
    BY <2>1, <2>3, <2>4 DEF Answers
  <2> QED BY <1>01, <2>1, <2>5
<1>8. ASSUME NEW t \in GpuTokens, FlipFails(p, t) PROVE Goal
  <2>1. /\ pc[p] = "flip" /\ pc'[p] = "rollback" /\ job'[p].mem = M /\ job'[p].who = c
        /\ job'[p].todo = Listed(M[c].preempted) /\ UNCHANGED <<ledger, running, owed>>
    BY <1>8, FlipFailsEffect DEF SameCopy, Alone
  <2>2. Answered(M)
    BY <1>0, <2>1 DEF Answers, Claiming
  <2>3. ASSUME NEW g \in owed, g \notin Listed(M[c].preempted) PROVE ListedIn(Without(M, c), g)
    <3>1. PICK d \in Leases(M) : M[d].preempted[g] # {}
      BY <2>2 DEF Answered, ListedIn
    <3>2. d # c
      BY <1>0, <2>3, <3>1 DEF Listed
    <3>3. M \in Ledger
      BY JobFields DEF TypeOK
    <3>4. d \in Leases(Without(M, c)) /\ Without(M, c)[d] = M[d]
      BY <3>2, <3>3 DEF Without, Leases, Ledger
    <3> QED BY <3>1, <3>4 DEF ListedIn
  <2>4. Answered(job[p].mem)'
    BY <2>1, <2>2 DEF Answered
  <2>5. Answers(p)'
    BY <2>1, <2>3, <2>4 DEF Answers
  <2> QED BY <1>01, <2>1, <2>5
<1>9. ASSUME NEW h \in Deploys, Rollback(p, h) PROVE Goal
  <2>1. /\ pc[p] = "rollback" /\ pc'[p] = "rollback" /\ job'[p].mem = M /\ job'[p].who = c
        /\ job'[p].todo = job[p].todo \ {h} /\ ledger' = ledger
        /\ \/ h \in running /\ UNCHANGED <<running, owed>>
           \/ running' = running \cup {h} /\ owed' = owed \ {h}
    BY <1>9, RollbackEffect DEF SameCopy, Alone, Orderly
  <2>2. owed' \subseteq owed /\ h \notin owed' /\ Still
    BY <1>0, <2>1
  <2>3. Answered(job[p].mem)'
    BY <1>0, <2>1, <2>2 DEF Answers, Answered, Claiming
  <2>4. \A g \in owed : g \in job[p].todo \/ ListedIn(Without(M, c), g)
    BY <1>0, <2>1 DEF Answers
  <2>5. Answers(p)'
    BY <2>1, <2>2, <2>3, <2>4 DEF Answers
  <2> QED BY <1>01, <2>2, <2>5
<1> HIDE DEF Goal
<1>10. Goal
  BY <1>1, <1>2, <1>3, <1>4, <1>5, <1>6, <1>7, <1>8, <1>9
<1> QED BY <1>10 DEF Goal

LEMMA StrandStep ==
  ASSUME NoReconcile, Orderly, Books, StrandInv, NEW p \in Procs, Step(p)
  PROVE  StrandInv'
<1> USE DEF Books, TypeInv
<1>1. /\ Answers(p)' /\ Answered(ledger)' /\ (owed \cap running = {})'
      /\ owed' \subseteq owed \/ lock = p
  <2>1. ASSUME DecideExclusive(p) \/ DecideShared(p)
        PROVE  Answers(p)' /\ Answered(ledger)' /\ (owed \cap running = {})' /\ owed' = owed
    BY <2>1, StrandDecide DEF StrandInv, Answered
  <2> QED BY <2>1, StrandRelease, StrandAcquire DEF Step
<1>2. ASSUME NEW q \in Procs \ {p} PROVE Answers(q)'
  <2>1. pc'[q] = pc[q] /\ job'[q] = job[q] /\ Answers(q)
    BY StepOnward DEF Onward, Alone, StrandInv
  <2>2. CASE pc[q] \in Holding
    <3>1. owed' \subseteq owed
      BY <1>1, <2>2 DEF LockInv, AtWork
    <3> QED BY <2>1, <3>1, AnswersStays
  <2>3. CASE pc[q] \notin Holding
    BY <2>1, <2>3, AnswersIdle DEF Holding
  <2> QED BY <2>2, <2>3
<1> QED BY <1>1, <1>2 DEF StrandInv

LEMMA StrandNext ==
  ASSUME NoReconcile, Orderly, Books, StrandInv, [Next]_vars
  PROVE  StrandInv'
<1> USE DEF Books, TypeInv
<1>1. ASSUME NEW p \in Procs, NEW o \in AllCommands, NEW d \in Deploys, Begin(p, o, d)
      PROVE  StrandInv'
  <2>1. /\ \A q \in Procs \ {p} : pc'[q] = pc[q] /\ job'[q] = job[q]
        /\ pc'[p] \in {"halt", "wait", "relwait"} /\ UNCHANGED <<ledger, running, owed>>
    BY <1>1, BeginEffect, BeginLock, ZenonT(60) DEF AllCommands
  <2>2. Answers(p)'
    BY <2>1, AnswersIdle DEF Trimming, Claiming
  <2>3. ASSUME NEW q \in Procs \ {p} PROVE Answers(q)'
    BY <2>1, AnswersStays DEF StrandInv
  <2> QED BY <2>1, <2>2, <2>3 DEF StrandInv, Answered
<1>2. ASSUME NEW p \in Procs, Crash(p) PROVE StrandInv'
  <2>1. /\ \A q \in Procs \ {p} : pc'[q] = pc[q] /\ job'[q] = job[q]
        /\ pc'[p] = "done" /\ UNCHANGED <<ledger, running, owed>>
    BY <1>2, CrashEffect DEF Ends, Alone
  <2>2. Answers(p)'
    BY <2>1, AnswersIdle DEF Trimming, Claiming
  <2>3. ASSUME NEW q \in Procs \ {p} PROVE Answers(q)'
    BY <2>1, AnswersStays DEF StrandInv
  <2> QED BY <2>1, <2>2, <2>3 DEF StrandInv, Answered
<1>3. CASE Reboot
  <2>1. (\A q \in Procs : pc'[q] \notin Trimming \cup Claiming) /\ running' = {}
        /\ UNCHANGED <<ledger, owed>>
    BY <1>3, RebootEffect DEF ownerAlive, Trimming, Claiming
  <2> QED BY <2>1, AnswersIdle DEF StrandInv, Answered
<1>4. CASE OnHost
  <2>1. owed' \subseteq owed /\ UNCHANGED <<ledger, pc, job>> /\ (owed \cap running = {})'
    BY <1>4 DEF OnHost, StrandInv
  <2> QED BY <2>1, AnswersStays DEF StrandInv, Answered
<1>5. CASE UNCHANGED vars
  <2>1. UNCHANGED <<ledger, pc, job, running, owed>>
    BY <1>5 DEF vars
  <2> QED BY <2>1, AnswersStays DEF StrandInv, Answered
<1> QED BY <1>1, <1>2, <1>3, <1>4, <1>5, StrandStep, WorldEffect DEF Next, Quiet

LEMMA StrandInit == Init => StrandInv
BY DEF Init, StrandInv, Answers, Answered, Trimming, Claiming

\* Crash safety: through kills and reboots anywhere, stops that fail, switches that
\* fail or wedge and releases that fail, a stopped holder is on some lease on disk.
THEOREM NobodyStranded ==
  ASSUME NoReconcile, Orderly
  PROVE  Spec => []NoStrandedHolder
<1>1. Init => Books /\ StrandInv
  BY BooksInit, StrandInit
<1>2. Books /\ StrandInv /\ [Next]_vars => Books' /\ StrandInv'
  BY BooksNext, StrandNext
<1>3. StrandInv => NoStrandedHolder
  BY DEF StrandInv, Answered, ListedIn, NoStrandedHolder
<1> QED BY <1>1, <1>2, <1>3, PTL DEF Spec

-----------------------------------------------------------------------------
(* The arbiter implements the claim table.                                 *)

\* What the claim table has no step for: reboots and deployments that go down by
\* themselves, and what strands a holder.
Tabled ==
  /\ NoReconcile /\ Claimants /\ Orderly
  /\ "down" \notin Faults
  /\ MaxReboots = 0

\* A release or a reconcile: the copy lists no other holder than the file, and the
\* holders it no longer lists are up.
Forgets(M) ==
  \A h \in Deploys :
    /\ ListedIn(M, h) => ListedIn(ledger, h)
    /\ ListedIn(ledger, h) => ListedIn(M, h) \/ h \in running

\* An acquire: the copy is the file with the new claim in it, and it lists no other
\* holder than the file but those it is going to stop.
Takes(M, c, own) ==
  /\ Requires[c] # {} /\ ledger[c] = NoLease
  /\ Leases(M) = {d \in Leases(ledger) : Overlap(c, d) => c \in SharedClaim} \cup {c}
  /\ \A d \in Leases(ledger) : Overlap(c, d) => d \in SharedClaim
  /\ \A h \in Deploys : /\ ListedIn(ledger, h) => ListedIn(M, h)
                        /\ ListedIn(M, h) => ListedIn(ledger, h) \/ h \in own

Pays(p) ==
  /\ pc[p] \notin Trimming => ~job[p].dirty
  /\ pc[p] \in Trimming => Forgets(job[p].mem)
  /\ pc[p] = "restore" /\ ~job[p].bad =>
       ToRestore(job[p].mem, job[p].cur, job[p].rel => job[p].good) \subseteq job[p].todo \cup running
  /\ pc[p] \in Trimming /\ (job[p].dirty \/ pc[p] \in {"unflip", "flush", "commit"}) =>
       Leases(job[p].mem) # Leases(ledger)
  /\ pc[p] = "append" => Takes(job[p].mem, job[p].who, job[p].todo)
  /\ pc[p] \in {"append", "stop"} =>
       /\ job[p].todo \subseteq running
       /\ "stop" \in Faults =>
            Listed(job[p].mem[job[p].who].preempted) \subseteq job[p].done \cup running
  /\ pc[p] = "rollback" =>
       Listed(job[p].mem[job[p].who].preempted) \subseteq job[p].todo \cup running

PayInv == \A p \in Procs : Pays(p)

LEMMA PaysIdle ==
  ASSUME NEW p \in Procs, pc'[p] \notin Trimming \cup Claiming, ~job'[p].dirty
  PROVE  Pays(p)'
BY DEF Pays, Trimming, Claiming

LEMMA ListedHolds ==
  ASSUME NEW L, Owned(L), NEW h \in Deploys
  PROVE  /\ \A c \in Leases(L) : h \in Listed(L[c].preempted) => Holds[h] # {}
         /\ ListedIn(L, h) => Holds[h] # {}
BY DEF Owned, Listed, ListedIn

\* The holders on the lists of a process that has the flock.
LEMMA PaysForHolders ==
  ASSUME Books, NEW p \in Procs, pc[p] \in Trimming \cup Claiming
  PROVE  /\ \A h \in Deploys : ListedIn(ledger, h) => Holds[h] # {}
         /\ pc[p] = "restore" =>
              \A h \in ToRestore(job[p].mem, job[p].cur, job[p].rel => job[p].good) :
                h \in Deploys /\ Holds[h] # {}
         /\ pc[p] \in Claiming =>
              \A h \in Listed(job[p].mem[job[p].who].preempted) : h \in Deploys /\ Holds[h] # {}
         /\ pc[p] \in {"append", "stop"} => \A h \in job[p].todo : h \in Deploys /\ Holds[h] # {}
<1> USE DEF Books, TypeInv
<1>1. Owned(ledger) /\ Owned(job[p].mem) /\ Copy(p) /\ job[p].who \in Deploys
      /\ job[p].todo \subseteq Deploys
  BY JobFields DEF OwnerInv, CopyInv, TypeOK
<1>2. \A h \in Deploys : ListedIn(ledger, h) => Holds[h] # {}
  BY <1>1, ListedHolds
<1>3. ASSUME pc[p] = "restore", NEW h \in ToRestore(job[p].mem, job[p].cur, job[p].rel => job[p].good)
      PROVE  h \in Deploys /\ Holds[h] # {}
  <2>1. h \in Deploys /\ h \in Listed(job[p].mem[job[p].cur].preempted)
    BY <1>3 DEF ToRestore, Listed
  <2>2. job[p].cur \in Leases(job[p].mem)
    BY <1>3 DEF Releasing
  <2> QED BY <1>1, <2>1, <2>2, ListedHolds
<1>4. ASSUME pc[p] \in Claiming, NEW h \in Listed(job[p].mem[job[p].who].preempted)
      PROVE  h \in Deploys /\ Holds[h] # {}
  <2>1. h \in Deploys
    BY <1>4 DEF Listed
  <2>2. job[p].who \in Leases(job[p].mem)
    BY <1>1, <1>4 DEF Copy, Leases
  <2> QED BY <1>1, <1>4, <2>1, <2>2, ListedHolds
<1>5. ASSUME pc[p] \in {"append", "stop"}, NEW h \in job[p].todo
      PROVE  h \in Deploys /\ h \in Listed(job[p].mem[job[p].who].preempted)
  BY <1>1, <1>5 DEF Copy, Accounted, Listed
<1> QED BY <1>2, <1>3, <1>4, <1>5 DEF Claiming

LEMMA PaysOthers ==
  ASSUME Books, PayInv, NEW p \in Procs, pc'[p] = pc[p], job'[p] = job[p],
         pc[p] \in Holding => /\ ledger' = ledger
                              /\ \A h \in Deploys : Holds[h] # {} /\ h \in running => h \in running'
  PROVE  Pays(p)'
<1>0. Pays(p)
  BY DEF PayInv
<1>1. CASE pc[p] \notin Trimming \cup Claiming
  BY <1>0, <1>1, PaysIdle DEF Pays
<1>2. CASE pc[p] \in Trimming \cup Claiming
  <2>1. ledger' = ledger /\ \A h \in Deploys : Holds[h] # {} /\ h \in running => h \in running'
    BY <1>2 DEF Holding
  <2>2. pc[p] \in Trimming => Forgets(job[p].mem)'
    <3> SUFFICES ASSUME pc[p] \in Trimming, NEW h \in Deploys
                 PROVE  /\ ListedIn(job[p].mem, h) => ListedIn(ledger, h)
                        /\ ListedIn(ledger, h) => ListedIn(job[p].mem, h) \/ h \in running'
      BY <2>1 DEF Forgets, ListedIn, Leases
    <3> QED BY <1>0, <1>2, <2>1, PaysForHolders DEF Pays, Forgets
  <2>3. pc[p] = "append" => Takes(job[p].mem, job[p].who, job[p].todo)'
    BY <1>0, <2>1 DEF Pays, Takes, ListedIn, Leases
  <2> QED BY <1>0, <1>2, <2>1, <2>2, <2>3, PaysForHolders DEF Pays, Claiming, Leases
<1> QED BY <1>1, <1>2

\* A process that does not have the flock stops no holder.
LEMMA HoldersStay ==
  ASSUME NoReconcile, Claimants, Books, NEW p \in Procs, Step(p), lock # p
  PROVE  \A h \in Deploys : Holds[h] # {} /\ h \in running => h \in running'
<1> USE DEF Books, TypeInv
<1>1. Holds[job[p].who] = {}
  <2>1. ownerAlive(p)
    BY StepOnward DEF Onward
  <2>2. <<job[p].op, job[p].who>> \in Workload /\ job[p].op \in AllCommands /\ job[p].who \in Deploys
    BY <2>1, OpsOf DEF LockInv, AtWork, ownerAlive
  <2> QED BY <2>2 DEF Claimants
<1> QED BY <1>1, RunningMoves

\* The steps that leave p's copy and every holder alone.
LEMMA PaysSame ==
  ASSUME NEW p \in Procs, Pays(p), pc[p] \in Trimming, pc'[p] \in Trimming,
         ledger' = ledger, running' = running, job'[p].mem = job[p].mem,
         job'[p].dirty = job[p].dirty \/ Leases(job[p].mem) # Leases(ledger),
         pc'[p] \in {"unflip", "flush", "commit"} => Leases(job[p].mem) # Leases(ledger),
         pc'[p] # "restore"
  PROVE  Pays(p)'
<1>1. Forgets(job[p].mem)'
  BY DEF Pays, Forgets, ListedIn, Leases
<1>2. Leases(ledger)' = Leases(ledger) /\ Leases(job[p].mem)' = Leases(job[p].mem)
  BY DEF Leases
<1> QED BY <1>1, <1>2 DEF Pays, Trimming

LEMMA PaysRelease ==
  ASSUME Tabled, Books, PayInv, NEW p \in Procs,
         \/ Halt(p) \/ LockAcquire(p) \/ LockRelease(p) \/ ScanEnd(p) \/ Flush(p) \/ Retain(p)
         \/ Released(p) \/ UnflipEnd(p) \/ Commit(p)
         \/ \E c \in Deploys : Visit(p, c) \/ Restore(p, c)
         \/ \E t \in GpuTokens : Unflip(p, t)
  PROVE  Pays(p)'
<1> USE DEF Books, TypeInv
<1>0. Pays(p) /\ Copy(p) /\ AtWork(p)
  BY DEF PayInv, CopyInv, LockInv
<1>1. CASE Halt(p)
  <2>1. pc'[p] \notin Trimming \cup Claiming /\ ~job'[p].dirty
    BY <1>0, <1>1, HaltEffect DEF Pays, Ends, Fresh, SameCopy, Trimming, Claiming
  <2> QED BY <2>1, PaysIdle
<1>2. CASE LockAcquire(p)
  <2>1. pc[p] = "wait" /\ pc'[p] = "scan" /\ job'[p].mem = ledger /\ job'[p].dirty = job[p].dirty
        /\ ledger' = ledger
    BY <1>2, LockAcquireEffect
  <2>2. Forgets(job[p].mem)'
    BY <2>1 DEF Forgets
  <2> QED BY <1>0, <2>1, <2>2 DEF Pays, Trimming
<1>3. CASE LockRelease(p)
  <2>1. CASE Ends(p)
    BY <2>1, PaysIdle DEF Ends, Fresh, Trimming, Claiming
  <2>2. CASE ~Ends(p)
    <3>1. /\ pc[p] = "relwait" /\ pc'[p] = "restore" /\ job'[p].mem = ledger
          /\ job'[p].dirty = job[p].dirty /\ ledger' = ledger
          /\ job'[p].rel = TRUE /\ job'[p].good = job[p].good /\ job[p].good \in BOOLEAN
          /\ job'[p].cur = job[p].who
          /\ job'[p].todo = ToRestore(ledger, job[p].who, job[p].good)
      BY <1>3, <2>2, LockReleaseEffect, JobFields DEF TypeOK
    <3>2. (job'[p].rel => job'[p].good) = job[p].good
      BY <3>1, ZenonT(30)
    <3>3. Forgets(job[p].mem)'
      BY <3>1 DEF Forgets
    <3> QED BY <1>0, <3>1, <3>2, <3>3 DEF Pays, Trimming
  <2> QED BY <2>1, <2>2
<1>4. CASE ScanEnd(p)
  <2>1. CASE job[p].dirty
    <3>1. /\ pc[p] = "scan" /\ pc'[p] = "flush" /\ job'[p].mem = job[p].mem
          /\ job'[p].dirty = job[p].dirty /\ UNCHANGED <<ledger, running>>
      BY <1>4, <2>1, ScanEndEffect DEF SameCopy
    <3>2. Leases(job[p].mem) # Leases(ledger)
      BY <1>0, <2>1, <3>1 DEF Pays, Trimming
    <3> QED BY <1>0, <3>1, <3>2, PaysSame DEF Trimming
  <2>2. CASE ~job[p].dirty
    <3>1. pc'[p] \notin Trimming \cup Claiming /\ ~job'[p].dirty
      BY <1>4, <2>2, ScanEndEffect DEF Scanned, Ends, Fresh, Trimming, Claiming
    <3> QED BY <3>1, PaysIdle
  <2> QED BY <2>1, <2>2
<1>5. CASE Flush(p) \/ Commit(p)
  <2>1. pc'[p] \notin Trimming \cup Claiming /\ ~job'[p].dirty
    BY <1>5, FlushEffect, CommitEffect DEF Scanned, Ends, Fresh, Trimming, Claiming
  <2> QED BY <2>1, PaysIdle
<1>6. CASE Retain(p)
  <2>1. CASE job[p].rel
    BY <1>6, <2>1, RetainEffect, PaysIdle DEF Ends, Fresh, Trimming, Claiming
  <2>2. CASE ~job[p].rel
    <3>1. /\ pc[p] = "restore" /\ pc'[p] = "scan" /\ job'[p].mem = job[p].mem
          /\ job'[p].dirty = job[p].dirty /\ UNCHANGED <<ledger, running>>
      BY <1>6, <2>2, RetainEffect
    <3> QED BY <1>0, <3>1, PaysSame DEF Trimming
  <2> QED BY <2>1, <2>2
<1>7. CASE Released(p)
  <2> DEFINE L == job[p].mem
             c == job[p].cur
             good == job[p].rel => job[p].good
  <2>1. PICK heir \in Heirs(L, c, good) : job'[p].mem = Attach(L, c, heir)
    BY <1>7, ReleasedEffect
  <2>2. L \in Ledger /\ c \in Leases(L) /\ good \in BOOLEAN
    BY <1>7, JobFields DEF TypeOK, Released, Releasing
  <2>3. /\ pc[p] = "restore" /\ pc'[p] = "unflip" /\ UNCHANGED <<ledger, running>>
        /\ job[p].todo = {} /\ ~job[p].bad
    BY <1>7, ReleasedEffect
  <2>4. Forgets(L) /\ ToRestore(L, c, good) \subseteq running
    BY <1>0, <2>3 DEF Pays, Trimming
  <2>5. Leases(L) \subseteq Leases(ledger)
    BY <1>0, <2>3 DEF Copy, Within, Trimming
  <2> HIDE DEF L, c, good
  <2> DEFINE A == Attach(L, c, heir)
  <2>6. Leases(A) = Leases(L) \ {c}
    BY <2>2, AttachFields
  <2>7. \A h \in Deploys : /\ ListedIn(L, h) => ListedIn(A, h) \/ h \in ToRestore(L, c, good)
                           /\ ListedIn(A, h) => ListedIn(L, h)
    BY <2>2, AttachLists DEF Tabled, Orderly
  <2> HIDE DEF A
  <2>8. Forgets(A)
    BY <2>4, <2>7 DEF Forgets
  <2>9. Forgets(job[p].mem)'
    BY <2>1, <2>3, <2>8 DEF Forgets, ListedIn, A
  <2>10. Leases(A) # Leases(ledger)
    BY <2>2, <2>5, <2>6
  <2>11. (Leases(job[p].mem) # Leases(ledger))'
    BY <2>1, <2>3, <2>10 DEF Leases, A
  <2> QED BY <2>3, <2>9, <2>11 DEF Pays, Trimming
<1>8. CASE UnflipEnd(p)
  <2>1. /\ pc[p] = "unflip" /\ pc'[p] \in {"commit", "scan"} /\ job'[p].mem = job[p].mem
        /\ UNCHANGED <<ledger, running>>
    BY <1>8, UnflipEndEffect
  <2>2. Leases(job[p].mem) # Leases(ledger)
    BY <1>0, <2>1 DEF Pays, Trimming
  <2> QED BY <1>0, <2>1, <2>2, PaysSame DEF Trimming
<1>9. ASSUME NEW c \in Deploys, Visit(p, c) PROVE Pays(p)'
  <2>1. /\ pc[p] = "scan" /\ job'[p].mem = job[p].mem /\ job'[p].rel = job[p].rel
        /\ job'[p].dirty = job[p].dirty /\ UNCHANGED <<ledger, running>>
    BY <1>9, VisitEffect DEF SameFlags
  <2>2. CASE pc'[p] = "scan"
    BY <1>0, <2>1, <2>2, PaysSame DEF Trimming
  <2>3. CASE pc'[p] # "scan"
    <3>1. /\ pc'[p] = "restore" /\ job'[p].cur = c
          /\ job'[p].todo = ToRestore(job[p].mem, c, TRUE)
      BY <1>9, <2>3, VisitEffect
    <3>2. (job'[p].rel => job'[p].good) = TRUE
      <4>1. ~job[p].rel
        BY <1>0, <2>1 DEF AtWork
      <4> QED BY <2>1, <4>1, ZenonT(30)
    <3>3. Forgets(job[p].mem)' /\ Leases(ledger)' = Leases(ledger)
          /\ Leases(job[p].mem)' = Leases(job[p].mem)
      BY <1>0, <2>1 DEF Pays, Forgets, ListedIn, Leases, Trimming
    <3> QED BY <1>0, <2>1, <3>1, <3>2, <3>3 DEF Pays, Trimming
  <2> QED BY <2>2, <2>3
<1>10. ASSUME NEW h \in Deploys, Restore(p, h) PROVE Pays(p)'
  <2>1. /\ pc[p] = "restore" /\ pc'[p] = "restore" /\ job'[p].mem = job[p].mem
        /\ job'[p].cur = job[p].cur /\ job'[p].rel = job[p].rel /\ job'[p].good = job[p].good
        /\ job'[p].todo = job[p].todo \ {h} /\ ledger' = ledger /\ running \subseteq running'
        /\ job'[p].dirty = job[p].dirty
        /\ job'[p].bad \/ (h \in running' /\ job'[p].bad = job[p].bad)
    BY <1>10, RestoreEffect, ZenonT(30) DEF SameCopy
  <2>2. Forgets(job[p].mem)' /\ Leases(ledger)' = Leases(ledger)
        /\ Leases(job[p].mem)' = Leases(job[p].mem)
    BY <1>0, <2>1 DEF Pays, Forgets, ListedIn, Leases, Trimming
  <2> QED BY <1>0, <2>1, <2>2 DEF Pays, Trimming
<1>11. ASSUME NEW t \in GpuTokens, Unflip(p, t) PROVE Pays(p)'
  <2>1. /\ pc[p] = "unflip" /\ pc'[p] = "unflip" /\ job'[p].mem = job[p].mem
        /\ job'[p].dirty = job[p].dirty /\ UNCHANGED <<ledger, running>>
    BY <1>11, UnflipEffect DEF SameCopy
  <2>2. Leases(job[p].mem) # Leases(ledger)
    BY <1>0, <2>1 DEF Pays, Trimming
  <2> QED BY <1>0, <2>1, <2>2, PaysSame DEF Trimming
<1> QED BY <1>1, <1>2, <1>3, <1>4, <1>5, <1>6, <1>7, <1>8, <1>9, <1>10, <1>11

LEMMA PaysDecide ==
  ASSUME Tabled, Books, PayInv, NEW p \in Procs, DecideExclusive(p) \/ DecideShared(p)
  PROVE  Pays(p)'
<1> USE DEF Books, TypeInv
<1> DEFINE c == job[p].who
<1>0. c \in Deploys /\ Pays(p) /\ Copy(p)
  BY JobFields DEF TypeOK, PayInv, CopyInv
<1>1. /\ pc[p] = "decide" /\ Requires[c] # {} /\ ledger[c] = NoLease
      /\ \A d \in Leases(ledger) : Overlap(c, d) => d \in SharedClaim
  <2>1. Admissible(p)
    BY DecideExclusiveEffect, DecideSharedEffect
  <2>2. <<job[p].op, c>> \in Workload /\ job[p].op \in AllCommands
    BY <2>1, OpsOf DEF Tabled, LockInv, AtWork, Admissible
  <2> QED BY <1>0, <2>1, <2>2 DEF Tabled, Claimants, Admissible, ClaimedExclusively
<1>2. CASE DecideExclusive(p)
  <2> DEFINE own == holdersToStop(c)
             owe == CarriedOver(ledger, c)
             live == Dropped(ledger, c) \cap running
  <2>1. PICK from \in Donors(ledger, c) : Decided(p, Granted(p, c, from), own, owe, live)
    BY <1>2, DecideExclusiveEffect
  <2> DEFINE M == Granted(p, c, from)
  <2>2. IsGrant(M, p, c, StoppedFor(c, from), Dropped(ledger, c))
    BY <1>0, GrantFields
  <2>3. /\ \A h \in Deploys : ListedIn(ledger, h) => ListedIn(M, h)
        /\ \A h \in Deploys : ListedIn(M, h) => ListedIn(ledger, h) \/ h \in own
        /\ SharedClaim = {} => Listed(M[c].preempted) \subseteq own
    BY <1>0, <1>1, <2>2, GrantLists
  <2>4. own \subseteq running /\ c \notin SharedClaim
    BY <1>2, DecideExclusiveEffect DEF holdersToStop
  <2> HIDE DEF M
  <2>5. Leases(M) = {d \in Leases(ledger) : Overlap(c, d) => c \in SharedClaim} \cup {c}
    <3> HIDE DEF c
    <3>1. /\ M[c] # NoLease
          /\ \A d \in Deploys \ {c} : M[d] = IF d \in Dropped(ledger, c) THEN NoLease ELSE ledger[d]
      BY <2>2 DEF IsGrant, IsNewLease
    <3>2. \A d \in Leases(ledger) : d \in Dropped(ledger, c) <=> Overlap(c, d)
      BY <1>1 DEF Dropped
    <3> QED BY <1>0, <1>1, <2>4, <3>1, <3>2 DEF Leases
  <2> HIDE DEF own, owe, live
  <2>6. /\ job'[p].mem = M /\ job'[p].todo = own /\ job'[p].who = c /\ pc'[p] = "append"
        /\ job'[p].dirty = job[p].dirty /\ UNCHANGED <<ledger, running>>
    BY <2>1 DEF Decided, Alone, M
  <2> HIDE DEF c
  <2>7. Takes(M, c, own)
    BY <1>1, <2>3, <2>5 DEF Takes
  <2>8. Takes(job[p].mem, job[p].who, job[p].todo)'
    BY <2>6, <2>7 DEF Takes, ListedIn, Leases
  <2> QED BY <1>0, <1>1, <2>3, <2>4, <2>6, <2>8 DEF Pays, Trimming, Tabled, Orderly
<1>3. CASE DecideShared(p)
  <2> DEFINE own == FreshShared(c)
             M == GrantedShared(p, c)
             S == StoppedForShared(c)
  <2>1. Decided(p, M, own, job[p].later, job[p].pods) /\ c \in SharedClaim
    BY <1>3, DecideSharedEffect
  <2>2. IsGrant(M, p, c, S, {})
    BY <1>0, SharedFields
  <2>3. own \subseteq running
    BY DEF FreshShared, holdersToStop
  <2>4. \A h \in Deploys : S[h] # {} => h \in own
    BY DEF StoppedForShared
  <2> HIDE DEF own, M, S
  <2>5. /\ job'[p].mem = M /\ job'[p].todo = own /\ job'[p].who = c /\ pc'[p] = "append"
        /\ job'[p].dirty = job[p].dirty /\ UNCHANGED <<ledger, running>>
    BY <2>1 DEF Decided, Alone
  <2> HIDE DEF c
  <2>6. /\ M[c] # NoLease /\ \A h \in Deploys : M[c].preempted[h] = S[h]
        /\ \A d \in Deploys \ {c} : M[d] = ledger[d]
    BY <2>2 DEF IsGrant, IsNewLease
  <2>7. Leases(M) = {d \in Leases(ledger) : Overlap(c, d) => c \in SharedClaim} \cup {c}
    BY <1>0, <1>1, <2>1, <2>6 DEF Leases
  <2>8. ASSUME NEW h \in Deploys
        PROVE  /\ ListedIn(ledger, h) => ListedIn(M, h)
               /\ ListedIn(M, h) => ListedIn(ledger, h) \/ h \in own
    <3>1. ASSUME NEW d \in Leases(ledger), ledger[d].preempted[h] # {} PROVE ListedIn(M, h)
      BY <1>1, <2>6, <3>1 DEF Leases, ListedIn
    <3>2. ASSUME NEW d \in Leases(M), M[d].preempted[h] # {} PROVE ListedIn(ledger, h) \/ h \in own
      BY <2>4, <2>6, <3>2 DEF Leases, ListedIn
    <3> QED BY <3>1, <3>2 DEF ListedIn
  <2>9. Takes(M, c, own)
    BY <1>1, <2>7, <2>8 DEF Takes
  <2>10. Takes(job[p].mem, job[p].who, job[p].todo)'
    BY <2>5, <2>9 DEF Takes, ListedIn, Leases
  <2>11. "stop" \notin Faults
    BY <2>1 DEF Tabled, Orderly
  <2> QED BY <1>0, <1>1, <2>3, <2>5, <2>10, <2>11 DEF Pays, Trimming
<1> QED BY <1>2, <1>3

LEMMA PaysAcquire ==
  ASSUME Tabled, Books, PayInv, NEW p \in Procs,
         \/ Reacquire(p) \/ Refuse(p) \/ Append(p)
         \/ StopsEnd(p) \/ FlipEnd(p) \/ Drop(p) \/ ClearBed(p) \/ BringUp(p) \/ BootBed(p)
         \/ CheckEnd(p)
         \/ \E h \in Deploys : Stop(p, h) \/ StopFails(p, h) \/ Rollback(p, h)
         \/ \E t \in GpuTokens : Flip(p, t) \/ FlipFails(p, t)
  PROVE  Pays(p)'
<1> USE DEF Books, TypeInv
<1>0. Pays(p)
  BY DEF PayInv
<1>1. CASE Reacquire(p) \/ ClearBed(p) \/ BootBed(p) \/ CheckEnd(p)
  <2>1. pc[p] \in {"decide", "up", "boot", "busy"} /\ pc'[p] \in {"up", "boot", "busy", "relwait"}
        /\ job'[p].dirty = job[p].dirty
    BY <1>1, ReacquireEffect, ClearBedEffect, BootBedEffect, CheckEndEffect DEF SameCopy
  <2> QED BY <1>0, <2>1, PaysIdle DEF Pays, Trimming, Claiming
<1>9. CASE Refuse(p) \/ FlipEnd(p) \/ Drop(p) \/ BringUp(p)
  <2>1. pc'[p] \in {"up", "done"} /\ Fresh(p)
    BY <1>9, RefuseEffect, FlipEndEffect, DropEffect, BringUpEffect DEF Ends
  <2>2. ~job'[p].dirty
    BY <2>1, ZenonT(30) DEF Fresh
  <2> QED BY <2>1, <2>2, PaysIdle DEF Trimming, Claiming
<1>2. CASE Append(p)
  BY <1>0, <1>2, AppendEffect DEF Pays, SameCopy, SameLists, Alone, Trimming
<1>3. CASE StopsEnd(p)
  BY <1>0, <1>3, StopsEndEffect DEF Pays, SameCopy, Trimming
<1>4. ASSUME NEW t \in GpuTokens, Flip(p, t) PROVE Pays(p)'
  BY <1>0, <1>4, FlipEffect DEF Pays, SameCopy, Trimming
<1>5. ASSUME NEW t \in GpuTokens, FlipFails(p, t) PROVE Pays(p)'
  BY <1>0, <1>5, FlipFailsEffect DEF Pays, SameCopy, Alone, Trimming
<1>6. ASSUME NEW h \in Deploys, Stop(p, h) PROVE Pays(p)'
  BY <1>0, <1>6, StopEffect DEF Pays, SameCopy, Alone, Trimming
<1>7. ASSUME NEW h \in Deploys, StopFails(p, h) PROVE Pays(p)'
  BY <1>0, <1>7, StopFailsEffect DEF Pays, SameCopy, Alone, Trimming, Tabled, Orderly
<1>8. ASSUME NEW h \in Deploys, Rollback(p, h) PROVE Pays(p)'
  BY <1>0, <1>8, RollbackEffect DEF Pays, SameCopy, Alone, Trimming, Tabled, Orderly
<1> QED BY <1>1, <1>2, <1>3, <1>4, <1>5, <1>6, <1>7, <1>8, <1>9

\* The other processes keep up with a step of p.
LEMMA PayStep ==
  ASSUME Tabled, Books, PayInv, NEW p \in Procs, Step(p)
  PROVE  PayInv'
<1> USE DEF Books, TypeInv
<1>1. Pays(p)'
  BY PaysRelease, PaysDecide, PaysAcquire DEF Step
<1>2. ASSUME NEW q \in Procs \ {p} PROVE Pays(q)'
  <2>1. pc'[q] = pc[q] /\ job'[q] = job[q]
    BY StepOnward DEF Onward, Alone, Tabled
  <2>2. ASSUME pc[q] \in Holding
        PROVE  /\ ledger' = ledger
               /\ \A h \in Deploys : Holds[h] # {} /\ h \in running => h \in running'
    <3>1. lock # p
      BY <2>2 DEF LockInv, AtWork
    <3> QED BY <3>1, LedgerLocked, HoldersStay DEF Tabled
  <2> QED BY <2>1, <2>2, PaysOthers
<1> QED BY <1>1, <1>2 DEF PayInv

LEMMA PayNext ==
  ASSUME Tabled, Books, PayInv, [Next]_vars
  PROVE  PayInv'
<1> USE DEF Books, TypeInv
<1>1. ASSUME NEW p \in Procs, NEW o \in AllCommands, NEW d \in Deploys, Begin(p, o, d)
      PROVE  PayInv'
  <2>1. /\ \A q \in Procs \ {p} : pc'[q] = pc[q] /\ job'[q] = job[q]
        /\ pc'[p] \in {"halt", "wait", "relwait"} /\ ~job'[p].dirty /\ UNCHANGED <<ledger, running>>
    BY <1>1, BeginEffect, BeginLock, ZenonT(60) DEF AllCommands, Tabled
  <2>2. Pays(p)'
    BY <2>1, PaysIdle DEF Trimming, Claiming
  <2>3. ASSUME NEW q \in Procs \ {p} PROVE Pays(q)'
    BY <2>1, PaysOthers
  <2> QED BY <2>2, <2>3 DEF PayInv
<1>2. ASSUME NEW p \in Procs, Crash(p) PROVE PayInv'
  <2>1. /\ \A q \in Procs \ {p} : pc'[q] = pc[q] /\ job'[q] = job[q]
        /\ pc'[p] = "done" /\ Fresh(p) /\ UNCHANGED <<ledger, running>>
    BY <1>2, CrashEffect DEF Ends, Alone
  <2>2. ~job'[p].dirty
    BY <2>1, ZenonT(30) DEF Fresh
  <2>3. Pays(p)'
    BY <2>1, <2>2, PaysIdle DEF Trimming, Claiming
  <2>4. ASSUME NEW q \in Procs \ {p} PROVE Pays(q)'
    BY <2>1, PaysOthers
  <2> QED BY <2>3, <2>4 DEF PayInv
<1>3. ~Reboot
  BY RebootEffect DEF Tabled, TypeOK
<1>4. CASE OnHost \/ UNCHANGED vars
  <2>1. UNCHANGED <<ledger, pc, job>> /\ running \subseteq running'
    BY <1>4 DEF OnHost, Tabled, vars
  <2>2. ASSUME NEW q \in Procs PROVE Pays(q)'
    BY <2>1, PaysOthers
  <2> QED BY <2>2 DEF PayInv
<1> QED BY <1>1, <1>2, <1>3, <1>4, PayStep, WorldEffect DEF Next, Quiet

LEMMA PayInit == Init => PayInv
<1> SUFFICES ASSUME Init, NEW p \in Procs PROVE Pays(p)
  BY DEF PayInv
<1>1. pc[p] = "new"
  BY DEF Init
<1>2. job[p].dirty = FALSE
  BY DEF Init, NewJob
<1>3. ~job[p].dirty
  BY <1>2, ZenonT(30)
<1> QED BY <1>1, <1>3 DEF Pays, Trimming, Claiming

\* The debts of the table are the holders some lease lists.
OwingIn(L) == {h \in Deploys : ListedIn(L, h)}

LEMMA OwingListed == Owing = OwingIn(ledger) /\ Owing' = OwingIn(ledger')
<1>1. \A h : h \in Owing <=> \E c \in Leases(ledger) : h \in Listed(ledger[c].preempted)
  BY DEF Owing
<1>2. \A h : h \in Owing' <=> \E c \in Leases(ledger') : h \in Listed(ledger'[c].preempted)
  BY DEF Owing, Leases, Listed
<1> QED BY <1>1, <1>2 DEF OwingIn, ListedIn, Listed

-----------------------------------------------------------------------------
(* The steps of the claim table.                                           *)

TableStep == [Promise!Next]_(Promise!table)

LEMMA MapsStutter ==
  ASSUME UNCHANGED <<ledger, running>>
  PROVE  TableStep
BY DEF TableStep, Promise!table, Owing, Leases, Listed

LEMMA MapsUp ==
  ASSUME NEW d \in Deploys, ledger' = ledger, running' = running \cup {d}
  PROVE  TableStep
<1>1. Leases(ledger)' = Leases(ledger) /\ Owing' = Owing
  BY OwingListed DEF Leases
<1>2. Promise!ComeUp(d)
  BY <1>1 DEF Promise!ComeUp
<1> QED BY <1>2 DEF TableStep, Promise!Next

LEMMA MapsDown ==
  ASSUME NEW d \in running, d \in Deploys, ledger' = ledger, running' = running \ {d},
         Requires[d] # {} \/ ListedIn(ledger, d)
  PROVE  TableStep
<1>1. Leases(ledger)' = Leases(ledger) /\ Owing' = Owing /\ (ListedIn(ledger, d) => d \in Owing)
  BY OwingListed DEF Leases, OwingIn
<1>2. Promise!GoDown(d)
  BY <1>1 DEF Promise!GoDown, Promise!Claimant
<1> QED BY <1>2 DEF TableStep, Promise!Next

LEMMA MapsRetire ==
  ASSUME NEW M, ledger' = M, running' = running, Forgets(M),
         Leases(M) \subseteq Leases(ledger), Leases(M) # Leases(ledger)
  PROVE  TableStep
<1> DEFINE gone == Leases(ledger) \ Leases(M)
<1>1. Leases(ledger)' = Leases(M)
  BY DEF Leases
<1>2. Owing' \subseteq Owing /\ Owing \ Owing' \subseteq running
  BY OwingListed DEF OwingIn, Forgets
<1>3. gone # {} /\ gone \in SUBSET Leases(ledger) /\ Leases(ledger)' = Leases(ledger) \ gone
  BY <1>1
<1> HIDE DEF gone
<1>4. Promise!Retire(gone)
  BY <1>2, <1>3 DEF Promise!Retire
<1> QED BY <1>3, <1>4 DEF TableStep, Promise!Next

LEMMA MapsGrant ==
  ASSUME NEW M, NEW c \in Deploys, NEW own, own \subseteq running,
         ledger' = M, running' = running, Takes(M, c, own)
  PROVE  TableStep
<1>1. Leases(ledger)' = Leases(M)
  BY DEF Leases
<1>2. Owing \subseteq Owing' /\ Owing' \ Owing \subseteq running
  BY OwingListed DEF OwingIn, Takes
<1>3. /\ Requires[c] # {} /\ c \notin Leases(ledger)
      /\ \A d \in Leases(ledger) : Requires[c] \cap Requires[d] # {} => d \in SharedClaim
      /\ Leases(ledger)' =
           {d \in Leases(ledger) : Requires[c] \cap Requires[d] # {} => c \in SharedClaim} \cup {c}
  BY <1>1 DEF Takes, Overlap, Leases
<1>4. Promise!Grant(c)
  BY <1>2, <1>3 DEF Promise!Grant, Promise!Claimant, Promise!Clash
<1> QED BY <1>4 DEF TableStep, Promise!Next

\* The deployment a process works on is a claimant.
LEMMA WhoClaims ==
  ASSUME Tabled, Books, NEW p \in Procs, ownerAlive(p)
  PROVE  job[p].who \in Deploys /\ Requires[job[p].who] # {}
<1>1. <<job[p].op, job[p].who>> \in Workload /\ job[p].op \in AllCommands /\ job[p].who \in Deploys
  BY OpsOf DEF Books, TypeInv, LockInv, AtWork, ownerAlive, Tabled
<1> QED BY <1>1 DEF Tabled, Claimants

LEMMA MapsRelease ==
  ASSUME Tabled, Books, PayInv, NEW p \in Procs,
         \/ Halt(p) \/ LockAcquire(p) \/ LockRelease(p) \/ ScanEnd(p) \/ Flush(p) \/ Retain(p)
         \/ Released(p) \/ UnflipEnd(p) \/ Commit(p)
         \/ \E c \in Deploys : Visit(p, c) \/ Restore(p, c)
         \/ \E t \in GpuTokens : Unflip(p, t)
  PROVE  TableStep
<1> USE DEF Books, TypeInv
<1>0. Pays(p) /\ Copy(p)
  BY DEF PayInv, CopyInv
<1>1. CASE Halt(p)
  <2>1. ledger' = ledger /\ (running' = running \/ running' = running \ {job[p].who})
        /\ pc[p] = "halt"
    BY <1>1, HaltEffect
  <2>2. job[p].who \in Deploys /\ Requires[job[p].who] # {}
    BY <2>1, WhoClaims DEF ownerAlive
  <2>3. CASE job[p].who \in running
    BY <2>1, <2>2, <2>3, MapsDown, MapsStutter
  <2>4. CASE job[p].who \notin running
    BY <2>1, <2>4, MapsStutter
  <2> QED BY <2>3, <2>4
<1>2. CASE \/ LockAcquire(p) \/ LockRelease(p) \/ ScanEnd(p) \/ Retain(p) \/ Released(p)
           \/ UnflipEnd(p) \/ \E c \in Deploys : Visit(p, c)
           \/ \E t \in GpuTokens : Unflip(p, t)
  BY <1>2, LockAcquireEffect, LockReleaseEffect, ScanEndEffect, RetainEffect, ReleasedEffect,
     UnflipEndEffect, VisitEffect, UnflipEffect, MapsStutter
<1>3. CASE Flush(p) \/ Commit(p)
  <2>1. ledger' = job[p].mem /\ running' = running /\ pc[p] \in {"flush", "commit"}
    BY <1>3, FlushEffect, CommitEffect
  <2>2. /\ Forgets(job[p].mem) /\ Leases(job[p].mem) \subseteq Leases(ledger)
        /\ Leases(job[p].mem) # Leases(ledger)
    BY <1>0, <2>1 DEF Pays, Copy, Within, Trimming
  <2> QED BY <2>1, <2>2, MapsRetire
<1>4. ASSUME NEW h \in Deploys, Restore(p, h) PROVE TableStep
  BY <1>4, RestoreEffect, MapsUp, MapsStutter
<1> QED BY <1>1, <1>2, <1>3, <1>4

LEMMA MapsAcquire ==
  ASSUME Tabled, Books, PayInv, NEW p \in Procs,
         \/ Reacquire(p) \/ Refuse(p) \/ DecideExclusive(p) \/ DecideShared(p) \/ Append(p)
         \/ StopsEnd(p) \/ FlipEnd(p) \/ Drop(p) \/ ClearBed(p) \/ BringUp(p) \/ BootBed(p)
         \/ CheckEnd(p)
         \/ \E h \in Deploys : Stop(p, h) \/ StopFails(p, h) \/ Rollback(p, h)
         \/ \E t \in GpuTokens : Flip(p, t) \/ FlipFails(p, t)
  PROVE  TableStep
<1> USE DEF Books, TypeInv
<1>0. Pays(p) /\ Copy(p) /\ job[p].who \in Deploys
  BY JobFields DEF PayInv, CopyInv, TypeOK
<1>1. CASE \/ Reacquire(p) \/ Refuse(p) \/ DecideExclusive(p) \/ DecideShared(p) \/ StopsEnd(p)
           \/ FlipEnd(p) \/ \E t \in GpuTokens : Flip(p, t) \/ FlipFails(p, t)
  BY <1>1, ReacquireEffect, RefuseEffect, DecideExclusiveEffect, DecideSharedEffect,
     StopsEndEffect, FlipEndEffect, FlipEffect, FlipFailsEffect, MapsStutter DEF Decided
<1>2. CASE Append(p)
  <2>1. /\ ledger' = job[p].mem /\ running' = running
        /\ Takes(job[p].mem, job[p].who, job[p].todo) /\ job[p].todo \subseteq running
    BY <1>0, <1>2, AppendEffect DEF Pays
  <2> QED BY <1>0, <2>1, MapsGrant
<1>3. CASE Drop(p)
  <2> DEFINE c == job[p].who
             M == Without(ledger, c)
  <2>1. /\ ledger' = M /\ running' = running /\ pc[p] = "rollback" /\ job[p].todo = {}
    BY <1>3, DropEffect
  <2>2. job[p].mem = ledger /\ ledger[c] # NoLease /\ Listed(ledger[c].preempted) \subseteq running
    BY <1>0, <2>1 DEF Pays, Copy, Claiming
  <2>3. /\ Leases(M) = Leases(ledger) \ {c}
        /\ \A d \in Leases(M) : M[d] = ledger[d]
    BY <1>0 DEF Without, Leases, TypeOK, Ledger
  <2>4. Forgets(M)
    <3> HIDE DEF M, c
    <3>1. \A h \in Deploys : ledger[c].preempted[h] # {} => h \in running
      BY <2>2 DEF Listed
    <3> QED BY <2>3, <3>1 DEF Forgets, ListedIn
  <2>5. c \in Leases(ledger)
    BY <1>0, <2>2 DEF Leases
  <2> HIDE DEF M, c
  <2> QED BY <2>1, <2>3, <2>4, <2>5, MapsRetire
<1>4. CASE ClearBed(p) \/ CheckEnd(p)
  <2>1. ledger' = ledger /\ (running' = running \/ running' = running \ {job[p].who})
        /\ pc[p] \in {"up", "busy"}
    BY <1>4, ClearBedEffect, CheckEndEffect
  <2>2. Requires[job[p].who] # {}
    BY <2>1, WhoClaims DEF ownerAlive
  <2>3. CASE job[p].who \in running
    BY <1>0, <2>1, <2>2, <2>3, MapsDown, MapsStutter
  <2>4. CASE job[p].who \notin running
    BY <2>1, <2>4, MapsStutter
  <2> QED BY <2>3, <2>4
<1>5. CASE BringUp(p) \/ BootBed(p)
  BY <1>0, <1>5, BringUpEffect, BootBedEffect, MapsUp, MapsStutter
<1>6. ASSUME NEW h \in Deploys, Rollback(p, h) PROVE TableStep
  BY <1>6, RollbackEffect, MapsUp, MapsStutter
<1>7. ASSUME NEW h \in Deploys, StopFails(p, h) PROVE TableStep
  BY <1>7, StopFailsEffect, MapsStutter DEF Tabled, Orderly
<1>8. ASSUME NEW h \in Deploys, Stop(p, h) PROVE TableStep
  <2>1. pc[p] = "stop" /\ h \in NextStops(p) /\ ledger' = ledger /\ running' = running \ {h}
    BY <1>8, StopEffect
  <2>2. /\ job[p].mem = ledger /\ ledger[job[p].who] # NoLease
        /\ Accounted(ledger, job[p].who, job[p].todo \cup job[p].later, job[p].pods)
    BY <1>0, <2>1 DEF Copy, Claiming
  <2>3. Requires[h] # {} \/ ListedIn(ledger, h)
    <3>1. CASE h \in job[p].todo \cup job[p].later
      BY <1>0, <2>2, <3>1 DEF Accounted, ListedIn, Leases
    <3>2. CASE h \in job[p].pods
      BY <2>2, <3>2 DEF Accounted, Overlap
    <3> QED BY <2>1, <3>1, <3>2 DEF NextStops
  <2>4. CASE h \in running
    BY <2>1, <2>3, <2>4, MapsDown
  <2>5. CASE h \notin running
    BY <2>1, <2>5, MapsStutter
  <2> QED BY <2>4, <2>5
<1> QED BY <1>1, <1>2, <1>3, <1>4, <1>5, <1>6, <1>7, <1>8

LEMMA MapsNext ==
  ASSUME Tabled, Books, PayInv, [Next]_vars
  PROVE  TableStep
<1> USE DEF Books, TypeInv
<1>1. ASSUME NEW p \in Procs, NEW o \in AllCommands, NEW d \in Deploys, Begin(p, o, d)
      PROVE  TableStep
  BY <1>1, BeginEffect, MapsStutter
<1>2. ASSUME NEW p \in Procs, Crash(p) PROVE TableStep
  BY <1>2, CrashEffect, MapsStutter
<1>3. ~Reboot
  BY RebootEffect DEF Tabled, TypeOK
<1>4. CASE OnHost
  BY <1>4, MapsUp, MapsStutter DEF OnHost, Tabled
<1>5. CASE UNCHANGED vars
  BY <1>5, MapsStutter DEF vars
<1> QED BY <1>1, <1>2, <1>3, <1>4, <1>5, MapsRelease, MapsAcquire, WorldEffect DEF Next, Quiet, Step

LEMMA MapsInit == Init => Promise!Init
<1> SUFFICES ASSUME Init PROVE Promise!Init
  OBVIOUS
<1>1. Leases(ledger) = {} /\ running \subseteq {d \in Deploys : Requires[d] = {}}
  BY DEF Init, Leases, Empty
<1>2. Owing = {}
  BY <1>1 DEF Owing
<1> QED BY <1>1, <1>2 DEF Promise!Init, Promise!Claimant

\* The arbiter implements the claim table: whatever is killed, and whichever starts,
\* stops and switches fail, a claim is granted only where no other claim stands in
\* its way, a holder is stopped only once some lease lists it and is forgotten only
\* when it is up.
THEOREM ImplementsTable ==
  ASSUME Tabled
  PROVE  Spec => ImplementsClaimTable
<1>1. Init => Books /\ PayInv
  BY BooksInit, PayInit
<1>2. Books /\ PayInv /\ [Next]_vars => Books' /\ PayInv'
  BY BooksNext, PayNext DEF Tabled
<1>3. Books /\ PayInv /\ [Next]_vars => [Promise!Next]_(Promise!table)
  BY MapsNext DEF TableStep
<1>4. Init => Promise!Init
  BY MapsInit
<1> QED BY <1>1, <1>2, <1>3, <1>4, PTL DEF Spec, ImplementsClaimTable, Promise!Spec

-----------------------------------------------------------------------------
(* A settled lease: alive, and with no process at work on it, be it one    *)
(* that has just written it and still stops holders and switches drivers,  *)
(* or one that takes it away.                                              *)

\* A persistent lease whose claimant is up stays alive when the process that is
\* undoing or releasing it is killed: `charly start` and kills exclude each other.
Killed == MaxCrashes = 0 \/ \A d \in Deploys : <<"start", d>> \notin Workload

Busy(q, c) ==
  \/ pc[q] \in {"stop", "flip", "rollback"} /\ job[q].who = c
  \/ pc[q] \in Trimming /\ (job[q].mem[c] = NoLease \/ (pc[q] = "restore" /\ job[q].cur = c))

Settled(c) ==
  /\ c \in Leases(ledger) /\ leaseLive(ledger, c)
  /\ \A q \in Procs : ~Busy(q, c)

\* What a rollback starts: a holder the lease of c lists, or a pod without a lease.
Back(M, c, h) == M[c].preempted[h] # {} \/ (Holds[h] = {} /\ M[h] = NoLease)

\* A release takes one lease away, and a rollback starts what it may.
Tidy(p) ==
  /\ job[p].rel => /\ job[p].cur = job[p].who
                   /\ \A d \in Leases(ledger) \ {job[p].who} : job[p].mem[d] # NoLease
  /\ pc[p] \in {"append", "stop"} =>
       /\ \A d \in job[p].pods : Holds[d] = {}
       /\ \A h \in job[p].done : Back(job[p].mem, job[p].who, h)
  /\ pc[p] = "rollback" => \A h \in job[p].todo : Back(job[p].mem, job[p].who, h)

TidyInv == \A p \in Procs : Tidy(p)

LEMMA TidyOthers ==
  ASSUME NoReconcile, Books, TidyInv, NEW p \in Procs, Step(p), NEW q \in Procs \ {p}
  PROVE  Tidy(q)'
<1> USE DEF Books, TypeInv
<1>1. pc'[q] = pc[q] /\ job'[q] = job[q] /\ Tidy(q)
  BY StepOnward DEF Onward, Alone, TidyInv
<1>2. job[q].rel => ledger' = ledger
  BY LedgerLocked DEF LockInv, AtWork, Holding, Trimming
<1> QED BY <1>1, <1>2 DEF Tidy, Leases

LEMMA TidyIdle ==
  ASSUME NEW p \in Procs, ~job'[p].rel, pc'[p] \notin {"append", "stop", "rollback"}
  PROVE  Tidy(p)'
BY DEF Tidy

LEMMA TidyRelease ==
  ASSUME NoReconcile, Books, TidyInv, NEW p \in Procs,
         \/ Halt(p) \/ LockAcquire(p) \/ LockRelease(p) \/ ScanEnd(p) \/ Flush(p) \/ Retain(p)
         \/ Released(p) \/ UnflipEnd(p) \/ Commit(p)
         \/ \E c \in Deploys : Visit(p, c) \/ Restore(p, c)
         \/ \E t \in GpuTokens : Unflip(p, t)
  PROVE  Tidy(p)'
<1> USE DEF Books, TypeInv
<1>0. /\ AtWork(p)
      /\ job[p].rel => /\ job[p].cur = job[p].who
                       /\ \A d \in Leases(ledger) \ {job[p].who} : job[p].mem[d] # NoLease
  BY DEF TidyInv, Tidy, LockInv
<1> DEFINE Idle == ~job'[p].rel /\ pc'[p] \notin {"append", "stop", "rollback"}
           Stays == /\ job'[p].rel = job[p].rel /\ job'[p].who = job[p].who
                    /\ job'[p].mem = job[p].mem /\ ledger' = ledger
                    /\ job[p].rel => job'[p].cur = job[p].cur
                    /\ pc'[p] \notin {"append", "stop", "rollback"}
<1>1. Idle => Tidy(p)'
  BY TidyIdle
<1>2. Stays => Tidy(p)'
  BY <1>0 DEF Tidy, Leases
<1>3. ASSUME Halt(p) \/ LockAcquire(p) \/ ScanEnd(p) \/ Flush(p) \/ Retain(p) \/ Commit(p)
      PROVE  Idle
  <2>1. pc[p] \in {"halt", "wait", "scan", "flush"} => ~job[p].rel
    BY <1>0 DEF AtWork
  <2>2. CASE Halt(p)
    BY <2>1, <2>2, HaltEffect DEF Ends, Fresh, SameFlags
  <2>3. CASE LockAcquire(p)
    BY <2>1, <2>3, LockAcquireEffect DEF SameFlags
  <2>4. CASE ScanEnd(p) \/ Flush(p)
    BY <2>1, <2>4, ScanEndEffect, FlushEffect DEF SameFlags, Scanned, Ends, Fresh
  <2>5. CASE Retain(p)
    BY <2>5, RetainEffect DEF Ends, Fresh
  <2>6. CASE Commit(p)
    BY <2>6, CommitEffect DEF Ends, Fresh
  <2> QED BY <1>3, <2>2, <2>3, <2>4, <2>5, <2>6
<1>4. ASSUME UnflipEnd(p) \/ (\E c \in Deploys : Restore(p, c)) \/ (\E t \in GpuTokens : Unflip(p, t))
      PROVE  Stays \/ Idle
  <2>1. CASE UnflipEnd(p)
    BY <1>0, <2>1, UnflipEndEffect, GotoEffect DEF SameFlags, Alone, UnflipEnd, SameCopy
  <2>2. CASE \E c \in Deploys : Restore(p, c)
    BY <2>2, RestoreEffect DEF SameCopy, Alone
  <2>3. CASE \E t \in GpuTokens : Unflip(p, t)
    BY <2>3, UnflipEffect DEF SameCopy, SameFlags, Alone
  <2> QED BY <1>4, <2>1, <2>2, <2>3
<1>5. ASSUME NEW c \in Deploys, Visit(p, c) PROVE Idle
  BY <1>0, <1>5, VisitEffect DEF SameFlags, AtWork
<1>6. CASE LockRelease(p)
  <2>1. CASE Ends(p)
    BY <1>1, <2>1 DEF Ends, Fresh
  <2>2. CASE ~Ends(p)
    BY <1>6, <2>2, LockReleaseEffect DEF Tidy, Alone, Leases
  <2> QED BY <2>1, <2>2
<1>7. CASE Released(p)
  <2> DEFINE L == job[p].mem
             c == job[p].cur
             w == job[p].who
             good == job[p].rel => job[p].good
  <2>1. PICK heir \in Heirs(L, c, good) : job'[p].mem = Attach(L, c, heir)
    BY <1>7, ReleasedEffect
  <2>2. L \in Ledger /\ c \in Leases(L) /\ good \in BOOLEAN
    BY <1>7, JobFields DEF TypeOK, Released, Releasing
  <2>3. /\ pc'[p] = "unflip" /\ ledger' = ledger /\ job'[p].rel = job[p].rel
        /\ job'[p].cur = c /\ job'[p].who = w
    BY <1>7, ReleasedEffect DEF SameFlags, Alone
  <2>4. job[p].rel => c = w /\ \A d \in Leases(ledger) \ {w} : L[d] # NoLease
    BY <1>0
  <2> HIDE DEF L, c, good, w
  <2> DEFINE A == Attach(L, c, heir)
  <2>5. Leases(A) = Leases(L) \ {c}
    BY <2>2, AttachFields
  <2> HIDE DEF A
  <2>6. job'[p].mem = A
    BY <2>1 DEF A
  <2>7. job[p].rel => c = w /\ \A d \in Leases(ledger) \ {w} : A[d] # NoLease
    BY <2>4, <2>5 DEF Leases
  <2> QED BY <2>3, <2>6, <2>7 DEF Tidy, Leases
<1> HIDE DEF Idle, Stays
<1> QED BY <1>1, <1>2, <1>3, <1>4, <1>5, <1>6, <1>7

LEMMA TidyAcquire ==
  ASSUME NoReconcile, Claimants, Books, TidyInv, NEW p \in Procs,
         \/ Reacquire(p) \/ Refuse(p) \/ DecideExclusive(p) \/ DecideShared(p) \/ Append(p)
         \/ StopsEnd(p) \/ FlipEnd(p) \/ Drop(p) \/ ClearBed(p) \/ BringUp(p) \/ BootBed(p)
         \/ CheckEnd(p)
         \/ \E h \in Deploys : Stop(p, h) \/ StopFails(p, h) \/ Rollback(p, h)
         \/ \E t \in GpuTokens : Flip(p, t) \/ FlipFails(p, t)
  PROVE  Tidy(p)'
<1> USE DEF Books, TypeInv
<1>0. AtWork(p) /\ Tidy(p) /\ Copy(p)
  BY DEF TidyInv, LockInv, CopyInv
<1>00. pc[p] \notin {"restore", "unflip", "commit"} => ~job[p].rel
  BY <1>0 DEF AtWork
<1> DEFINE Idle == ~job'[p].rel /\ pc'[p] \notin {"append", "stop", "rollback"}
<1>1. Idle => Tidy(p)'
  BY TidyIdle
<1>2. ASSUME Reacquire(p) \/ Refuse(p) \/ StopsEnd(p) \/ FlipEnd(p) \/ Drop(p) PROVE Idle
  BY <1>00, <1>2, ReacquireEffect, RefuseEffect, StopsEndEffect, FlipEndEffect, DropEffect, ZenonT(30)
     DEF SameFlags, Ends, Fresh
<1>3. ASSUME ClearBed(p) \/ BringUp(p) \/ BootBed(p) \/ CheckEnd(p) PROVE Idle
  BY <1>00, <1>3, ClearBedEffect, BringUpEffect, BootBedEffect, CheckEndEffect
     DEF SameFlags, Ends, Fresh
<1>4. ASSUME NEW t \in GpuTokens, Flip(p, t) PROVE Idle
  BY <1>00, <1>4, FlipEffect DEF SameFlags
<1>5. ASSUME NEW t \in GpuTokens, FlipFails(p, t) PROVE Tidy(p)'
  <2>1. /\ pc'[p] = "rollback" /\ ~job'[p].rel /\ job'[p].mem = job[p].mem
        /\ job'[p].who = job[p].who
        /\ job'[p].todo = Listed(job[p].mem[job[p].who].preempted)
    BY <1>00, <1>5, FlipFailsEffect DEF SameFlags, SameCopy, Alone
  <2> QED BY <2>1 DEF Tidy, Back, Listed
<1>6. CASE Append(p)
  <2>1. /\ pc[p] = "append" /\ pc'[p] = "stop" /\ ~job'[p].rel /\ job'[p].mem = job[p].mem
        /\ job'[p].who = job[p].who /\ job'[p].pods = job[p].pods /\ job'[p].done = job[p].done
    BY <1>00, <1>6, AppendEffect DEF SameFlags, SameCopy, SameLists, Alone
  <2> QED BY <1>0, <2>1 DEF Tidy
<1>7. ASSUME NEW h \in Deploys, Stop(p, h) PROVE Tidy(p)'
  <2>1. /\ pc[p] = "stop" /\ pc'[p] = "stop" /\ ~job'[p].rel /\ job'[p].mem = job[p].mem
        /\ job'[p].who = job[p].who /\ job'[p].pods = job[p].pods \ {h}
        /\ job'[p].done = job[p].done \cup {h} /\ h \in NextStops(p)
    BY <1>00, <1>7, StopEffect DEF SameFlags, SameCopy, Alone
  <2>2. h \in job[p].todo \cup job[p].later \/ h \in job[p].pods
    BY <2>1 DEF NextStops
  <2>3. Back(job[p].mem, job[p].who, h)
    BY <1>0, <2>1, <2>2 DEF Copy, Accounted, Tidy, Back
  <2> QED BY <1>0, <2>1, <2>3 DEF Tidy
<1>8. ASSUME NEW h \in Deploys, StopFails(p, h) PROVE Tidy(p)'
  <2>1. /\ pc[p] = "stop" /\ pc'[p] = "rollback" /\ ~job'[p].rel /\ job'[p].mem = job[p].mem
        /\ job'[p].who = job[p].who /\ job'[p].todo = job[p].done
    BY <1>00, <1>8, StopFailsEffect DEF SameFlags, SameCopy, Alone
  <2> QED BY <1>0, <2>1 DEF Tidy
<1>9. ASSUME NEW h \in Deploys, Rollback(p, h) PROVE Tidy(p)'
  <2>1. /\ pc[p] = "rollback" /\ pc'[p] = "rollback" /\ ~job'[p].rel /\ job'[p].mem = job[p].mem
        /\ job'[p].who = job[p].who /\ job'[p].todo = job[p].todo \ {h}
    BY <1>00, <1>9, RollbackEffect DEF SameFlags, SameCopy, Alone
  <2> QED BY <1>0, <2>1 DEF Tidy
<1>10. ASSUME DecideExclusive(p) \/ DecideShared(p) PROVE Tidy(p)'
  <2>1. PICK M, own, owe, live : /\ Decided(p, M, own, owe, live)
                                 /\ live \subseteq Leases(ledger) \cup job[p].pods
    BY <1>10, DecideExclusiveEffect, DecideSharedEffect, ZenonT(30) DEF Dropped
  <2>2. pc'[p] = "append" /\ ~job'[p].rel /\ job'[p].done = {} /\ job'[p].pods \subseteq Leases(ledger)
    BY <1>0, <1>00, <2>1 DEF Decided, Copy, SameFlags
  <2> QED BY <2>2, LeasesOfClaimants DEF Tidy
<1> HIDE DEF Idle
<1> QED BY <1>1, <1>2, <1>3, <1>4, <1>5, <1>6, <1>7, <1>8, <1>9, <1>10

LEMMA TidyNext ==
  ASSUME NoReconcile, Claimants, Books, TidyInv, [Next]_vars
  PROVE  TidyInv'
<1> USE DEF Books, TypeInv
<1>1. ASSUME NEW r \in Procs, Step(r) PROVE TidyInv'
  BY <1>1, TidyOthers, TidyRelease, TidyAcquire DEF Step, TidyInv
<1>2. CASE UNCHANGED <<ledger, pc, job>>
  BY <1>2 DEF TidyInv, Tidy, Leases
<1>3. ASSUME NEW p \in Procs,
             \/ \E o \in AllCommands, d \in Deploys : Begin(p, o, d)
             \/ Crash(p)
      PROVE  TidyInv'
  <2>1. /\ \A q \in Procs \ {p} : pc'[q] = pc[q] /\ job'[q] = job[q]
        /\ pc'[p] \in {"halt", "wait", "relwait", "scan", "done"} /\ ~job'[p].rel
        /\ ledger' = ledger
    BY <1>3, BeginEffect, CrashEffect DEF Ends, Alone, Fresh
  <2>2. Tidy(p)'
    BY <2>1, TidyIdle
  <2>3. ASSUME NEW q \in Procs \ {p} PROVE Tidy(q)'
    BY <2>1 DEF TidyInv, Tidy, Leases
  <2> QED BY <2>2, <2>3 DEF TidyInv
<1>4. CASE Reboot
  <2>1. \A q \in Procs : pc'[q] \in {"new", "done"} /\ ~job'[q].rel
    BY <1>4, RebootEffect DEF ownerAlive, Fresh
  <2> QED BY <2>1, TidyIdle DEF TidyInv
<1> QED BY <1>1, <1>2, <1>3, <1>4, WorldEffect DEF Next, Quiet, OnHost, vars

LEMMA TidyInit == Init => TidyInv
<1> SUFFICES ASSUME Init, NEW p \in Procs PROVE Tidy(p)
  BY DEF TidyInv
<1>1. pc[p] = "new" /\ job[p].rel = FALSE
  BY DEF Init, NewJob
<1>2. ~job[p].rel
  BY <1>1, ZenonT(30)
<1> QED BY <1>1, <1>2 DEF Tidy

-----------------------------------------------------------------------------
(* A lease becomes settled by the last step of its own acquire, and in no  *)
(* other way.                                                              *)

\* After a step that leaves p with no work on c's lease, the lease is the one that
\* was there before.
LEMMA LeaseBefore ==
  ASSUME NoReconcile, Books, NEW p \in Procs, Step(p), NEW c \in Leases(ledger)', ~Busy(p, c)'
  PROVE  /\ c \in Leases(ledger) /\ ledger'[c].owner = ledger[c].owner
         /\ ledger'[c].transient = ledger[c].transient
<1> USE DEF Books, TypeInv
<1>0. Copy(p) /\ c \in Deploys /\ ledger'[c] # NoLease
  BY DEF CopyInv, Leases
<1>1. CASE c # job[p].who
  BY <1>0, <1>1, LedgerMoves DEF Leases
<1>2. CASE c = job[p].who
  <2>1. KeepsCopies => ledger' = ledger
    BY DEF KeepsCopies
  <2>2. ASSUME LockAcquire(p) \/ LockRelease(p) PROVE ledger' = ledger
    BY <2>2, LockAcquireEffect, LockReleaseEffect
  <2>3. ASSUME Released(p) PROVE ledger' = ledger
    BY <2>3, ReleasedEffect
  <2>4. ASSUME DecideExclusive(p) \/ DecideShared(p) PROVE ledger' = ledger
    BY <2>4, DecideExclusiveEffect, DecideSharedEffect DEF Decided
  <2>5. ASSUME Flush(p) \/ Commit(p)
        PROVE  /\ c \in Leases(ledger) /\ ledger'[c].owner = ledger[c].owner
               /\ ledger'[c].transient = ledger[c].transient
    <3>1. ledger' = job[p].mem /\ Within(job[p].mem, ledger)
      BY <1>0, <2>5, FlushEffect, CommitEffect DEF Copy, Trimming
    <3> QED BY <1>0, <3>1 DEF Within, Leases
  <2>6. ~Append(p)
    BY <1>2, AppendEffect DEF Busy, Alone
  <2>7. ~Drop(p)
    BY <1>0, <1>2, DropEffect DEF Without, TypeOK, Ledger
  <2> QED BY <1>0, <2>1, <2>2, <2>3, <2>4, <2>5, <2>6, <2>7, ProcessKeeps DEF Step, Leases
<1> QED BY <1>1, <1>2

\* What a process starts while it has the flock has no lease.
LEMMA StartedAgain ==
  ASSUME NoReconcile, Claimants, Books, TodoInv, TidyInv, NEW p \in Procs, NEW h \in Deploys,
         Restore(p, h) \/ Rollback(p, h)
  PROVE  h \notin Leases(ledger)
<1> USE DEF Books, TypeInv
<1>1. CASE Restore(p, h)
  <2>1. h \in job[p].todo /\ pc[p] = "restore"
    BY <1>1, RestoreEffect
  <2>2. Holds[h] # {}
    BY <2>1, TodoHolders
  <2> QED BY <2>2, LeasesOfClaimants
<1>2. CASE Rollback(p, h)
  <2>1. h \in job[p].todo /\ pc[p] = "rollback"
    BY <1>2, RollbackEffect
  <2>2. /\ job[p].mem = ledger /\ job[p].mem[job[p].who] # NoLease /\ job[p].who \in Deploys
        /\ Back(job[p].mem, job[p].who, h)
    BY <2>1, JobFields DEF TidyInv, Tidy, CopyInv, Copy, Claiming, TypeOK
  <2>3. CASE ledger[job[p].who].preempted[h] # {}
    <3>1. ledger[job[p].who].preempted[h] \subseteq Holds[h]
      BY <2>2 DEF OwnerInv, Owned, Leases
    <3> QED BY <2>3, <3>1, LeasesOfClaimants
  <2> QED BY <2>2, <2>3 DEF Back, Leases
<1> QED BY <1>1, <1>2

\* What comes up in a step of p.
LEMMA RunningGrows ==
  ASSUME NoReconcile, Claimants, Books, TodoInv, TidyInv, NEW p \in Procs, Step(p),
         NEW d \in running', d \notin running
  PROVE  \/ d \notin Leases(ledger)
         \/ d = job[p].who /\ pc[p] \in Using /\ ledger' = ledger
<1> USE DEF Books, TypeInv
<1>1. ASSUME NEW h \in Deploys, Restore(p, h) \/ Rollback(p, h)
      PROVE  running' = running \/ (running' = running \cup {h} /\ h \notin Leases(ledger))
  BY <1>1, RestoreEffect, RollbackEffect, StartedAgain
<1>2. ASSUME BringUp(p) \/ BootBed(p)
      PROVE  /\ running' = running \/ running' = running \cup {job[p].who}
             /\ pc[p] \in Using /\ ledger' = ledger
  BY <1>2, BringUpEffect, BootBedEffect DEF Using
<1>3. ASSUME \/ Halt(p) \/ LockAcquire(p) \/ LockRelease(p) \/ ScanEnd(p) \/ Flush(p) \/ Retain(p)
             \/ Released(p) \/ UnflipEnd(p) \/ Commit(p)
             \/ \E c \in Deploys : Visit(p, c)
             \/ \E t \in GpuTokens : Unflip(p, t)
      PROVE  running' \subseteq running
  BY <1>3, HaltEffect, LockAcquireEffect, LockReleaseEffect, ScanEndEffect, FlushEffect, RetainEffect,
     ReleasedEffect, UnflipEndEffect, CommitEffect, VisitEffect, UnflipEffect
<1>4. ASSUME \/ Reacquire(p) \/ Refuse(p) \/ DecideExclusive(p) \/ DecideShared(p) \/ Append(p)
             \/ StopsEnd(p) \/ FlipEnd(p) \/ Drop(p) \/ ClearBed(p) \/ CheckEnd(p)
             \/ \E t \in GpuTokens : Flip(p, t) \/ FlipFails(p, t)
      PROVE  running' \subseteq running
  BY <1>4, ReacquireEffect, RefuseEffect, DecideExclusiveEffect, DecideSharedEffect, AppendEffect,
     StopsEndEffect, FlipEndEffect, DropEffect, ClearBedEffect, CheckEndEffect, FlipEffect,
     FlipFailsEffect DEF Decided
<1>5. ASSUME NEW h \in Deploys, Stop(p, h) \/ StopFails(p, h) PROVE running' \subseteq running
  BY <1>5, StopEffect, StopFailsEffect
<1> QED BY <1>1, <1>2, <1>3, <1>4, <1>5 DEF Step

\* A step does not revive a lease.
LEMMA LiveBefore ==
  ASSUME NoReconcile, Claimants, Books, KeptInv, TodoInv, TidyInv, NEW p \in Procs, Step(p),
         NEW c \in Leases(ledger)', ~Busy(p, c)', leaseLive(ledger, c)'
  PROVE  leaseLive(ledger, c)
<1> USE DEF Books, TypeInv
<1>1. /\ c \in Leases(ledger) /\ ledger'[c].owner = ledger[c].owner
      /\ ledger'[c].transient = ledger[c].transient
  BY LeaseBefore
<1> DEFINE o == ledger[c].owner
<1>2. pc'[o] \notin {"new", "done"} => ownerAlive(o)
  <2>1. o \in Procs
    BY <1>1, LeaseFields DEF TypeOK
  <2>2. \A q \in Procs : pc'[q] \notin {"new", "done"} => ownerAlive(q)
    BY StepOnward DEF Onward, Alone, ownerAlive
  <2> QED BY <2>1, <2>2
<1>3. ASSUME c \in running', c \notin running, ~ledger[c].transient PROVE ownerAlive(o)
  <2>1. c = job[p].who /\ pc[p] \in Using
    BY <1>1, <1>3, RunningGrows
  <2>2. Held(p, ledger)
    BY <1>1, <2>1 DEF KeptInv, Keeps, Leases
  <2> QED BY <1>3, <2>1, <2>2 DEF Held, ownerAlive, Using
<1> QED BY <1>1, <1>2, <1>3 DEF leaseLive, ownerAlive

\* Once its lease is written a process goes on until the acquire is complete or undone.
LEMMA ClaimEnds ==
  ASSUME TypeOK, NEW p \in Procs, Step(p), pc[p] \in {"stop", "flip", "rollback"},
         pc'[p] \notin {"stop", "flip", "rollback"}
  PROVE  FlipEnd(p) \/ Drop(p)
<1>1. ASSUME NEW h \in Deploys PROVE ~(Stop(p, h) \/ StopFails(p, h) \/ Rollback(p, h))
  BY StopEffect, StopFailsEffect, RollbackEffect
<1>2. ~StopsEnd(p) /\ \A t \in GpuTokens : ~(Flip(p, t) \/ FlipFails(p, t))
  BY StopsEndEffect, FlipEffect, FlipFailsEffect
<1>3. /\ ~(Halt(p) \/ LockAcquire(p) \/ LockRelease(p) \/ ScanEnd(p) \/ Flush(p) \/ Retain(p))
      /\ \A d \in Deploys : ~Visit(p, d)
  BY HaltEffect, LockAcquireEffect, LockReleaseEffect, ScanEndEffect, FlushEffect, RetainEffect,
     VisitEffect
<1>5. /\ ~(Released(p) \/ UnflipEnd(p) \/ Commit(p))
      /\ \A d \in Deploys : ~Restore(p, d)
      /\ \A t \in GpuTokens : ~Unflip(p, t)
  BY ReleasedEffect, UnflipEndEffect, CommitEffect, RestoreEffect, UnflipEffect
<1>4. ~(Reacquire(p) \/ Refuse(p) \/ DecideExclusive(p) \/ DecideShared(p) \/ Append(p)
        \/ ClearBed(p) \/ BringUp(p) \/ BootBed(p) \/ CheckEnd(p))
  BY ReacquireEffect, RefuseEffect, DecideExclusiveEffect, DecideSharedEffect, AppendEffect,
     ClearBedEffect, BringUpEffect, BootBedEffect, CheckEndEffect DEF Decided
<1> QED BY <1>1, <1>2, <1>3, <1>4, <1>5 DEF Step

\* A process stops working on a lease when the lease is gone, or when its acquire
\* is over.
LEMMA BusyBefore ==
  ASSUME NoReconcile, Books, KeptInv, NEW p \in Procs, Step(p),
         NEW c \in Leases(ledger)', ~Busy(p, c)', Busy(p, c)
  PROVE  FlipEnd(p) /\ job[p].who = c
<1> USE DEF Books, TypeInv
<1>0. /\ Copy(p) /\ ~job[p].bad /\ c \in Leases(ledger) /\ c \in Deploys
      /\ ledger'[c] # NoLease
  BY LeaseBefore DEF CopyInv, KeptInv, Keeps, Leases
<1>1. CASE pc[p] \in {"stop", "flip", "rollback"} /\ job[p].who = c
  <2>1. pc'[p] \notin {"stop", "flip", "rollback"}
    BY <1>1, StepOnward DEF Onward, Alone, Busy
  <2>2. ~Drop(p)
    BY <1>0, <1>1, DropEffect DEF Without, TypeOK, Ledger
  <2> QED BY <1>1, <2>1, <2>2, ClaimEnds
<1>2. ASSUME pc[p] \in Trimming,
             job[p].mem[c] = NoLease \/ (pc[p] = "restore" /\ job[p].cur = c)
      PROVE  FALSE
  <2>1. ~(pc'[p] \in Trimming /\ (job'[p].mem[c] = NoLease \/ (pc'[p] = "restore" /\ job'[p].cur = c)))
    BY DEF Busy
  <2>2. ASSUME pc[p] # "restore", pc'[p] \in Trimming, job'[p].mem = job[p].mem PROVE FALSE
    BY <1>2, <2>1, <2>2
  <2>3. ASSUME ledger' = job[p].mem, pc[p] # "restore" PROVE FALSE
    BY <1>0, <1>2, <2>3
  <2>4. ~(ScanEnd(p) \/ Flush(p) \/ Commit(p))
    <3>1. ASSUME ScanEnd(p), job[p].dirty PROVE FALSE
      BY <2>2, <3>1, ScanEndEffect DEF SameCopy, Trimming, Scanned
    <3>2. ASSUME ScanEnd(p), ~job[p].dirty PROVE FALSE
      BY <1>0, <2>3, <3>2, ScanEndEffect DEF Copy
    <3> QED BY <2>3, <3>1, <3>2, FlushEffect, CommitEffect
  <2>5. ~(UnflipEnd(p) \/ \E t \in GpuTokens : Unflip(p, t))
    BY <2>2, UnflipEndEffect, UnflipEffect DEF Trimming, SameCopy
  <2>6. ASSUME NEW d \in Deploys, Visit(p, d) PROVE FALSE
    BY <2>2, <2>6, VisitEffect DEF Trimming
  <2>7. ASSUME NEW d \in Deploys, Restore(p, d) PROVE FALSE
    BY <1>2, <2>1, <2>7, RestoreEffect DEF Trimming, SameCopy
  <2>8. ~Retain(p)
    BY <1>0, RetainEffect
  <2>9. ~Released(p)
    <3> SUFFICES ASSUME Released(p) PROVE FALSE
      OBVIOUS
    <3> DEFINE L == job[p].mem
               d == job[p].cur
               good == job[p].rel => job[p].good
    <3>1. PICK heir \in Heirs(L, d, good) : job'[p].mem = Attach(L, d, heir)
      BY ReleasedEffect
    <3>2. L \in Ledger /\ d \in Leases(L) /\ good \in BOOLEAN
      BY JobFields DEF TypeOK, Released, Releasing
    <3>3. pc'[p] = "unflip"
      BY ReleasedEffect
    <3>4. L[c] = NoLease \/ d = c
      BY <1>2
    <3> HIDE DEF L, d, good
    <3> DEFINE A == Attach(L, d, heir)
    <3>5. Leases(A) = Leases(L) \ {d}
      BY <3>2, AttachFields
    <3> HIDE DEF A
    <3>6. A[c] = NoLease
      BY <1>0, <3>4, <3>5 DEF Leases
    <3>7. job'[p].mem = A
      BY <3>1 DEF A
    <3> QED BY <2>1, <3>3, <3>6, <3>7 DEF Trimming
  <2>10. ~(Halt(p) \/ LockAcquire(p) \/ LockRelease(p))
    BY <1>2, HaltEffect, LockAcquireEffect, LockReleaseEffect DEF Trimming
  <2>11. ~(Reacquire(p) \/ Refuse(p) \/ DecideExclusive(p) \/ DecideShared(p) \/ Append(p)
          \/ StopsEnd(p) \/ FlipEnd(p) \/ Drop(p)
          \/ ClearBed(p) \/ BringUp(p) \/ BootBed(p) \/ CheckEnd(p))
    BY <1>2, ReacquireEffect, RefuseEffect, DecideExclusiveEffect, DecideSharedEffect, AppendEffect,
       StopsEndEffect, FlipEndEffect, DropEffect,
       ClearBedEffect, BringUpEffect, BootBedEffect, CheckEndEffect DEF Decided, Trimming
  <2>12. /\ \A h \in Deploys : ~(Stop(p, h) \/ StopFails(p, h) \/ Rollback(p, h))
         /\ \A t \in GpuTokens : ~(Flip(p, t) \/ FlipFails(p, t))
    BY <1>2, StopEffect, StopFailsEffect, RollbackEffect, FlipEffect, FlipFailsEffect DEF Trimming
  <2> QED BY <2>4, <2>5, <2>6, <2>7, <2>8, <2>9, <2>10, <2>11, <2>12 DEF Step
<1> QED BY <1>1, <1>2 DEF Busy

LEMMA SettledStep ==
  ASSUME NoReconcile, Claimants, Books, KeptInv, TodoInv, TidyInv, NEW p \in Procs, Step(p),
         NEW c, Settled(c)', ~Settled(c)
  PROVE  FlipEnd(p) /\ job[p].who = c
<1> USE DEF Books, TypeInv
<1>1. c \in Leases(ledger)' /\ leaseLive(ledger, c)' /\ \A q \in Procs : ~Busy(q, c)'
  BY DEF Settled
<1>2. c \in Leases(ledger) /\ leaseLive(ledger, c)
  BY <1>1, LeaseBefore, LiveBefore
<1>3. PICK q \in Procs : Busy(q, c)
  BY <1>2 DEF Settled
<1>4. CASE q = p
  BY <1>1, <1>3, <1>4, BusyBefore
<1>5. CASE q # p
  <2>1. pc'[q] = pc[q] /\ job'[q] = job[q]
    BY <1>5, StepOnward DEF Onward, Alone
  <2> QED BY <1>1, <1>3, <2>1 DEF Busy
<1> QED BY <1>4, <1>5

LEMMA SettledWorld ==
  ASSUME NoReconcile, Claimants, Killed, Books, TodoInv, TidyInv, World, NEW c, Settled(c)'
  PROVE  Settled(c)
<1> USE DEF Books, TypeInv
<1>1. c \in Leases(ledger)' /\ leaseLive(ledger, c)' /\ \A q \in Procs : ~Busy(q, c)'
  BY DEF Settled
<1>2. ledger' = ledger
  BY WorldEffect, RebootEffect, CrashEffect DEF OnHost
<1>3. c \in Leases(ledger) /\ c \in Deploys /\ ledger[c] # NoLease
  BY <1>1, <1>2 DEF Leases
<1> DEFINE o == ledger[c].owner
<1>4. o \in Procs /\ OwnedBy(o, c, ledger[c].transient)
  BY <1>3, LeaseFields DEF TypeOK, OwnerInv, Owned
<1> HIDE DEF o
<1>5. CASE OnHost
  <2>1. pc' = pc /\ job' = job
    BY <1>5 DEF OnHost
  <2>2. c \in running' => c \in running
    BY <1>3, <1>5, LeasesOfClaimants DEF OnHost
  <2>3. leaseLive(ledger, c)
    BY <1>1, <1>2, <2>1, <2>2 DEF leaseLive, ownerAlive
  <2> QED BY <1>1, <1>3, <2>1, <2>3 DEF Settled, Busy
<1>6. CASE Reboot
  <2>1. pc'[o] \in {"new", "done"} /\ running' = {}
    BY <1>4, <1>6, RebootEffect DEF ownerAlive
  <2> QED BY <1>1, <1>2, <2>1 DEF leaseLive, ownerAlive, o
<1>7. ASSUME NEW p \in Procs, Crash(p) PROVE Settled(c)
  <2>1. /\ \A q \in Procs \ {p} : pc'[q] = pc[q] /\ job'[q] = job[q]
        /\ pc'[p] = "done" /\ running' = running /\ crashes < MaxCrashes
        /\ ownerAlive(p)
    BY <1>7, CrashEffect DEF Ends, Alone
  <2>2. leaseLive(ledger, c)
    <3>1. pc'[o] \notin {"new", "done"} => pc[o] \notin {"new", "done"}
      BY <1>4, <2>1
    <3> QED BY <1>1, <1>2, <2>1, <3>1 DEF leaseLive, ownerAlive, o
  <2>3. ledger[c].transient
    <3>1. MaxCrashes # 0
      BY <2>1, ArbiterAssumption DEF TypeOK
    <3>2. pc[o] # "new" /\ job[o].who = c /\ job[o].op \in {"check", "start"}
          /\ ledger[c].transient = (job[o].op = "check")
      BY <1>4 DEF OwnedBy
    <3>3. job[o].op # "start"
      BY <1>3, <1>4, <3>1, <3>2 DEF Killed, LockInv, AtWork
    <3> QED BY <3>2, <3>3
  <2>4. pc'[o] \notin {"new", "done"}
    BY <1>1, <1>2, <2>3 DEF leaseLive, ownerAlive, o
  <2>5. o # p
    BY <2>1, <2>4
  <2>6. job[p].who # c
    BY <1>4, <2>1, <2>4, <2>5 DEF LockInv, OwnedBy, ownerAlive
  <2>7. ~Busy(p, c)
    <3> SUFFICES ASSUME pc[p] \in Trimming,
                        job[p].mem[c] = NoLease \/ (pc[p] = "restore" /\ job[p].cur = c)
                 PROVE  FALSE
      BY <2>6 DEF Busy
    <3>1. ~job[p].rel
      BY <1>3, <2>6 DEF TidyInv, Tidy
    <3>2. CASE job[p].mem[c] = NoLease
      BY <1>3, <2>2, <3>1, <3>2 DEF TodoInv, Dead, Leases
    <3>3. CASE job[p].mem[c] # NoLease
      <4>1. ~leaseLive(job[p].mem, c) /\ c \in Leases(job[p].mem)
        BY <1>3, <3>1, <3>3 DEF TodoInv, Todo, Leases
      <4>2. job[p].mem[c].owner = ledger[c].owner /\ job[p].mem[c].transient = ledger[c].transient
        BY <4>1 DEF CopyInv, Copy, Within
      <4> QED BY <2>2, <4>1, <4>2 DEF leaseLive
    <3> QED BY <3>2, <3>3
  <2>8. ASSUME NEW q \in Procs \ {p} PROVE ~Busy(q, c)
    BY <1>1, <2>1 DEF Busy
  <2> QED BY <1>3, <2>2, <2>7, <2>8 DEF Settled
<1> QED BY <1>5, <1>6, <1>7, WorldEffect

LEMMA SettledBegin ==
  ASSUME NoReconcile, Books, NEW p \in Procs, NEW o \in AllCommands, NEW d \in Deploys,
         Begin(p, o, d), NEW c, Settled(c)'
  PROVE  Settled(c)
<1> USE DEF Books, TypeInv
<1>1. c \in Leases(ledger)' /\ leaseLive(ledger, c)' /\ \A q \in Procs : ~Busy(q, c)'
  BY DEF Settled
<1>2. /\ \A q \in Procs \ {p} : pc'[q] = pc[q] /\ job'[q] = job[q]
      /\ pc[p] = "new" /\ UNCHANGED <<ledger, running>>
  BY BeginEffect
<1>3. c \in Leases(ledger) /\ c \in Deploys
  BY <1>1, <1>2 DEF Leases
<1>4. ledger[c].owner \in Procs \ {p}
  <2>1. ledger[c].owner \in Procs /\ OwnedBy(ledger[c].owner, c, ledger[c].transient)
    BY <1>3, LeaseFields DEF TypeOK, OwnerInv, Owned
  <2> QED BY <1>2, <2>1 DEF OwnedBy
<1>5. leaseLive(ledger, c)
  BY <1>1, <1>2, <1>4 DEF leaseLive, ownerAlive
<1>6. ASSUME NEW q \in Procs PROVE ~Busy(q, c)
  BY <1>1, <1>2 DEF Busy, Trimming
<1> QED BY <1>3, <1>5, <1>6 DEF Settled

\* While a process uses its claim, its lease is settled.
LEMMA UsingSettled ==
  ASSUME NoReconcile, Books, KeptInv, NEW p \in Procs, pc[p] \in {"decide"} \cup Using,
         ledger[job[p].who] # NoLease
  PROVE  job[p].who \in Deploys /\ Settled(job[p].who)
<1> USE DEF Books, TypeInv
<1> DEFINE c == job[p].who
<1>1. c \in Leases(ledger) /\ c \in Deploys
  BY JobFields DEF Leases, TypeOK
<1>2. leaseLive(ledger, c)
  <2>1. Held(p, ledger) /\ ownerAlive(p)
    BY DEF KeptInv, Keeps, ownerAlive, Using
  <2>2. CASE ledger[c].owner = p
    BY <2>1, <2>2 DEF leaseLive
  <2>3. CASE ledger[c].owner # p
    BY <2>1, <2>3 DEF leaseLive, Held
  <2> QED BY <2>2, <2>3
<1>3. ASSUME NEW q \in Procs, Busy(q, c) PROVE FALSE
  <2>1. q # p
    BY <1>3 DEF Busy, Using, Trimming
  <2>2. CASE pc[q] \in Trimming
    <3>1. lock = q
      BY <2>2 DEF LockInv, AtWork, Holding
    <3>2. pc[p] \in Using
      BY <2>1, <3>1 DEF LockInv, AtWork, Holding
    <3> QED BY <1>3, <2>2, <3>2 DEF KeptInv, Spares, Busy, Trimming
  <2>3. CASE pc[q] \in {"stop", "flip", "rollback"} /\ job[q].who = c
    BY <2>1, <2>3 DEF LockInv, ownerAlive, Using
  <2> QED BY <1>3, <2>2, <2>3 DEF Busy
<1> QED BY <1>1, <1>2, <1>3 DEF Settled

-----------------------------------------------------------------------------
(* The driver mode of a settled claim.                                     *)

ModeOk(c) == \A t \in Requires[c] \cap GpuTokens : mode[t] = claimMode(c)

\* An acquire has set the tokens it is past.
Setting(p) ==
  pc[p] = "flip" =>
    /\ job[p].toks \subseteq Requires[job[p].who]
    /\ \A t \in (Requires[job[p].who] \cap GpuTokens) \ job[p].toks : mode[t] = claimMode(job[p].who)

ModeInv ==
  /\ \A c \in Deploys : Settled(c) => ModeOk(c)
  /\ \A p \in Procs : Setting(p)

\* Nobody but an acquire and a release switches a driver.
LEMMA ModeMoves ==
  ASSUME TypeOK, NEW p \in Procs, Step(p)
  PROVE  mode' = mode \/ \E t \in GpuTokens : Flip(p, t) \/ Unflip(p, t)
<1>1. ASSUME \/ Halt(p) \/ LockAcquire(p) \/ LockRelease(p) \/ ScanEnd(p) \/ Flush(p) \/ Retain(p)
             \/ Released(p) \/ UnflipEnd(p) \/ Commit(p)
             \/ \E c \in Deploys : Visit(p, c) \/ Restore(p, c)
      PROVE  mode' = mode
  BY <1>1, HaltEffect, LockAcquireEffect, LockReleaseEffect, ScanEndEffect, FlushEffect, RetainEffect,
     ReleasedEffect, UnflipEndEffect, CommitEffect, VisitEffect, RestoreEffect
<1>2. ASSUME \/ Reacquire(p) \/ Refuse(p) \/ DecideExclusive(p) \/ DecideShared(p) \/ Append(p)
             \/ StopsEnd(p) \/ FlipEnd(p) \/ Drop(p) \/ ClearBed(p) \/ BringUp(p) \/ BootBed(p)
             \/ CheckEnd(p)
      PROVE  mode' = mode
  BY <1>2, ReacquireEffect, RefuseEffect, DecideExclusiveEffect, DecideSharedEffect, AppendEffect,
     StopsEndEffect, FlipEndEffect, DropEffect, ClearBedEffect, BringUpEffect, BootBedEffect,
     CheckEndEffect DEF Decided
<1>3. ASSUME NEW h \in Deploys, Stop(p, h) \/ StopFails(p, h) \/ Rollback(p, h) PROVE mode' = mode
  BY <1>3, StopEffect, StopFailsEffect, RollbackEffect
<1>4. ASSUME NEW t \in GpuTokens, FlipFails(p, t) PROVE mode' = mode
  BY <1>4, FlipFailsEffect
<1> QED BY <1>1, <1>2, <1>3, <1>4 DEF Step

\* A process is in an applyMode loop because it was there or has just begun it.
LEMMA FlipFrom ==
  ASSUME TypeOK, NEW p \in Procs, Step(p), pc'[p] = "flip"
  PROVE  StopsEnd(p) \/ \E t \in GpuTokens : Flip(p, t)
<1>1. /\ ~(Halt(p) \/ LockAcquire(p) \/ LockRelease(p) \/ Retain(p))
      /\ \A d \in Deploys : ~(Visit(p, d) \/ Restore(p, d))
  BY HaltEffect, LockAcquireEffect, LockReleaseEffect, RetainEffect, VisitEffect, RestoreEffect
     DEF Ends
<1>4. ~(ScanEnd(p) \/ Flush(p))
  <2>1. ~Scanned(p)
    BY DEF Scanned, Ends
  <2> QED BY <2>1, ScanEndEffect, FlushEffect
<1>5. /\ ~(Released(p) \/ UnflipEnd(p) \/ Commit(p))
      /\ \A t \in GpuTokens : ~Unflip(p, t)
  BY ReleasedEffect, UnflipEndEffect, CommitEffect, UnflipEffect DEF Ends
<1>2. ~(Reacquire(p) \/ Refuse(p) \/ DecideExclusive(p) \/ DecideShared(p) \/ Append(p)
        \/ FlipEnd(p) \/ Drop(p) \/ ClearBed(p) \/ BringUp(p) \/ BootBed(p) \/ CheckEnd(p))
  BY ReacquireEffect, RefuseEffect, DecideExclusiveEffect, DecideSharedEffect, AppendEffect,
     FlipEndEffect, DropEffect, ClearBedEffect, BringUpEffect, BootBedEffect, CheckEndEffect
     DEF Decided, Ends
<1>3. /\ \A h \in Deploys : ~(Stop(p, h) \/ StopFails(p, h) \/ Rollback(p, h))
      /\ \A t \in GpuTokens : ~FlipFails(p, t)
  BY StopEffect, StopFailsEffect, RollbackEffect, FlipFailsEffect
<1> QED BY <1>1, <1>2, <1>3, <1>4, <1>5 DEF Step

\* A switch for p's claim suits every other claim of the token.
LEMMA FlipSuits ==
  ASSUME NoReconcile, Books, Compatible(ledger), NEW p \in Procs, Setting(p), NEW t \in GpuTokens,
         Flip(p, t), NEW c \in Leases(ledger) \ {job[p].who}, ModeOk(c)
  PROVE  ModeOk(c)'
<1> USE DEF Books, TypeInv
<1>1. /\ pc[p] = "flip" /\ t \in job[p].toks
      /\ mode' = [mode EXCEPT ![t] = claimMode(job[p].who)]
  BY FlipEffect
<1>2. job[p].who \in Leases(ledger) /\ t \in Requires[job[p].who]
  BY <1>1, JobFields DEF CopyInv, Copy, Claiming, Leases, TypeOK, Setting
<1>3. t \in Requires[c] => claimMode(c) = claimMode(job[p].who)
  BY <1>2 DEF Compatible, Overlap, claimMode
<1> QED BY <1>1, <1>3 DEF ModeOk, TypeOK

\* So does the switch of a release: it goes by the claims that remain.
LEMMA UnflipSuits ==
  ASSUME NoReconcile, Books, NEW p \in Procs, Compatible(job[p].mem), NEW t \in GpuTokens,
         Unflip(p, t), NEW c \in Deploys, ~Busy(p, c)', ModeOk(c)
  PROVE  ModeOk(c)'
<1> USE DEF Books, TypeInv
<1> DEFINE target == desiredModeForToken(job[p].mem, t)
<1>1. mode' = mode \/ mode' = [mode EXCEPT ![t] = target]
  BY DEF Unflip
<1>2. pc'[p] = "unflip" /\ job'[p].mem = job[p].mem
  BY UnflipEffect DEF SameCopy
<1>3. c \in Leases(job[p].mem)
  BY <1>2 DEF Busy, Trimming, Leases
<1>4. ASSUME t \in Requires[c] PROVE target = claimMode(c)
  <2> DEFINE users == {d \in Leases(job[p].mem) : t \in Requires[d]}
  <2>1. c \in users
    BY <1>3, <1>4
  <2>2. c \in SharedClaim => users \subseteq SharedClaim
    BY <1>3, <1>4 DEF Compatible, Overlap
  <2>3. target = IF users # {} /\ users \subseteq SharedClaim THEN "nvidia" ELSE "vfio"
    BY DEF desiredModeForToken
  <2> HIDE DEF users, target
  <2> QED BY <2>1, <2>2, <2>3 DEF claimMode
<1> HIDE DEF target
<1> QED BY <1>1, <1>4 DEF ModeOk, TypeOK

LEMMA SettingStep ==
  ASSUME NoReconcile, Books, \A q \in Procs : Setting(q), NEW p \in Procs, Step(p)
  PROVE  \A q \in Procs : Setting(q)'
<1> USE DEF Books, TypeInv
<1>1. Setting(p)'
  <2>1. CASE StopsEnd(p)
    <3>1. job'[p].toks = Requires[job[p].who] \cap GpuTokens /\ job'[p].who = job[p].who
      BY <2>1, StopsEndEffect DEF Alone
    <3> QED BY <3>1 DEF Setting
  <2>2. ASSUME NEW t \in GpuTokens, Flip(p, t) PROVE Setting(p)'
    <3>1. /\ pc[p] = "flip" /\ job'[p].who = job[p].who /\ job'[p].toks = job[p].toks \ {t}
          /\ mode' = [mode EXCEPT ![t] = claimMode(job[p].who)]
      BY <2>2, FlipEffect DEF Alone
    <3> QED BY <3>1 DEF Setting, TypeOK
  <2> QED BY <2>1, <2>2, FlipFrom DEF Setting
<1>2. ASSUME NEW q \in Procs \ {p} PROVE Setting(q)'
  <2>1. pc'[q] = pc[q] /\ job'[q] = job[q]
    BY StepOnward DEF Onward, Alone
  <2>2. pc[q] = "flip" => mode' = mode
    <3> SUFFICES ASSUME pc[q] = "flip" PROVE mode' = mode
      OBVIOUS
    <3>1. lock = q
      BY DEF LockInv, AtWork, Holding, Claiming
    <3>2. pc[p] \notin {"flip", "unflip"}
      BY <3>1 DEF LockInv, AtWork, Holding, Claiming, Trimming
    <3> QED BY <3>2, ModeMoves, FlipEffect, UnflipEffect
  <2> QED BY <2>1, <2>2 DEF Setting
<1> QED BY <1>1, <1>2

LEMMA ModeStep ==
  ASSUME NoReconcile, Claimants, Books, ExclusionInv, KeptInv, TodoInv, TidyInv, ModeInv,
         NEW p \in Procs, Step(p)
  PROVE  ModeInv'
<1> USE DEF Books, TypeInv
<1>1. ASSUME NEW c \in Deploys, Settled(c)' PROVE ModeOk(c)'
  <2>1. CASE Settled(c)
    <3>1. ~Busy(p, c)' /\ ModeOk(c)
      BY <1>1, <2>1 DEF Settled, ModeInv
    <3>2. CASE mode' = mode
      BY <3>1, <3>2 DEF ModeOk
    <3>3. ASSUME NEW t \in GpuTokens, Flip(p, t) PROVE ModeOk(c)'
      <4>1. c \in Leases(ledger) \ {job[p].who}
        BY <2>1, <3>3, FlipEffect DEF Settled, Busy
      <4> QED BY <3>1, <3>3, <4>1, FlipSuits DEF ExclusionInv, ModeInv
    <3>4. ASSUME NEW t \in GpuTokens, Unflip(p, t) PROVE ModeOk(c)'
      BY <2>1, <3>1, <3>4, UnflipSuits DEF ExclusionInv
    <3> QED BY <3>2, <3>3, <3>4, ModeMoves
  <2>2. CASE ~Settled(c)
    <3>1. FlipEnd(p) /\ job[p].who = c
      BY <1>1, <2>2, SettledStep
    <3>2. pc[p] = "flip" /\ job[p].toks = {} /\ mode' = mode
      BY <3>1, FlipEndEffect
    <3> QED BY <3>1, <3>2 DEF ModeInv, Setting, ModeOk
  <2> QED BY <2>1, <2>2
<1>2. \A q \in Procs : Setting(q)'
  BY SettingStep DEF ModeInv
<1> QED BY <1>1, <1>2 DEF ModeInv

\* Outside the processes nothing but `charly vm gpu recover` binds a driver.
LEMMA ModeNext ==
  ASSUME NoReconcile, Claimants, Killed, "recover" \notin Faults, Books, ExclusionInv, KeptInv,
         TodoInv, TidyInv, ModeInv, [Next]_vars
  PROVE  ModeInv'
<1> USE DEF Books, TypeInv
<1>1. ASSUME mode' = mode, \A q \in Procs : pc'[q] = "flip" => pc[q] = "flip" /\ job'[q] = job[q],
             \A c \in Deploys : Settled(c)' => Settled(c)
      PROVE  ModeInv'
  BY <1>1 DEF ModeInv, ModeOk, Setting
<1>2. ASSUME NEW p \in Procs, NEW o \in AllCommands, NEW d \in Deploys, Begin(p, o, d)
      PROVE  ModeInv'
  <2>1. /\ mode' = mode
        /\ \A q \in Procs : pc'[q] = "flip" => pc[q] = "flip" /\ job'[q] = job[q]
    BY <1>2, BeginEffect
  <2> QED BY <1>1, <1>2, <2>1, SettledBegin
<1>3. CASE World
  <2>1. mode' = mode
    BY <1>3 DEF World, Crash, Reboot, GoesDown, OperatorStart, StallEnds, GpuRecover, host
  <2>2. \A q \in Procs : pc'[q] = "flip" => pc[q] = "flip" /\ job'[q] = job[q]
    <3>1. ASSUME NEW p \in Procs, Crash(p)
          PROVE  \A q \in Procs : pc'[q] = "flip" => pc[q] = "flip" /\ job'[q] = job[q]
      BY <3>1, CrashEffect DEF Ends, Alone
    <3> QED BY <1>3, <3>1, WorldEffect, RebootEffect DEF OnHost, ownerAlive
  <2> QED BY <1>1, <1>3, <2>1, <2>2, SettledWorld
<1>4. CASE UNCHANGED vars
  BY <1>4 DEF vars, ModeInv, ModeOk, Setting, Settled, Busy, Leases, leaseLive, ownerAlive
<1> QED BY <1>2, <1>3, <1>4, ModeStep DEF Next, Quiet

LEMMA ModeInit == Init => ModeInv
<1> SUFFICES ASSUME Init PROVE ModeInv
  OBVIOUS
<1>1. \A c \in Deploys : ~Settled(c)
  BY DEF Init, Settled, Leases, Empty
<1>2. \A p \in Procs : pc[p] # "flip"
  BY DEF Init
<1> QED BY <1>1, <1>2 DEF ModeInv, Setting

\* While a process uses its claim, each GPU token of it is bound to the driver the
\* claim needs: neither the acquires nor the releases of other claims on the card
\* (the last shared one leaves, an exclusive one is undone) take it away.
THEOREM ModeIsKept ==
  ASSUME NoReconcile, OneKind, Claimants, Steady, Killed, "recover" \notin Faults
  PROVE  Spec => []ClaimMode
<1> DEFINE Inv == Books /\ ExclusionInv /\ KeptInv /\ TodoInv /\ TidyInv /\ ModeInv
<1>1. Init => Inv
  BY BooksInit, KeptInit, TodoInit, TidyInit, ModeInit, EmptyCompatible, InitType
     DEF ExclusionInv, Init, NewJob
<1>2. Inv /\ [Next]_vars => Inv'
  BY BooksNext, ExclusionNext, KeptNext, TodoNext, TidyNext, ModeNext
<1>3. Inv => ClaimMode
  BY UsingSettled DEF ClaimMode, ModeInv, ModeOk
<1> QED BY <1>1, <1>2, <1>3, PTL DEF Spec

-----------------------------------------------------------------------------
(* The holders of a claimed token are down.  A holder has one token and a  *)
(* shared claimant requires one (the first shared claim of one token of    *)
(* two does not stop the holders of the other), and the operator starts no *)
(* holder by hand.                                                         *)

OneShare == \A c \in SharedClaim : \A s, t \in Requires[c] : s = t

\* What a lease lists was stopped for tokens the lease claims.
Fit(L) == \A c \in Leases(L) : \A h \in Deploys : L[c].preempted[h] \subseteq Requires[c]

FitInv == Fit(ledger) /\ \A p \in Procs : Fit(job[p].mem)

LEMMA AttachFits ==
  ASSUME SingleHold, NEW L \in Ledger, NEW c \in Leases(L), NEW good \in BOOLEAN,
         NEW heir \in Heirs(L, c, good), Owned(L), Fit(L)
  PROVE  Fit(Attach(L, c, heir))
<1> DEFINE A == Attach(L, c, heir)
<1>1. /\ Leases(A) = Leases(L) \ {c}
      /\ \A d \in Leases(L) \ {c} : \A h \in Deploys :
           A[d].preempted[h] = IF h \in Carry(L, c, good) /\ heir[h] = d /\ L[d].preempted[h] = {}
                               THEN L[c].preempted[h] ELSE L[d].preempted[h]
  BY AttachFields
<1> HIDE DEF A
<1>2. \A h \in Carry(L, c, good) : Requires[heir[h]] \cap L[c].preempted[h] # {}
  BY DEF Heirs
<1>3. ASSUME NEW d \in Leases(L) \ {c}, NEW h \in Deploys PROVE A[d].preempted[h] \subseteq Requires[d]
  <2>1. CASE h \in Carry(L, c, good) /\ heir[h] = d /\ L[d].preempted[h] = {}
    <3>1. A[d].preempted[h] = L[c].preempted[h] /\ Requires[d] \cap L[c].preempted[h] # {}
      BY <1>1, <1>2, <2>1
    <3>2. L[c].preempted[h] \subseteq Holds[h]
      BY DEF Owned
    <3> QED BY <3>1, <3>2 DEF SingleHold
  <2>2. CASE ~(h \in Carry(L, c, good) /\ heir[h] = d /\ L[d].preempted[h] = {})
    <3>1. A[d].preempted[h] = L[d].preempted[h]
      BY <1>1, <2>2
    <3> QED BY <3>1 DEF Fit
  <2> QED BY <2>1, <2>2
<1>4. Fit(A)
  BY <1>1, <1>3 DEF Fit
<1> QED BY <1>4 DEF A

\* A new lease lists holders of tokens of its own, which no other lease claims.
Rightful(M, c) ==
  \A h \in Deploys : \A d \in Leases(M) \ {c} : Requires[d] \cap M[c].preempted[h] = {}

LEMMA GrantFits ==
  ASSUME TypeOK, OneShare, Fit(ledger), NEW p \in Procs, NEW c \in Deploys,
         ~ClaimedExclusively(ledger, c), NEW from \in Donors(ledger, c),
         NEW M, IsGrant(M, p, c, StoppedFor(c, from), Dropped(ledger, c))
  PROVE  Fit(M) /\ Rightful(M, c)
<1> DEFINE S == StoppedFor(c, from)
<1>1. \A d \in Leases(M) \ {c} : d \in Leases(ledger) /\ M[d] = ledger[d] /\ ~Overlap(c, d)
  BY DEF IsGrant, Leases, Dropped, ClaimedExclusively
<1>2. ASSUME NEW h \in Deploys PROVE S[h] \subseteq Requires[c]
  <2>1. CASE h \in holdersToStop(c)
    BY <2>1 DEF StoppedFor
  <2>2. CASE h \notin holdersToStop(c) /\ h \in CarriedOver(ledger, c)
    <3>1. from[h] \in Leases(ledger) /\ from[h] \in SharedClaim /\ Overlap(c, from[h])
      BY <2>2, DonorsLeases DEF Dropped
    <3>2. ledger[from[h]].preempted[h] \subseteq Requires[from[h]]
      BY <3>1 DEF Fit
    <3>3. Requires[from[h]] \subseteq Requires[c]
      BY <3>1 DEF OneShare, Overlap
    <3>4. S[h] = ledger[from[h]].preempted[h]
      BY <2>2 DEF StoppedFor
    <3> QED BY <3>2, <3>3, <3>4
  <2>3. CASE h \notin holdersToStop(c) /\ h \notin CarriedOver(ledger, c)
    BY <2>3 DEF StoppedFor
  <2> QED BY <2>1, <2>2, <2>3
<1>3. \A h \in Deploys : M[c].preempted[h] = S[h]
  BY DEF IsGrant, IsNewLease
<1> HIDE DEF S
<1>4. \A h \in Deploys : M[c].preempted[h] \subseteq Requires[c]
  BY <1>2, <1>3
<1>5. Fit(M)
  BY <1>1, <1>4 DEF Fit
<1>6. Rightful(M, c)
  BY <1>1, <1>4 DEF Rightful, Overlap
<1> QED BY <1>5, <1>6

LEMMA SharedFits ==
  ASSUME TypeOK, Fit(ledger), NEW p \in Procs, NEW c \in Deploys,
         ~ClaimedExclusively(ledger, c), NEW M, IsGrant(M, p, c, StoppedForShared(c), {})
  PROVE  Fit(M) /\ Rightful(M, c)
<1> DEFINE S == StoppedForShared(c)
<1>1. \A d \in Leases(M) \ {c} : d \in Leases(ledger) /\ M[d] = ledger[d]
  BY DEF IsGrant, Leases
<1>2. \A h \in Deploys : S[h] \subseteq Requires[c]
  BY DEF StoppedForShared
<1>3. \A h \in Deploys : S[h] # {} => ~tokenHeldByShared(ledger, c)
  BY DEF StoppedForShared, FreshShared
<1>4. \A h \in Deploys : M[c].preempted[h] = S[h]
  BY DEF IsGrant, IsNewLease
<1> HIDE DEF S
<1>5. Fit(M)
  BY <1>1, <1>2, <1>4 DEF Fit
<1>6. ASSUME NEW h \in Deploys, NEW d \in Leases(M) \ {c}
      PROVE  Requires[d] \cap M[c].preempted[h] = {}
  <2>1. CASE S[h] = {}
    BY <1>4, <2>1
  <2>2. CASE S[h] # {}
    <3>1. ~Overlap(c, d)
      BY <1>1, <1>3, <2>2 DEF tokenHeldByShared, ClaimedExclusively
    <3> QED BY <1>2, <1>4, <3>1 DEF Overlap
  <2> QED BY <2>1, <2>2
<1> QED BY <1>5, <1>6 DEF Rightful

\* The claim a process decides on.
LEMMA DecidedFits ==
  ASSUME SingleHold, OneShare, Books, Fit(ledger), NEW p \in Procs,
         DecideExclusive(p) \/ DecideShared(p)
  PROVE  /\ Fit(job'[p].mem) /\ Rightful(job'[p].mem, job[p].who)
         /\ UNCHANGED <<ledger, running>> /\ Alone(p)
<1> USE DEF Books, TypeInv
<1>1. job[p].who \in Deploys
  BY JobFields DEF TypeOK
<1>2. CASE DecideExclusive(p)
  <2>1. PICK from \in Donors(ledger, job[p].who) :
          /\ job'[p].mem = Granted(p, job[p].who, from) /\ UNCHANGED <<ledger, running>>
          /\ Alone(p)
    BY <1>2, DecideExclusiveEffect DEF Decided
  <2>2. ~ClaimedExclusively(ledger, job[p].who)
    BY <1>2, ZenonT(30) DEF DecideExclusive, Admissible
  <2>3. IsGrant(job'[p].mem, p, job[p].who, StoppedFor(job[p].who, from), Dropped(ledger, job[p].who))
    BY <1>1, <2>1, GrantFields
  <2> QED BY <1>1, <2>1, <2>2, <2>3, GrantFits
<1>3. CASE DecideShared(p)
  <2>1. /\ job'[p].mem = GrantedShared(p, job[p].who) /\ UNCHANGED <<ledger, running>>
        /\ Alone(p)
    BY <1>3, DecideSharedEffect DEF Decided
  <2>2. ~ClaimedExclusively(ledger, job[p].who)
    BY <1>3 DEF DecideShared, Admissible
  <2>3. IsGrant(job'[p].mem, p, job[p].who, StoppedForShared(job[p].who), {})
    BY <1>1, <2>1, SharedFields
  <2> QED BY <1>1, <2>1, <2>2, <2>3, SharedFits
<1> QED BY <1>2, <1>3

LEMMA FitNext ==
  ASSUME NoReconcile, SingleHold, OneShare, Books, FitInv, [Next]_vars
  PROVE  FitInv'
<1> USE DEF Books, TypeInv
<1>1. Fit(ledger) /\ Fit(Empty) /\ \A q \in Procs : Fit(job[q].mem)
  BY DEF FitInv, Fit, Empty, Leases
<1> DEFINE Goal == Fit(ledger') /\ \A q \in Procs : Fit(job'[q].mem)
<1>2. ASSUME KeepsCopies PROVE Goal
  BY <1>1, <1>2 DEF KeepsCopies
<1>3. ASSUME NEW p \in Procs, NEW o \in AllCommands, NEW d \in Deploys, Begin(p, o, d) PROVE Goal
  BY <1>1, <1>3, BeginEffect, ZenonT(30)
<1>4. ASSUME NEW p \in Procs, LockAcquire(p) \/ LockRelease(p) \/ Flush(p) \/ Commit(p) \/ Append(p)
      PROVE  Goal
  <2>1. CASE LockAcquire(p)
    BY <1>1, <2>1, LockAcquireEffect DEF Alone
  <2>2. CASE LockRelease(p)
    <3>1. /\ ledger' = ledger /\ job'[p].mem \in {ledger, Empty}
          /\ \A q \in Procs \ {p} : job'[q] = job[q]
      BY <2>2, LockReleaseEffect DEF Alone, Ends, Fresh
    <3> QED BY <1>1, <3>1
  <2>3. CASE Flush(p)
    BY <1>1, <2>3, FlushEffect, ZenonT(30) DEF Alone, Ends, Fresh, Scanned
  <2>4. CASE Commit(p)
    <3>1. ledger' = job[p].mem /\ job'[p].mem = Empty /\ \A q \in Procs \ {p} : job'[q] = job[q]
      BY <2>4, CommitEffect DEF Alone, Ends, Fresh
    <3> QED BY <1>1, <3>1
  <2>5. CASE Append(p)
    BY <1>1, <2>5, AppendEffect DEF Alone, SameCopy
  <2> QED BY <1>4, <2>1, <2>2, <2>3, <2>4, <2>5
<1>5. ASSUME NEW p \in Procs, Released(p) PROVE Goal
  <2> DEFINE L == job[p].mem
             c == job[p].cur
             good == job[p].rel => job[p].good
  <2>1. PICK heir \in Heirs(L, c, good) : job'[p].mem = Attach(L, c, heir)
    BY <1>5, ReleasedEffect
  <2>2. L \in Ledger /\ c \in Leases(L) /\ good \in BOOLEAN /\ Owned(L) /\ Fit(L)
    BY <1>1, <1>5, JobFields DEF TypeOK, Released, Releasing, OwnerInv
  <2>3. ledger' = ledger /\ Alone(p)
    BY <1>5, ReleasedEffect
  <2> HIDE DEF L, c, good
  <2>4. Fit(Attach(L, c, heir))
    BY <2>2, AttachFits
  <2> QED BY <1>1, <2>1, <2>3, <2>4 DEF Alone
<1>6. ASSUME NEW p \in Procs, DecideExclusive(p) \/ DecideShared(p) PROVE Goal
  BY <1>1, <1>6, DecidedFits DEF Alone
<1>7. ASSUME NEW p \in Procs, Drop(p) PROVE Goal
  <2>1. /\ ledger' = Without(ledger, job[p].who) /\ job'[p].mem = Empty
        /\ \A q \in Procs \ {p} : job'[q] = job[q]
    BY <1>7, DropEffect DEF Ends, Alone, Fresh
  <2>2. Fit(Without(ledger, job[p].who))
    BY <1>1 DEF Fit, Without, Leases, TypeOK, Ledger
  <2> QED BY <1>1, <2>1, <2>2
<1>8. ASSUME NEW p \in Procs, Step(p) PROVE Goal
  <2> HIDE DEF Goal
  <2> QED BY <1>2, <1>4, <1>5, <1>6, <1>7, <1>8, ProcessKeeps DEF Step
<1>9. ASSUME World PROVE Goal
  BY <1>2, <1>9, WorldKeeps
<1>10. ASSUME UNCHANGED vars PROVE Goal
  BY <1>2, <1>10 DEF vars, KeepsCopies
<1>11. Goal => FitInv'
  BY DEF FitInv, Fit, Leases
<1> HIDE DEF Goal
<1> QED BY <1>3, <1>8, <1>9, <1>10, <1>11 DEF Next, Quiet

LEMMA FitInit == Init => FitInv
<1> SUFFICES ASSUME Init PROVE FitInv
  OBVIOUS
<1>1. ledger = Empty /\ \A p \in Procs : job[p].mem = Empty
  BY DEF Init, NewJob
<1>2. Fit(Empty)
  BY DEF Fit, Empty, Leases
<1> QED BY <1>1, <1>2 DEF FitInv

\* No holder of a token of c is up.
Free(c) == \A h \in running \ {c} : Holds[h] \cap Requires[c] = {}

Yields(p) ==
  /\ pc[p] = "restore" /\ ~job[p].rel => job[p].cur \notin job[p].seen
  /\ pc[p] \in {"scan", "restore", "unflip", "flush"} /\ ~job[p].rel =>
       \A d \in job[p].seen \cap Leases(job[p].mem) : Free(d)
  /\ pc[p] = "decide" => \A d \in Leases(ledger) : Free(d)
  /\ pc[p] \in {"append", "stop"} =>
       \A h \in running \ {job[p].who} : Holds[h] \cap Requires[job[p].who] # {} => h \in job[p].todo
  /\ pc[p] = "flip" => Free(job[p].who)
  /\ pc[p] \in Claiming => Rightful(job[p].mem, job[p].who)

YieldInv ==
  /\ \A c \in Deploys : Settled(c) => Free(c)
  /\ \A p \in Procs : Yields(p)

\* A token that h was stopped for is all that h holds.
LEMMA ListedAll ==
  ASSUME SingleHold, NEW L, Owned(L), NEW c \in Leases(L), NEW h \in Deploys, L[c].preempted[h] # {}
  PROVE  L[c].preempted[h] = Holds[h]
<1> DEFINE P == L[c].preempted[h]
<1>1. P \subseteq Holds[h]
  BY DEF Owned
<1>2. PICK t \in P : TRUE
  OBVIOUS
<1> HIDE DEF P
<1>3. \A s \in Holds[h] : s = t
  BY <1>1, <1>2 DEF SingleHold
<1>4. P = Holds[h]
  BY <1>1, <1>2, <1>3
<1> QED BY <1>4 DEF P

\* A holder comes up when p starts it again under the flock.
LEMMA HoldersRise ==
  ASSUME NoReconcile, Claimants, Books, NEW p \in Procs, Step(p),
         NEW d \in running', d \notin running, Holds[d] # {}
  PROVE  d \in Deploys /\ (Restore(p, d) \/ Rollback(p, d))
<1> USE DEF Books, TypeInv
<1>1. ASSUME NEW h \in Deploys, Restore(p, h) \/ Rollback(p, h)
      PROVE  running' = running \/ running' = running \cup {h}
  BY <1>1, RestoreEffect, RollbackEffect
<1>2. ASSUME BringUp(p) \/ BootBed(p)
      PROVE  FALSE
  <2>1. running' = running \/ running' = running \cup {job[p].who}
    BY <1>2, BringUpEffect, BootBedEffect
  <2>2. ownerAlive(p)
    BY <1>2, BringUpEffect, BootBedEffect DEF ownerAlive
  <2>3. Holds[job[p].who] = {}
    <3>1. <<job[p].op, job[p].who>> \in Workload /\ job[p].op \in AllCommands /\ job[p].who \in Deploys
      BY <2>2, OpsOf DEF LockInv, AtWork, ownerAlive
    <3> QED BY <3>1 DEF Claimants
  <2> QED BY <2>1, <2>3
<1>3. ASSUME \/ Halt(p) \/ LockAcquire(p) \/ LockRelease(p) \/ ScanEnd(p) \/ Flush(p) \/ Retain(p)
             \/ Released(p) \/ UnflipEnd(p) \/ Commit(p)
             \/ \E c \in Deploys : Visit(p, c)
             \/ \E t \in GpuTokens : Unflip(p, t)
      PROVE  running' \subseteq running
  BY <1>3, HaltEffect, LockAcquireEffect, LockReleaseEffect, ScanEndEffect, FlushEffect, RetainEffect,
     ReleasedEffect, UnflipEndEffect, CommitEffect, VisitEffect, UnflipEffect
<1>4. ASSUME \/ Reacquire(p) \/ Refuse(p) \/ DecideExclusive(p) \/ DecideShared(p) \/ Append(p)
             \/ StopsEnd(p) \/ FlipEnd(p) \/ Drop(p) \/ ClearBed(p) \/ CheckEnd(p)
             \/ \E t \in GpuTokens : Flip(p, t) \/ FlipFails(p, t)
      PROVE  running' \subseteq running
  BY <1>4, ReacquireEffect, RefuseEffect, DecideExclusiveEffect, DecideSharedEffect, AppendEffect,
     StopsEndEffect, FlipEndEffect, DropEffect, ClearBedEffect, CheckEndEffect, FlipEffect,
     FlipFailsEffect DEF Decided
<1>5. ASSUME NEW h \in Deploys, Stop(p, h) \/ StopFails(p, h) PROVE running' \subseteq running
  BY <1>5, StopEffect, StopFailsEffect
<1> QED BY <1>1, <1>2, <1>3, <1>4, <1>5 DEF Step

LEMMA OthersRise ==
  ASSUME NoReconcile, Claimants, Books, NEW p \in Procs, Step(p), lock # p
  PROVE  \A d \in running' : d \in running \/ Holds[d] = {}
<1> SUFFICES ASSUME NEW d \in running', d \notin running, Holds[d] # {} PROVE FALSE
  OBVIOUS
<1> USE DEF Books, TypeInv
<1>1. d \in Deploys /\ (Restore(p, d) \/ Rollback(p, d))
  BY HoldersRise
<1>2. pc[p] \in {"restore", "rollback"}
  BY <1>1, RestoreEffect, RollbackEffect
<1> QED BY <1>2 DEF LockInv, AtWork, Holding, Trimming, Claiming

LEMMA FreeKept ==
  ASSUME NEW c, Free(c), \A d \in running' : d \in running \/ Holds[d] = {}
  PROVE  Free(c)'
BY DEF Free

\* A release and a rollback start no holder of a token of a settled claim.
LEMMA SettledFree ==
  ASSUME NoReconcile, Claimants, SingleHold, Books, TodoInv, TidyInv, YieldInv,
         NEW p \in Procs, Step(p), NEW c \in Deploys, Settled(c)
  PROVE  Free(c)'
<1> USE DEF Books, TypeInv
<1>1. Free(c) /\ c \in Leases(ledger) /\ leaseLive(ledger, c) /\ ~Busy(p, c)
  BY DEF YieldInv, Settled
<1> SUFFICES ASSUME NEW h \in running', h # c, h \notin running, Holds[h] # {}
             PROVE  Holds[h] \cap Requires[c] = {}
  BY <1>1 DEF Free
<1>2. h \in Deploys /\ (Restore(p, h) \/ Rollback(p, h))
  BY HoldersRise
<1>3. CASE Restore(p, h)
  <2>1. pc[p] = "restore" /\ h \in job[p].todo
    BY <1>2, <1>3, RestoreEffect
  <2>2. c # job[p].cur
    BY <1>1, <2>1 DEF Busy, Trimming
  <2> QED BY <1>1, <2>1, <2>2, TodoIsFree
<1>4. CASE Rollback(p, h)
  <2>1. pc[p] = "rollback" /\ h \in job[p].todo
    BY <1>2, <1>4, RollbackEffect
  <2>2. /\ job[p].mem = ledger /\ job[p].who \in Leases(ledger)
        /\ Back(ledger, job[p].who, h) /\ Rightful(ledger, job[p].who)
    <3>1. job[p].who \in Deploys /\ Copy(p) /\ Tidy(p) /\ Yields(p)
      BY JobFields DEF TypeOK, CopyInv, TidyInv, YieldInv
    <3> QED BY <2>1, <3>1 DEF Copy, Tidy, Yields, Claiming, Leases
  <2>3. c # job[p].who
    BY <1>1, <2>1 DEF Busy
  <2>4. ledger[job[p].who].preempted[h] = Holds[h]
    BY <1>2, <2>2, ListedAll DEF Back, OwnerInv
  <2> QED BY <1>1, <1>2, <2>2, <2>3, <2>4 DEF Rightful
<1> QED BY <1>2, <1>3, <1>4

LEMMA YieldsOthers ==
  ASSUME NoReconcile, Claimants, Books, YieldInv, NEW p \in Procs, Step(p), NEW q \in Procs \ {p}
  PROVE  Yields(q)'
<1> USE DEF Books, TypeInv
<1>1. pc'[q] = pc[q] /\ job'[q] = job[q] /\ Yields(q)
  BY StepOnward DEF Onward, Alone, YieldInv
<1>2. CASE pc[q] \in Holding
  <2>1. lock # p
    BY <1>2 DEF LockInv, AtWork
  <2>2. ledger' = ledger /\ \A d \in running' : d \in running \/ Holds[d] = {}
    BY <2>1, LedgerLocked, OthersRise
  <2>3. \A c : Free(c) => Free(c)'
    BY <2>2, FreeKept
  <2>4. pc[q] \in {"append", "stop"} =>
          \A h \in running' \ {job[q].who} :
            Holds[h] \cap Requires[job[q].who] # {} => h \in job[q].todo
    BY <1>1, <2>2 DEF Yields
  <2> QED BY <1>1, <2>2, <2>3, <2>4 DEF Yields
<1>3. CASE pc[q] \notin Holding
  BY <1>1, <1>3 DEF Yields, Holding, Trimming, Claiming
<1> QED BY <1>2, <1>3

LEMMA YieldsIdle ==
  ASSUME NEW p \in Procs, pc'[p] \notin Holding \/ (job'[p].rel /\ pc'[p] \in Trimming)
  PROVE  Yields(p)'
BY DEF Yields, Holding, Trimming, Claiming

\* A reconcile has looked at the leases that are alive, and starts no holder of a
\* token of theirs.
LEMMA YieldsRelease ==
  ASSUME NoReconcile, Claimants, SingleHold, Books, KeptInv, TodoInv, TidyInv, YieldInv,
         NEW p \in Procs,
         \/ Halt(p) \/ LockAcquire(p) \/ LockRelease(p) \/ ScanEnd(p) \/ Flush(p) \/ Retain(p)
         \/ Released(p) \/ UnflipEnd(p) \/ Commit(p)
         \/ \E c \in Deploys : Visit(p, c) \/ Restore(p, c)
         \/ \E t \in GpuTokens : Unflip(p, t)
  PROVE  Yields(p)'
<1> USE DEF Books, TypeInv
<1>0. /\ AtWork(p) /\ Copy(p) /\ Yields(p) /\ ~job[p].bad
      /\ pc[p] = "wait" => job[p].seen = {}
      /\ pc[p] = "flush" => Leases(job[p].mem) \subseteq job[p].seen
  BY DEF LockInv, CopyInv, YieldInv, KeptInv, Keeps
<1>1. pc'[p] \notin Holding \/ (job'[p].rel /\ pc'[p] \in Trimming) => Yields(p)'
  BY YieldsIdle
<1>2. ASSUME Halt(p) \/ LockRelease(p) \/ Commit(p) PROVE Yields(p)'
  <2>1. CASE Halt(p)
    BY <1>1, <2>1, HaltEffect DEF Ends, Holding, Trimming, Claiming
  <2>2. CASE LockRelease(p)
    BY <1>1, <2>2, LockReleaseEffect DEF Ends, Holding, Trimming, Claiming
  <2>3. CASE Commit(p)
    BY <1>1, <2>3, CommitEffect DEF Ends, Holding, Trimming, Claiming
  <2> QED BY <1>2, <2>1, <2>2, <2>3
<1>3. CASE LockAcquire(p)
  <2>1. pc'[p] = "scan" /\ job'[p].seen = {}
    BY <1>0, <1>3, LockAcquireEffect
  <2> QED BY <2>1 DEF Yields, Claiming
<1>4. ASSUME ScanEnd(p) \/ Flush(p) PROVE Yields(p)'
  <2>1. ~job[p].rel /\ running' = running
    BY <1>0, <1>4, ScanEndEffect, FlushEffect DEF AtWork
  <2>2. ASSUME Scanned(p), \A d \in Leases(ledger') : Free(d) PROVE Yields(p)'
    <3>1. CASE Ends(p)
      BY <1>1, <3>1 DEF Ends, Holding, Trimming, Claiming
    <3>2. CASE pc'[p] = "decide"
      BY <2>1, <2>2, <3>2 DEF Yields, Claiming, Free, Leases
    <3> QED BY <2>2, <3>1, <3>2 DEF Scanned
  <2>3. CASE Flush(p)
    <3>1. Scanned(p) /\ ledger' = job[p].mem /\ pc[p] = "flush"
      BY <2>3, FlushEffect
    <3>2. \A d \in Leases(job[p].mem) : Free(d)
      BY <1>0, <2>1, <3>1 DEF Yields
    <3> QED BY <2>2, <3>1, <3>2
  <2>4. ASSUME ScanEnd(p), ~job[p].dirty PROVE Yields(p)'
    <3>1. /\ Scanned(p) /\ ledger' = ledger /\ ledger = job[p].mem /\ pc[p] = "scan"
          /\ Leases(job[p].mem) \subseteq job[p].seen
      BY <1>0, <2>4, ScanEndEffect DEF Copy
    <3>2. \A d \in Leases(job[p].mem) : Free(d)
      BY <1>0, <2>1, <3>1 DEF Yields
    <3> QED BY <2>2, <3>1, <3>2
  <2>5. ASSUME ScanEnd(p), job[p].dirty PROVE Yields(p)'
    <3>1. /\ pc[p] = "scan" /\ pc'[p] = "flush" /\ job'[p].mem = job[p].mem
          /\ job'[p].seen = job[p].seen
      BY <2>5, ScanEndEffect DEF SameCopy
    <3> QED BY <1>0, <2>1, <3>1 DEF Yields, Claiming, Free, Leases
  <2> QED BY <1>4, <2>3, <2>4, <2>5
<1>5. ~Retain(p)
  BY <1>0, RetainEffect
<1>6. CASE Released(p)
  <2> DEFINE L == job[p].mem
             c == job[p].cur
             good == job[p].rel => job[p].good
  <2>1. PICK heir \in Heirs(L, c, good) : job'[p].mem = Attach(L, c, heir)
    BY <1>6, ReleasedEffect
  <2>2. L \in Ledger /\ c \in Leases(L) /\ good \in BOOLEAN
    BY <1>6, JobFields DEF TypeOK, Released, Releasing
  <2>3. /\ pc[p] = "restore" /\ pc'[p] = "unflip" /\ job'[p].rel = job[p].rel
        /\ job'[p].seen = job[p].seen /\ running' = running
    BY <1>6, ReleasedEffect DEF SameFlags
  <2>4. ~job[p].rel => \A d \in job[p].seen \cap Leases(L) : Free(d)
    BY <1>0, <2>3 DEF Yields
  <2> HIDE DEF L, c, good
  <2> DEFINE A == Attach(L, c, heir)
  <2>5. Leases(A) = Leases(L) \ {c}
    BY <2>2, AttachFields
  <2> HIDE DEF A
  <2>6. job'[p].mem = A
    BY <2>1 DEF A
  <2>7. ~job[p].rel => \A d \in job[p].seen \cap Leases(A) : Free(d)
    BY <2>4, <2>5
  <2> QED BY <2>3, <2>6, <2>7 DEF Yields, Claiming, Free, Leases
<1>7. ASSUME UnflipEnd(p) \/ \E t \in GpuTokens : Unflip(p, t) PROVE Yields(p)'
  <2>1. /\ pc[p] = "unflip" /\ pc'[p] \in {"unflip", "scan", "commit"}
        /\ job'[p].mem = job[p].mem /\ job'[p].seen = job[p].seen
        /\ job'[p].rel = job[p].rel /\ running' = running
    BY <1>7, UnflipEndEffect, UnflipEffect DEF SameCopy, SameFlags
  <2> QED BY <1>0, <2>1 DEF Yields, Claiming, Free, Leases
<1>8. ASSUME NEW c \in Deploys, Visit(p, c) PROVE Yields(p)'
  <2>1. /\ pc[p] = "scan" /\ c \in Leases(job[p].mem) \ job[p].seen
        /\ job'[p].mem = job[p].mem /\ running' = running /\ ~job[p].rel /\ lock = p
    BY <1>0, <1>8, VisitEffect DEF AtWork, Holding, Trimming
  <2>2. \A d \in job[p].seen \cap Leases(job[p].mem) : Free(d)
    BY <1>0, <2>1 DEF Yields
  <2>3. CASE leaseLive(job[p].mem, c)
    <3>1. pc'[p] = "scan" /\ job'[p].seen = job[p].seen \cup {c}
      BY <1>8, <2>3, VisitEffect
    <3>2. c \in Leases(ledger) /\ leaseLive(ledger, c)
      BY <1>0, <2>1, <2>3 DEF Copy, Within, Trimming, leaseLive
    <3>3. ASSUME NEW q \in Procs PROVE ~Busy(q, c)
      BY <2>1 DEF Busy, LockInv, AtWork, Holding, Trimming, Claiming, Leases
    <3>4. Free(c)
      BY <3>2, <3>3 DEF Settled, YieldInv
    <3> QED BY <2>1, <2>2, <3>1, <3>4 DEF Yields, Claiming, Free, Leases
  <2>4. CASE ~leaseLive(job[p].mem, c)
    <3>1. pc'[p] = "restore" /\ job'[p].seen = job[p].seen /\ job'[p].cur = c
      BY <1>8, <2>4, VisitEffect
    <3> QED BY <2>1, <2>2, <3>1 DEF Yields, Claiming, Free, Leases
  <2> QED BY <2>3, <2>4
<1>9. ASSUME NEW h \in Deploys, Restore(p, h) PROVE Yields(p)'
  <2>1. /\ pc[p] = "restore" /\ pc'[p] = "restore" /\ h \in job[p].todo
        /\ job'[p].mem = job[p].mem /\ job'[p].seen = job[p].seen /\ job'[p].cur = job[p].cur
        /\ job'[p].rel = job[p].rel
        /\ running' = running \/ running' = running \cup {h}
    BY <1>9, RestoreEffect DEF SameCopy
  <2>2. CASE job[p].rel
    BY <1>1, <2>1, <2>2 DEF Trimming
  <2>3. CASE ~job[p].rel
    <3> DEFINE L == job[p].mem
               c == job[p].cur
    <3>1. /\ h \in Deploys /\ c \in Leases(L) /\ L[c].preempted[h] # {} /\ Owned(L)
          /\ ~tokenClaimed(Without(L, c), L[c].preempted[h])
      BY <2>1, TodoHolders DEF OwnerInv
    <3>2. c \notin job[p].seen /\ \A d \in job[p].seen \cap Leases(L) : Free(d)
      BY <1>0, <2>1, <2>3 DEF Yields
    <3>3. L \in Ledger
      BY JobFields DEF TypeOK
    <3> HIDE DEF L, c
    <3>4. L[c].preempted[h] = Holds[h]
      BY <3>1, ListedAll
    <3>5. ASSUME NEW d \in Leases(L), d # c PROVE Holds[h] \cap Requires[d] = {}
      BY <3>1, <3>3, <3>4, <3>5 DEF tokenClaimed, Without, Leases, Ledger
    <3>6. \A d \in job[p].seen \cap Leases(L) : Free(d)'
      BY <2>1, <3>2, <3>5 DEF Free
    <3>7. job'[p].mem = L /\ job'[p].cur = c
      BY <2>1 DEF L, c
    <3> QED BY <2>1, <2>3, <3>2, <3>6, <3>7 DEF Yields, Claiming, Leases
  <2> QED BY <2>2, <2>3
<1> QED BY <1>2, <1>3, <1>4, <1>5, <1>6, <1>7, <1>8, <1>9

\* A first claim stops the holders, a later shared one finds them down.
LEMMA YieldsDecide ==
  ASSUME NoReconcile, Claimants, SingleHold, OneShare, Books, FitInv, YieldInv,
         NEW p \in Procs, DecideExclusive(p) \/ DecideShared(p)
  PROVE  Yields(p)'
<1> USE DEF Books, TypeInv
<1> DEFINE c == job[p].who
<1>0. c \in Deploys /\ pc[p] = "decide"
  BY JobFields, DecideExclusiveEffect, DecideSharedEffect DEF TypeOK, Admissible
<1>1. /\ Rightful(job'[p].mem, c) /\ running' = running /\ ledger' = ledger /\ job'[p].who = c
  BY DecidedFits DEF FitInv, Alone
<1>2. \A d \in Leases(ledger) : Free(d)
  BY <1>0 DEF YieldInv, Yields
<1>3. /\ pc'[p] = "append"
      /\ \A h \in running \ {c} : Holds[h] \cap Requires[c] # {} => h \in job'[p].todo
  <2>1. CASE DecideExclusive(p)
    <3>1. pc'[p] = "append" /\ job'[p].todo = holdersToStop(c)
      BY <2>1, DecideExclusiveEffect DEF Decided
    <3> QED BY <3>1 DEF holdersToStop, TypeOK
  <2>2. CASE DecideShared(p)
    <3>1. pc'[p] = "append" /\ job'[p].todo = FreshShared(c) /\ c \in SharedClaim
      BY <2>2, DecideSharedEffect DEF Decided
    <3>2. CASE ~tokenHeldByShared(ledger, c)
      BY <3>1, <3>2 DEF FreshShared, holdersToStop, TypeOK
    <3>3. CASE tokenHeldByShared(ledger, c)
      <4>1. PICK d \in Leases(ledger) : Overlap(c, d)
        BY <3>3 DEF tokenHeldByShared
      <4>2. Requires[c] \subseteq Requires[d]
        BY <3>1, <4>1 DEF Overlap, OneShare
      <4>3. Free(d) /\ Holds[d] = {}
        BY <1>2, <4>1, LeasesOfClaimants
      <4> QED BY <3>1, <4>2, <4>3 DEF Free
    <3> QED BY <3>2, <3>3
  <2> QED BY <2>1, <2>2
<1> HIDE DEF c
<1> QED BY <1>1, <1>3 DEF Yields, Rightful, Claiming, Leases

LEMMA YieldsAcquire ==
  ASSUME NoReconcile, Claimants, SingleHold, OneShare, Books, FitInv, YieldInv,
         NEW p \in Procs,
         \/ Reacquire(p) \/ Refuse(p) \/ DecideExclusive(p) \/ DecideShared(p) \/ Append(p)
         \/ StopsEnd(p) \/ FlipEnd(p) \/ Drop(p) \/ ClearBed(p) \/ BringUp(p) \/ BootBed(p)
         \/ CheckEnd(p)
         \/ \E h \in Deploys : Stop(p, h) \/ StopFails(p, h) \/ Rollback(p, h)
         \/ \E t \in GpuTokens : Flip(p, t) \/ FlipFails(p, t)
  PROVE  Yields(p)'
<1> USE DEF Books, TypeInv
<1>0. Yields(p) /\ job[p].who \in Deploys
  BY JobFields DEF YieldInv, TypeOK
<1>1. pc'[p] \notin Holding => Yields(p)'
  BY YieldsIdle
<1>2. ASSUME \/ Reacquire(p) \/ Refuse(p) \/ FlipEnd(p) \/ Drop(p) \/ ClearBed(p) \/ BringUp(p)
             \/ BootBed(p) \/ CheckEnd(p)
      PROVE  Yields(p)'
  <2>1. pc'[p] \in {"up", "boot", "busy", "relwait", "done"}
    BY <1>2, ReacquireEffect, RefuseEffect, FlipEndEffect, DropEffect, ClearBedEffect, BringUpEffect,
       BootBedEffect, CheckEndEffect DEF Ends
  <2> QED BY <1>1, <2>1 DEF Holding, Trimming, Claiming
<1>3. ASSUME DecideExclusive(p) \/ DecideShared(p) PROVE Yields(p)'
  BY <1>3, YieldsDecide
<1>4. CASE Append(p)
  <2>1. /\ pc[p] = "append" /\ pc'[p] = "stop" /\ job'[p].mem = job[p].mem
        /\ job'[p].who = job[p].who /\ job'[p].todo = job[p].todo /\ running' = running
    BY <1>4, AppendEffect DEF SameCopy, SameLists, Alone
  <2> QED BY <1>0, <2>1 DEF Yields, Claiming, Rightful, Leases
<1>5. CASE StopsEnd(p)
  <2>1. /\ pc[p] = "stop" /\ pc'[p] = "flip" /\ job'[p].mem = job[p].mem
        /\ job'[p].who = job[p].who /\ job[p].todo = {} /\ running' = running
    BY <1>5, StopsEndEffect DEF SameCopy, Alone, NextStops
  <2>2. Free(job[p].who)
    BY <1>0, <2>1 DEF Yields, Free
  <2> QED BY <1>0, <2>1, <2>2 DEF Yields, Claiming, Rightful, Leases, Free
<1>6. ASSUME NEW h \in Deploys, Stop(p, h) PROVE Yields(p)'
  <2>1. /\ pc[p] = "stop" /\ pc'[p] = "stop" /\ job'[p].mem = job[p].mem
        /\ job'[p].who = job[p].who /\ job'[p].todo = job[p].todo \ {h}
        /\ running' = running \ {h}
    BY <1>6, StopEffect DEF SameCopy, Alone
  <2> QED BY <1>0, <2>1 DEF Yields, Claiming, Rightful, Leases
<1>7. ASSUME \/ \E h \in Deploys : StopFails(p, h) \/ Rollback(p, h)
             \/ \E t \in GpuTokens : FlipFails(p, t)
      PROVE  Yields(p)'
  <2>1. /\ pc[p] \in Claiming /\ pc'[p] = "rollback" /\ job'[p].mem = job[p].mem
        /\ job'[p].who = job[p].who
    BY <1>7, StopFailsEffect, RollbackEffect, FlipFailsEffect DEF SameCopy, Alone, Claiming
  <2> QED BY <1>0, <2>1 DEF Yields, Claiming, Rightful, Leases
<1>8. ASSUME NEW t \in GpuTokens, Flip(p, t) PROVE Yields(p)'
  <2>1. /\ pc[p] = "flip" /\ pc'[p] = "flip" /\ job'[p].mem = job[p].mem
        /\ job'[p].who = job[p].who /\ running' = running
    BY <1>8, FlipEffect DEF SameCopy, Alone
  <2> QED BY <1>0, <2>1 DEF Yields, Claiming, Rightful, Leases, Free
<1> QED BY <1>2, <1>3, <1>4, <1>5, <1>6, <1>7, <1>8

LEMMA YieldStep ==
  ASSUME NoReconcile, Claimants, SingleHold, OneShare, Books, KeptInv, TodoInv, TidyInv, FitInv,
         YieldInv, NEW p \in Procs, Step(p)
  PROVE  YieldInv'
<1> USE DEF Books, TypeInv
<1>1. ASSUME NEW c \in Deploys, Settled(c)' PROVE Free(c)'
  <2>1. CASE Settled(c)
    BY <2>1, SettledFree
  <2>2. CASE ~Settled(c)
    <3>1. FlipEnd(p) /\ job[p].who = c
      BY <1>1, <2>2, SettledStep
    <3>2. pc[p] = "flip" /\ running' = running
      BY <3>1, FlipEndEffect
    <3> QED BY <3>1, <3>2 DEF YieldInv, Yields, Free
  <2> QED BY <2>1, <2>2
<1>2. Yields(p)'
  BY YieldsRelease, YieldsAcquire DEF Step
<1>3. ASSUME NEW q \in Procs \ {p} PROVE Yields(q)'
  BY YieldsOthers
<1> QED BY <1>1, <1>2, <1>3 DEF YieldInv

\* Outside the processes only the operator starts a holder.
LEMMA YieldNext ==
  ASSUME NoReconcile, Claimants, Killed, SingleHold, OneShare, "opstart" \notin Faults,
         Books, KeptInv, TodoInv, TidyInv, FitInv, YieldInv, [Next]_vars
  PROVE  YieldInv'
<1> USE DEF Books, TypeInv
<1>1. ASSUME running' \subseteq running, ledger' = ledger,
             \A q \in Procs : pc'[q] \in Holding => pc[q] = pc'[q] /\ job'[q] = job[q],
             \A c \in Deploys : Settled(c)' => Settled(c)
      PROVE  YieldInv'
  <2>1. \A c : Free(c) => Free(c)'
    BY <1>1 DEF Free
  <2>2. ASSUME NEW q \in Procs PROVE Yields(q)'
    <3>1. CASE pc'[q] \in Holding
      <4>1. pc'[q] = pc[q] /\ job'[q] = job[q] /\ Yields(q)
        BY <1>1, <3>1 DEF YieldInv
      <4>2. pc[q] \in {"append", "stop"} =>
              \A h \in running' \ {job[q].who} :
                Holds[h] \cap Requires[job[q].who] # {} => h \in job[q].todo
        BY <1>1, <4>1 DEF Yields
      <4> QED BY <1>1, <2>1, <4>1, <4>2 DEF Yields
    <3>2. CASE pc'[q] \notin Holding
      BY <3>2, YieldsIdle
    <3> QED BY <3>1, <3>2
  <2> QED BY <1>1, <2>1, <2>2 DEF YieldInv
<1>2. ASSUME NEW p \in Procs, NEW o \in AllCommands, NEW d \in Deploys, Begin(p, o, d)
      PROVE  YieldInv'
  <2>1. o # "reconcile"
    BY <1>2, BeginEffect DEF NoReconcile
  <2>2. /\ running' = running /\ ledger' = ledger
        /\ pc'[p] \in {"halt", "wait", "relwait"}
        /\ \A q \in Procs \ {p} : pc'[q] = pc[q] /\ job'[q] = job[q]
    BY <1>2, <2>1, BeginEffect DEF AllCommands
  <2>3. \A q \in Procs : pc'[q] \in Holding => pc[q] = pc'[q] /\ job'[q] = job[q]
    BY <2>2 DEF Holding, Trimming, Claiming
  <2> QED BY <1>1, <1>2, <2>2, <2>3, SettledBegin
<1>3. CASE World
  <2>1. running' \subseteq running /\ ledger' = ledger
    BY <1>3, WorldEffect, RebootEffect, CrashEffect DEF OnHost
  <2>2. \A q \in Procs : pc'[q] \in Holding => pc[q] = pc'[q] /\ job'[q] = job[q]
    <3>1. ASSUME NEW p \in Procs, Crash(p)
          PROVE  \A q \in Procs : pc'[q] \in Holding => pc[q] = pc'[q] /\ job'[q] = job[q]
      BY <3>1, CrashEffect DEF Ends, Alone, Holding, Trimming, Claiming
    <3>2. CASE Reboot
      BY <3>2, RebootEffect DEF ownerAlive, Holding, Trimming, Claiming
    <3>3. CASE OnHost
      BY <3>3 DEF OnHost
    <3> QED BY <1>3, <3>1, <3>2, <3>3, WorldEffect
  <2> QED BY <1>1, <1>3, <2>1, <2>2, SettledWorld
<1>4. CASE UNCHANGED vars
  <2>1. /\ running' = running /\ ledger' = ledger /\ pc' = pc /\ job' = job
    BY <1>4 DEF vars
  <2>2. \A c \in Deploys : Settled(c)' => Settled(c)
    BY <2>1 DEF Settled, Busy, Leases, leaseLive, ownerAlive
  <2> QED BY <1>1, <2>1, <2>2
<1> QED BY <1>2, <1>3, <1>4, YieldStep DEF Next, Quiet

LEMMA YieldInit == Init => YieldInv
<1> SUFFICES ASSUME Init PROVE YieldInv
  OBVIOUS
<1>1. \A c \in Deploys : ~Settled(c)
  BY DEF Init, Settled, Leases, Empty
<1>2. \A p \in Procs : pc[p] = "new"
  BY DEF Init
<1>3. \A p \in Procs : Yields(p)
  BY <1>2 DEF Yields, Claiming
<1> QED BY <1>1, <1>3 DEF YieldInv

\* While a process uses its claim, exclusive or shared, no preemptible holder of a
\* token of it is up: not the ones it stopped, and none that the release, the
\* rollback or the reconcile of another claim starts again.
THEOREM HoldersStayDown ==
  ASSUME NoReconcile, OneKind, Claimants, Steady, Killed, SingleHold, OneShare,
         "opstart" \notin Faults
  PROVE  Spec => []HoldersYield
<1> DEFINE Inv == Books /\ KeptInv /\ TodoInv /\ TidyInv /\ FitInv /\ YieldInv
<1>1. Init => Inv
  BY BooksInit, KeptInit, TodoInit, TidyInit, FitInit, YieldInit
<1>2. Inv /\ [Next]_vars => Inv'
  BY BooksNext, KeptNext, TodoNext, TidyNext, FitNext, YieldNext
<1>3. Inv => HoldersYield
  BY UsingSettled DEF HoldersYield, YieldInv, Free
<1> QED BY <1>1, <1>2, <1>3, PTL DEF Spec

-----------------------------------------------------------------------------
(* A release finds its claimant down.  A check run takes its bed down,     *)
(* however it went, and is not killed before (a bed that is left up for    *)
(* inspection runs without its claim); stopping a deployment succeeds; and *)
(* nobody releases the claim of `charly start` by hand.                    *)

Unkilled == MaxCrashes = 0 \/ \A d \in Deploys : <<"check", d>> \notin Workload
TornDown == /\ "halt" \notin Faults /\ "linger" \notin Faults
            /\ "bedfail" \notin Faults /\ "keep" \notin Faults
Handed   == \A d \in Deploys : <<"restore", d>> \in Workload => <<"start", d>> \notin Workload

\* A claimant that is up under a transient lease has its check run.
BedInv ==
  \A c \in Leases(ledger) \cap running : ledger[c].transient => ownerAlive(ledger[c].owner)

\* Before a process releases its claim it has taken its deployment down, and the
\* copy it commits is without its lease.
Lowered(p) ==
  \/ pc[p] \in {"boot", "relwait"}
  \/ pc[p] = "busy" /\ ~job[p].good
  \/ pc[p] \in Trimming /\ job[p].rel

Down(p) ==
  /\ Lowered(p) /\ ledger[job[p].who] # NoLease => job[p].who \notin running
  /\ ~job[p].good => pc[p] \in {"busy", "relwait"} \/ job[p].rel
  /\ pc[p] \in {"unflip", "commit"} /\ job[p].rel => job[p].mem[job[p].who] = NoLease

DownInv == BedInv /\ \A p \in Procs : Down(p)

\* A lease that is on disk after a step was there before, unless the step wrote it.
LEMMA LeaseSource ==
  ASSUME NoReconcile, Books, NEW p \in Procs, Step(p), NEW c \in Deploys, ledger'[c] # NoLease
  PROVE  \/ /\ ledger[c] # NoLease /\ ledger'[c].owner = ledger[c].owner
            /\ ledger'[c].transient = ledger[c].transient
         \/ Append(p) /\ c = job[p].who /\ ledger'[c].owner = p
<1> USE DEF Books, TypeInv
<1>0. Copy(p)
  BY DEF CopyInv
<1>1. CASE c # job[p].who
  BY <1>1, LedgerMoves
<1>2. CASE c = job[p].who
  <2>1. KeepsCopies => ledger' = ledger
    BY DEF KeepsCopies
  <2>2. ASSUME LockAcquire(p) \/ LockRelease(p) PROVE ledger' = ledger
    BY <2>2, LockAcquireEffect, LockReleaseEffect
  <2>3. ASSUME Released(p) PROVE ledger' = ledger
    BY <2>3, ReleasedEffect
  <2>4. ASSUME DecideExclusive(p) \/ DecideShared(p) PROVE ledger' = ledger
    BY <2>4, DecideExclusiveEffect, DecideSharedEffect DEF Decided
  <2>5. ASSUME Flush(p) \/ Commit(p)
        PROVE  /\ ledger[c] # NoLease /\ ledger'[c].owner = ledger[c].owner
               /\ ledger'[c].transient = ledger[c].transient
    <3>1. ledger' = job[p].mem /\ Within(job[p].mem, ledger)
      BY <1>0, <2>5, FlushEffect, CommitEffect DEF Copy, Trimming
    <3> QED BY <3>1 DEF Within, Leases
  <2>6. ASSUME Append(p) PROVE ledger'[c].owner = p
    BY <1>0, <1>2, <2>6, AppendEffect DEF Copy, Claiming
  <2>7. ~Drop(p)
    BY <1>2, DropEffect DEF Without, TypeOK, Ledger
  <2> QED BY <1>2, <2>1, <2>2, <2>3, <2>4, <2>5, <2>6, <2>7, ProcessKeeps DEF Step
<1> QED BY <1>1, <1>2

\* How a command that takes its deployment down does it when nothing fails.
LEMMA HaltDown ==
  ASSUME TornDown, TypeOK, NEW p \in Procs, Halt(p)
  PROVE  /\ running' = running \ {job[p].who} /\ pc'[p] = "relwait"
         /\ Alone(p) /\ SameFlags(p)
<1>1. running' = running \ {job[p].who} /\ Goto(p, "relwait") /\ UNCHANGED job
  BY DEF TornDown, Halt
<1> QED BY <1>1, GotoEffect

LEMMA BootBedDown ==
  ASSUME TypeOK, NEW p \in Procs, BootBed(p), ~job'[p].good
  PROVE  running' = running \/ ~job[p].good
BY DEF BootBed

LEMMA CheckEndDown ==
  ASSUME TornDown, TypeOK, NEW p \in Procs, CheckEnd(p)
  PROVE  running' = running \ {job[p].who} \/ (~job[p].good /\ running' = running)
BY DEF TornDown, CheckEnd

\* A check run does not end before its lease is gone.
LEMMA CheckReleases ==
  ASSUME NoReconcile, TornDown, Books, KeptInv, DownInv, NEW p \in Procs, Step(p),
         job[p].op = "check", pc'[p] = "done"
  PROVE  ledger'[job[p].who] = NoLease
<1> USE DEF Books, TypeInv
<1> DEFINE c == job[p].who
<1>0. /\ c \in Deploys /\ ledger \in Ledger /\ ~job[p].bad /\ Down(p) /\ AtWork(p)
  BY JobFields DEF TypeOK, KeptInv, Keeps, DownInv, LockInv
<1>1. CASE Commit(p)
  BY <1>0, <1>1, CommitEffect DEF Down, AtWork
<1>2. CASE Drop(p)
  BY <1>0, <1>2, DropEffect DEF Without, Ledger
<1>3. CASE Refuse(p)
  <2>1. ledger[c] = NoLease /\ ledger' = ledger
    BY <1>3, RefuseEffect DEF Refuse
  <2> QED BY <2>1
<1>4. CASE LockRelease(p)
  BY <1>4, LockReleaseEffect
<1>5. /\ ~(Halt(p) \/ LockAcquire(p) \/ Retain(p) \/ Released(p) \/ UnflipEnd(p))
      /\ \A d \in Deploys : ~(Visit(p, d) \/ Restore(p, d))
      /\ \A t \in GpuTokens : ~Unflip(p, t)
  BY <1>0, HaltDown, LockAcquireEffect, RetainEffect, ReleasedEffect, UnflipEndEffect, VisitEffect,
     RestoreEffect, UnflipEffect
<1>6. ~(ScanEnd(p) \/ Flush(p))
  BY ScanEndEffect, FlushEffect DEF Scanned
<1>7. ~(Reacquire(p) \/ DecideExclusive(p) \/ DecideShared(p) \/ Append(p) \/ StopsEnd(p)
        \/ FlipEnd(p) \/ ClearBed(p) \/ BringUp(p) \/ BootBed(p) \/ CheckEnd(p))
  BY ReacquireEffect, DecideExclusiveEffect, DecideSharedEffect, AppendEffect, StopsEndEffect,
     FlipEndEffect, ClearBedEffect, BringUpEffect, BootBedEffect, CheckEndEffect DEF Decided
<1>8. /\ \A h \in Deploys : ~(Stop(p, h) \/ StopFails(p, h) \/ Rollback(p, h))
      /\ \A t \in GpuTokens : ~(Flip(p, t) \/ FlipFails(p, t))
  BY StopEffect, StopFailsEffect, RollbackEffect, FlipEffect, FlipFailsEffect
<1> QED BY <1>1, <1>2, <1>3, <1>4, <1>5, <1>6, <1>7, <1>8 DEF Step

LEMMA BedStep ==
  ASSUME NoReconcile, Claimants, TornDown, Books, KeptInv, TodoInv, TidyInv, DownInv,
         NEW p \in Procs, Step(p)
  PROVE  BedInv'
<1> USE DEF Books, TypeInv
<1> SUFFICES ASSUME NEW c \in Deploys, ledger'[c] # NoLease, c \in running', ledger'[c].transient
             PROVE  ownerAlive(ledger[c].owner)'
  BY DEF BedInv, Leases
<1>1. CASE Append(p) /\ c = job[p].who /\ ledger'[c].owner = p
  BY <1>1, AppendEffect DEF ownerAlive
<1>2. CASE /\ ledger[c] # NoLease /\ ledger'[c].owner = ledger[c].owner
           /\ ledger'[c].transient = ledger[c].transient
  <2> DEFINE o == ledger[c].owner
  <2>1. o \in Procs /\ OwnedBy(o, c, ledger[c].transient) /\ c \in Leases(ledger)
    BY <1>2, LeaseFields DEF TypeOK, OwnerInv, Owned, Leases
  <2> HIDE DEF o
  <2>2. ownerAlive(o)
    <3>1. CASE c \in running
      BY <1>2, <2>1, <3>1 DEF DownInv, BedInv, o
    <3>2. CASE c \notin running
      <4>1. c = job[p].who /\ pc[p] \in Using
        BY <2>1, <3>2, RunningGrows
      <4>2. Held(p, ledger)
        BY <1>2, <4>1 DEF KeptInv, Keeps
      <4> QED BY <1>2, <3>2, <4>1, <4>2 DEF Held, ownerAlive, Using, o
    <3> QED BY <3>1, <3>2
  <2>3. CASE o # p
    BY <1>2, <2>1, <2>2, <2>3, StepOnward DEF Onward, Alone, ownerAlive, o
  <2>4. CASE o = p
    <3>1. job[p].op = "check" /\ job[p].who = c
      BY <1>2, <2>1, <2>4 DEF OwnedBy
    <3>2. pc'[p] # "done" /\ pc'[p] # "new"
      BY <3>1, CheckReleases, StepOnward DEF Onward
    <3> QED BY <1>2, <2>4, <3>2 DEF ownerAlive, o
  <2> QED BY <2>3, <2>4
<1> QED BY <1>1, <1>2, LeaseSource

\* A deployment with a lease comes up in no other step than its own command's.
LEMMA NotRaised ==
  ASSUME NoReconcile, Claimants, Books, TodoInv, TidyInv, NEW p \in Procs, Step(p),
         NEW c \in Deploys, ledger[c] # NoLease => c \notin running, ledger'[c] # NoLease,
         c = job[p].who => ~Append(p) /\ pc[p] \notin Using
  PROVE  c \notin running'
<1>1. ledger[c] # NoLease
  BY LeaseSource
<1>2. c \in Leases(ledger)
  BY <1>1 DEF Leases
<1> QED BY <1>1, <1>2, RunningGrows

LEMMA DownOthers ==
  ASSUME NoReconcile, Claimants, Books, TodoInv, TidyInv, DownInv, NEW p \in Procs, Step(p),
         NEW q \in Procs \ {p}
  PROVE  Down(q)'
<1> USE DEF Books, TypeInv
<1> DEFINE c == job[q].who
<1>1. pc'[q] = pc[q] /\ job'[q] = job[q] /\ Down(q) /\ c \in Deploys
  BY StepOnward, JobFields DEF Onward, Alone, DownInv, TypeOK
<1>2. ASSUME Lowered(q), ledger'[c] # NoLease PROVE c \notin running'
  <2>1. ledger[c] # NoLease => c \notin running
    BY <1>1, <1>2 DEF Down, Lowered
  <2>2. c # job[p].who
    <3>1. ownerAlive(q)
      BY <1>2 DEF Lowered, ownerAlive, Trimming
    <3> QED BY <3>1, StepOnward DEF Onward, LockInv
  <2> QED BY <1>1, <1>2, <2>1, <2>2, NotRaised
<1>3. Lowered(q)' => Lowered(q)
  BY <1>1 DEF Lowered
<1> QED BY <1>1, <1>2, <1>3 DEF Down, Lowered

LEMMA DownIdle ==
  ASSUME NEW p \in Procs, job'[p].good, ~job'[p].rel, pc'[p] \notin {"boot", "relwait"}
  PROVE  Down(p)'
BY DEF Down, Lowered

LEMMA DownRelease ==
  ASSUME NoReconcile, Claimants, TornDown, Books, KeptInv, TodoInv, TidyInv, DownInv,
         NEW p \in Procs, Step(p),
         \/ Halt(p) \/ LockAcquire(p) \/ LockRelease(p) \/ ScanEnd(p) \/ Flush(p) \/ Retain(p)
         \/ Released(p) \/ UnflipEnd(p) \/ Commit(p)
         \/ \E c \in Deploys : Visit(p, c) \/ Restore(p, c)
         \/ \E t \in GpuTokens : Unflip(p, t)
  PROVE  Down(p)'
<1> USE DEF Books, TypeInv
<1> DEFINE c == job[p].who
<1>0. /\ c \in Deploys /\ ~job[p].bad /\ Down(p) /\ AtWork(p) /\ Tidy(p)
      /\ pc[p] \notin {"busy", "relwait"} /\ ~job[p].rel => job[p].good
  BY JobFields DEF TypeOK, KeptInv, Keeps, DownInv, LockInv, TidyInv, Down
<1>1. pc[p] \in {"wait", "scan", "flush", "halt"} => job[p].good /\ ~job[p].rel
  BY <1>0 DEF AtWork
<1>2. CASE Halt(p)
  <2>1. /\ pc'[p] = "relwait" /\ running' = running \ {c} /\ job'[p].who = c
        /\ job'[p].good /\ ~job'[p].rel
    BY <1>1, <1>2, HaltDown, HaltEffect DEF Alone, SameFlags
  <2> QED BY <2>1 DEF Down, Lowered
<1>3. ASSUME LockAcquire(p) \/ ScanEnd(p) \/ Flush(p) \/ Retain(p) \/ Commit(p)
      PROVE  job'[p].good /\ ~job'[p].rel /\ pc'[p] \notin {"boot", "relwait"}
  <2>1. CASE LockAcquire(p)
    BY <1>1, <2>1, LockAcquireEffect DEF SameFlags
  <2>2. CASE ScanEnd(p) \/ Flush(p)
    <3>1. pc[p] \in {"scan", "flush"} /\ pc'[p] \in {"flush", "decide", "done"}
          /\ (SameFlags(p) \/ Fresh(p))
      BY <2>2, ScanEndEffect, FlushEffect DEF Scanned, Ends
    <3> QED BY <1>1, <3>1 DEF SameFlags, Fresh
  <2>3. CASE Commit(p)
    BY <2>3, CommitEffect DEF Ends, Fresh
  <2>4. ~Retain(p)
    BY <1>0, RetainEffect
  <2> QED BY <1>3, <2>1, <2>2, <2>3, <2>4
<1>4. ASSUME NEW d \in Deploys, Visit(p, d)
      PROVE  job'[p].good /\ ~job'[p].rel /\ pc'[p] \notin {"boot", "relwait"}
  BY <1>1, <1>4, VisitEffect DEF SameFlags
<1>5. CASE LockRelease(p)
  <2>1. CASE Ends(p)
    BY <2>1, DownIdle DEF Ends, Fresh
  <2>2. CASE ~Ends(p)
    <3>1. /\ pc[p] = "relwait" /\ pc'[p] = "restore" /\ job'[p].who = c /\ job'[p].rel
          /\ UNCHANGED <<ledger, running>>
      BY <1>5, <2>2, LockReleaseEffect DEF Alone
    <3> QED BY <1>0, <3>1 DEF Down, Lowered
  <2> QED BY <2>1, <2>2
<1>6. ASSUME \/ Released(p) \/ UnflipEnd(p)
             \/ \E d \in Deploys : Restore(p, d)
             \/ \E t \in GpuTokens : Unflip(p, t)
      PROVE  Down(p)'
  <2>1. /\ pc[p] \in {"restore", "unflip"} /\ job'[p].who = c /\ job'[p].rel = job[p].rel
        /\ job'[p].good = job[p].good
        /\ pc'[p] \notin {"boot", "relwait", "busy"}
    <3>1. CASE Released(p) \/ UnflipEnd(p)
      BY <3>1, ReleasedEffect, UnflipEndEffect DEF Alone, SameFlags
    <3>2. CASE \E d \in Deploys : Restore(p, d)
      BY <3>2, RestoreEffect DEF Alone, SameFlags
    <3>3. CASE \E t \in GpuTokens : Unflip(p, t)
      BY <3>3, UnflipEffect DEF Alone, SameFlags
    <3> QED BY <1>6, <3>1, <3>2, <3>3
  <2>2. CASE ~job[p].rel
    BY <1>0, <2>1, <2>2, DownIdle
  <2>3. CASE job[p].rel
    <3>1. ledger'[c] # NoLease => c \notin running'
      <4>1. ledger[c] # NoLease => c \notin running
        BY <1>0, <2>1, <2>3 DEF Down, Lowered, Trimming
      <4>2. ~Append(p) /\ pc[p] \notin Using
        BY <2>1, AppendEffect DEF Using
      <4> QED BY <1>0, <4>1, <4>2, NotRaised
    <3>2. ASSUME Released(p) PROVE job'[p].mem[c] = NoLease
      <4> DEFINE L == job[p].mem
                 d == job[p].cur
                 good == job[p].rel => job[p].good
      <4>1. PICK heir \in Heirs(L, d, good) : job'[p].mem = Attach(L, d, heir)
        BY <3>2, ReleasedEffect
      <4>2. L \in Ledger /\ d \in Leases(L) /\ good \in BOOLEAN /\ d = c
        BY <1>0, <2>3, <3>2, JobFields DEF TypeOK, Released, Releasing, Tidy
      <4> HIDE DEF L, d, good, c
      <4> DEFINE A == Attach(L, d, heir)
      <4>3. Leases(A) = Leases(L) \ {d}
        BY <4>2, AttachFields
      <4> HIDE DEF A
      <4>4. A[c] = NoLease
        BY <1>0, <4>2, <4>3 DEF Leases
      <4> QED BY <4>1, <4>4 DEF A
    <3>3. pc'[p] \in {"unflip", "commit"} => job'[p].mem[c] = NoLease
      <4>1. CASE Released(p)
        BY <3>2, <4>1
      <4>2. CASE UnflipEnd(p) \/ \E t \in GpuTokens : Unflip(p, t)
        <5>1. pc[p] = "unflip" /\ job'[p].mem = job[p].mem
          BY <4>2, UnflipEndEffect, UnflipEffect DEF SameCopy
        <5> QED BY <1>0, <2>3, <5>1 DEF Down, Lowered
      <4>3. CASE \E d \in Deploys : Restore(p, d)
        <5>1. pc'[p] = "restore"
          BY <4>3, RestoreEffect
        <5> QED BY <5>1
      <4> QED BY <1>6, <4>1, <4>2, <4>3
    <3> QED BY <2>1, <2>3, <3>1, <3>3 DEF Down, Lowered
  <2> QED BY <2>2, <2>3
<1> QED BY <1>2, <1>3, <1>4, <1>5, <1>6, DownIdle

LEMMA DownAcquire ==
  ASSUME NoReconcile, Claimants, TornDown, Books, DownInv, NEW p \in Procs,
         \/ Reacquire(p) \/ Refuse(p) \/ DecideExclusive(p) \/ DecideShared(p) \/ Append(p)
         \/ StopsEnd(p) \/ FlipEnd(p) \/ Drop(p) \/ ClearBed(p) \/ BringUp(p) \/ BootBed(p)
         \/ CheckEnd(p)
         \/ \E h \in Deploys : Stop(p, h) \/ StopFails(p, h) \/ Rollback(p, h)
         \/ \E t \in GpuTokens : Flip(p, t) \/ FlipFails(p, t)
  PROVE  Down(p)'
<1> USE DEF Books, TypeInv
<1> DEFINE c == job[p].who
<1>0. /\ c \in Deploys /\ Down(p)
      /\ pc[p] \notin {"restore", "unflip", "commit"} => ~job[p].rel
      /\ pc[p] \notin {"busy", "relwait"} /\ ~job[p].rel => job[p].good
  BY JobFields DEF TypeOK, DownInv, LockInv, AtWork, Down
<1>1. ASSUME \/ Reacquire(p) \/ DecideExclusive(p) \/ DecideShared(p) \/ Append(p) \/ StopsEnd(p)
             \/ \E h \in Deploys : Stop(p, h) \/ StopFails(p, h) \/ Rollback(p, h)
             \/ \E t \in GpuTokens : Flip(p, t) \/ FlipFails(p, t)
      PROVE  Down(p)'
  <2>1. /\ pc[p] \in Claiming \cup {"decide"} /\ pc'[p] \in Claiming \cup {"up"} /\ SameFlags(p)
    BY <1>1, ReacquireEffect, DecideExclusiveEffect, DecideSharedEffect, AppendEffect,
       StopsEndEffect, StopEffect, StopFailsEffect, RollbackEffect, FlipEffect, FlipFailsEffect
       DEF Decided, Claiming
  <2> QED BY <1>0, <2>1, DownIdle DEF SameFlags, Claiming
<1>2. ASSUME Refuse(p) \/ FlipEnd(p) \/ Drop(p) \/ BringUp(p) PROVE Down(p)'
  <2>1. Fresh(p) /\ pc'[p] \in {"up", "done"}
    BY <1>2, RefuseEffect, FlipEndEffect, DropEffect, BringUpEffect DEF Ends
  <2> QED BY <2>1, DownIdle DEF Fresh
<1>3. CASE ClearBed(p)
  <2>1. /\ pc[p] = "up" /\ pc'[p] = "boot" /\ running' = running \ {c} /\ job'[p].who = c
        /\ SameFlags(p)
    BY <1>3, ClearBedEffect DEF Alone
  <2> QED BY <1>0, <2>1 DEF Down, Lowered, SameFlags
<1>4. CASE BootBed(p)
  <2>1. /\ pc[p] = "boot" /\ pc'[p] = "busy" /\ job'[p].who = c /\ job'[p].rel = job[p].rel
        /\ ledger' = ledger
    BY <1>4, BootBedEffect DEF Alone
  <2>2. ~job'[p].good => running' = running
    BY <1>0, <1>4, <2>1, BootBedDown
  <2> QED BY <1>0, <2>1, <2>2 DEF Down, Lowered, Trimming
<1>5. CASE CheckEnd(p)
  <2>1. /\ pc[p] = "busy" /\ pc'[p] = "relwait" /\ job'[p].who = c /\ job'[p].rel = job[p].rel
        /\ ledger' = ledger
    BY <1>5, CheckEndEffect DEF Alone
  <2>2. running' = running \ {c} \/ (~job[p].good /\ running' = running)
    BY <1>5, CheckEndDown
  <2> QED BY <1>0, <2>1, <2>2 DEF Down, Lowered
<1> QED BY <1>1, <1>2, <1>3, <1>4, <1>5

\* `charly preempt restore` of a claimant finds a check run that is over: its bed is down.
LEMMA DownBegin ==
  ASSUME NoReconcile, Handed, Books, DownInv, NEW p \in Procs, NEW o \in AllCommands,
         NEW d \in Deploys, Begin(p, o, d)
  PROVE  DownInv'
<1> USE DEF Books, TypeInv
<1>1. /\ \A q \in Procs \ {p} : pc'[q] = pc[q] /\ job'[q] = job[q]
      /\ job'[p].who = d /\ ~job'[p].rel /\ pc[p] = "new"
      /\ pc'[p] \in {"halt", "wait", "relwait"} /\ (pc'[p] = "relwait" => o = "restore")
      /\ <<o, d>> \in Workload /\ Sole(p, d) /\ UNCHANGED <<ledger, running>>
  BY BeginEffect, BeginLock DEF AllCommands
<1>2. job'[p].good
  BY DEF Begin, NewJob, TypeOK
<1>3. BedInv'
  <2> SUFFICES ASSUME NEW c \in Leases(ledger) \cap running, ledger[c].transient
               PROVE  ownerAlive(ledger[c].owner)'
    BY <1>1 DEF BedInv, Leases
  <2>1. ownerAlive(ledger[c].owner) /\ ledger[c].owner \in Procs
    BY LeaseFields DEF DownInv, BedInv, TypeOK
  <2>2. ledger[c].owner # p
    BY <1>1, <2>1 DEF ownerAlive
  <2> QED BY <1>1, <2>1, <2>2 DEF ownerAlive
<1>4. ASSUME o = "restore", ledger[d] # NoLease PROVE d \notin running
  <2> DEFINE q == ledger[d].owner
  <2>1. q \in Procs /\ OwnedBy(q, d, ledger[d].transient) /\ d \in Leases(ledger)
    BY <1>4, LeaseFields DEF TypeOK, OwnerInv, Owned, Leases
  <2> HIDE DEF q
  <2>2. job[q].who = d /\ <<job[q].op, d>> \in Workload /\ job[q].op \in {"check", "start"}
        /\ q # p
    BY <1>1, <2>1 DEF OwnedBy, LockInv, AtWork
  <2>3. ledger[d].transient
    BY <1>1, <1>4, <2>1, <2>2 DEF Handed, OwnedBy
  <2>4. ~ownerAlive(q)
    BY <1>1, <2>1, <2>2 DEF Sole
  <2> QED BY <2>1, <2>3, <2>4 DEF DownInv, BedInv, q
<1>5. Down(p)'
  BY <1>1, <1>2, <1>4 DEF Down, Lowered, Trimming
<1>6. ASSUME NEW q \in Procs \ {p} PROVE Down(q)'
  BY <1>1 DEF DownInv, Down, Lowered
<1> QED BY <1>3, <1>5, <1>6 DEF DownInv

LEMMA DownWorld ==
  ASSUME NoReconcile, Claimants, Unkilled, Books, DownInv, World
  PROVE  DownInv'
<1> USE DEF Books, TypeInv
<1>1. CASE OnHost
  <2>1. UNCHANGED <<ledger, pc, job>>
    BY <1>1 DEF OnHost
  <2>2. \A c \in Leases(ledger) : c \in running' => c \in running
    BY <1>1, LeasesOfClaimants DEF OnHost
  <2>3. \A q \in Procs : job[q].who \in Deploys
    BY JobFields DEF TypeOK
  <2>4. BedInv'
    BY <2>1, <2>2 DEF DownInv, BedInv, Leases, ownerAlive
  <2>5. ASSUME NEW q \in Procs PROVE Down(q)'
    <3>1. ledger[job[q].who] # NoLease /\ job[q].who \in running' => job[q].who \in running
      BY <2>2, <2>3 DEF Leases
    <3> QED BY <2>1, <3>1 DEF DownInv, Down, Lowered
  <2> QED BY <2>4, <2>5 DEF DownInv
<1>2. CASE Reboot
  <2>1. running' = {} /\ \A q \in Procs : job'[q].good = TRUE /\ ~job'[q].rel
    BY <1>2, RebootEffect DEF Fresh
  <2>2. ASSUME NEW q \in Procs PROVE Down(q)'
    BY <2>1 DEF Down, Lowered
  <2> QED BY <2>1, <2>2 DEF DownInv, BedInv
<1>3. ASSUME NEW p \in Procs, Crash(p) PROVE DownInv'
  <2>1. /\ \A q \in Procs \ {p} : pc'[q] = pc[q] /\ job'[q] = job[q]
        /\ pc'[p] = "done" /\ Fresh(p) /\ crashes < MaxCrashes /\ UNCHANGED <<ledger, running>>
    BY <1>3, CrashEffect DEF Ends, Alone
  <2>2. BedInv'
    <3> SUFFICES ASSUME NEW c \in Leases(ledger), ledger[c].transient PROVE FALSE
      BY <2>1 DEF BedInv, Leases
    <3> DEFINE q == ledger[c].owner
    <3>1. q \in Procs /\ OwnedBy(q, c, ledger[c].transient) /\ c \in Deploys
      BY LeaseFields DEF TypeOK, OwnerInv, Owned
    <3> HIDE DEF q
    <3>2. <<"check", c>> \in Workload
      BY <3>1 DEF OwnedBy, LockInv, AtWork
    <3>3. MaxCrashes # 0
      BY <2>1, ArbiterAssumption DEF TypeOK
    <3> QED BY <3>1, <3>2, <3>3 DEF Unkilled
  <2>3. Down(p)'
    BY <2>1, DownIdle DEF Fresh
  <2>4. ASSUME NEW q \in Procs \ {p} PROVE Down(q)'
    BY <2>1 DEF DownInv, Down, Lowered
  <2> QED BY <2>2, <2>3, <2>4 DEF DownInv
<1> QED BY <1>1, <1>2, <1>3, WorldEffect

LEMMA DownNext ==
  ASSUME NoReconcile, Claimants, Unkilled, TornDown, Handed, Books, KeptInv, TodoInv, TidyInv,
         DownInv, [Next]_vars
  PROVE  DownInv'
<1>1. ASSUME NEW p \in Procs, Step(p) PROVE DownInv'
  <2>1. Down(p)'
    BY <1>1, DownRelease, DownAcquire DEF Step
  <2> QED BY <1>1, <2>1, BedStep, DownOthers DEF DownInv
<1>2. CASE UNCHANGED vars
  BY <1>2 DEF vars, DownInv, BedInv, Down, Lowered, Leases, ownerAlive
<1> QED BY <1>1, <1>2, DownBegin, DownWorld DEF Next, Quiet

LEMMA DownInit == Init => DownInv
<1> SUFFICES ASSUME Init PROVE DownInv
  OBVIOUS
<1>1. Leases(ledger) = {}
  BY DEF Init, Leases, Empty
<1>2. ASSUME NEW p \in Procs PROVE Down(p)
  <2>1. pc[p] = "new" /\ job[p].good = TRUE /\ job[p].rel = FALSE
    BY DEF Init, NewJob
  <2>2. job[p].good /\ ~job[p].rel
    BY <2>1
  <2> QED BY <2>1, <2>2 DEF Down, Lowered
<1> QED BY <1>1, <1>2 DEF DownInv, BedInv

\* A holder is started by a release or a reconcile of a claim whose deployment is down.
LEMMA RestoredDown ==
  ASSUME Books, TodoInv, TidyInv, DownInv, NEW p \in Procs, pc[p] = "restore"
  PROVE  job[p].cur \notin running
<1> USE DEF Books, TypeInv
<1> DEFINE c == job[p].cur
<1>1. c \in Leases(job[p].mem) /\ Copy(p)
  BY DEF Releasing, CopyInv
<1>2. /\ c \in Leases(ledger) /\ job[p].mem[c].owner = ledger[c].owner
      /\ job[p].mem[c].transient = ledger[c].transient
  BY <1>1 DEF Copy, Within, Trimming
<1>3. CASE job[p].rel
  BY <1>2, <1>3 DEF TidyInv, Tidy, DownInv, Down, Lowered, Trimming, Leases
<1>4. CASE ~job[p].rel
  <2>1. ~leaseLive(ledger, c)
    BY <1>2, <1>4 DEF TodoInv, Todo, leaseLive
  <2> QED BY <1>2, <2>1 DEF leaseLive, DownInv, BedInv
<1> QED BY <1>3, <1>4

\* The holders of a claim are started again when its claimant is down, whichever of
\* a release, a reconcile and an undone acquire does it.
THEOREM RestoresAfterTeardown ==
  ASSUME NoReconcile, OneKind, Claimants, Steady, Unkilled, TornDown, Handed
  PROVE  Spec => RestoreAfterTeardown
<1> DEFINE Inv == Books /\ KeptInv /\ TodoInv /\ TidyInv /\ DownInv
           Late == \A p \in Procs, h \in Deploys : Restores(p, h) => job[p].cur \notin running
<1>1. Init => Inv
  BY BooksInit, KeptInit, TodoInit, TidyInit, DownInit
<1>2. Inv /\ [Next]_vars => Inv'
  BY BooksNext, KeptNext, TodoNext, TidyNext, DownNext
<1>3. Inv => Late
  BY RestoredDown DEF Restores
<1> HIDE DEF Inv
<1> QED BY <1>1, <1>2, <1>3, PTL DEF Spec, RestoreAfterTeardown

-----------------------------------------------------------------------------
(* Sole use.  All claims are exclusive (a pod whose shared lease an        *)
(* exclusive claim dropped is started again without a lease when that      *)
(* claim is undone), and what holds a token requires none.                 *)

Exclusive    == SharedClaim = {}
PlainHolders == \A d \in Deploys : Requires[d] = {} \/ Holds[d] = {}

\* No claimant is up without its lease.
RunInv == \A d \in running : Requires[d] # {} => ledger[d] # NoLease

\* An acquire begins with its deployment down, and undoing it starts holders only.
Grounded(p) ==
  /\ pc[p] \in Claiming => job[p].who \notin running
  /\ pc[p] \in {"append", "stop"} => \A h \in job[p].done : Holds[h] # {}
  /\ pc[p] = "rollback" => \A h \in job[p].todo : Holds[h] # {}

SoleInv == RunInv /\ \A p \in Procs : Grounded(p)

\* What comes up in a step of p, and how.
LEMMA RaisedBy ==
  ASSUME TypeOK, NEW p \in Procs, Step(p), NEW d \in running', d \notin running
  PROVE  \/ d = job[p].who /\ pc[p] \in Using /\ ledger' = ledger
         \/ d \in Deploys /\ (Restore(p, d) \/ Rollback(p, d))
<1>1. ASSUME NEW h \in Deploys, Restore(p, h) \/ Rollback(p, h)
      PROVE  running' = running \/ running' = running \cup {h}
  BY <1>1, RestoreEffect, RollbackEffect
<1>2. ASSUME BringUp(p) \/ BootBed(p)
      PROVE  /\ running' = running \/ running' = running \cup {job[p].who}
             /\ pc[p] \in Using /\ ledger' = ledger
  BY <1>2, BringUpEffect, BootBedEffect DEF Using
<1>3. ASSUME \/ Halt(p) \/ LockAcquire(p) \/ LockRelease(p) \/ ScanEnd(p) \/ Flush(p) \/ Retain(p)
             \/ Released(p) \/ UnflipEnd(p) \/ Commit(p)
             \/ \E c \in Deploys : Visit(p, c)
             \/ \E t \in GpuTokens : Unflip(p, t)
      PROVE  running' \subseteq running
  BY <1>3, HaltEffect, LockAcquireEffect, LockReleaseEffect, ScanEndEffect, FlushEffect, RetainEffect,
     ReleasedEffect, UnflipEndEffect, CommitEffect, VisitEffect, UnflipEffect
<1>4. ASSUME \/ Reacquire(p) \/ Refuse(p) \/ DecideExclusive(p) \/ DecideShared(p) \/ Append(p)
             \/ StopsEnd(p) \/ FlipEnd(p) \/ Drop(p) \/ ClearBed(p) \/ CheckEnd(p)
             \/ \E t \in GpuTokens : Flip(p, t) \/ FlipFails(p, t)
      PROVE  running' \subseteq running
  BY <1>4, ReacquireEffect, RefuseEffect, DecideExclusiveEffect, DecideSharedEffect, AppendEffect,
     StopsEndEffect, FlipEndEffect, DropEffect, ClearBedEffect, CheckEndEffect, FlipEffect,
     FlipFailsEffect DEF Decided
<1>5. ASSUME NEW h \in Deploys, Stop(p, h) \/ StopFails(p, h) PROVE running' \subseteq running
  BY <1>5, StopEffect, StopFailsEffect
<1> QED BY <1>1, <1>2, <1>3, <1>4, <1>5 DEF Step

\* How a lease goes: a release, a reconcile or an undone acquire takes it.
LEMMA LeaseGone ==
  ASSUME NoReconcile, Exclusive, Books, NEW p \in Procs, Step(p), NEW d \in Deploys,
         ledger[d] # NoLease, ledger'[d] = NoLease
  PROVE  \/ (Flush(p) \/ Commit(p)) /\ job[p].mem[d] = NoLease
         \/ Drop(p) /\ d = job[p].who
<1> USE DEF Books, TypeInv
<1>0. Copy(p)
  BY DEF CopyInv
<1>1. KeepsCopies => ledger' = ledger
  BY DEF KeepsCopies
<1>2. ASSUME LockAcquire(p) \/ LockRelease(p) \/ Released(p) PROVE ledger' = ledger
  BY <1>2, LockAcquireEffect, LockReleaseEffect, ReleasedEffect
<1>3. ASSUME DecideExclusive(p) \/ DecideShared(p) PROVE ledger' = ledger
  BY <1>3, DecideExclusiveEffect, DecideSharedEffect DEF Decided
<1>4. ASSUME Flush(p) \/ Commit(p) PROVE ledger' = job[p].mem
  BY <1>4, FlushEffect, CommitEffect
<1>5. ~Append(p)
  <2> SUFFICES ASSUME Append(p) PROVE FALSE
    OBVIOUS
  <2>1. /\ ledger' = job[p].mem /\ Adds(job[p].mem, ledger, job[p].who)
        /\ job[p].mem[job[p].who] # NoLease
    BY <1>0, AppendEffect DEF Copy, Claiming
  <2> QED BY <2>1 DEF Adds, Dropped, Exclusive
<1>6. ASSUME Drop(p) PROVE d = job[p].who
  BY <1>6, DropEffect DEF Without, TypeOK, Ledger
<1> QED BY <1>1, <1>2, <1>3, <1>4, <1>5, <1>6, ProcessKeeps DEF Step

LEMMA RunStep ==
  ASSUME NoReconcile, Claimants, Exclusive, PlainHolders, Books, KeptInv, TodoInv, TidyInv,
         DownInv, SoleInv, NEW p \in Procs, Step(p)
  PROVE  RunInv'
<1> USE DEF Books, TypeInv
<1> SUFFICES ASSUME NEW d \in running', Requires[d] # {} PROVE ledger'[d] # NoLease
  BY DEF RunInv
<1>0. d \in Deploys
  BY NextType DEF Next, TypeOK
<1>1. CASE d \notin running
  <2>1. CASE d = job[p].who /\ pc[p] \in Using /\ ledger' = ledger
    BY <2>1 DEF KeptInv, Keeps, Exclusive
  <2>2. CASE Restore(p, d)
    <3>1. d \in job[p].todo /\ pc[p] = "restore"
      BY <1>0, <2>2, RestoreEffect
    <3>2. Holds[d] # {}
      BY <3>1, TodoHolders
    <3> QED BY <1>0, <3>2 DEF PlainHolders
  <2>3. CASE Rollback(p, d)
    <3>1. Holds[d] # {}
      BY <1>0, <2>3, RollbackEffect DEF SoleInv, Grounded
    <3> QED BY <1>0, <3>1 DEF PlainHolders
  <2> QED BY <1>1, <2>1, <2>2, <2>3, RaisedBy
<1>2. CASE d \in running
  <2> SUFFICES ASSUME ledger'[d] = NoLease PROVE FALSE
    OBVIOUS
  <2>1. ledger[d] # NoLease /\ d \in Leases(ledger)
    BY <1>0, <1>2 DEF SoleInv, RunInv, Leases
  <2>2. CASE Commit(p) /\ job[p].mem[d] = NoLease
    <3>1. pc[p] = "commit" /\ job[p].rel
      BY <2>2, CommitEffect DEF LockInv, AtWork
    <3>2. d = job[p].who
      BY <2>1, <2>2, <3>1 DEF TidyInv, Tidy
    <3> QED BY <1>2, <2>1, <3>1, <3>2 DEF DownInv, Down, Lowered, Trimming
  <2>3. CASE Flush(p) /\ job[p].mem[d] = NoLease
    <3>1. pc[p] = "flush" /\ ~job[p].rel
      BY <2>3, FlushEffect DEF LockInv, AtWork
    <3>2. ~leaseLive(ledger, d)
      BY <2>1, <2>3, <3>1 DEF TodoInv, Dead, Trimming, Leases
    <3> QED BY <1>2, <2>1, <3>2 DEF leaseLive, DownInv, BedInv
  <2>4. CASE Drop(p) /\ d = job[p].who
    BY <1>2, <2>4, DropEffect DEF SoleInv, Grounded, Claiming
  <2> QED BY <1>0, <2>1, <2>2, <2>3, <2>4, LeaseGone
<1> QED BY <1>1, <1>2

\* The deployment a process works on is a claimant.
LEMMA WhoRequires ==
  ASSUME NoReconcile, Claimants, Books, NEW p \in Procs, ownerAlive(p)
  PROVE  job[p].who \in Deploys /\ Requires[job[p].who] # {} /\ Holds[job[p].who] = {}
<1>1. /\ <<job[p].op, job[p].who>> \in Workload /\ job[p].op \in AllCommands
      /\ job[p].who \in Deploys
  BY OpsOf DEF Books, TypeInv, LockInv, AtWork, ownerAlive
<1> QED BY <1>1 DEF Claimants

LEMMA GroundedStep ==
  ASSUME NoReconcile, Claimants, Exclusive, Books, SoleInv, NEW p \in Procs, Step(p)
  PROVE  Grounded(p)'
<1> USE DEF Books, TypeInv
<1> DEFINE c == job[p].who
<1>0. /\ Grounded(p) /\ Copy(p) /\ job'[p].who = c /\ ownerAlive(p)
      /\ Owned(job[p].mem)
  BY StepOnward DEF SoleInv, CopyInv, Onward, Alone, OwnerInv
<1>1. c \in Deploys /\ Requires[c] # {} /\ Holds[c] = {}
  BY <1>0, WhoRequires
<1> HIDE DEF c
<1>2. pc[p] \in Claiming => /\ c \in Leases(job[p].mem)
                            /\ \A h \in Deploys : job[p].mem[c].preempted[h] \subseteq Holds[h]
  BY <1>0, <1>1 DEF Copy, Leases, Owned, c
<1>3. CASE pc'[p] \notin Claiming
  BY <1>3 DEF Grounded, Claiming
<1>4. ASSUME DecideExclusive(p) \/ DecideShared(p) PROVE Grounded(p)'
  <2>1. /\ ledger[c] = NoLease /\ pc[p] = "decide" /\ pc'[p] = "append" /\ running' = running
        /\ job'[p].done = job[p].done
    BY <1>4, DecideExclusiveEffect, DecideSharedEffect DEF Decided, Admissible, c
  <2>2. job[p].done = {}
    BY <1>0, <2>1 DEF Copy
  <2>3. c \notin running
    BY <1>1, <2>1 DEF SoleInv, RunInv
  <2> QED BY <1>0, <2>1, <2>2, <2>3 DEF Grounded
<1>5. CASE Append(p)
  BY <1>0, <1>5, AppendEffect DEF Grounded, SameLists, Claiming, c
<1>6. ASSUME NEW h \in Deploys, Stop(p, h) PROVE Grounded(p)'
  <2>1. /\ pc[p] = "stop" /\ pc'[p] = "stop" /\ h \in NextStops(p)
        /\ job'[p].done = job[p].done \cup {h} /\ running' = running \ {h}
    BY <1>6, StopEffect
  <2>2. Accounted(job[p].mem, c, job[p].todo \cup job[p].later, job[p].pods)
    BY <1>0, <2>1 DEF Copy, c
  <2>3. h \in job[p].todo \cup job[p].later
    BY <2>1, <2>2 DEF NextStops, Accounted, Exclusive
  <2>4. Holds[h] # {}
    BY <1>2, <2>1, <2>2, <2>3 DEF Accounted, Claiming
  <2> QED BY <1>0, <2>1, <2>4 DEF Grounded, Claiming, c
<1>7. ASSUME NEW h \in Deploys, StopFails(p, h) PROVE Grounded(p)'
  <2>1. /\ pc[p] = "stop" /\ pc'[p] = "rollback" /\ job'[p].todo = job[p].done
        /\ running' \subseteq running
    BY <1>7, StopFailsEffect
  <2> QED BY <1>0, <2>1 DEF Grounded, Claiming, c
<1>8. ASSUME NEW t \in GpuTokens, FlipFails(p, t) PROVE Grounded(p)'
  <2>1. /\ pc[p] = "flip" /\ pc'[p] = "rollback" /\ running' = running
        /\ job'[p].todo = Listed(job[p].mem[c].preempted)
    BY <1>8, FlipFailsEffect DEF c
  <2>2. \A h \in job'[p].todo : Holds[h] # {}
    BY <1>2, <2>1 DEF Listed, Claiming
  <2> QED BY <1>0, <2>1, <2>2 DEF Grounded, Claiming, c
<1>9. ASSUME NEW h \in Deploys, Rollback(p, h) PROVE Grounded(p)'
  <2>1. /\ pc[p] = "rollback" /\ pc'[p] = "rollback" /\ job'[p].todo = job[p].todo \ {h}
        /\ h \in job[p].todo /\ running' \subseteq running \cup {h}
    BY <1>9, RollbackEffect
  <2>2. h # c
    BY <1>0, <1>1, <2>1 DEF Grounded
  <2> QED BY <1>0, <2>1, <2>2 DEF Grounded, Claiming, c
<1>10. ASSUME StopsEnd(p) \/ \E t \in GpuTokens : Flip(p, t) PROVE Grounded(p)'
  <2>1. pc[p] \in {"stop", "flip"} /\ pc'[p] = "flip" /\ running' = running
    BY <1>10, StopsEndEffect, FlipEffect
  <2> QED BY <1>0, <2>1 DEF Grounded, Claiming, c
<1>11. ASSUME \/ Halt(p) \/ LockAcquire(p) \/ LockRelease(p) \/ ScanEnd(p) \/ Flush(p) \/ Retain(p)
              \/ Released(p) \/ UnflipEnd(p) \/ Commit(p)
              \/ \E d \in Deploys : Visit(p, d) \/ Restore(p, d)
              \/ \E t \in GpuTokens : Unflip(p, t)
       PROVE  pc'[p] \notin Claiming
  <2>1. ASSUME ScanEnd(p) \/ Flush(p) PROVE pc'[p] \in {"flush", "restore", "decide", "done"}
    <3>1. Scanned(p) => pc'[p] \in {"decide", "done"}
      BY DEF Scanned, Ends
    <3> QED BY <2>1, <3>1, ScanEndEffect, FlushEffect
  <2>2. ASSUME NEW d \in Deploys, Visit(p, d) \/ Restore(p, d) PROVE pc'[p] \notin Claiming
    BY <2>2, VisitEffect, RestoreEffect DEF Claiming, Ends
  <2>3. ASSUME NEW t \in GpuTokens, Unflip(p, t) PROVE pc'[p] \notin Claiming
    BY <2>3, UnflipEffect DEF Claiming, Ends
  <2>4. ASSUME Halt(p) \/ LockAcquire(p) \/ LockRelease(p) \/ Retain(p) PROVE pc'[p] \notin Claiming
    BY <2>4, HaltEffect, LockAcquireEffect, LockReleaseEffect, RetainEffect DEF Claiming, Ends
  <2>5. ASSUME Released(p) \/ UnflipEnd(p) \/ Commit(p) PROVE pc'[p] \notin Claiming
    BY <2>5, ReleasedEffect, UnflipEndEffect, CommitEffect DEF Claiming, Ends
  <2> QED BY <1>11, <2>1, <2>2, <2>3, <2>4, <2>5 DEF Claiming
<1>12. ASSUME \/ Reacquire(p) \/ Refuse(p) \/ FlipEnd(p) \/ Drop(p) \/ ClearBed(p) \/ BringUp(p)
              \/ BootBed(p) \/ CheckEnd(p)
       PROVE  pc'[p] \notin Claiming
  BY <1>12, ReacquireEffect, RefuseEffect, FlipEndEffect, DropEffect, ClearBedEffect, BringUpEffect,
     BootBedEffect, CheckEndEffect DEF Claiming, Ends
<1> QED BY <1>3, <1>4, <1>5, <1>6, <1>7, <1>8, <1>9, <1>10, <1>11, <1>12 DEF Step

LEMMA GroundedOthers ==
  ASSUME NoReconcile, Books, SoleInv, NEW p \in Procs, Step(p), NEW q \in Procs \ {p}
  PROVE  Grounded(q)'
<1> USE DEF Books, TypeInv
<1>1. pc'[q] = pc[q] /\ job'[q] = job[q] /\ Grounded(q)
  BY StepOnward DEF Onward, Alone, SoleInv
<1>2. ASSUME pc[q] \in Claiming, job[q].who \in running' PROVE FALSE
  <2>1. lock = q /\ ownerAlive(q)
    BY <1>2 DEF LockInv, AtWork, Holding, Claiming, ownerAlive
  <2>2. job[q].who # job[p].who
    BY <2>1, StepOnward DEF Onward, LockInv
  <2>3. pc[p] \notin {"restore", "rollback"}
    BY <2>1 DEF LockInv, AtWork, Holding, Trimming, Claiming
  <2>4. job[q].who \notin running
    BY <1>1, <1>2 DEF Grounded
  <2> QED BY <1>2, <2>2, <2>3, <2>4, RaisedBy, RestoreEffect, RollbackEffect
<1> QED BY <1>1, <1>2 DEF Grounded

LEMMA SoleNext ==
  ASSUME NoReconcile, Claimants, Exclusive, PlainHolders, "opstart" \notin Faults,
         Books, KeptInv, TodoInv, TidyInv, DownInv, SoleInv, [Next]_vars
  PROVE  SoleInv'
<1> USE DEF Books, TypeInv
<1>1. ASSUME NEW p \in Procs, Step(p) PROVE SoleInv'
  BY <1>1, RunStep, GroundedStep, GroundedOthers DEF SoleInv
<1>2. ASSUME running' \subseteq running, ledger' = ledger,
             \A q \in Procs : pc'[q] \in Claiming => pc[q] = pc'[q] /\ job'[q] = job[q]
      PROVE  SoleInv'
  <2>1. RunInv'
    BY <1>2 DEF SoleInv, RunInv
  <2>2. ASSUME NEW q \in Procs PROVE Grounded(q)'
    <3>1. CASE pc'[q] \in Claiming
      BY <1>2, <3>1 DEF SoleInv, Grounded
    <3>2. CASE pc'[q] \notin Claiming
      BY <3>2 DEF Grounded, Claiming
    <3> QED BY <3>1, <3>2
  <2> QED BY <2>1, <2>2 DEF SoleInv
<1>3. ASSUME NEW p \in Procs, NEW o \in AllCommands, NEW d \in Deploys, Begin(p, o, d)
      PROVE  SoleInv'
  <2>1. /\ running' = running /\ ledger' = ledger
        /\ \A q \in Procs : pc'[q] \in Claiming => pc[q] = pc'[q] /\ job'[q] = job[q]
    BY <1>3, BeginEffect DEF Claiming
  <2> QED BY <1>2, <2>1
<1>4. CASE World
  <2>1. running' \subseteq running /\ ledger' = ledger
    BY <1>4, WorldEffect, RebootEffect, CrashEffect DEF OnHost
  <2>2. \A q \in Procs : pc'[q] \in Claiming => pc[q] = pc'[q] /\ job'[q] = job[q]
    <3>1. ASSUME NEW p \in Procs, Crash(p)
          PROVE  \A q \in Procs : pc'[q] \in Claiming => pc[q] = pc'[q] /\ job'[q] = job[q]
      BY <3>1, CrashEffect DEF Ends, Alone, Claiming
    <3>2. CASE Reboot
      BY <3>2, RebootEffect DEF ownerAlive, Claiming
    <3>3. CASE OnHost
      BY <3>3 DEF OnHost
    <3> QED BY <1>4, <3>1, <3>2, <3>3, WorldEffect
  <2> QED BY <1>2, <2>1, <2>2
<1>5. CASE UNCHANGED vars
  <2>1. running' = running /\ ledger' = ledger /\ pc' = pc /\ job' = job
    BY <1>5 DEF vars
  <2> QED BY <1>2, <2>1
<1> QED BY <1>1, <1>3, <1>4, <1>5 DEF Next, Quiet

LEMMA SoleInit == Init => SoleInv
BY DEF Init, SoleInv, RunInv, Grounded, Claiming

\* When no ledger operation is under way, a lease of a claimant that is up is settled.
LEMMA RunningSettled ==
  ASSUME Books, DownInv, lock = NoProc, NEW c \in Leases(ledger) \cap running
  PROVE  c \in Deploys /\ Settled(c)
<1>1. leaseLive(ledger, c) /\ c \in Deploys
  BY DEF DownInv, BedInv, leaseLive, Leases
<1>2. ASSUME NEW q \in Procs PROVE ~Busy(q, c)
  <2>1. pc[q] \notin Holding
    BY ArbiterAssumption DEF Books, LockInv, AtWork
  <2> QED BY <2>1 DEF Busy, Holding, Trimming, Claiming
<1> QED BY <1>1, <1>2 DEF Settled

LEMMA SoleUser ==
  ASSUME Exclusive, Books, ExclusionInv, DownInv, YieldInv, SoleInv
  PROVE  SoleUse
<1> SUFFICES ASSUME lock = NoProc, NEW c \in Leases(ledger) \cap running, NEW d \in running \ {c}
             PROVE  (Holds[d] \cup Requires[d]) \cap Requires[c] = {}
  BY DEF SoleUse
<1>1. c \in Deploys /\ Settled(c)
  BY RunningSettled
<1>2. Holds[d] \cap Requires[c] = {}
  BY <1>1 DEF YieldInv, Free
<1>3. ASSUME Requires[d] \cap Requires[c] # {} PROVE FALSE
  <2>1. d \in Leases(ledger)
    BY <1>3 DEF SoleInv, RunInv, Leases, Books, TypeInv, TypeOK
  <2> QED BY <1>3, <2>1 DEF ExclusionInv, Compatible, Overlap, Exclusive
<1> QED BY <1>2, <1>3

\* An exclusive claimant that is up has its tokens for itself: between two ledger
\* operations nothing that requires or holds one of them is up, whatever acquires,
\* failed acquires, releases and reconciles went before.
THEOREM UseIsSole ==
  ASSUME NoReconcile, OneKind, Claimants, Steady, MaxCrashes = 0, TornDown, Handed, SingleHold,
         "opstart" \notin Faults, Exclusive, PlainHolders
  PROVE  Spec => []SoleUse
<1> DEFINE Inv == Books /\ ExclusionInv /\ KeptInv /\ TodoInv /\ TidyInv /\ FitInv /\ YieldInv
                  /\ DownInv /\ SoleInv
<1>1. Init => Inv
  BY BooksInit, KeptInit, TodoInit, TidyInit, FitInit, YieldInit, DownInit, SoleInit,
     EmptyCompatible, InitType DEF ExclusionInv, Init, NewJob
<1>2. Killed /\ Unkilled /\ OneShare
  BY DEF Killed, Unkilled, OneShare, Exclusive
<1>3. Inv /\ [Next]_vars => Inv'
  BY <1>2, BooksNext, ExclusionNext, KeptNext, TodoNext, TidyNext, FitNext, YieldNext, DownNext,
     SoleNext
<1>4. Inv => SoleUse
  BY SoleUser
<1> HIDE DEF Inv
<1> QED BY <1>1, <1>3, <1>4, PTL DEF Spec

-----------------------------------------------------------------------------
(* A wedged card is left alone.  The argument is about every lease on      *)
(* disk, alive or not: nobody is killed in the middle of an acquire, and a *)
(* switch of a release does not wedge the card.                            *)

\* q has written c's lease and not yet set its tokens, or is about to take it off.
Altering(q, c) ==
  \/ pc[q] \in {"stop", "flip", "rollback"} /\ job[q].who = c
  \/ pc[q] \in Trimming /\ job[q].mem[c] = NoLease

Granting == {"append", "stop", "flip"}

DriverInv ==
  /\ \A c \in Leases(ledger) : (\A q \in Procs : ~Altering(q, c)) => ModeOk(c)
  /\ \A p \in Procs : Setting(p)

\* A process on its way to a grant has found the tokens of the leases it has seen,
\* and then of all the others, in the mode they need.
Swept(p) ==
  /\ pc[p] \in {"scan", "restore", "unflip", "flush"} /\ ~job[p].rel =>
       \A c \in Leases(job[p].mem) \cap job[p].seen : ModeOk(c)
  /\ pc[p] \in {"decide"} \cup Granting => \A c \in Leases(ledger) \ {job[p].who} : ModeOk(c)

SweptInv == \A p \in Procs : Swept(p)

\* Either way: a process that switches drivers finds those of the other leases right.
SuitInv ==
  \A p \in Procs :
    /\ Setting(p)
    /\ pc[p] = "flip" => \A c \in Leases(ledger) \ {job[p].who} : ModeOk(c)

\* A wedged token is poisoned; no lease on it will be released, and nobody is
\* about to switch it.
Shunned(t) ==
  /\ wedges[t] = 1 /\ t \in poison
  /\ \A c \in Leases(ledger) : t \in Requires[c] =>
       \E q \in Procs : pc[q] = "rollback" /\ job[q].who = c
  /\ \A q \in Procs : /\ pc[q] \in Granting => t \notin Requires[job[q].who]
                      /\ pc[q] = "unflip" => t \notin job[q].toks

WedgeInv == \A t \in GpuTokens : wedges[t] > 0 => Shunned(t)

\* A process gets done with a lease when the lease is gone, or when its acquire is over.
LEMMA AlteringBefore ==
  ASSUME NoReconcile, Books, TidyInv, NEW p \in Procs, Step(p),
         NEW c \in Leases(ledger)', ~Altering(p, c)', Altering(p, c)
  PROVE  FlipEnd(p) /\ job[p].who = c
<1> USE DEF Books, TypeInv
<1>0. Copy(p) /\ Tidy(p) /\ c \in Deploys /\ ledger'[c] # NoLease
  BY NextType DEF CopyInv, TidyInv, Leases
<1>1. CASE pc[p] \in {"stop", "flip", "rollback"} /\ job[p].who = c
  <2>1. pc'[p] \notin {"stop", "flip", "rollback"}
    BY <1>1, StepOnward DEF Onward, Alone, Altering
  <2>2. ~Drop(p)
    BY <1>0, <1>1, DropEffect DEF Without, TypeOK, Ledger
  <2> QED BY <1>1, <2>1, <2>2, ClaimEnds
<1>2. ASSUME pc[p] \in Trimming, job[p].mem[c] = NoLease PROVE FALSE
  <2>1. ~(pc'[p] \in Trimming /\ job'[p].mem[c] = NoLease)
    BY DEF Altering
  <2>2. ASSUME pc'[p] \in Trimming, job'[p].mem = job[p].mem PROVE FALSE
    BY <1>2, <2>1, <2>2
  <2>3. ASSUME ledger' = job[p].mem PROVE FALSE
    BY <1>0, <1>2, <2>3
  <2>4. ~(ScanEnd(p) \/ Flush(p) \/ Commit(p))
    <3>1. ASSUME ScanEnd(p), job[p].dirty PROVE FALSE
      BY <2>2, <3>1, ScanEndEffect DEF SameCopy, Trimming, Scanned
    <3>2. ASSUME ScanEnd(p), ~job[p].dirty PROVE FALSE
      BY <1>0, <2>3, <3>2, ScanEndEffect DEF Copy
    <3> QED BY <2>3, <3>1, <3>2, FlushEffect, CommitEffect
  <2>5. ~(UnflipEnd(p) \/ \E t \in GpuTokens : Unflip(p, t))
    BY <2>2, UnflipEndEffect, UnflipEffect DEF Trimming, SameCopy
  <2>6. ASSUME NEW d \in Deploys, Visit(p, d) \/ Restore(p, d) PROVE FALSE
    BY <2>2, <2>6, VisitEffect, RestoreEffect DEF Trimming, SameCopy
  <2>7. ~Retain(p)
    <3> SUFFICES ASSUME Retain(p) PROVE FALSE
      OBVIOUS
    <3>1. CASE ~job[p].rel
      BY <2>2, <3>1, RetainEffect DEF Trimming, SameCopy
    <3>2. CASE job[p].rel
      <4>1. /\ job[p].cur = job[p].who /\ job[p].mem[job[p].cur] # NoLease /\ ledger' = ledger
            /\ \A d \in Leases(ledger) \ {job[p].who} : job[p].mem[d] # NoLease
        BY <1>0, <3>2, RetainEffect DEF Tidy, Releasing, Leases
      <4> QED BY <1>0, <1>2, <4>1 DEF Leases
    <3> QED BY <3>1, <3>2
  <2>8. ~Released(p)
    <3> SUFFICES ASSUME Released(p) PROVE FALSE
      OBVIOUS
    <3> DEFINE L == job[p].mem
               d == job[p].cur
               good == job[p].rel => job[p].good
    <3>1. PICK heir \in Heirs(L, d, good) : job'[p].mem = Attach(L, d, heir)
      BY ReleasedEffect
    <3>2. L \in Ledger /\ d \in Leases(L) /\ good \in BOOLEAN
      BY JobFields DEF TypeOK, Released, Releasing
    <3>3. pc'[p] = "unflip"
      BY ReleasedEffect
    <3>4. L[c] = NoLease
      BY <1>2
    <3> HIDE DEF L, d, good
    <3> DEFINE A == Attach(L, d, heir)
    <3>5. Leases(A) = Leases(L) \ {d}
      BY <3>2, AttachFields
    <3> HIDE DEF A
    <3>6. A[c] = NoLease
      BY <1>0, <3>4, <3>5 DEF Leases
    <3>7. job'[p].mem = A
      BY <3>1 DEF A
    <3> QED BY <2>1, <3>3, <3>6, <3>7 DEF Trimming
  <2>9. ~(Halt(p) \/ LockAcquire(p) \/ LockRelease(p))
    BY <1>2, HaltEffect, LockAcquireEffect, LockReleaseEffect DEF Trimming
  <2>10. ~(Reacquire(p) \/ Refuse(p) \/ DecideExclusive(p) \/ DecideShared(p) \/ Append(p)
          \/ StopsEnd(p) \/ FlipEnd(p) \/ Drop(p)
          \/ ClearBed(p) \/ BringUp(p) \/ BootBed(p) \/ CheckEnd(p))
    BY <1>2, ReacquireEffect, RefuseEffect, DecideExclusiveEffect, DecideSharedEffect, AppendEffect,
       StopsEndEffect, FlipEndEffect, DropEffect,
       ClearBedEffect, BringUpEffect, BootBedEffect, CheckEndEffect DEF Decided, Trimming
  <2>11. /\ \A h \in Deploys : ~(Stop(p, h) \/ StopFails(p, h) \/ Rollback(p, h))
         /\ \A t \in GpuTokens : ~(Flip(p, t) \/ FlipFails(p, t))
    BY <1>2, StopEffect, StopFailsEffect, RollbackEffect, FlipEffect, FlipFailsEffect DEF Trimming
  <2> QED BY <2>4, <2>5, <2>6, <2>7, <2>8, <2>9, <2>10, <2>11 DEF Step
<1> QED BY <1>1, <1>2 DEF Altering

\* A lease nobody alters after a step was there before it.
LEMMA UnalteredBefore ==
  ASSUME NoReconcile, Books, NEW p \in Procs, Step(p), NEW c \in Leases(ledger)', ~Altering(p, c)'
  PROVE  c \in Leases(ledger)
<1> USE DEF Books, TypeInv
<1>1. c \in Deploys /\ ledger'[c] # NoLease
  BY DEF Leases
<1>2. ~(Append(p) /\ c = job[p].who)
  BY AppendEffect DEF Altering, Alone
<1> QED BY <1>1, <1>2, LeaseSource DEF Leases

LEMMA DriverStep ==
  ASSUME NoReconcile, Claimants, Books, ExclusionInv, TidyInv, DriverInv, NEW p \in Procs, Step(p)
  PROVE  DriverInv'
<1> USE DEF Books, TypeInv
<1>1. ASSUME NEW c \in Leases(ledger)', \A q \in Procs : ~Altering(q, c)'
      PROVE  ModeOk(c)'
  <2>1. c \in Leases(ledger) /\ c \in Deploys
    BY <1>1, UnalteredBefore DEF Leases
  <2>2. ASSUME NEW q \in Procs \ {p} PROVE ~Altering(q, c)
    <3>1. pc'[q] = pc[q] /\ job'[q] = job[q]
      BY StepOnward DEF Onward, Alone
    <3> QED BY <1>1, <3>1 DEF Altering
  <2>3. CASE ~Altering(p, c)
    <3>1. ModeOk(c)
      BY <2>1, <2>2, <2>3 DEF DriverInv
    <3>2. CASE mode' = mode
      BY <3>1, <3>2 DEF ModeOk
    <3>3. ASSUME NEW t \in GpuTokens, Flip(p, t) PROVE ModeOk(c)'
      <4>1. pc[p] = "flip"
        BY <3>3, FlipEffect
      <4>2. c # job[p].who
        BY <2>3, <4>1 DEF Altering
      <4> QED BY <2>1, <3>1, <3>3, <4>2, FlipSuits DEF ExclusionInv, DriverInv
    <3>4. ASSUME NEW t \in GpuTokens, Unflip(p, t) PROVE ModeOk(c)'
      <4>1. pc'[p] = "unflip"
        BY <3>4, UnflipEffect
      <4>2. ~Busy(p, c)'
        BY <1>1, <4>1 DEF Busy, Altering
      <4> QED BY <2>1, <3>1, <3>4, <4>2, UnflipSuits DEF ExclusionInv
    <3> QED BY <3>2, <3>3, <3>4, ModeMoves
  <2>4. CASE Altering(p, c)
    <3>1. FlipEnd(p) /\ job[p].who = c
      BY <1>1, <2>4, AlteringBefore
    <3>2. pc[p] = "flip" /\ job[p].toks = {} /\ mode' = mode
      BY <3>1, FlipEndEffect
    <3> QED BY <3>1, <3>2 DEF DriverInv, Setting, ModeOk
  <2> QED BY <2>3, <2>4
<1>2. ASSUME NEW q \in Procs PROVE Setting(q)'
  BY SettingStep DEF DriverInv
<1> QED BY <1>1, <1>2 DEF DriverInv

LEMMA DriverNext ==
  ASSUME NoReconcile, Claimants, MaxCrashes = 0, MaxReboots = 0, "recover" \notin Faults,
         Books, ExclusionInv, TidyInv, DriverInv, [Next]_vars
  PROVE  DriverInv'
<1> USE DEF Books, TypeInv
<1>1. ASSUME mode' = mode, ledger' = ledger,
             \A q \in Procs : \/ pc'[q] = pc[q] /\ job'[q] = job[q]
                              \/ pc[q] = "new" /\ pc'[q] \in {"halt", "wait", "relwait"}
      PROVE  DriverInv'
  <2>1. \A q \in Procs, c \in Deploys : Altering(q, c) => Altering(q, c)'
    BY <1>1 DEF Altering, Trimming
  <2>2. \A q \in Procs : pc'[q] = "flip" => pc[q] = "flip" /\ job'[q] = job[q]
    BY <1>1
  <2> QED BY <1>1, <2>1, <2>2 DEF DriverInv, Leases, ModeOk, Setting
<1>2. ASSUME NEW p \in Procs, NEW o \in AllCommands, NEW d \in Deploys, Begin(p, o, d)
      PROVE  DriverInv'
  <2>1. /\ \A q \in Procs \ {p} : pc'[q] = pc[q] /\ job'[q] = job[q]
        /\ pc[p] = "new" /\ pc'[p] \in {"halt", "wait", "relwait"} /\ ledger' = ledger
        /\ mode' = mode
    BY <1>2, BeginEffect, BeginLock, ZenonT(60) DEF AllCommands
  <2> QED BY <1>1, <2>1
<1>3. CASE World
  <2>1. ~Reboot /\ \A p \in Procs : ~Crash(p)
    BY RebootEffect, CrashEffect DEF TypeOK
  <2>2. OnHost
    BY <1>3, <2>1, WorldEffect
  <2>3. mode' = mode
    BY <1>3, <2>1 DEF World, GoesDown, OperatorStart, StallEnds, GpuRecover
  <2> QED BY <1>1, <2>2, <2>3 DEF OnHost
<1>4. CASE UNCHANGED vars
  <2>1. mode' = mode /\ ledger' = ledger /\ pc' = pc /\ job' = job
    BY <1>4 DEF vars
  <2> QED BY <1>1, <2>1
<1> QED BY <1>2, <1>3, <1>4, DriverStep DEF Next, Quiet

LEMMA DriverInit == Init => DriverInv
<1> SUFFICES ASSUME Init PROVE DriverInv
  OBVIOUS
<1>1. \A c \in Deploys : c \notin Leases(ledger)
  BY DEF Init, Leases, Empty
<1>2. \A p \in Procs : pc[p] # "flip"
  BY DEF Init
<1> QED BY <1>1, <1>2 DEF DriverInv, Leases, Setting

\* What is behind a process that undoes an acquire, is in one, or switches back.
LEMMA GrantingFrom ==
  ASSUME TypeOK, NEW p \in Procs, Step(p), pc'[p] \in Granting
  PROVE  pc[p] \in Granting \/ Admissible(p)
<1>1. /\ ~(Halt(p) \/ LockAcquire(p) \/ LockRelease(p) \/ Retain(p))
      /\ \A d \in Deploys : ~(Visit(p, d) \/ Restore(p, d))
  BY HaltEffect, LockAcquireEffect, LockReleaseEffect, RetainEffect, VisitEffect, RestoreEffect
     DEF Ends, Granting
<1>8. /\ ~(Released(p) \/ UnflipEnd(p) \/ Commit(p))
      /\ \A t \in GpuTokens : ~Unflip(p, t)
  BY ReleasedEffect, UnflipEndEffect, CommitEffect, UnflipEffect DEF Ends, Granting
<1>2. ~(ScanEnd(p) \/ Flush(p))
  <2>1. ~Scanned(p)
    BY DEF Scanned, Ends, Granting
  <2> QED BY <2>1, ScanEndEffect, FlushEffect DEF Granting
<1>3. ~(Reacquire(p) \/ Refuse(p) \/ FlipEnd(p) \/ Drop(p) \/ ClearBed(p) \/ BringUp(p) \/ BootBed(p)
        \/ CheckEnd(p))
  BY ReacquireEffect, RefuseEffect, FlipEndEffect, DropEffect, ClearBedEffect, BringUpEffect,
     BootBedEffect, CheckEndEffect DEF Ends, Granting
<1>4. ASSUME DecideExclusive(p) \/ DecideShared(p) PROVE Admissible(p)
  BY <1>4, DecideExclusiveEffect, DecideSharedEffect
<1>5. ASSUME Append(p) \/ StopsEnd(p) PROVE pc[p] \in Granting
  BY <1>5, AppendEffect, StopsEndEffect DEF Granting
<1>6. ASSUME NEW h \in Deploys, Stop(p, h) \/ StopFails(p, h) \/ Rollback(p, h)
      PROVE  pc[p] \in Granting
  BY <1>6, StopEffect, StopFailsEffect, RollbackEffect DEF Granting
<1>7. ASSUME NEW t \in GpuTokens, Flip(p, t) \/ FlipFails(p, t) PROVE pc[p] \in Granting
  BY <1>7, FlipEffect, FlipFailsEffect DEF Granting
<1> QED BY <1>1, <1>2, <1>3, <1>4, <1>5, <1>6, <1>7, <1>8 DEF Step

LEMMA RollbackFirst ==
  ASSUME TypeOK, NEW p \in Procs, Step(p), pc[p] = "rollback"
  PROVE  pc'[p] = "rollback" \/ Drop(p)
<1>1. CASE pc'[p] \notin {"stop", "flip", "rollback"}
  BY <1>1, ClaimEnds, FlipEndEffect
<1>2. pc'[p] # "flip"
  BY FlipFrom, StopsEndEffect, FlipEffect
<1>3. pc'[p] # "stop"
  BY GrantingFrom DEF Granting, Admissible
<1> QED BY <1>1, <1>2, <1>3

LEMMA UnflipFrom ==
  ASSUME TypeOK, NEW p \in Procs, Step(p), pc'[p] = "unflip"
  PROVE  Released(p) \/ \E t \in GpuTokens : Unflip(p, t)
<1>1. /\ ~(Halt(p) \/ LockAcquire(p) \/ LockRelease(p) \/ Retain(p))
      /\ \A d \in Deploys : ~Visit(p, d)
  BY HaltEffect, LockAcquireEffect, LockReleaseEffect, RetainEffect, VisitEffect DEF Ends
<1>2. /\ ~(UnflipEnd(p) \/ Commit(p))
      /\ \A d \in Deploys : ~Restore(p, d)
  BY UnflipEndEffect, CommitEffect, RestoreEffect DEF Ends
<1>3. ~(ScanEnd(p) \/ Flush(p))
  <2>1. ~Scanned(p)
    BY DEF Scanned, Ends
  <2> QED BY <2>1, ScanEndEffect, FlushEffect
<1>4. ~(Reacquire(p) \/ Refuse(p) \/ DecideExclusive(p) \/ DecideShared(p) \/ Append(p)
        \/ StopsEnd(p) \/ FlipEnd(p) \/ Drop(p) \/ ClearBed(p) \/ BringUp(p) \/ BootBed(p)
        \/ CheckEnd(p))
  BY ReacquireEffect, RefuseEffect, DecideExclusiveEffect, DecideSharedEffect, AppendEffect,
     StopsEndEffect, FlipEndEffect, DropEffect, ClearBedEffect, BringUpEffect, BootBedEffect,
     CheckEndEffect DEF Decided, Ends
<1>5. /\ \A h \in Deploys : ~(Stop(p, h) \/ StopFails(p, h) \/ Rollback(p, h))
      /\ \A t \in GpuTokens : ~(Flip(p, t) \/ FlipFails(p, t))
  BY StopEffect, StopFailsEffect, RollbackEffect, FlipEffect, FlipFailsEffect
<1> QED BY <1>1, <1>2, <1>3, <1>4, <1>5 DEF Step

\* A device_lock is reached by the switches only, and a marker stays.
LEMMA WedgeMoves ==
  ASSUME TypeOK, NEW p \in Procs, Step(p)
  PROVE  \/ wedges' = wedges /\ poison' = poison
         \/ \E t \in GpuTokens : FlipFails(p, t) \/ Unflip(p, t)
<1>1. ASSUME \/ Halt(p) \/ LockAcquire(p) \/ LockRelease(p) \/ ScanEnd(p) \/ Flush(p) \/ Retain(p)
             \/ Released(p) \/ UnflipEnd(p) \/ Commit(p)
             \/ \E c \in Deploys : Visit(p, c) \/ Restore(p, c)
      PROVE  wedges' = wedges /\ poison' = poison
  BY <1>1, HaltEffect, LockAcquireEffect, LockReleaseEffect, ScanEndEffect, FlushEffect, RetainEffect,
     ReleasedEffect, UnflipEndEffect, CommitEffect, VisitEffect, RestoreEffect
<1>2. ASSUME \/ Reacquire(p) \/ Refuse(p) \/ DecideExclusive(p) \/ DecideShared(p) \/ Append(p)
             \/ StopsEnd(p) \/ FlipEnd(p) \/ Drop(p) \/ ClearBed(p) \/ BringUp(p) \/ BootBed(p)
             \/ CheckEnd(p)
      PROVE  wedges' = wedges /\ poison' = poison
  BY <1>2, ReacquireEffect, RefuseEffect, DecideExclusiveEffect, DecideSharedEffect, AppendEffect,
     StopsEndEffect, FlipEndEffect, DropEffect, ClearBedEffect, BringUpEffect, BootBedEffect,
     CheckEndEffect DEF Decided
<1>3. ASSUME NEW h \in Deploys, Stop(p, h) \/ StopFails(p, h) \/ Rollback(p, h)
      PROVE  wedges' = wedges /\ poison' = poison
  BY <1>3, StopEffect, StopFailsEffect, RollbackEffect
<1>4. ASSUME NEW t \in GpuTokens, Flip(p, t) PROVE wedges' = wedges /\ poison' = poison
  BY <1>4, FlipEffect
<1> QED BY <1>1, <1>2, <1>3, <1>4 DEF Step

\* The driver of a token whose switch wedges suits none of the claims on it.
LEMMA WedgedAlone ==
  ASSUME NoReconcile, Books, ExclusionInv, SuitInv, NEW p \in Procs, pc[p] = "flip",
         NEW t \in Requires[job[p].who] \cap GpuTokens, mode[t] # claimMode(job[p].who),
         NEW c \in Leases(ledger), t \in Requires[c]
  PROVE  c = job[p].who
<1> USE DEF Books, TypeInv
<1> SUFFICES ASSUME c # job[p].who PROVE FALSE
  OBVIOUS
<1>1. job[p].who \in Leases(ledger)
  BY JobFields DEF CopyInv, Copy, Claiming, Leases, TypeOK
<1>2. claimMode(c) = claimMode(job[p].who)
  BY <1>1 DEF ExclusionInv, Compatible, Overlap, claimMode
<1> QED BY <1>2 DEF SuitInv, ModeOk

LEMMA ShunnedStep ==
  ASSUME NoReconcile, "unwedge" \notin Faults, Books, SuitInv, NEW p \in Procs, Step(p),
         NEW t \in GpuTokens, wedges[t] > 0, Shunned(t)
  PROVE  Shunned(t)'
<1> USE DEF Books, TypeInv
<1>0. \A q \in Procs \ {p} : pc'[q] = pc[q] /\ job'[q] = job[q]
  BY StepOnward DEF Onward, Alone
<1>1. wedges'[t] = 1 /\ t \in poison'
  <2>1. ASSUME NEW u \in GpuTokens, FlipFails(p, u) PROVE wedges'[t] = 1 /\ t \in poison'
    <3>1. pc[p] = "flip" /\ u \in job[p].toks
      BY <2>1 DEF FlipFails
    <3>2. u # t
      BY <3>1 DEF Shunned, Granting, SuitInv, Setting
    <3>3. \/ wedges' = wedges /\ poison' = poison
          \/ Stuck(u) /\ poison' = poison \cup {u}
      BY <2>1 DEF FlipFails
    <3> QED BY <3>2, <3>3 DEF Shunned, Stuck, TypeOK
  <2>2. ASSUME NEW u \in GpuTokens, Unflip(p, u) PROVE wedges'[t] = 1 /\ t \in poison'
    <3>1. /\ pc[p] = "unflip" /\ u \in job[p].toks /\ poison' = poison
          /\ wedges' = wedges \/ Stuck(u)
      BY <2>2, UnflipEffect DEF Unflip
    <3>2. u # t
      BY <3>1 DEF Shunned
    <3> QED BY <3>1, <3>2 DEF Shunned, Stuck, TypeOK
  <2> QED BY <2>1, <2>2, WedgeMoves DEF Shunned
<1>2. ASSUME NEW c \in Leases(ledger'), t \in Requires[c]
      PROVE  \E q \in Procs : pc'[q] = "rollback" /\ job'[q].who = c
  <2>1. c \in Deploys /\ ledger'[c] # NoLease
    BY DEF Leases
  <2>2. c \in Leases(ledger)
    BY <1>2, <2>1, LeaseSource, AppendEffect DEF Shunned, Granting, Leases
  <2>3. PICK q \in Procs : pc[q] = "rollback" /\ job[q].who = c
    BY <1>2, <2>2 DEF Shunned
  <2>4. CASE q = p
    <3>1. ~Drop(p)
      BY <2>1, <2>3, <2>4, DropEffect DEF Without, TypeOK, Ledger
    <3> QED BY <2>3, <2>4, <3>1, RollbackFirst, StepOnward DEF Onward, Alone
  <2> QED BY <1>0, <2>3, <2>4
<1>3. ASSUME NEW q \in Procs, pc'[q] \in Granting PROVE t \notin Requires[job'[q].who]
  <2>1. CASE q = p
    <3>1. job'[p].who = job[p].who
      BY StepOnward DEF Onward, Alone
    <3> QED BY <1>3, <2>1, <3>1, GrantingFrom DEF Shunned, Admissible, firstPoisonedToken
  <2> QED BY <1>0, <1>3, <2>1 DEF Shunned
<1>4. ASSUME NEW q \in Procs, pc'[q] = "unflip" PROVE t \notin job'[q].toks
  <2>1. ASSUME q = p, Released(p) PROVE t \notin job'[q].toks
    <3>1. pc[p] = "restore" /\ job'[p].toks = Requires[job[p].cur] \cap GpuTokens
      BY <2>1, ReleasedEffect
    <3>2. job[p].cur \in Leases(ledger)
      BY <3>1 DEF Releasing, CopyInv, Copy, Within, Trimming
    <3>3. \A r \in Procs : pc[r] # "rollback"
      BY <3>1, ArbiterAssumption DEF LockInv, AtWork, Holding, Trimming, Claiming
    <3> QED BY <2>1, <3>1, <3>2, <3>3 DEF Shunned
  <2>2. ASSUME q = p, NEW u \in GpuTokens, Unflip(p, u) PROVE t \notin job'[q].toks
    BY <2>2, UnflipEffect DEF Shunned
  <2> QED BY <1>0, <1>4, <2>1, <2>2, UnflipFrom DEF Shunned
<1> QED BY <1>1, <1>2, <1>3, <1>4 DEF Shunned

\* A first wedge: it is the switch of an acquire, which poisons the token and has
\* the only lease on it.
LEMMA WedgeStep ==
  ASSUME NoReconcile, "unwedge" \notin Faults, Books, ExclusionInv, SuitInv, WedgeInv,
         NEW p \in Procs, Step(p)
  PROVE  WedgeInv'
<1> USE DEF Books, TypeInv
<1> SUFFICES ASSUME NEW t \in GpuTokens, wedges'[t] > 0 PROVE Shunned(t)'
  BY DEF WedgeInv
<1>0. wedges[t] \in 0..2
  BY DEF TypeOK
<1>1. CASE wedges[t] > 0
  BY <1>1, ShunnedStep DEF WedgeInv
<1>2. CASE wedges[t] = 0
  <2>1. ASSUME NEW u \in GpuTokens, Unflip(p, u) PROVE FALSE
    <3>1. wedges' = wedges \/ (wedges[u] > 0 /\ Stuck(u))
      BY <2>1 DEF Unflip
    <3> QED BY <1>2, <3>1 DEF Stuck, TypeOK
  <2>2. PICK u \in GpuTokens : FlipFails(p, u)
    BY <1>2, <2>1, WedgeMoves
  <2>3. /\ u \in job[p].toks /\ FlipFault(p, u, TRUE)
        /\ Stuck(u) /\ poison' = poison \cup {u}
    <3>1. /\ u \in job[p].toks
          /\ \/ FlipFault(p, u, TRUE) /\ Stuck(u) /\ poison' = poison \cup {u}
             \/ wedges' = wedges
      BY <2>2, ZenonT(30) DEF FlipFails
    <3>2. wedges' # wedges
      BY <1>2
    <3> QED BY <3>1, <3>2, ZenonT(30)
  <2>4. u = t /\ wedges'[t] = 1 /\ t \in poison'
    BY <1>2, <2>3 DEF Stuck, TypeOK
  <2>5. pc[p] = "flip" /\ pc'[p] = "rollback" /\ ledger' = ledger /\ Alone(p)
    BY <2>2, FlipFailsEffect
  <2>6. t \in Requires[job[p].who] /\ mode[t] # claimMode(job[p].who)
    BY <2>3, <2>4, <2>5 DEF SuitInv, Setting, FlipFault
  <2>7. \A c \in Leases(ledger) : t \in Requires[c] => c = job[p].who
    BY <2>5, <2>6, WedgedAlone
  <2>8. \A c \in Leases(ledger') : t \in Requires[c] =>
          \E q \in Procs : pc'[q] = "rollback" /\ job'[q].who = c
    BY <2>5, <2>7 DEF Alone
  <2>9. ASSUME NEW q \in Procs PROVE pc'[q] \notin Granting \cup {"unflip"}
    <3>1. CASE q = p
      BY <2>5, <3>1 DEF Granting
    <3>2. CASE q # p
      BY <2>5, <3>2, ZenonT(30) DEF Alone, Granting, LockInv, AtWork, Holding, Trimming, Claiming
    <3> QED BY <3>1, <3>2
  <2> QED BY <2>4, <2>8, <2>9 DEF Shunned
<1> QED BY <1>0, <1>1, <1>2

LEMMA WedgeNext ==
  ASSUME NoReconcile, MaxCrashes = 0, "unwedge" \notin Faults, "recover" \notin Faults,
         Books, ExclusionInv, SuitInv, WedgeInv, [Next]_vars
  PROVE  WedgeInv'
<1> USE DEF Books, TypeInv
<1>1. ASSUME poison' = poison, ledger' = ledger,
             \A t \in GpuTokens : wedges'[t] > 0 => wedges'[t] = wedges[t],
             \A q \in Procs : \/ pc'[q] = pc[q] /\ job'[q] = job[q]
                              \/ pc[q] = "new" /\ pc'[q] \in {"halt", "wait", "relwait"}
      PROVE  WedgeInv'
  <2> SUFFICES ASSUME NEW t \in GpuTokens, wedges'[t] > 0 PROVE Shunned(t)'
    BY DEF WedgeInv
  <2>1. Shunned(t) /\ wedges'[t] = wedges[t]
    BY <1>1 DEF WedgeInv
  <2>2. ASSUME NEW c \in Leases(ledger'), t \in Requires[c]
        PROVE  \E q \in Procs : pc'[q] = "rollback" /\ job'[q].who = c
    <3>1. PICK q \in Procs : pc[q] = "rollback" /\ job[q].who = c
      BY <1>1, <2>1, <2>2 DEF Shunned
    <3> QED BY <1>1, <3>1
  <2>3. \A q \in Procs : /\ pc'[q] \in Granting => t \notin Requires[job'[q].who]
                         /\ pc'[q] = "unflip" => t \notin job'[q].toks
    BY <1>1, <2>1 DEF Shunned, Granting
  <2> QED BY <1>1, <2>1, <2>2, <2>3 DEF Shunned
<1>2. ASSUME NEW p \in Procs, NEW o \in AllCommands, NEW d \in Deploys, Begin(p, o, d)
      PROVE  WedgeInv'
  <2>1. /\ \A q \in Procs \ {p} : pc'[q] = pc[q] /\ job'[q] = job[q]
        /\ pc[p] = "new" /\ pc'[p] \in {"halt", "wait", "relwait"}
        /\ UNCHANGED <<ledger, poison, wedges>>
    BY <1>2, BeginEffect, BeginLock, ZenonT(60) DEF AllCommands
  <2> QED BY <1>1, <2>1
<1>3. CASE World
  <2> SUFFICES ASSUME ~Reboot PROVE WedgeInv'
    BY RebootEffect DEF WedgeInv
  <2>1. \A p \in Procs : ~Crash(p)
    BY CrashEffect DEF TypeOK
  <2>2. OnHost
    BY <1>3, <2>1, WorldEffect
  <2>3. poison' = poison /\ \A t \in GpuTokens : wedges'[t] > 0 => wedges'[t] = wedges[t]
    <3>1. ASSUME NEW u \in GpuTokens, StallEnds(u)
          PROVE  poison' = poison /\ \A t \in GpuTokens : wedges'[t] > 0 => wedges'[t] = wedges[t]
      BY <3>1 DEF StallEnds, disk, TypeOK
    <3>2. ASSUME NEW d \in Deploys, GoesDown(d) \/ OperatorStart(d)
          PROVE  poison' = poison /\ wedges' = wedges
      BY <3>2 DEF GoesDown, OperatorStart, disk
    <3> QED BY <1>3, <2>1, <3>1, <3>2 DEF World, GpuRecover
  <2> QED BY <1>1, <2>2, <2>3 DEF OnHost
<1>4. CASE UNCHANGED vars
  <2>1. poison' = poison /\ ledger' = ledger /\ wedges' = wedges /\ pc' = pc /\ job' = job
    BY <1>4 DEF vars
  <2> QED BY <1>1, <2>1
<1> QED BY <1>2, <1>3, <1>4, WedgeStep DEF Next, Quiet

LEMMA DriverSuits ==
  ASSUME NoReconcile, Books, DriverInv
  PROVE  SuitInv
<1> USE DEF Books, TypeInv
<1>1. ASSUME NEW p \in Procs, pc[p] = "flip", NEW c \in Leases(ledger) \ {job[p].who}
      PROVE  ModeOk(c)
  <2>1. ASSUME NEW q \in Procs PROVE ~Altering(q, c)
    BY <1>1, ArbiterAssumption DEF Altering, LockInv, AtWork, Holding, Trimming, Claiming
  <2> QED BY <2>1 DEF DriverInv
<1> QED BY <1>1 DEF SuitInv, DriverInv

LEMMA SweptSuits ==
  ASSUME ModeInv, SweptInv
  PROVE  SuitInv
BY DEF SuitInv, SweptInv, Swept, ModeInv, Granting

LEMMA WedgedOnce ==
  ASSUME Books, WedgeInv
  PROVE  NoRewedge
BY DEF NoRewedge, WedgeInv, Shunned, Books, TypeInv, TypeOK

LEMMA WedgeInit == Init => WedgeInv
BY DEF Init, WedgeInv

LEMMA SweptStep ==
  ASSUME NoReconcile, Books, ExclusionInv, KeptInv, ModeInv, SweptInv, NEW p \in Procs, Step(p)
  PROVE  Swept(p)'
<1> USE DEF Books, TypeInv
<1> DEFINE OnWay == pc[p] \in {"scan", "restore", "unflip", "flush"} /\ ~job[p].rel
           Seen  == \A c \in Leases(job[p].mem) \cap job[p].seen : ModeOk(c)
<1>0. /\ Swept(p) /\ Keeps(p) /\ Copy(p) /\ AtWork(p) /\ Setting(p) /\ job'[p].who = job[p].who
  BY StepOnward DEF SweptInv, KeptInv, CopyInv, LockInv, ModeInv, Onward, Alone
<1>1. ASSUME mode' = mode, job'[p].mem = job[p].mem, job'[p].seen = job[p].seen, OnWay,
             pc'[p] \in {"scan", "restore", "flush"}
      PROVE  Swept(p)'
  BY <1>0, <1>1 DEF Swept, ModeOk, Leases, Granting
<1>2. CASE LockAcquire(p)
  <2>1. pc'[p] = "scan" /\ job'[p].seen = {}
    BY <1>0, <1>2, LockAcquireEffect DEF Keeps
  <2> QED BY <2>1 DEF Swept, Granting
<1>3. CASE LockRelease(p)
  BY <1>3, LockReleaseEffect DEF Swept, Granting, Ends
<1>4. ASSUME NEW d \in Deploys, Visit(p, d) PROVE Swept(p)'
  <2>1. /\ pc[p] = "scan" /\ ~job[p].rel /\ mode' = mode /\ job'[p].mem = job[p].mem
        /\ d \in Leases(job[p].mem) /\ pc'[p] \in {"scan", "restore"}
    BY <1>0, <1>4, VisitEffect DEF AtWork
  <2>2. CASE job'[p].seen = job[p].seen
    BY <1>1, <2>1, <2>2
  <2>3. CASE job'[p].seen # job[p].seen
    <3>1. leaseLive(job[p].mem, d) /\ job'[p].seen = job[p].seen \cup {d}
      BY <1>4, <2>3, VisitEffect
    <3>2. /\ d \in Leases(ledger) /\ job[p].mem[d].owner = ledger[d].owner
          /\ job[p].mem[d].transient = ledger[d].transient
      BY <1>0, <2>1 DEF Copy, Within, Trimming
    <3>3. leaseLive(ledger, d)
      BY <3>1, <3>2 DEF leaseLive
    <3>4. ASSUME NEW q \in Procs PROVE ~Busy(q, d)
      <4>1. CASE q = p
        BY <2>1, <4>1 DEF Busy, Leases
      <4>2. CASE q # p
        BY <2>1, <4>2 DEF Busy, LockInv, AtWork, Holding, Trimming, Claiming
      <4> QED BY <4>1, <4>2
    <3>5. ModeOk(d)
      BY <3>2, <3>3, <3>4 DEF ModeInv, Settled, Leases
    <3> QED BY <1>0, <2>1, <3>1, <3>5 DEF Swept, ModeOk, Leases, Granting
  <2> QED BY <2>2, <2>3
<1>5. ASSUME NEW d \in Deploys, Restore(p, d) PROVE Swept(p)'
  <2>1. /\ pc[p] = "restore" /\ pc'[p] = "restore" /\ job'[p].rel = job[p].rel /\ mode' = mode
        /\ job'[p].mem = job[p].mem /\ job'[p].seen = job[p].seen
    BY <1>5, RestoreEffect DEF SameCopy
  <2> QED BY <1>1, <2>1 DEF Swept, Granting
<1>6. ~Retain(p)
  BY <1>0, RetainEffect DEF Keeps
<1>7. CASE Released(p)
  <2> DEFINE L == job[p].mem
             d == job[p].cur
             good == job[p].rel => job[p].good
  <2>1. PICK heir \in Heirs(L, d, good) : job'[p].mem = Attach(L, d, heir)
    BY <1>7, ReleasedEffect
  <2>2. L \in Ledger /\ d \in Leases(L) /\ good \in BOOLEAN
    BY <1>7, JobFields DEF TypeOK, Released, Releasing
  <2>3. /\ pc[p] = "restore" /\ pc'[p] = "unflip" /\ job'[p].rel = job[p].rel /\ mode' = mode
        /\ job'[p].seen = job[p].seen
    BY <1>7, ReleasedEffect DEF SameFlags
  <2> HIDE DEF L, d, good
  <2> DEFINE A == Attach(L, d, heir)
  <2>4. Leases(A) = Leases(L) \ {d}
    BY <2>2, AttachFields
  <2> HIDE DEF A
  <2>5. job'[p].mem = A
    BY <2>1 DEF A
  <2>6. ~job[p].rel => \A c \in Leases(A) \cap job[p].seen : ModeOk(c)
    BY <1>0, <2>3, <2>4 DEF Swept, L
  <2> QED BY <2>3, <2>5, <2>6 DEF Swept, ModeOk, Leases, Granting
<1>8. ASSUME NEW t \in GpuTokens, Unflip(p, t) PROVE Swept(p)'
  <2>1. /\ pc[p] = "unflip" /\ pc'[p] = "unflip" /\ job'[p].rel = job[p].rel
        /\ job'[p].mem = job[p].mem /\ job'[p].seen = job[p].seen
    BY <1>8, UnflipEffect DEF SameCopy, SameFlags
  <2>2. ASSUME ~job[p].rel, NEW c \in Leases(job[p].mem) \cap job[p].seen PROVE ModeOk(c)'
    <3>1. ModeOk(c) /\ c \in Deploys /\ ~Busy(p, c)'
      BY <1>0, <2>1, <2>2 DEF Swept, Busy, Leases
    <3> QED BY <1>8, <3>1, UnflipSuits DEF ExclusionInv
  <2> QED BY <2>1, <2>2 DEF Swept, Leases, Granting
<1>9. CASE UnflipEnd(p)
  <2>1. /\ pc[p] = "unflip" /\ mode' = mode /\ job'[p].mem = job[p].mem
        /\ job'[p].seen = job[p].seen
        /\ pc'[p] = "commit" \/ (~job[p].rel /\ pc'[p] = "scan")
    BY <1>9, UnflipEndEffect
  <2> QED BY <1>1, <2>1 DEF Swept, Granting
<1>10. CASE ScanEnd(p)
  <2>1. /\ pc[p] = "scan" /\ ~job[p].rel /\ Leases(job[p].mem) \subseteq job[p].seen
        /\ mode' = mode /\ ledger' = ledger
    BY <1>0, <1>10, ScanEndEffect DEF AtWork
  <2>2. CASE job[p].dirty
    BY <1>1, <1>10, <2>1, <2>2, ScanEndEffect DEF SameCopy
  <2>3. CASE ~job[p].dirty
    <3>1. \A c \in Leases(ledger) : ModeOk(c)
      BY <1>0, <2>1, <2>3 DEF Swept, Copy
    <3>2. pc'[p] \in {"decide", "done"}
      BY <1>10, <2>3, ScanEndEffect DEF Scanned, Ends
    <3> QED BY <2>1, <3>1, <3>2 DEF Swept, ModeOk, Leases
  <2> QED BY <2>2, <2>3
<1>11. CASE Flush(p)
  <2>1. /\ pc[p] = "flush" /\ ~job[p].rel /\ mode' = mode /\ ledger' = job[p].mem /\ Scanned(p)
    BY <1>0, <1>11, FlushEffect DEF AtWork
  <2>2. \A c \in Leases(job[p].mem) : ModeOk(c)
    BY <1>0, <2>1 DEF Swept, Keeps
  <2>3. pc'[p] \in {"decide", "done"}
    BY <2>1 DEF Scanned, Ends
  <2> QED BY <2>1, <2>2, <2>3 DEF Swept, ModeOk, Leases
<1>12. CASE DecideExclusive(p) \/ DecideShared(p)
  <2>1. pc[p] = "decide" /\ pc'[p] = "append" /\ mode' = mode /\ ledger' = ledger
    BY <1>12, DecideExclusiveEffect, DecideSharedEffect DEF Decided
  <2> QED BY <1>0, <2>1 DEF Swept, ModeOk, Leases, Granting
<1>13. CASE Append(p)
  <2>1. /\ pc[p] = "append" /\ pc'[p] = "stop" /\ mode' = mode /\ ledger' = job[p].mem
        /\ Adds(job[p].mem, ledger, job[p].who)
    BY <1>0, <1>13, AppendEffect DEF Copy
  <2>2. Leases(ledger') \ {job[p].who} \subseteq Leases(ledger)
    BY <2>1 DEF Adds, Leases
  <2> QED BY <1>0, <2>1, <2>2 DEF Swept, ModeOk, Leases, Granting
<1>14. ASSUME NEW h \in Deploys, Stop(p, h) \/ StopFails(p, h) \/ Rollback(p, h) PROVE Swept(p)'
  <2>1. /\ pc'[p] = "rollback" \/ (pc[p] = "stop" /\ pc'[p] = "stop")
        /\ mode' = mode /\ ledger' = ledger
    BY <1>14, StopEffect, StopFailsEffect, RollbackEffect
  <2> QED BY <1>0, <2>1 DEF Swept, ModeOk, Leases, Granting
<1>15. CASE StopsEnd(p)
  <2>1. pc[p] = "stop" /\ pc'[p] = "flip" /\ mode' = mode /\ ledger' = ledger
    BY <1>15, StopsEndEffect
  <2> QED BY <1>0, <2>1 DEF Swept, ModeOk, Leases, Granting
<1>16. ASSUME NEW t \in GpuTokens, Flip(p, t) PROVE Swept(p)'
  <2>1. pc[p] = "flip" /\ pc'[p] = "flip" /\ ledger' = ledger
    BY <1>16, FlipEffect
  <2>2. ASSUME NEW c \in Leases(ledger) \ {job[p].who} PROVE ModeOk(c)'
    <3>1. ModeOk(c)
      BY <1>0, <2>1 DEF Swept, Granting
    <3> QED BY <1>0, <1>16, <3>1, FlipSuits DEF ExclusionInv
  <2> QED BY <1>0, <2>1, <2>2 DEF Swept, Leases
<1>17. ASSUME NEW t \in GpuTokens, FlipFails(p, t) PROVE Swept(p)'
  BY <1>17, FlipFailsEffect DEF Swept, Granting
<1>18. ASSUME \/ Halt(p) \/ Commit(p) \/ Reacquire(p) \/ Refuse(p) \/ FlipEnd(p) \/ Drop(p)
              \/ ClearBed(p) \/ BringUp(p) \/ BootBed(p) \/ CheckEnd(p)
       PROVE  Swept(p)'
  <2>1. pc'[p] \in {"relwait", "done", "up", "boot", "busy"}
    BY <1>18, HaltEffect, CommitEffect, ReacquireEffect, RefuseEffect, FlipEndEffect, DropEffect,
       ClearBedEffect, BringUpEffect, BootBedEffect, CheckEndEffect DEF Ends
  <2> QED BY <2>1 DEF Swept, Granting
<1> QED BY <1>2, <1>3, <1>4, <1>5, <1>6, <1>7, <1>8, <1>9, <1>10, <1>11, <1>12, <1>13, <1>14,
           <1>15, <1>16, <1>17, <1>18 DEF Step

LEMMA SweptOthers ==
  ASSUME NoReconcile, Books, SweptInv, NEW p \in Procs, Step(p), NEW q \in Procs \ {p}
  PROVE  Swept(q)'
<1> USE DEF Books, TypeInv
<1>1. pc'[q] = pc[q] /\ job'[q] = job[q] /\ Swept(q)
  BY StepOnward DEF Onward, Alone, SweptInv
<1>2. ASSUME pc[q] \in {"scan", "restore", "unflip", "flush", "decide"} \cup Granting
      PROVE  mode' = mode /\ ledger' = ledger
  <2>1. lock = q
    BY <1>2 DEF LockInv, AtWork, Holding, Trimming, Claiming, Granting
  <2>2. pc[p] \notin {"flip", "unflip"}
    BY <2>1 DEF LockInv, AtWork, Holding, Trimming, Claiming
  <2> QED BY <2>1, <2>2, ModeMoves, LedgerLocked, FlipEffect, UnflipEffect
<1> QED BY <1>1, <1>2 DEF Swept, ModeOk, Leases

LEMMA SweptNext ==
  ASSUME NoReconcile, "recover" \notin Faults, Books, ExclusionInv, KeptInv, ModeInv, SweptInv,
         [Next]_vars
  PROVE  SweptInv'
<1> USE DEF Books, TypeInv
<1>1. ASSUME mode' = mode, ledger' = ledger,
             \A q \in Procs : \/ pc'[q] = pc[q] /\ job'[q] = job[q]
                              \/ pc'[q] \in {"new", "halt", "wait", "relwait", "done"}
      PROVE  SweptInv'
  BY <1>1 DEF SweptInv, Swept, ModeOk, Leases, Granting
<1>2. ASSUME NEW p \in Procs, NEW o \in AllCommands, NEW d \in Deploys, Begin(p, o, d)
      PROVE  SweptInv'
  <2>1. /\ \A q \in Procs \ {p} : pc'[q] = pc[q] /\ job'[q] = job[q]
        /\ pc'[p] \in {"halt", "wait", "relwait"} /\ ledger' = ledger /\ mode' = mode
    BY <1>2, BeginEffect, BeginLock, ZenonT(60) DEF AllCommands
  <2> QED BY <1>1, <2>1
<1>3. CASE World
  <2>1. mode' = mode
    BY <1>3 DEF World, Crash, Reboot, GoesDown, OperatorStart, StallEnds, GpuRecover, host
  <2>2. CASE OnHost
    BY <1>1, <2>1, <2>2 DEF OnHost
  <2>3. CASE Reboot
    BY <1>1, <2>1, <2>3, RebootEffect DEF ownerAlive
  <2>4. ASSUME NEW p \in Procs, Crash(p) PROVE SweptInv'
    BY <1>1, <2>1, <2>4, CrashEffect DEF Ends, Alone
  <2> QED BY <1>3, <2>2, <2>3, <2>4, WorldEffect
<1>4. CASE UNCHANGED vars
  <2>1. mode' = mode /\ ledger' = ledger /\ pc' = pc /\ job' = job
    BY <1>4 DEF vars
  <2> QED BY <1>1, <2>1
<1>5. ASSUME NEW p \in Procs, Step(p) PROVE SweptInv'
  BY <1>5, SweptStep, SweptOthers DEF SweptInv
<1> QED BY <1>2, <1>3, <1>4, <1>5 DEF Next, Quiet

LEMMA SweptInit == Init => SweptInv
BY DEF Init, SweptInv, Swept, Granting

\* A wedged card is left alone until the host is rebooted: no acquire gets past its
\* marker and no release switches it, whatever else fails or goes down.
THEOREM WedgeIsFinal ==
  ASSUME NoReconcile, Claimants, MaxCrashes = 0, "unwedge" \notin Faults, "recover" \notin Faults,
         MaxReboots = 0 \/ (OneKind /\ Steady)
  PROVE  Spec => []NoRewedge
<1>1. CASE MaxReboots = 0
  <2> DEFINE Inv == Books /\ ExclusionInv /\ TidyInv /\ DriverInv /\ WedgeInv
  <2>1. Init => Inv
    BY BooksInit, TidyInit, DriverInit, WedgeInit, EmptyCompatible, InitType
       DEF ExclusionInv, Init, NewJob
  <2>2. Inv /\ [Next]_vars => Inv'
    BY <1>1, BooksNext, ExclusionNext, TidyNext, DriverNext, DriverSuits, WedgeNext
  <2>3. Inv => NoRewedge
    BY WedgedOnce
  <2> QED BY <2>1, <2>2, <2>3, PTL DEF Spec
<1>2. CASE OneKind /\ Steady
  <2> DEFINE Inv == /\ Books /\ ExclusionInv /\ KeptInv /\ TodoInv /\ TidyInv /\ ModeInv
                    /\ SweptInv /\ WedgeInv
  <2>1. Init => Inv
    BY BooksInit, KeptInit, TodoInit, TidyInit, ModeInit, SweptInit, WedgeInit, EmptyCompatible,
       InitType DEF ExclusionInv, Init, NewJob
  <2>2. Inv /\ [Next]_vars => Inv'
    <3>1. Killed
      BY DEF Killed
    <3> QED BY <1>2, <3>1, BooksNext, ExclusionNext, KeptNext, TodoNext, TidyNext, ModeNext,
               SweptNext, SweptSuits, WedgeNext
  <2>3. Inv => NoRewedge
    BY WedgedOnce
  <2> QED BY <2>1, <2>2, <2>3, PTL DEF Spec
<1> QED BY <1>1, <1>2

=============================================================================
