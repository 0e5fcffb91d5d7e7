-------------------------- MODULE CredentialsProofs --------------------------
(***************************************************************************)
(* Proofs about Credentials, for any processes, boxes, volumes, backends,  *)
(* menus, kills and changes of the keyring.  The types need nothing else;  *)
(* the properties need that the commands which change credentials are kept *)
(* apart, and each of them some of the faults away.                        *)
(***************************************************************************)
EXTENDS Credentials, FiniteSetTheorems, WellFoundedInduction, NaturalsInduction, TLAPS

PCs     == {"idle", "plan", "ready", "select", "get", "fallback", "await", "retry", "prompt", "put", "load",
           "save", "read", "probe", "next", "exec", "done", "unstored"}
Stores  == {"none", "keyring", "config"}
Kinds   == {"none", "plain", "index", "clear", "settings"}
Sources == {"none", "locked", "default"}
Modes   == {"await", "retry"}
Users   == {"config", "start", "mount", "unmount", "passwd"}
Fields  == {"pc", "cmd", "box", "had", "store", "dead", "err", "source", "mode", "tries", "pass", "new",
           "init", "mnt", "todo", "keys", "moved", "edit", "cfg", "old"}

Jobs == proc \in [Procs -> Job]

\* A command is where its steps lead.
Routed(j) ==
  /\ j.pc \in {"idle"} \cup Ended => j.cmd = "none"
  /\ j.pc \in {"plan", "exec"} => j.cmd \in Users
  /\ j.pc = "ready" => j.cmd \in {"config", "start"}
  /\ j.pc = "select" => j.cmd \in {"config", "start", "mount", "provision", "set", "delete"}
  /\ j.pc \in {"get", "fallback"} => j.cmd \in {"config", "start", "mount", "provision"}
  /\ j.pc = "get" => j.store # "none"
  /\ j.pc \in {"await", "retry"} => j.cmd = "mount"
  /\ j.pc = "prompt" => j.cmd = "start"
  /\ j.pc = "put" => j.cmd \in {"config", "provision", "set", "delete", "migrate"}
  /\ j.pc \in {"read", "probe", "next"} => j.cmd = "migrate"
  /\ j.pc \in {"load", "save"} =>
       /\ j.edit # "none"
       /\ j.edit = "settings" => j.cmd = "settings"
       /\ j.edit \in {"plain", "index"} => j.cmd \in {"config", "provision", "set", "delete", "migrate"}
       /\ j.edit = "clear" => j.pc = "save" /\ j.cmd = "migrate"

\* What has been read of the volumes stays true, and nothing is encrypted with no passphrase.
Firm(j) ==
  /\ \A v \in j.init : cipher[v] # 0
  /\ j.todo \subseteq Of(j.box)
  /\ j.cmd = "migrate" => j.todo = {}
  /\ j.mode # "retry" \/ j.pc = "await" => j.tries = 0
  /\ j.pc = "retry" => j.tries < MaxTries
  /\ j.pc \in {"put", "load", "save"} /\ j.cmd \in {"config", "provision"} => j.pass # 0
  /\ j.pc = "exec" /\ j.cmd \in {"config", "start", "mount"} => j.pass # 0
  /\ j.pc = "exec" /\ j.cmd = "passwd" => j.new # 0

\* The processes that may still take a new value.
MayDraw(j) ==
  \/ j.pc = "idle"
  \/ j.cmd \in {"config", "start", "provision"} /\ j.pc \in {"plan", "select", "get", "fallback", "prompt"}
  \/ j.cmd = "passwd" /\ j.pc = "plan"

Drawers == {p \in Procs : MayDraw(proc[p])}
Counted == fresh + Cardinality(Drawers) <= Cardinality(Procs) + 2

\* TypeOK but for the processes.
Shared ==
  /\ setting \in [backend : Backends, provider : Providers]
  /\ ring \in Rings
  /\ stored \in [Boxes -> Value] /\ file \in File
  /\ cipher \in [Volumes -> Value]
  /\ mounted \subseteq {v \in Volumes : cipher[v] # 0}
  /\ fresh \in Nat \ {0} /\ known \subseteq Value
  /\ kills \in 0..MaxKills /\ changes \in 0..MaxChanges

TypeInv ==
  /\ Shared /\ Jobs /\ Counted
  /\ \A p \in Procs : Routed(proc[p]) /\ Firm(proc[p])

-----------------------------------------------------------------------------
(* The local state of a process: k is j but for the fields F.              *)

Like(k, j, F) == k \in Job /\ \A f \in Fields \ F : k[f] = j[f]

LEMMA SetPc ==
  ASSUME NEW j \in Job, NEW c \in PCs
  PROVE  LET k == [j EXCEPT !.pc = c] IN Like(k, j, {"pc"}) /\ k.pc = c
BY DEF Job, Fields, Like, PCs

LEMMA SetCmd ==
  ASSUME NEW j \in Job, NEW c \in AllCommands
  PROVE  LET k == [j EXCEPT !.cmd = c] IN Like(k, j, {"cmd"}) /\ k.cmd = c
BY DEF Job, Fields, Like, AllCommands

LEMMA SetBox ==
  ASSUME NEW j \in Job, NEW c \in Boxes
  PROVE  LET k == [j EXCEPT !.box = c] IN Like(k, j, {"box"}) /\ k.box = c
BY DEF Job, Fields, Like

LEMMA SetHad ==
  ASSUME NEW j \in Job, NEW c \in BOOLEAN
  PROVE  LET k == [j EXCEPT !.had = c] IN Like(k, j, {"had"}) /\ k.had = c
BY DEF Job, Fields, Like

LEMMA SetStore ==
  ASSUME NEW j \in Job, NEW c \in Stores
  PROVE  LET k == [j EXCEPT !.store = c] IN Like(k, j, {"store"}) /\ k.store = c
BY DEF Job, Fields, Like, Stores

LEMMA SetDead ==
  ASSUME NEW j \in Job, NEW c \in BOOLEAN
  PROVE  LET k == [j EXCEPT !.dead = c] IN Like(k, j, {"dead"}) /\ k.dead = c
BY DEF Job, Fields, Like

LEMMA SetErr ==
  ASSUME NEW j \in Job, NEW c \in BOOLEAN
  PROVE  LET k == [j EXCEPT !.err = c] IN Like(k, j, {"err"}) /\ k.err = c
BY DEF Job, Fields, Like

LEMMA SetSource ==
  ASSUME NEW j \in Job, NEW c \in Sources
  PROVE  LET k == [j EXCEPT !.source = c] IN Like(k, j, {"source"}) /\ k.source = c
BY DEF Job, Fields, Like, Sources

LEMMA SetMode ==
  ASSUME NEW j \in Job, NEW c \in Modes
  PROVE  LET k == [j EXCEPT !.mode = c] IN Like(k, j, {"mode"}) /\ k.mode = c
BY DEF Job, Fields, Like, Modes

LEMMA SetTries ==
  ASSUME NEW j \in Job, NEW c \in 0..MaxTries
  PROVE  LET k == [j EXCEPT !.tries = c] IN Like(k, j, {"tries"}) /\ k.tries = c
BY DEF Job, Fields, Like

LEMMA SetPass ==
  ASSUME NEW j \in Job, NEW c \in Value
  PROVE  LET k == [j EXCEPT !.pass = c] IN Like(k, j, {"pass"}) /\ k.pass = c
BY DEF Job, Fields, Like

LEMMA SetNew ==
  ASSUME NEW j \in Job, NEW c \in Value
  PROVE  LET k == [j EXCEPT !.new = c] IN Like(k, j, {"new"}) /\ k.new = c
BY DEF Job, Fields, Like

LEMMA SetInit ==
  ASSUME NEW j \in Job, NEW c \in SUBSET Volumes
  PROVE  LET k == [j EXCEPT !.init = c] IN Like(k, j, {"init"}) /\ k.init = c
BY DEF Job, Fields, Like

LEMMA SetMnt ==
  ASSUME NEW j \in Job, NEW c \in SUBSET Volumes
  PROVE  LET k == [j EXCEPT !.mnt = c] IN Like(k, j, {"mnt"}) /\ k.mnt = c
BY DEF Job, Fields, Like

LEMMA SetTodo ==
  ASSUME NEW j \in Job, NEW c \in SUBSET Volumes
  PROVE  LET k == [j EXCEPT !.todo = c] IN Like(k, j, {"todo"}) /\ k.todo = c
BY DEF Job, Fields, Like

LEMMA SetKeys ==
  ASSUME NEW j \in Job, NEW c \in SUBSET Boxes
  PROVE  LET k == [j EXCEPT !.keys = c] IN Like(k, j, {"keys"}) /\ k.keys = c
BY DEF Job, Fields, Like

LEMMA SetMoved ==
  ASSUME NEW j \in Job, NEW c \in BOOLEAN
  PROVE  LET k == [j EXCEPT !.moved = c] IN Like(k, j, {"moved"}) /\ k.moved = c
BY DEF Job, Fields, Like

LEMMA SetEdit ==
  ASSUME NEW j \in Job, NEW c \in Kinds
  PROVE  LET k == [j EXCEPT !.edit = c] IN Like(k, j, {"edit"}) /\ k.edit = c
BY DEF Job, Fields, Like, Kinds

LEMMA SetCfg ==
  ASSUME NEW j \in Job, NEW c \in File
  PROVE  LET k == [j EXCEPT !.cfg = c] IN Like(k, j, {"cfg"}) /\ k.cfg = c
BY DEF Job, Fields, Like

LEMMA SetOld ==
  ASSUME NEW j \in Job, NEW c \in File
  PROVE  LET k == [j EXCEPT !.old = c] IN Like(k, j, {"old"}) /\ k.old = c
BY DEF Job, Fields, Like

LEMMA ValueFacts == Cardinality(Procs) \in Nat /\ Value \subseteq Nat /\ 0 \in Value /\ Empty \in File
<1>1. Cardinality(Procs) \in Nat
  BY CredentialsAssumption, FS_CardinalityType
<1>2. 0 \in Value
  BY <1>1 DEF Value
<1> QED BY <1>1, <1>2 DEF Value, Empty, File

LEMMA IdleFacts ==
  /\ Idle \in Job /\ Idle.pc = "idle" /\ Idle.cmd = "none" /\ Idle.store = "none" /\ Idle.mode = "first"
  /\ Idle.dead = FALSE /\ Idle.err = FALSE /\ Idle.had = FALSE /\ Idle.tries = 0 /\ Idle.init = {} /\ Idle.todo = {}
  /\ Idle.edit = "none"
<1>1. (CHOOSE b \in Boxes : TRUE) \in Boxes
  BY CredentialsAssumption
<1>2. 0 \in 0..MaxTries
  BY CredentialsAssumption
<1>3. Idle \in Job
  BY <1>1, <1>2, ValueFacts DEF Idle, Job
<1> QED BY <1>3 DEF Idle

\* The control state and the command of a job, among the others.
LEMMA JobFields ==
  ASSUME NEW j \in Job
  PROVE  /\ j.pc \in PCs /\ j.cmd \in AllCommands \cup {"none"} /\ j.box \in Boxes /\ j.had \in BOOLEAN
         /\ j.store \in Stores /\ j.dead \in BOOLEAN /\ j.err \in BOOLEAN
         /\ j.source \in {"none", "locked", "default"} /\ j.mode \in {"first", "await", "retry"}
         /\ j.tries \in 0..MaxTries /\ j.pass \in Value /\ j.new \in Value
         /\ j.init \in SUBSET Volumes /\ j.mnt \in SUBSET Volumes /\ j.todo \in SUBSET Volumes
         /\ j.keys \in SUBSET Boxes /\ j.edit \in Kinds /\ j.cfg \in File /\ j.old \in File
BY DEF Job, PCs, Stores, Kinds

\* What is left of a command that has ended.
LEMMA EndedJob ==
  ASSUME NEW c \in Ended
  PROVE  LET k == [Idle EXCEPT !.pc = c]
         IN  /\ Like(k, Idle, {"pc"}) /\ k.pc = c /\ k.cmd = "none" /\ Routed(k) /\ Firm(k) /\ Firm(k)' /\ ~MayDraw(k)
<1> DEFINE k == [Idle EXCEPT !.pc = c]
<1>0. Idle \in Job /\ c \in PCs
  BY IdleFacts DEF PCs, Ended
<1>1. Like(k, Idle, {"pc"}) /\ k.pc = c
  BY <1>0, SetPc
<1> HIDE DEF k
<1>2. k.cmd = "none" /\ k.init = {} /\ k.todo = {} /\ k.mode = "first" /\ k.tries = 0
  BY <1>1, IdleFacts DEF Like, Fields
<1>3. Firm(k) /\ Firm(k)'
  BY <1>1, <1>2 DEF Firm, Ended
<1>4. Routed(k) /\ ~MayDraw(k)
  BY <1>1, <1>2 DEF Routed, MayDraw, Ended
<1> QED BY <1>1, <1>2, <1>3, <1>4 DEF k

LEMMA BecomeEffect ==
  ASSUME Jobs, NEW p \in Procs, NEW m \in Job, Become(p, m)
  PROVE  /\ Jobs'
         /\ \A q \in Procs \ {p} : proc'[q] = proc[q]
         /\ m.pc \notin Ended => proc'[p] = m
         /\ m.pc \in Ended => proc'[p] = [Idle EXCEPT !.pc = m.pc]
<1>1. m.pc \in Ended => [Idle EXCEPT !.pc = m.pc] \in Job
  BY EndedJob DEF Like
<1> QED BY <1>1 DEF Jobs, Become

-----------------------------------------------------------------------------
(* New values: the processes that may take one are fewer than those left.  *)

LEMMA DrawersFinite == IsFiniteSet(Drawers) /\ Cardinality(Drawers) \in Nat
<1>1. IsFiniteSet(Drawers)
  BY CredentialsAssumption, FS_Subset DEF Drawers
<1> QED BY <1>1, FS_CardinalityType

LEMMA DrawValue ==
  ASSUME TypeInv, NEW p \in Procs, MayDraw(proc[p])
  PROVE  fresh \in Value /\ fresh # 0
<1>1. p \in Drawers /\ IsFiniteSet(Drawers) /\ Cardinality(Drawers) \in Nat
  BY DrawersFinite DEF Drawers
<1>2. Cardinality(Drawers) # 0
  BY <1>1, FS_EmptySet
<1>3. fresh \in Nat \ {0} /\ fresh + Cardinality(Drawers) <= Cardinality(Procs) + 2
  BY DEF TypeInv, Shared, Counted
<1> QED BY <1>1, <1>2, <1>3, ValueFacts DEF Value

LEMMA CountKeeps ==
  ASSUME TypeInv, fresh' = fresh, Drawers' \subseteq Drawers
  PROVE  Counted'
<1>1. IsFiniteSet(Drawers) /\ Cardinality(Drawers) \in Nat
  BY DrawersFinite
<1>2. Cardinality(Drawers') \in Nat /\ Cardinality(Drawers') <= Cardinality(Drawers)
  BY <1>1, FS_Subset, FS_CardinalityType
<1>3. fresh \in Nat /\ fresh + Cardinality(Drawers) <= Cardinality(Procs) + 2
  BY DEF TypeInv, Shared, Counted
<1> QED BY <1>1, <1>2, <1>3, ValueFacts DEF Counted

LEMMA CountDraws ==
  ASSUME TypeInv, NEW p \in Drawers, fresh' = fresh + 1, Drawers' \subseteq Drawers \ {p}
  PROVE  Counted'
<1> DEFINE D == Drawers \ {p}
<1>1. IsFiniteSet(Drawers) /\ Cardinality(Drawers) \in Nat
  BY DrawersFinite
<1>2. IsFiniteSet(D) /\ Cardinality(D) = Cardinality(Drawers) - 1
  BY <1>1, FS_RemoveElement
<1>3. Cardinality(Drawers') \in Nat /\ Cardinality(Drawers') <= Cardinality(D) /\ Cardinality(D) \in Nat
  BY <1>2, FS_Subset, FS_CardinalityType
<1>4. fresh \in Nat /\ fresh + Cardinality(Drawers) <= Cardinality(Procs) + 2
  BY DEF TypeInv, Shared, Counted
<1> HIDE DEF D
<1> QED BY <1>1, <1>2, <1>3, <1>4, ValueFacts DEF Counted

\* A step of p from one typed state to another.
LEMMA TypeNext ==
  ASSUME TypeInv, NEW p \in Procs, NEW m \in Job, Become(p, m),
         m.pc \notin Ended => Routed(m) /\ Firm(m)',
         Shared',
         \A v \in Volumes : cipher[v] # 0 => cipher'[v] # 0,
         \/ fresh' = fresh /\ (MayDraw(m) => MayDraw(proc[p]))
         \/ fresh' = fresh + 1 /\ MayDraw(proc[p]) /\ ~MayDraw(m)
  PROVE  TypeInv'
<1>1. /\ Jobs' /\ \A q \in Procs \ {p} : proc'[q] = proc[q]
      /\ m.pc \notin Ended => proc'[p] = m
      /\ m.pc \in Ended => proc'[p] = [Idle EXCEPT !.pc = m.pc]
  BY BecomeEffect DEF TypeInv
<1>2. Routed(proc[p])' /\ Firm(proc[p])' /\ (MayDraw(proc[p])' => m.pc \notin Ended /\ MayDraw(m))
  <2>1. CASE m.pc \notin Ended
    BY <1>1, <2>1 DEF Routed, Firm, MayDraw
  <2>2. CASE m.pc \in Ended
    <3> DEFINE k == [Idle EXCEPT !.pc = m.pc]
    <3>1. Routed(k) /\ Firm(k)' /\ ~MayDraw(k)
      BY <2>2, EndedJob
    <3>2. proc'[p] = k
      BY <1>1, <2>2
    <3> HIDE DEF k
    <3> QED BY <3>1, <3>2 DEF Routed, Firm, MayDraw
  <2> QED BY <2>1, <2>2
<1>3. ASSUME NEW q \in Procs
      PROVE  Routed(proc[q])' /\ Firm(proc[q])'
  <2>1. CASE q = p
    BY <1>2, <2>1
  <2>2. CASE q # p
    <3>1. proc'[q] = proc[q] /\ proc[q] \in Job /\ Routed(proc[q]) /\ Firm(proc[q])
      BY <1>1, <2>2 DEF TypeInv, Jobs
    <3>2. proc[q].init \in SUBSET Volumes
      BY <3>1, JobFields
    <3>3. Firm(proc[q])'
      BY <3>1, <3>2 DEF Firm
    <3> QED BY <3>1, <3>3 DEF Routed, Firm
  <2> QED BY <2>1, <2>2
<1>4. Counted'
  <2>1. \A q \in Procs \ {p} : MayDraw(proc[q])' => MayDraw(proc[q])
    BY <1>1 DEF MayDraw
  <2>2. CASE fresh' = fresh /\ (MayDraw(m) => MayDraw(proc[p]))
    <3>1. Drawers' \subseteq Drawers
      BY <1>1, <1>2, <2>1, <2>2 DEF Drawers, MayDraw
    <3> QED BY <2>2, <3>1, CountKeeps
  <2>3. CASE fresh' = fresh + 1 /\ MayDraw(proc[p]) /\ ~MayDraw(m)
    <3>1. p \in Drawers /\ Drawers' \subseteq Drawers \ {p}
      BY <1>1, <1>2, <2>1, <2>3 DEF Drawers, MayDraw
    <3> QED BY <2>3, <3>1, CountDraws
  <2> QED BY <2>2, <2>3
<1> QED BY <1>1, <1>3, <1>4 DEF TypeInv

\* The steps that touch neither the volumes nor the new values.
LEMMA TypeKeeps ==
  ASSUME TypeInv, NEW p \in Procs, NEW m \in Job, Become(p, m),
         m.pc \notin Ended => Routed(m) /\ Firm(m),
         UNCHANGED <<setting, ring, stored, file, cipher, mounted, fresh, known, changes>>, kills' \in 0..MaxKills,
         MayDraw(m) => MayDraw(proc[p])
  PROVE  TypeInv'
<1>1. Shared'
  BY DEF TypeInv, Shared
<1>2. m.pc \notin Ended => Firm(m)'
  BY DEF Firm
<1> QED BY <1>1, <1>2, TypeNext

-----------------------------------------------------------------------------
(* What each action makes of the job of its process.                       *)

\* A command of the operator begins.
Begun(p, c, b, m) ==
  /\ proc[p].pc = "idle" /\ Alone(c)
  /\ c \in Menu[setting.backend] /\ b \in Boxes
  /\ c \in Writers /\ setting.backend # "config" /\ "away" \notin Faults => ring = "open"
  /\ c \in {"set", "delete"} => \A v \in Of(b) : cipher[v] = 0
  /\ Like(m, Idle, {"pc", "cmd", "box", "had", "pass", "edit"})
  /\ m.pc = Entry(c) /\ m.cmd = c /\ m.box = b
  /\ m.had = (c = "mount" /\ Resolved(b) # 0)
  /\ m.pass = IF c = "set" THEN fresh ELSE 0
  /\ m.edit = IF c = "settings" THEN "settings" ELSE "none"
  /\ fresh' = IF c = "set" THEN fresh + 1 ELSE fresh
  /\ known' = IF c = "set" THEN known \cup {fresh} ELSE known

LEMMA EntryPc ==
  ASSUME NEW c \in AllCommands
  PROVE  Entry(c) \in PCs /\ Entry(c) \notin Ended \cup {"idle"}
BY DEF Entry, PCs, AllCommands, Ended

LEMMA MenuCommands == setting \in [backend : Backends, provider : Providers] =>
                        \A c \in Menu[setting.backend] : c \in AllCommands
BY CredentialsAssumption

LEMMA BeginEffect ==
  ASSUME TypeInv, NEW p \in Procs, Begin(p)
  PROVE  \E c \in AllCommands, b \in Boxes, m \in Job : Become(p, m) /\ Begun(p, c, b, m)
<1> DEFINE had(c, b) == c = "mount" /\ Resolved(b) # 0
           pass(c) == IF c = "set" THEN fresh ELSE 0
           edit(c) == IF c = "settings" THEN "settings" ELSE "none"
           new(c, b) == [Idle EXCEPT !.pc = Entry(c), !.cmd = c, !.box = b, !.had = had(c, b),
                                     !.pass = pass(c), !.edit = edit(c)]
<1>1. PICK c \in Menu[setting.backend], b \in Boxes :
        /\ proc[p].pc = "idle" /\ Alone(c)
        /\ c \in Writers /\ setting.backend # "config" /\ "away" \notin Faults => ring = "open"
        /\ c \in {"set", "delete"} => \A v \in Of(b) : cipher[v] = 0
        /\ Become(p, new(c, b))
        /\ fresh' = IF c = "set" THEN fresh + 1 ELSE fresh
        /\ known' = IF c = "set" THEN known \cup {fresh} ELSE known
  BY DEF Begin
<1>2. c \in AllCommands /\ Entry(c) \in PCs
  BY MenuCommands, EntryPc DEF TypeInv, Shared
<1>3. had(c, b) \in BOOLEAN
  OBVIOUS
<1>4. pass(c) \in Value /\ edit(c) \in Kinds
  BY <1>1, DrawValue, ValueFacts DEF MayDraw, Kinds
<1> DEFINE h == had(c, b)
           v == pass(c)
           e == edit(c)
           k1 == [Idle EXCEPT !.pc = Entry(c)]
           k2 == [k1 EXCEPT !.cmd = c]
           k3 == [k2 EXCEPT !.box = b]
           k4 == [k3 EXCEPT !.had = h]
           k5 == [k4 EXCEPT !.pass = v]
           k6 == [k5 EXCEPT !.edit = e]
<1>5. new(c, b) = k6
  OBVIOUS
<1>6. h = (c = "mount" /\ Resolved(b) # 0) /\ v = (IF c = "set" THEN fresh ELSE 0)
      /\ e = (IF c = "settings" THEN "settings" ELSE "none")
  OBVIOUS
<1> HIDE DEF new, had, pass, edit, h, v, e
<1>7. h \in BOOLEAN /\ v \in Value /\ e \in Kinds
  BY <1>3, <1>4 DEF h, v, e
<1>11. Idle \in Job
  BY IdleFacts
<1>12. Like(k1, Idle, {"pc"}) /\ k1.pc = Entry(c)
  BY <1>2, <1>11, SetPc
<1> HIDE DEF k1
<1>13. Like(k2, k1, {"cmd"}) /\ k2.cmd = c
  BY <1>2, <1>12, SetCmd DEF Like
<1> HIDE DEF k2
<1>14. Like(k3, k2, {"box"}) /\ k3.box = b
  BY <1>13, SetBox DEF Like
<1> HIDE DEF k3
<1>15. Like(k4, k3, {"had"}) /\ k4.had = h
  BY <1>14, <1>7, SetHad DEF Like
<1> HIDE DEF k4
<1>16. Like(k5, k4, {"pass"}) /\ k5.pass = v
  BY <1>15, <1>7, SetPass DEF Like
<1> HIDE DEF k5
<1>17. Like(k6, k5, {"edit"}) /\ k6.edit = e
  BY <1>16, <1>7, SetEdit DEF Like
<1> HIDE DEF k6
<1>18. Like(k6, Idle, {"pc", "cmd", "box", "had", "pass", "edit"})
  BY <1>12, <1>13, <1>14, <1>15, <1>16, <1>17 DEF Like, Fields
<1>19. /\ k6.pc = Entry(c) /\ k6.cmd = c /\ k6.box = b /\ k6.had = h /\ k6.pass = v /\ k6.edit = e
  BY <1>12, <1>13, <1>14, <1>15, <1>16, <1>17 DEF Like, Fields
<1>20. k6.had = (c = "mount" /\ Resolved(b) # 0)
  BY <1>6, <1>19
<1>21. Begun(p, c, b, k6)
  BY <1>1, <1>6, <1>18, <1>19, <1>20 DEF Begun
<1>22. Become(p, k6) /\ k6 \in Job
  BY <1>1, <1>5, <1>18 DEF Like
<1> QED BY <1>2, <1>21, <1>22

\* encPlanFor, and where the command goes on.
Planned(p, m) ==
  LET j == proc[p]
  IN  /\ j.pc = "plan"
      /\ Like(m, j, {"pc", "init", "mnt", "todo", "pass", "new"})
      /\ m.init = {v \in Of(j.box) : cipher[v] # 0} /\ m.todo = Of(j.box)
      /\ \/ /\ j.cmd \in {"config", "start"} /\ m.pc \in {"ready", "select"}
            /\ m.pass = j.pass /\ UNCHANGED <<fresh, known>>
         \/ /\ j.cmd = "mount" /\ m.pc \in {"done", "select"}
            /\ UNCHANGED <<fresh, known>>
         \/ j.cmd = "unmount" /\ m.pc = "exec" /\ UNCHANGED <<fresh, known>>
         \/ j.cmd = "passwd" /\ m.pc = "done" /\ UNCHANGED <<fresh, known>>
         \/ /\ j.cmd = "passwd" /\ m.pc = "exec" /\ m.new = fresh
            /\ fresh' = fresh + 1 /\ known' = known \cup {fresh}

LEMMA PlanEffect ==
  ASSUME TypeInv, NEW p \in Procs, Plan(p)
  PROVE  \E m \in Job : Become(p, m) /\ Planned(p, m)
<1> DEFINE j    == proc[p]
           here == Of(j.box)
           init == {v \in here : cipher[v] # 0}
           mnt  == here \cap mounted
           k1   == [j EXCEPT !.init = init]
           k2   == [k1 EXCEPT !.mnt = mnt]
           k3   == [k2 EXCEPT !.todo = here]
           seen == [j EXCEPT !.init = init, !.mnt = mnt, !.todo = here]
<1>1. j \in Job /\ here \in SUBSET Volumes /\ init \in SUBSET Volumes /\ mnt \in SUBSET Volumes
  BY DEF TypeInv, Jobs, Of
<1>2. seen = k3
  OBVIOUS
<1>3. \/ /\ j.cmd \in {"config", "start"}
         /\ Become(p, [seen EXCEPT !.pc = IF here \subseteq init \cap mnt THEN "ready" ELSE "select"])
         /\ UNCHANGED <<fresh, known>>
      \/ /\ j.cmd = "mount"
         /\ Become(p, [seen EXCEPT !.pc = IF here \subseteq mnt THEN "done" ELSE "select"])
         /\ UNCHANGED <<fresh, known>>
      \/ j.cmd = "unmount" /\ Become(p, [seen EXCEPT !.pc = "exec"]) /\ UNCHANGED <<fresh, known>>
      \/ j.cmd = "passwd" /\ Become(p, [seen EXCEPT !.pc = "done"]) /\ UNCHANGED <<fresh, known>>
      \/ /\ j.cmd = "passwd"
         /\ \E v \in init : Become(p, [seen EXCEPT !.pc = "exec", !.pass = cipher[v], !.new = fresh])
         /\ fresh' = fresh + 1 /\ known' = known \cup {fresh}
  BY DEF Plan
<1>4. j.pc = "plan"
  BY DEF Plan
<1>5. init = {v \in Of(j.box) : cipher[v] # 0} /\ here = Of(j.box)
  OBVIOUS
<1>6. \A v \in init : cipher[v] \in Value
  BY <1>1 DEF TypeInv, Shared
<1> HIDE DEF here, init, mnt, seen
<1>7. Like(k1, j, {"init"}) /\ k1.init = init
  BY <1>1, SetInit
<1> HIDE DEF k1
<1>8. Like(k2, k1, {"mnt"})
  BY <1>1, <1>7, SetMnt DEF Like
<1> HIDE DEF k2
<1>9. Like(k3, k2, {"todo"}) /\ k3.todo = here
  BY <1>1, <1>8, SetTodo DEF Like
<1> HIDE DEF k3
<1>10. Like(k3, j, {"init", "mnt", "todo"}) /\ k3.init = init /\ k3.todo = here
  BY <1>7, <1>8, <1>9 DEF Like, Fields
<1>11. ASSUME NEW c \in PCs
       PROVE  LET m == [k3 EXCEPT !.pc = c]
              IN  Like(m, j, {"pc", "init", "mnt", "todo"}) /\ m.pc = c /\ m.init = init /\ m.todo = here
  <2> DEFINE m == [k3 EXCEPT !.pc = c]
  <2>1. Like(m, k3, {"pc"}) /\ m.pc = c
    BY <1>10, SetPc DEF Like
  <2> HIDE DEF m
  <2>2. Like(m, j, {"pc", "init", "mnt", "todo"}) /\ m.pc = c /\ m.init = init /\ m.todo = here
    BY <1>10, <2>1 DEF Like, Fields
  <2> QED BY <2>2 DEF m
<1>12. ASSUME NEW c \in PCs, Become(p, [k3 EXCEPT !.pc = c]), UNCHANGED <<fresh, known>>,
              \/ j.cmd \in {"config", "start"} /\ c \in {"ready", "select"}
              \/ j.cmd = "mount" /\ c \in {"done", "select"}
              \/ j.cmd = "unmount" /\ c = "exec"
              \/ j.cmd = "passwd" /\ c = "done"
       PROVE  \E m \in Job : Become(p, m) /\ Planned(p, m)
  <2> DEFINE m == [k3 EXCEPT !.pc = c]
  <2>1. Like(m, j, {"pc", "init", "mnt", "todo"}) /\ m.pc = c /\ m.init = init /\ m.todo = here
    BY <1>11
  <2>2. Become(p, m)
    BY <1>12
  <2> HIDE DEF m
  <2>3. Like(m, j, {"pc", "init", "mnt", "todo", "pass", "new"}) /\ m.pass = j.pass
    BY <2>1 DEF Like, Fields
  <2>4. Planned(p, m)
    BY <1>4, <1>5, <1>12, <2>1, <2>3 DEF Planned
  <2> QED BY <2>1, <2>2, <2>4 DEF Like
<1>13. ASSUME NEW v \in init, j.cmd = "passwd",
              Become(p, [k3 EXCEPT !.pc = "exec", !.pass = cipher[v], !.new = fresh]),
              fresh' = fresh + 1, known' = known \cup {fresh}
       PROVE  \E m \in Job : Become(p, m) /\ Planned(p, m)
  <2> DEFINE m1 == [k3 EXCEPT !.pc = "exec"]
             m2 == [m1 EXCEPT !.pass = cipher[v]]
             m == [m2 EXCEPT !.new = fresh]
  <2>1. Become(p, m)
    BY <1>13
  <2>2. Like(m1, j, {"pc", "init", "mnt", "todo"}) /\ m1.pc = "exec" /\ m1.init = init /\ m1.todo = here
    BY <1>11 DEF PCs
  <2> HIDE DEF m1
  <2>3. Like(m2, m1, {"pass"})
    BY <1>6, <2>2, SetPass DEF Like
  <2> HIDE DEF m2
  <2>4. fresh \in Value
    BY <1>4, <1>13, DrawValue DEF MayDraw
  <2>5. Like(m, m2, {"new"}) /\ m.new = fresh
    BY <2>3, <2>4, SetNew DEF Like
  <2> HIDE DEF m
  <2>6. /\ Like(m, j, {"pc", "init", "mnt", "todo", "pass", "new"}) /\ m.pc = "exec" /\ m.init = init
        /\ m.todo = here
    BY <2>2, <2>3, <2>5 DEF Like, Fields
  <2>7. Planned(p, m)
    BY <1>4, <1>5, <1>13, <2>5, <2>6 DEF Planned
  <2> QED BY <2>1, <2>6, <2>7 DEF Like
<1> HIDE DEF j
<1> QED BY <1>2, <1>3, <1>12, <1>13 DEF PCs

\* What `charly config` has set up is unmounted, or not.
LEMMA ReadyEffect ==
  ASSUME TypeInv, NEW p \in Procs, Ready(p)
  PROVE  \E m \in Job :
           /\ Become(p, m) /\ proc[p].pc = "ready" /\ Like(m, proc[p], {"pc", "cmd"})
           /\ \/ m.pc = "done" /\ m.cmd = proc[p].cmd
              \/ m.pc = "plan" /\ m.cmd = "unmount"
<1> DEFINE j == proc[p]
           k == [j EXCEPT !.pc = "done"]
           l == [j EXCEPT !.pc = "plan"]
           n == [l EXCEPT !.cmd = "unmount"]
<1>1. j \in Job
  BY DEF TypeInv, Jobs
<1>2. j.pc = "ready" /\ (Become(p, k) \/ Become(p, n))
  BY DEF Ready
<1> HIDE DEF j
<1>3. Like(k, j, {"pc"}) /\ k.pc = "done" /\ Like(l, j, {"pc"}) /\ l.pc = "plan"
  BY <1>1, SetPc DEF PCs
<1> HIDE DEF k, l
<1>4. Like(n, l, {"cmd"}) /\ n.cmd = "unmount"
  BY <1>3, SetCmd DEF Like, AllCommands
<1> HIDE DEF n
<1>5. /\ k \in Job /\ n \in Job /\ Like(k, j, {"pc", "cmd"}) /\ Like(n, j, {"pc", "cmd"})
      /\ k.cmd = j.cmd /\ n.pc = "plan"
  BY <1>3, <1>4 DEF Like, Fields
<1> QED BY <1>2, <1>3, <1>4, <1>5 DEF j

\* DefaultCredentialStore, by the configured backend and the probe.
Selects(p, m) ==
  LET j == proc[p]
  IN  /\ j.pc = "select" /\ Like(m, j, {"pc", "store", "dead", "err"})
      /\ m.pc = IF j.cmd \in {"set", "delete"} THEN "put" ELSE "get"
      /\ \/ setting.backend = "config" /\ m.store = "config" /\ m.dead = j.dead
         \/ setting.backend # "config" /\ Probe = "ok" /\ m.store = "keyring" /\ m.dead = j.dead
         \/ setting.backend # "config" /\ Probe # "ok" /\ m.store = "keyring" /\ ring = "locked"
         \/ setting.backend # "config" /\ Probe # "ok" /\ m.store = "config" /\ m.err = TRUE

LEMMA SelectEffect ==
  ASSUME TypeInv, NEW p \in Procs, Select(p)
  PROVE  \E m \in Job : Become(p, m) /\ Selects(p, m)
<1> DEFINE j == proc[p]
           c == IF j.cmd \in {"set", "delete"} THEN "put" ELSE "get"
           s == Selected(j)
           k == [s EXCEPT !.pc = c]
           a1 == [j EXCEPT !.store = "config"]
           a2 == [j EXCEPT !.store = "keyring"]
           a3 == [a2 EXCEPT !.dead = TRUE]
           a4 == [a1 EXCEPT !.err = TRUE]
<1>1. j \in Job /\ j.pc = "select" /\ Become(p, k)
  BY DEF TypeInv, Jobs, Select
<1>2. \/ setting.backend = "config" /\ s = a1
      \/ setting.backend # "config" /\ Probe = "ok" /\ s = a2
      \/ setting.backend # "config" /\ Probe = "timeout" /\ s = a3
      \/ setting.backend # "config" /\ Probe # "ok" /\ s = a4
  BY DEF Selected
<1>3. c \in PCs /\ (c = IF j.cmd \in {"set", "delete"} THEN "put" ELSE "get")
  BY DEF PCs
<1> HIDE DEF j, c, s
<1>4. Like(a1, j, {"store"}) /\ a1.store = "config" /\ Like(a2, j, {"store"}) /\ a2.store = "keyring"
  BY <1>1, SetStore DEF Stores
<1> HIDE DEF a1, a2
<1>5. Like(a3, a2, {"dead"})
  BY <1>4, SetDead DEF Like
<1>6. Like(a4, a1, {"err"}) /\ a4.err = TRUE
  BY <1>4, SetErr DEF Like
<1> HIDE DEF a3, a4
<1>7. /\ Like(a1, j, {"store", "dead", "err"}) /\ Like(a2, j, {"store", "dead", "err"})
      /\ Like(a3, j, {"store", "dead", "err"}) /\ Like(a4, j, {"store", "dead", "err"})
      /\ a1.dead = j.dead /\ a2.dead = j.dead /\ a3.store = "keyring" /\ a4.store = "config"
  BY <1>4, <1>5, <1>6 DEF Like, Fields
<1>8. Like(s, j, {"store", "dead", "err"})
  BY <1>2, <1>7
<1>9. \/ setting.backend = "config" /\ s.store = "config" /\ s.dead = j.dead
      \/ setting.backend # "config" /\ Probe = "ok" /\ s.store = "keyring" /\ s.dead = j.dead
      \/ setting.backend # "config" /\ Probe = "timeout" /\ s.store = "keyring"
      \/ setting.backend # "config" /\ Probe # "ok" /\ s.store = "config" /\ s.err = TRUE
  BY <1>2, <1>4, <1>6, <1>7
<1>10. Probe = "timeout" => ring = "locked" /\ Probe # "ok"
  BY DEF Probe, TypeInv, Shared, Rings
<1>11. Like(k, s, {"pc"}) /\ k.pc = c
  BY <1>3, <1>8, SetPc DEF Like
<1> HIDE DEF k
<1>12. /\ Like(k, j, {"pc", "store", "dead", "err"})
       /\ k.store = s.store /\ k.dead = s.dead /\ k.err = s.err
  BY <1>8, <1>11 DEF Like, Fields
<1>13. Selects(p, k)
  BY <1>1, <1>3, <1>9, <1>10, <1>11, <1>12 DEF Selects, j
<1> QED BY <1>1, <1>12, <1>13 DEF Like

\* No value: what becomes of the command.
Misses(p, source, m) ==
  LET j == proc[p]
  IN  /\ Like(m, j, {"pc", "pass"})
      /\ \/ j.cmd = "mount" /\ m.pc = Unmountable(j, source) /\ m.pass = j.pass /\ fresh' = fresh
         \/ j.cmd = "start" /\ m.pc = "prompt" /\ m.pass = j.pass /\ fresh' = fresh
         \/ j.cmd \in {"config", "provision"} /\ m.pc = "put" /\ m.pass = fresh /\ fresh' = fresh + 1

Finds(p, val, m) ==
  LET j == proc[p]
  IN  /\ Like(m, j, {"pc", "pass"}) /\ m.pass = val /\ val # 0
      /\ m.pc = IF j.cmd = "provision" THEN "done" ELSE "exec"
      /\ fresh' = fresh

LEMMA UnmountablePc ==
  ASSUME NEW j \in Job, NEW source
  PROVE  /\ Unmountable(j, source) \in {"unstored", "await", "retry", "done"}
         /\ Unmountable(j, source) = "await" => j.mode # "retry"
         /\ Unmountable(j, source) = "retry" => j.mode = "first" \/ (j.mode = "retry" /\ j.tries < MaxTries)
         /\ Unmountable(j, source) = "unstored" => setting.backend = "config" \/ source = "default"
<1>1. j.mode \in {"first", "await", "retry"}
  BY JobFields
<1>2. CASE setting.backend = "config"
  BY <1>2 DEF Unmountable
<1>3. CASE setting.backend # "config" /\ j.mode = "first"
  BY <1>3 DEF Unmountable
<1>4. CASE setting.backend # "config" /\ j.mode = "await"
  BY <1>4 DEF Unmountable
<1>5. CASE setting.backend # "config" /\ j.mode = "retry"
  BY <1>5 DEF Unmountable
<1> QED BY <1>1, <1>2, <1>3, <1>4, <1>5

LEMMA MissingEffect ==
  ASSUME TypeInv, NEW p \in Procs, NEW source, proc[p].pc \in {"get", "fallback"}, Missing(p, proc[p], source)
  PROVE  \E m \in Job : Become(p, m) /\ Misses(p, source, m)
<1> DEFINE j == proc[p]
           u == Unmountable(j, source)
           k1 == [j EXCEPT !.pc = u]
           k2 == [j EXCEPT !.pc = "prompt"]
           k3 == [j EXCEPT !.pc = "put"]
           k4 == [k3 EXCEPT !.pass = fresh]
<1>1. j \in Job
  BY DEF TypeInv, Jobs
<1>2. u \in PCs /\ u = Unmountable(proc[p], source)
  BY <1>1, UnmountablePc DEF PCs
<1>3. \/ j.cmd = "mount" /\ Become(p, k1) /\ fresh' = fresh
      \/ j.cmd = "start" /\ Become(p, k2) /\ fresh' = fresh
      \/ j.cmd \in {"config", "provision"} /\ Become(p, k4) /\ fresh' = fresh + 1
  BY DEF Missing
<1>4. j.cmd \in {"config", "provision"} => fresh \in Value
  BY DrawValue DEF MayDraw
<1> HIDE DEF u
<1>5. Like(k1, j, {"pc"}) /\ k1.pc = u /\ Like(k2, j, {"pc"}) /\ k2.pc = "prompt"
      /\ Like(k3, j, {"pc"}) /\ k3.pc = "put"
  <2>1. Like(k1, j, {"pc"}) /\ k1.pc = u
    BY <1>1, <1>2, SetPc
  <2>2. Like(k2, j, {"pc"}) /\ k2.pc = "prompt"
    BY <1>1, SetPc DEF PCs
  <2>3. Like(k3, j, {"pc"}) /\ k3.pc = "put"
    BY <1>1, SetPc DEF PCs
  <2> QED BY <2>1, <2>2, <2>3
<1> HIDE DEF k1, k2, k3
<1>6. /\ Like(k1, j, {"pc", "pass"}) /\ k1.pass = j.pass /\ Like(k2, j, {"pc", "pass"}) /\ k2.pass = j.pass
      /\ k1 \in Job /\ k2 \in Job
  BY <1>5 DEF Like, Fields
<1>7. CASE j.cmd = "mount" /\ Become(p, k1) /\ fresh' = fresh
  BY <1>2, <1>5, <1>6, <1>7 DEF Misses
<1>8. CASE j.cmd = "start" /\ Become(p, k2) /\ fresh' = fresh
  BY <1>5, <1>6, <1>8 DEF Misses
<1>9. CASE j.cmd \in {"config", "provision"} /\ Become(p, k4) /\ fresh' = fresh + 1
  <2>1. Like(k4, k3, {"pass"}) /\ k4.pass = fresh
    BY <1>4, <1>5, <1>9, SetPass DEF Like
  <2>2. Become(p, k4)
    BY <1>9
  <2> HIDE DEF k4
  <2>3. Like(k4, j, {"pc", "pass"}) /\ k4.pc = "put" /\ k4 \in Job
    BY <1>5, <2>1 DEF Like, Fields
  <2> QED BY <1>9, <2>1, <2>2, <2>3 DEF Misses
<1> QED BY <1>3, <1>7, <1>8, <1>9

LEMMA AnswerEffect ==
  ASSUME TypeInv, NEW p \in Procs, NEW val \in Value, NEW source, proc[p].pc \in {"get", "fallback"},
         Answer(p, proc[p], val, source)
  PROVE  \E m \in Job : Become(p, m) /\ (Finds(p, val, m) \/ (val = 0 /\ Misses(p, source, m)))
<1>1. CASE val = 0
  BY <1>1, MissingEffect DEF Answer
<1>2. CASE val # 0
  <2> DEFINE j == proc[p]
             c == IF j.cmd = "provision" THEN "done" ELSE "exec"
             k == [j EXCEPT !.pc = c]
             m == [k EXCEPT !.pass = val]
  <2>1. Become(p, m) /\ fresh' = fresh /\ j \in Job /\ c \in PCs
    BY <1>2 DEF Answer, Found, TypeInv, Jobs, PCs
  <2>2. c = IF proc[p].cmd = "provision" THEN "done" ELSE "exec"
    OBVIOUS
  <2> HIDE DEF c
  <2>3. Like(k, j, {"pc"}) /\ k.pc = c
    BY <2>1, SetPc
  <2> HIDE DEF k
  <2>4. Like(m, k, {"pass"}) /\ m.pass = val
    BY <2>3, SetPass DEF Like
  <2> HIDE DEF m
  <2>5. Like(m, j, {"pc", "pass"}) /\ m.pc = c /\ m \in Job
    BY <2>3, <2>4 DEF Like, Fields
  <2> QED BY <1>2, <2>1, <2>2, <2>4, <2>5 DEF Finds
<1> QED BY <1>1, <1>2

\* The lookup in the active store.
Falls(p, m) ==
  LET j == proc[p]
  IN  /\ j.store = "keyring" /\ m.pc = "fallback" /\ fresh' = fresh
      /\ Like(m, j, {"pc", "source", "dead"}) /\ m.dead = (m.source = "locked")
      /\ \/ m.source = "locked" /\ (j.dead \/ ring = "locked")
         \/ m.source = "default" /\ ring = "absent"
         \/ m.source = "default" /\ ring = "open" /\ stored[j.box] = 0

Gets(p, m) ==
  LET j == proc[p]
  IN  /\ j.pc = "get"
      /\ \/ j.store = "config" /\ Finds(p, file.plain[j.box], m)
         \/ /\ j.store = "config" /\ file.plain[j.box] = 0
            /\ Misses(p, IF j.err THEN "unavailable" ELSE "default", m)
         \/ j.store = "keyring" /\ ring = "open" /\ Finds(p, stored[j.box], m)
         \/ Falls(p, m)

LEMMA HeldValues ==
  ASSUME TypeInv, NEW b \in Boxes
  PROVE  stored[b] \in Value /\ file.plain[b] \in Value /\ file.plain \in [Boxes -> Value]
BY DEF TypeInv, Shared, File

LEMMA FallsEffect ==
  ASSUME NEW p \in Procs, proc[p] \in Job, NEW source \in {"locked", "default"}
  PROVE  LET m == [proc[p] EXCEPT !.pc = "fallback", !.source = source, !.dead = source = "locked"]
         IN  /\ Like(m, proc[p], {"pc", "source", "dead"}) /\ m.pc = "fallback" /\ m.source = source
             /\ m.dead = (source = "locked")
<1> DEFINE j == proc[p]
           d == source = "locked"
           k == [j EXCEPT !.pc = "fallback"]
           l == [k EXCEPT !.source = source]
           m == [l EXCEPT !.dead = d]
<1>1. d \in BOOLEAN /\ source \in Sources /\ "fallback" \in PCs
  BY DEF Sources, PCs
<1> HIDE DEF d
<1>2. Like(k, j, {"pc"}) /\ k.pc = "fallback" /\ k \in Job
  BY <1>1, SetPc DEF Like
<1> HIDE DEF k
<1>3. Like(l, k, {"source"}) /\ l.source = source
  BY <1>1, <1>2, SetSource
<1> HIDE DEF l
<1>4. Like(m, l, {"dead"}) /\ m.dead = d
  BY <1>1, <1>3, SetDead DEF Like
<1> HIDE DEF m
<1>5. Like(m, j, {"pc", "source", "dead"}) /\ m.pc = "fallback" /\ m.source = source
  BY <1>2, <1>3, <1>4 DEF Like, Fields
<1> QED BY <1>4, <1>5 DEF d, m, l, k

LEMMA GetEffect ==
  ASSUME TypeInv, NEW p \in Procs, Get(p)
  PROVE  \E m \in Job : Become(p, m) /\ Gets(p, m)
<1> DEFINE j == proc[p]
           falls(source) == [j EXCEPT !.pc = "fallback", !.source = source, !.dead = source = "locked"]
           src == IF j.err THEN "unavailable" ELSE "default"
<1>1. j \in Job /\ j.pc = "get" /\ j.box \in Boxes /\ j.store \in {"keyring", "config"} /\ j.dead \in BOOLEAN
      /\ ring \in Rings
  BY JobFields DEF TypeInv, Jobs, Shared, Get, Routed, Stores
<1>2. stored[j.box] \in Value /\ file.plain[j.box] \in Value
  BY <1>1, HeldValues
<1>3. \/ j.store = "config" /\ Answer(p, j, file.plain[j.box], src)
      \/ j.store = "keyring" /\ (j.dead \/ ring = "locked") /\ Become(p, falls("locked")) /\ fresh' = fresh
      \/ j.store = "keyring" /\ ring = "absent" /\ Become(p, falls("default")) /\ fresh' = fresh
      \/ j.store = "keyring" /\ ring = "open" /\ stored[j.box] # 0 /\ Answer(p, j, stored[j.box], "keyring")
      \/ /\ j.store = "keyring" /\ ring = "open" /\ stored[j.box] = 0
         /\ Become(p, falls("default")) /\ fresh' = fresh
  BY <1>1 DEF Get, Rings
<1> HIDE DEF src
<1>4. CASE j.store = "config" /\ Answer(p, j, file.plain[j.box], src)
  BY <1>1, <1>2, <1>4, AnswerEffect DEF Gets, src
<1>5. CASE j.store = "keyring" /\ ring = "open" /\ stored[j.box] # 0 /\ Answer(p, j, stored[j.box], "keyring")
  BY <1>1, <1>2, <1>5, AnswerEffect DEF Gets
<1>6. ASSUME NEW source \in {"locked", "default"}, Become(p, falls(source)), fresh' = fresh, j.store = "keyring",
             \/ source = "locked" /\ (j.dead \/ ring = "locked")
             \/ source = "default" /\ ring = "absent"
             \/ source = "default" /\ ring = "open" /\ stored[j.box] = 0
      PROVE  \E m \in Job : Become(p, m) /\ Gets(p, m)
  <2> DEFINE m == falls(source)
  <2>1. Like(m, j, {"pc", "source", "dead"}) /\ m.pc = "fallback" /\ m.source = source
        /\ m.dead = (source = "locked")
    BY <1>1, FallsEffect
  <2>2. Become(p, m)
    BY <1>6
  <2> HIDE DEF m
  <2>3. Falls(p, m)
    BY <1>6, <2>1 DEF Falls
  <2> QED BY <1>1, <2>1, <2>2, <2>3 DEF Gets, Like
<1> HIDE DEF falls
<1> QED BY <1>3, <1>4, <1>5, <1>6

\* ... and in the config file behind it.
FallsBack(p, m) ==
  LET j == proc[p]
  IN  /\ j.pc = "fallback"
      /\ \/ Finds(p, file.plain[j.box], m)
         \/ file.plain[j.box] = 0 /\ Misses(p, j.source, m)

LEMMA FallbackEffect ==
  ASSUME TypeInv, NEW p \in Procs, Fallback(p)
  PROVE  \E m \in Job : Become(p, m) /\ FallsBack(p, m)
<1>1. proc[p] \in Job /\ proc[p].pc = "fallback" /\ proc[p].box \in Boxes
  BY JobFields DEF TypeInv, Jobs, Fallback
<1>2. file.plain[proc[p].box] \in Value
  BY <1>1, HeldValues
<1> QED BY <1>1, <1>2, AnswerEffect DEF Fallback, FallsBack

\* awaitUnlock, retryUnavailable.
Resets(p, m) ==
  LET j == proc[p]
  IN  /\ j.pc \in {"await", "retry"} /\ m.pc = "select" /\ m.mode = j.pc
      /\ Like(m, j, {"pc", "mode", "store", "dead", "err", "tries"})
      /\ m.tries = IF j.pc = "retry" THEN j.tries + 1 ELSE j.tries

LEMMA AgainEffect ==
  ASSUME TypeInv, NEW p \in Procs, Again(p)
  PROVE  \E m \in Job : Become(p, m) /\ Resets(p, m)
<1> DEFINE j == proc[p]
           t == IF j.pc = "retry" THEN j.tries + 1 ELSE j.tries
           k1 == [j EXCEPT !.pc = "select"]
           k2 == [k1 EXCEPT !.mode = j.pc]
           k3 == [k2 EXCEPT !.store = "none"]
           k4 == [k3 EXCEPT !.dead = FALSE]
           k5 == [k4 EXCEPT !.err = FALSE]
           k6 == [k5 EXCEPT !.tries = t]
<1>1. j \in Job /\ j.pc \in {"await", "retry"}
  BY DEF TypeInv, Jobs, Again
<1>2. j.tries \in 0..MaxTries /\ (j.pc = "retry" => j.tries < MaxTries)
  BY <1>1, JobFields DEF TypeInv, Firm
<1>3. t \in 0..MaxTries
  BY <1>2, CredentialsAssumption
<1>4. Become(p, [j EXCEPT !.pc = "select", !.mode = j.pc, !.store = "none", !.dead = FALSE, !.err = FALSE,
                          !.tries = IF j.pc = "retry" THEN @ + 1 ELSE @])
  BY DEF Again
<1>5. [j EXCEPT !.pc = "select", !.mode = j.pc, !.store = "none", !.dead = FALSE, !.err = FALSE,
                !.tries = IF j.pc = "retry" THEN @ + 1 ELSE @] = k6
  BY <1>1 DEF Job
<1>6. t = IF j.pc = "retry" THEN j.tries + 1 ELSE j.tries
  OBVIOUS
<1>7. "select" \in PCs /\ "none" \in Stores /\ FALSE \in BOOLEAN /\ j.pc \in Modes
  BY <1>1 DEF PCs, Stores, Modes
<1> HIDE DEF t, j
<1>11. Like(k1, j, {"pc"}) /\ k1.pc = "select" /\ k1 \in Job
  BY <1>1, <1>7, SetPc DEF Like
<1> HIDE DEF k1
<1>12. Like(k2, k1, {"mode"}) /\ k2.mode = j.pc /\ k2 \in Job
  BY <1>7, <1>11, SetMode DEF Like
<1> HIDE DEF k2
<1>13. Like(k3, k2, {"store"}) /\ k3 \in Job
  BY <1>7, <1>12, SetStore DEF Like
<1> HIDE DEF k3
<1>14. Like(k4, k3, {"dead"}) /\ k4 \in Job
  BY <1>7, <1>13, SetDead DEF Like
<1> HIDE DEF k4
<1>15. Like(k5, k4, {"err"}) /\ k5 \in Job
  BY <1>7, <1>14, SetErr DEF Like
<1> HIDE DEF k5
<1>16. Like(k6, k5, {"tries"}) /\ k6.tries = t /\ k6 \in Job
  BY <1>3, <1>15, SetTries DEF Like
<1> HIDE DEF k6
<1>17. /\ Like(k6, j, {"pc", "mode", "store", "dead", "err", "tries"})
       /\ k6.pc = "select" /\ k6.mode = j.pc
  BY <1>11, <1>12, <1>13, <1>14, <1>15, <1>16 DEF Like, Fields
<1> QED BY <1>1, <1>4, <1>5, <1>6, <1>16, <1>17 DEF Resets, j

\* The operator types a passphrase.
Types(p, m) ==
  LET j == proc[p]
  IN  /\ j.pc = "prompt" /\ Like(m, j, {"pc", "pass"})
      /\ \/ m.pc = "done" /\ UNCHANGED <<fresh, known>>
         \/ m.pc = "exec" /\ m.pass # 0 /\ known' = known \cup {m.pass} /\ fresh' = fresh
         \/ m.pc = "exec" /\ m.pass = fresh /\ known' = known \cup {fresh} /\ fresh' = fresh + 1

LEMMA PromptEffect ==
  ASSUME TypeInv, NEW p \in Procs, Prompt(p)
  PROVE  \E m \in Job : Become(p, m) /\ Types(p, m)
<1> DEFINE j == proc[p]
           k == [j EXCEPT !.pc = "done"]
           l == [j EXCEPT !.pc = "exec"]
           n(v) == [l EXCEPT !.pass = v]
<1>1. j \in Job /\ j.pc = "prompt" /\ j.init \subseteq Volumes /\ j.cmd = "start" /\ \A v \in j.init : cipher[v] # 0
  BY JobFields DEF TypeInv, Jobs, Prompt, Firm, Routed
<1>2. fresh \in Value
  BY <1>1, DrawValue DEF MayDraw
<1>3. \A v \in j.init : cipher[v] \in Value /\ cipher[v] # 0
  BY <1>1 DEF TypeInv, Shared
<1>4. \/ Become(p, k) /\ UNCHANGED <<fresh, known>>
      \/ \E v \in j.init : Become(p, n(cipher[v])) /\ known' = known \cup {cipher[v]} /\ fresh' = fresh
      \/ Become(p, n(fresh)) /\ known' = known \cup {fresh} /\ fresh' = fresh + 1
  BY DEF Prompt
<1>5. "done" \in PCs /\ "exec" \in PCs
  BY DEF PCs
<1> HIDE DEF j
<1>7. Like(k, j, {"pc"}) /\ k.pc = "done" /\ Like(l, j, {"pc"}) /\ l.pc = "exec" /\ l \in Job
  BY <1>1, <1>5, SetPc DEF Like
<1> HIDE DEF k, l
<1>8. ASSUME NEW v \in Value
      PROVE  Like(n(v), j, {"pc", "pass"}) /\ n(v).pc = "exec" /\ n(v).pass = v
  <2> DEFINE m == [l EXCEPT !.pass = v]
  <2>1. Like(m, l, {"pass"}) /\ m.pass = v
    BY <1>7, SetPass
  <2> HIDE DEF m
  <2>2. Like(m, j, {"pc", "pass"}) /\ m.pc = "exec"
    BY <1>7, <2>1 DEF Like, Fields
  <2> QED BY <2>1, <2>2 DEF m
<1> HIDE DEF n
<1>9. CASE Become(p, k) /\ UNCHANGED <<fresh, known>>
  <2>1. Like(k, j, {"pc", "pass"}) /\ k \in Job
    BY <1>7 DEF Like, Fields
  <2> QED BY <1>1, <1>7, <1>9, <2>1 DEF Types, j
<1>10. ASSUME NEW v \in j.init, Become(p, n(cipher[v])), known' = known \cup {cipher[v]}, fresh' = fresh
       PROVE  \E m \in Job : Become(p, m) /\ Types(p, m)
  <2>1. Like(n(cipher[v]), j, {"pc", "pass"}) /\ n(cipher[v]).pc = "exec" /\ n(cipher[v]).pass = cipher[v]
    BY <1>3, <1>8
  <2>2. cipher[v] \in Value /\ cipher[v] # 0
    BY <1>3
  <2> QED BY <1>1, <1>10, <2>1, <2>2 DEF Types, Like, j
<1>11. CASE Become(p, n(fresh)) /\ known' = known \cup {fresh} /\ fresh' = fresh + 1
  BY <1>1, <1>2, <1>8, <1>11 DEF Types, Like, j
<1> QED BY <1>4, <1>9, <1>10, <1>11

\* Set and Delete in the active store.
Puts(p, m) ==
  LET j == proc[p]
      val == IF j.cmd = "delete" THEN 0 ELSE j.pass
  IN  /\ j.pc = "put"
      /\ \/ /\ j.store = "config" /\ m.pc = "load" /\ m.edit = "plain" /\ m.pass = val
            /\ Like(m, j, {"pc", "edit", "pass"}) /\ stored' = stored
         \/ /\ j.store = "keyring" /\ ~j.dead /\ ring = "open" /\ m.pc = "load" /\ m.edit = "index"
            /\ Like(m, j, {"pc", "edit"}) /\ stored' = [stored EXCEPT ![j.box] = val]
         \/ /\ j.store = "keyring" /\ (j.dead \/ ring # "open" \/ "setfails" \in Faults) /\ m.pc = After(j)
            /\ Like(m, j, {"pc", "dead"}) /\ (m.dead = TRUE => j.dead = TRUE \/ ring = "locked")
            /\ stored' = stored

LEMMA AfterPc ==
  ASSUME NEW j
  PROVE  /\ After(j) \in PCs
         /\ \/ After(j) = "exec" /\ j.cmd = "config"
            \/ After(j) = "next" /\ j.cmd = "migrate"
            \/ After(j) = "done" /\ j.cmd \notin {"config", "migrate"}
BY DEF After, PCs

LEMMA PutEffect ==
  ASSUME TypeInv, NEW p \in Procs, Put(p)
  PROVE  \E m \in Job : Become(p, m) /\ Puts(p, m)
<1> DEFINE j == proc[p]
           val == IF j.cmd = "delete" THEN 0 ELSE j.pass
           d == j.dead \/ ring = "locked"
           a == After(j)
           k1 == [j EXCEPT !.pc = "load"]
           k2 == [k1 EXCEPT !.edit = "plain"]
           k3 == [k2 EXCEPT !.pass = val]
           k4 == [k1 EXCEPT !.edit = "index"]
           k5 == [j EXCEPT !.pc = a]
           k6 == [k5 EXCEPT !.dead = d]
<1>1. j \in Job /\ j.pc = "put"
  BY DEF TypeInv, Jobs, Put
<1>2. val \in Value /\ d \in BOOLEAN /\ a \in PCs
  BY <1>1, JobFields, ValueFacts, AfterPc
<1>3. \/ j.store = "config" /\ Become(p, k3) /\ stored' = stored
      \/ /\ j.store = "keyring" /\ ~j.dead /\ ring = "open" /\ Become(p, k4)
         /\ stored' = [stored EXCEPT ![j.box] = val]
      \/ /\ j.store = "keyring" /\ (j.dead \/ ring # "open" \/ "setfails" \in Faults)
         /\ Become(p, k6) /\ stored' = stored
  BY DEF Put
<1>4. /\ val = (IF j.cmd = "delete" THEN 0 ELSE j.pass) /\ a = After(j)
      /\ (d => j.dead \/ ring = "locked") /\ (j.dead => j.dead = TRUE)
  BY <1>1, JobFields
<1>5. "load" \in PCs /\ "plain" \in Kinds /\ "index" \in Kinds
  BY DEF PCs, Kinds
<1> HIDE DEF j, val, d, a
<1>11. Like(k1, j, {"pc"}) /\ k1.pc = "load" /\ k1 \in Job
  BY <1>1, <1>5, SetPc DEF Like
<1>12. Like(k5, j, {"pc"}) /\ k5.pc = a /\ k5 \in Job
  BY <1>1, <1>2, SetPc DEF Like
<1> HIDE DEF k1, k5
<1>13. Like(k2, k1, {"edit"}) /\ k2.edit = "plain" /\ k2 \in Job
  BY <1>5, <1>11, SetEdit DEF Like
<1>14. Like(k4, k1, {"edit"}) /\ k4.edit = "index" /\ k4 \in Job
  BY <1>5, <1>11, SetEdit DEF Like
<1>15. Like(k6, k5, {"dead"}) /\ k6.dead = d /\ k6 \in Job
  BY <1>2, <1>12, SetDead DEF Like
<1> HIDE DEF k2, k4, k6
<1>16. Like(k3, k2, {"pass"}) /\ k3.pass = val /\ k3 \in Job
  BY <1>2, <1>13, SetPass DEF Like
<1> HIDE DEF k3
<1>17. Like(k3, j, {"pc", "edit", "pass"}) /\ k3.pc = "load" /\ k3.edit = "plain"
  BY <1>11, <1>13, <1>16 DEF Like, Fields
<1>18. Like(k4, j, {"pc", "edit"}) /\ k4.pc = "load"
  BY <1>11, <1>14 DEF Like, Fields
<1>19. Like(k6, j, {"pc", "dead"}) /\ k6.pc = a
  BY <1>12, <1>15 DEF Like, Fields
<1>20. k6.dead = TRUE => j.dead = TRUE \/ ring = "locked"
  BY <1>4, <1>15
<1>21. CASE j.store = "config" /\ Become(p, k3) /\ stored' = stored
  BY <1>1, <1>4, <1>16, <1>17, <1>21 DEF Puts, j
<1>22. CASE /\ j.store = "keyring" /\ ~j.dead /\ ring = "open" /\ Become(p, k4)
            /\ stored' = [stored EXCEPT ![j.box] = val]
  BY <1>1, <1>4, <1>14, <1>18, <1>22 DEF Puts, j
<1>23. CASE /\ j.store = "keyring" /\ (j.dead \/ ring # "open" \/ "setfails" \in Faults)
            /\ Become(p, k6) /\ stored' = stored
  BY <1>1, <1>4, <1>15, <1>19, <1>20, <1>23 DEF Puts, j
<1> QED BY <1>3, <1>21, <1>22, <1>23

LEMMA LoadEffect ==
  ASSUME TypeInv, NEW p \in Procs, Load(p)
  PROVE  \E m \in Job : /\ Become(p, m) /\ proc[p].pc = "load" /\ Like(m, proc[p], {"pc", "cfg"})
                        /\ m.pc = "save" /\ m.cfg = file
<1> DEFINE j == proc[p]
           k == [j EXCEPT !.pc = "save"]
           m == [k EXCEPT !.cfg = file]
<1>1. j \in Job /\ j.pc = "load" /\ file \in File /\ "save" \in PCs /\ Become(p, m)
  BY DEF TypeInv, Jobs, Load, Shared, PCs
<1> HIDE DEF j
<1>2. Like(k, j, {"pc"}) /\ k.pc = "save" /\ k \in Job
  BY <1>1, SetPc DEF Like
<1> HIDE DEF k
<1>3. Like(m, k, {"cfg"}) /\ m.cfg = file /\ m \in Job
  BY <1>1, <1>2, SetCfg DEF Like
<1> HIDE DEF m
<1>4. Like(m, j, {"pc", "cfg"}) /\ m.pc = "save"
  BY <1>2, <1>3 DEF Like, Fields
<1> QED BY <1>1, <1>3, <1>4 DEF j

\* SaveRuntimeConfig.
Saves(p, m) ==
  LET j == proc[p]
  IN  /\ j.pc = "save" /\ file' = Edited(j) /\ Like(m, j, {"pc", "moved", "cfg", "edit"}) /\ m.edit = "none"
      /\ m.pc = IF j.edit = "clear" THEN "done" ELSE After(j)

LEMMA SaveEffect ==
  ASSUME TypeInv, NEW p \in Procs, Save(p)
  PROVE  \E m \in Job : Become(p, m) /\ Saves(p, m)
<1> DEFINE j == proc[p]
           c == IF j.edit = "clear" THEN "done" ELSE After(j)
           k1 == [j EXCEPT !.pc = c]
           k2 == [k1 EXCEPT !.moved = TRUE]
           k3 == [k2 EXCEPT !.cfg = Empty]
           k4 == [k3 EXCEPT !.edit = "none"]
<1>1. j \in Job /\ j.pc = "save" /\ file' = Edited(j) /\ Become(p, k4)
  BY DEF TypeInv, Jobs, Save
<1>2. c \in PCs /\ "none" \in Kinds /\ Empty \in File
  BY AfterPc, ValueFacts DEF PCs, Kinds
<1>3. c = IF j.edit = "clear" THEN "done" ELSE After(j)
  OBVIOUS
<1> HIDE DEF j, c
<1>4. Like(k1, j, {"pc"}) /\ k1.pc = c /\ k1 \in Job
  BY <1>1, <1>2, SetPc DEF Like
<1> HIDE DEF k1
<1>5. Like(k2, k1, {"moved"}) /\ k2 \in Job
  BY <1>4, SetMoved DEF Like
<1> HIDE DEF k2
<1>6. Like(k3, k2, {"cfg"}) /\ k3 \in Job
  BY <1>2, <1>5, SetCfg DEF Like
<1> HIDE DEF k3
<1>7. Like(k4, k3, {"edit"}) /\ k4.edit = "none" /\ k4 \in Job
  BY <1>2, <1>6, SetEdit DEF Like
<1> HIDE DEF k4
<1>8. Like(k4, j, {"pc", "moved", "cfg", "edit"}) /\ k4.pc = c
  BY <1>4, <1>5, <1>6, <1>7 DEF Like, Fields
<1> QED BY <1>1, <1>3, <1>7, <1>8 DEF Saves, j

\* ConfigMigrateSecretsCmd.
LEMMA MigrateReadEffect ==
  ASSUME TypeInv, NEW p \in Procs, MigrateRead(p)
  PROVE  \E m \in Job : /\ Become(p, m) /\ proc[p].pc = "read" /\ Like(m, proc[p], {"pc", "old", "keys"})
                        /\ m.pc \in {"probe", "done"} /\ m.old = file /\ m.keys = {b \in Boxes : file.plain[b] # 0}
<1> DEFINE j == proc[p]
           keys == {b \in Boxes : file.plain[b] # 0}
           c == IF keys = {} THEN "done" ELSE "probe"
           k1 == [j EXCEPT !.pc = c]
           k2 == [k1 EXCEPT !.old = file]
           k3 == [k2 EXCEPT !.keys = keys]
<1>1. j \in Job /\ j.pc = "read" /\ Become(p, k3) /\ file \in File
  BY DEF TypeInv, Jobs, Shared, MigrateRead
<1>2. c \in PCs /\ c \in {"probe", "done"}
  BY DEF PCs
<1>0. keys \in SUBSET Boxes
  OBVIOUS
<1>7. keys = {b \in Boxes : file.plain[b] # 0}
  OBVIOUS
<1> HIDE DEF j, c, keys
<1>3. Like(k1, j, {"pc"}) /\ k1.pc = c /\ k1 \in Job
  BY <1>1, <1>2, SetPc DEF Like
<1> HIDE DEF k1
<1>4. Like(k2, k1, {"old"}) /\ k2.old = file /\ k2 \in Job
  BY <1>1, <1>3, SetOld DEF Like
<1> HIDE DEF k2
<1>5. Like(k3, k2, {"keys"}) /\ k3.keys = keys /\ k3 \in Job
  BY <1>0, <1>4, SetKeys DEF Like
<1> HIDE DEF k3
<1>6. Like(k3, j, {"pc", "old", "keys"}) /\ k3.pc = c /\ k3.old = file
  BY <1>3, <1>4, <1>5 DEF Like, Fields
<1> QED BY <1>1, <1>2, <1>5, <1>6, <1>7 DEF j

LEMMA MigrateProbeEffect ==
  ASSUME TypeInv, NEW p \in Procs, MigrateProbe(p)
  PROVE  \E m \in Job : /\ Become(p, m) /\ proc[p].pc = "probe" /\ Like(m, proc[p], {"pc", "store"})
                        /\ m.pc \in {"next", "done"} /\ m.store = "keyring"
<1> DEFINE j == proc[p]
           c == IF Probe = "ok" THEN "next" ELSE "done"
           k1 == [j EXCEPT !.pc = c]
           k2 == [k1 EXCEPT !.store = "keyring"]
<1>1. j \in Job /\ j.pc = "probe" /\ Become(p, k2)
  BY DEF TypeInv, Jobs, MigrateProbe
<1>2. c \in PCs /\ "keyring" \in Stores /\ c \in {"next", "done"}
  BY DEF PCs, Stores
<1> HIDE DEF j, c
<1>3. Like(k1, j, {"pc"}) /\ k1.pc = c /\ k1 \in Job
  BY <1>1, <1>2, SetPc DEF Like
<1> HIDE DEF k1
<1>4. Like(k2, k1, {"store"}) /\ k2.store = "keyring" /\ k2 \in Job
  BY <1>2, <1>3, SetStore DEF Like
<1> HIDE DEF k2
<1>5. Like(k2, j, {"pc", "store"}) /\ k2.pc = c
  BY <1>3, <1>4 DEF Like, Fields
<1> QED BY <1>1, <1>2, <1>4, <1>5 DEF j

NextKey(p, m) ==
  LET j == proc[p]
  IN  /\ j.pc = "next"
      /\ \/ \E b \in j.keys : /\ Like(m, j, {"pc", "box", "pass", "keys"}) /\ m.pc = "put" /\ m.box = b
                              /\ m.pass = j.old.plain[b] /\ m.keys = j.keys \ {b}
         \/ /\ j.keys = {} /\ Like(m, j, {"pc", "edit"}) /\ m.edit = "clear" /\ m.pc \in {"save", "done"}

LEMMA MigrateNextEffect ==
  ASSUME TypeInv, NEW p \in Procs, MigrateNext(p)
  PROVE  \E m \in Job : Become(p, m) /\ NextKey(p, m)
<1> DEFINE j == proc[p]
<1>1. j \in Job /\ j.pc = "next" /\ j.keys \subseteq Boxes /\ j.old \in File
  BY JobFields DEF TypeInv, Jobs, MigrateNext
<1>2. CASE j.keys = {} /\ Become(p, [j EXCEPT !.pc = IF j.moved THEN "save" ELSE "done", !.edit = "clear"])
  <2> DEFINE c == IF j.moved THEN "save" ELSE "done"
             k1 == [j EXCEPT !.pc = c]
             k2 == [k1 EXCEPT !.edit = "clear"]
  <2>1. c \in PCs /\ "clear" \in Kinds /\ c \in {"save", "done"} /\ Become(p, k2)
    BY <1>2 DEF PCs, Kinds
  <2> HIDE DEF c, j
  <2>2. Like(k1, j, {"pc"}) /\ k1.pc = c /\ k1 \in Job
    BY <1>1, <2>1, SetPc DEF Like
  <2> HIDE DEF k1
  <2>3. Like(k2, k1, {"edit"}) /\ k2.edit = "clear" /\ k2 \in Job
    BY <2>1, <2>2, SetEdit DEF Like
  <2> HIDE DEF k2
  <2>4. Like(k2, j, {"pc", "edit"}) /\ k2.pc = c
    BY <2>2, <2>3 DEF Like, Fields
  <2> QED BY <1>1, <1>2, <2>1, <2>3, <2>4 DEF NextKey, j
<1>3. ASSUME NEW b \in j.keys, Become(p, [j EXCEPT !.pc = "put", !.box = b, !.pass = j.old.plain[b], !.keys = @ \ {b}])
      PROVE  \E m \in Job : Become(p, m) /\ NextKey(p, m)
  <2> DEFINE v == j.old.plain[b]
             s == j.keys \ {b}
             k1 == [j EXCEPT !.pc = "put"]
             k2 == [k1 EXCEPT !.box = b]
             k3 == [k2 EXCEPT !.pass = v]
             k4 == [k3 EXCEPT !.keys = s]
  <2>1. [j EXCEPT !.pc = "put", !.box = b, !.pass = j.old.plain[b], !.keys = @ \ {b}] = k4
    BY <1>1 DEF Job
  <2>2. Become(p, k4)
    BY <1>3, <2>1
  <2>3. b \in Boxes /\ v \in Value /\ s \in SUBSET Boxes /\ "put" \in PCs
    BY <1>1 DEF PCs, File
  <2>4. v = j.old.plain[b] /\ s = j.keys \ {b} /\ b \in j.keys
    OBVIOUS
  <2> HIDE DEF v, s, j
  <2>11. Like(k1, j, {"pc"}) /\ k1.pc = "put" /\ k1 \in Job
    BY <1>1, <2>3, SetPc DEF Like
  <2> HIDE DEF k1
  <2>12. Like(k2, k1, {"box"}) /\ k2.box = b /\ k2 \in Job
    BY <2>3, <2>11, SetBox DEF Like
  <2> HIDE DEF k2
  <2>13. Like(k3, k2, {"pass"}) /\ k3.pass = v /\ k3 \in Job
    BY <2>3, <2>12, SetPass DEF Like
  <2> HIDE DEF k3
  <2>14. Like(k4, k3, {"keys"}) /\ k4.keys = s /\ k4 \in Job
    BY <2>3, <2>13, SetKeys DEF Like
  <2> HIDE DEF k4
  <2>15. Like(k4, j, {"pc", "box", "pass", "keys"}) /\ k4.pc = "put" /\ k4.box = b /\ k4.pass = v
    BY <2>11, <2>12, <2>13, <2>14 DEF Like, Fields
  <2> QED BY <1>1, <2>2, <2>4, <2>14, <2>15 DEF NextKey, j
<1> HIDE DEF j
<1>4. \/ j.keys = {} /\ Become(p, [j EXCEPT !.pc = IF j.moved THEN "save" ELSE "done", !.edit = "clear"])
      \/ \E b \in j.keys : Become(p, [j EXCEPT !.pc = "put", !.box = b, !.pass = j.old.plain[b], !.keys = @ \ {b}])
  BY DEF MigrateNext, j
<1> QED BY <1>2, <1>3, <1>4

LEMMA MinTodo ==
  ASSUME NEW S \in SUBSET Volumes, S # {}
  PROVE  Min(S) \in S
<1>1. S \subseteq Nat
  BY CredentialsAssumption
<1>2. PICK n \in S : \A k \in S : <<k, n>> \notin OpToRel(<, Nat)
  BY <1>1, WFMin, NatLessThanWellFounded, Zenon
<1>3. \A k \in S : k \in Nat
  BY <1>1
<1>4. \A k \in S : ~(k < n)
  BY <1>2, <1>3, Zenon DEF OpToRel
<1>5. \A k \in S : n <= k
  BY <1>1, <1>4
<1> QED BY <1>5 DEF Min

\* A command goes over its volumes: it ends, is done with one, encrypts one, or changes the
\* passphrase of one.
Executes(p, m) ==
  LET j == proc[p]
  IN  /\ j.pc = "exec"
      /\ \/ /\ Like(m, j, {"pc"}) /\ (m.pc = "done" \/ (m.pc = "ready" /\ j.cmd = "config"))
            /\ cipher' = cipher /\ mounted' \subseteq mounted
         \/ /\ Like(m, j, {"todo"}) /\ m.todo \subseteq j.todo
            /\ cipher' = cipher /\ mounted' \subseteq mounted
         \/ \E v \in j.todo :
              /\ Like(m, j, {"todo"}) /\ m.todo \subseteq j.todo
              /\ j.cmd \in {"config", "start", "mount"} /\ cipher[v] = j.pass
              /\ cipher' = cipher /\ mounted' = mounted \cup {v}
         \/ \E v \in j.todo :
              /\ Like(m, j, {"init"}) /\ m.init = j.init \cup {v}
              /\ j.cmd \in {"config", "start"} /\ cipher[v] = 0
              /\ cipher' = [cipher EXCEPT ![v] = j.pass] /\ mounted' = mounted
         \/ \E v \in j.todo :
              /\ Like(m, j, {"todo"}) /\ m.todo \subseteq j.todo
              /\ j.cmd = "passwd" /\ v \in j.init
              /\ cipher' = [cipher EXCEPT ![v] = j.new] /\ mounted' = mounted

LEMMA ExecEffect ==
  ASSUME TypeInv, NEW p \in Procs, Exec(p)
  PROVE  \E m \in Job : Become(p, m) /\ Executes(p, m)
<1> DEFINE j == proc[p]
           v == Min(j.todo)
           k == [j EXCEPT !.pc = "done"]
           l == [j EXCEPT !.pc = "ready"]
           n == [j EXCEPT !.todo = j.todo \ {v}]
           o == [j EXCEPT !.init = j.init \cup {v}]
<1>1. j \in Job /\ j.pc = "exec" /\ j.todo \in SUBSET Volumes /\ j.init \in SUBSET Volumes /\ j.cmd \in Users
  BY JobFields DEF TypeInv, Jobs, Exec, Routed
<1>2. "done" \in PCs /\ "ready" \in PCs
  BY DEF PCs
<1>3. Like(k, j, {"pc"}) /\ k.pc = "done" /\ k \in Job
  BY <1>1, <1>2, SetPc DEF Like
<1>4. Like(l, j, {"pc"}) /\ l.pc = "ready" /\ l \in Job
  BY <1>1, <1>2, SetPc DEF Like
<1>5. [j EXCEPT !.todo = @ \ {v}] = n /\ [j EXCEPT !.init = @ \cup {v}] = o
  BY <1>1 DEF Job
<1>6. CASE j.todo = {}
  <2>1. (Become(p, k) \/ (Become(p, l) /\ j.cmd = "config")) /\ cipher' = cipher /\ mounted' = mounted
    BY <1>6 DEF Exec
  <2> HIDE DEF k, l, j
  <2> QED BY <1>1, <1>3, <1>4, <2>1 DEF Executes, j
<1>7. CASE j.todo # {}
  <2>1. v \in j.todo /\ v \in Volumes
    BY <1>1, <1>7, MinTodo
  <2>2. Like(n, j, {"todo"}) /\ n.todo \subseteq j.todo /\ n \in Job
    <3>1. j.todo \ {v} \in SUBSET Volumes
      BY <1>1
    <3>2. Like(n, j, {"todo"}) /\ n.todo = j.todo \ {v}
      BY <1>1, <3>1, SetTodo
    <3> QED BY <3>2 DEF Like
  <2>3. Like(o, j, {"init"}) /\ o.init = j.init \cup {v} /\ o \in Job
    <3>1. j.init \cup {v} \in SUBSET Volumes
      BY <1>1, <2>1
    <3>2. Like(o, j, {"init"}) /\ o.init = j.init \cup {v}
      BY <1>1, <3>1, SetInit
    <3> QED BY <3>2 DEF Like
  <2>4. \/ Become(p, k) /\ cipher' = cipher /\ mounted' \subseteq mounted
        \/ Become(p, n) /\ cipher' = cipher /\ mounted' \subseteq mounted
        \/ /\ Become(p, n) /\ cipher' = cipher /\ mounted' = mounted \cup {v} /\ cipher[v] = j.pass
           /\ j.cmd \in {"config", "start", "mount"}
        \/ /\ Become(p, o) /\ cipher[v] = 0 /\ cipher' = [cipher EXCEPT ![v] = j.pass] /\ mounted' = mounted
           /\ j.cmd \in {"config", "start"}
        \/ /\ Become(p, n) /\ v \in j.init /\ cipher' = [cipher EXCEPT ![v] = j.new] /\ mounted' = mounted
           /\ j.cmd = "passwd"
    <3> HIDE DEF v
    <3>1. ASSUME Mount(p, v), j.cmd \in {"config", "start", "mount"}
          PROVE  \/ Become(p, k) /\ cipher' = cipher /\ mounted' \subseteq mounted
                 \/ /\ Become(p, n) /\ cipher' = cipher /\ mounted' = mounted \cup {v} /\ cipher[v] = j.pass
                    /\ j.cmd \in {"config", "start", "mount"}
      BY <1>5, <3>1 DEF Mount
    <3>2. Skip(p, v) => Become(p, n) /\ cipher' = cipher /\ mounted' \subseteq mounted
      BY <1>5 DEF Skip
    <3>3. Fails(p) => Become(p, k) /\ cipher' = cipher /\ mounted' \subseteq mounted
      BY DEF Fails
    <3>4. CASE j.cmd \in {"config", "start"}
      <4>1. Ensure(p, v)
        BY <1>7, <3>4 DEF Exec, v
      <4> HIDE DEF k, n, o
      <4>2. \/ /\ cipher[v] = 0 /\ cipher' = [cipher EXCEPT ![v] = j.pass] /\ mounted' = mounted
               /\ Become(p, o)
            \/ Fails(p) \/ Mount(p, v) \/ Skip(p, v)
        BY <1>5, <4>1 DEF Ensure
      <4> QED BY <3>1, <3>2, <3>3, <3>4, <4>2
    <3>5. CASE j.cmd = "mount"
      <4>1. MountOnly(p, v)
        BY <1>7, <3>5 DEF Exec, v
      <4>2. Fails(p) \/ Mount(p, v) \/ Skip(p, v)
        BY <4>1 DEF MountOnly
      <4> HIDE DEF k, n, o
      <4> QED BY <3>1, <3>2, <3>3, <3>5, <4>2
    <3>6. CASE j.cmd = "unmount"
      <4>1. Unmount(p, v)
        BY <1>7, <3>6 DEF Exec, v
      <4>2. \/ Fails(p) \/ Skip(p, v)
            \/ Become(p, n) /\ cipher' = cipher /\ mounted' = mounted \ {v}
        BY <1>5, <4>1 DEF Unmount
      <4> HIDE DEF k, n, o
      <4> QED BY <3>2, <3>3, <4>2
    <3>7. CASE j.cmd = "passwd"
      <4>1. Passwd(p, v)
        BY <1>7, <3>7 DEF Exec, v
      <4>2. \/ Fails(p) \/ Skip(p, v)
            \/ Become(p, n) /\ v \in j.init /\ cipher' = [cipher EXCEPT ![v] = j.new] /\ mounted' = mounted
        BY <1>5, <4>1 DEF Passwd
      <4> HIDE DEF k, n, o
      <4> QED BY <3>2, <3>3, <3>7, <4>2
    <3> QED BY <1>1, <3>4, <3>5, <3>6, <3>7 DEF Users
  <2> HIDE DEF k, n, o, v, j
  <2>5. CASE Become(p, k) /\ cipher' = cipher /\ mounted' \subseteq mounted
    BY <1>1, <1>3, <2>5 DEF Executes, j
  <2>6. CASE Become(p, n) /\ cipher' = cipher /\ mounted' \subseteq mounted
    BY <1>1, <2>2, <2>6 DEF Executes, j
  <2>7. CASE /\ Become(p, n) /\ cipher' = cipher /\ mounted' = mounted \cup {v} /\ cipher[v] = j.pass
             /\ j.cmd \in {"config", "start", "mount"}
    BY <1>1, <2>1, <2>2, <2>7 DEF Executes, j
  <2>8. CASE /\ Become(p, o) /\ cipher[v] = 0 /\ cipher' = [cipher EXCEPT ![v] = j.pass] /\ mounted' = mounted
             /\ j.cmd \in {"config", "start"}
    BY <1>1, <2>1, <2>3, <2>8 DEF Executes, j
  <2>9. CASE /\ Become(p, n) /\ v \in j.init /\ cipher' = [cipher EXCEPT ![v] = j.new] /\ mounted' = mounted
             /\ j.cmd = "passwd"
    BY <1>1, <2>1, <2>2, <2>9 DEF Executes, j
  <2> QED BY <2>4, <2>5, <2>6, <2>7, <2>8, <2>9
<1> QED BY <1>6, <1>7

LEMMA CrashEffect ==
  ASSUME TypeInv, NEW p \in Procs, Crash(p)
  PROVE  \E m \in Job : Become(p, m) /\ Active(p) /\ m.pc = "done" /\ Like(m, proc[p], {"pc"})
<1> DEFINE k == [proc[p] EXCEPT !.pc = "done"]
<1>1. proc[p] \in Job /\ "done" \in PCs
  BY DEF TypeInv, Jobs, PCs
<1>2. Like(k, proc[p], {"pc"}) /\ k.pc = "done"
  BY <1>1, SetPc
<1>3. Become(p, k) /\ Active(p)
  BY DEF Crash
<1> HIDE DEF k
<1> QED BY <1>2, <1>3 DEF Like

-----------------------------------------------------------------------------
(* Every step keeps the types.                                             *)

LEMMA Before ==
  ASSUME TypeInv, NEW p \in Procs
  PROVE  proc[p] \in Job /\ Routed(proc[p]) /\ Firm(proc[p]) /\ fresh \in Nat \ {0} /\ known \subseteq Value
BY DEF TypeInv, Jobs, Shared

LEMMA BeginType ==
  ASSUME TypeInv, NEW p \in Procs, Begin(p)
  PROVE  TypeInv'
<1>1. PICK c \in AllCommands, b \in Boxes, m \in Job : Become(p, m) /\ Begun(p, c, b, m)
  BY BeginEffect
<1>2. /\ m.pc = Entry(c) /\ m.cmd = c /\ proc[p].pc = "idle" /\ MayDraw(proc[p])
      /\ m.edit = IF c = "settings" THEN "settings" ELSE "none"
  BY <1>1 DEF Begun, MayDraw
<1>3. m.init = {} /\ m.todo = {} /\ m.mode = "first" /\ m.tries = 0
  BY <1>1, IdleFacts DEF Begun, Like, Fields
<1>4. Routed(m)
  BY <1>2 DEF Routed, Entry, AllCommands, Ended, Users
<1>5. Firm(m)'
  BY <1>2, <1>3 DEF Firm, Entry, AllCommands, Of
<1>6. UNCHANGED <<setting, ring, stored, file, cipher, mounted, kills, changes>>
  BY DEF Begin
<1>7. fresh \in Value /\ fresh # 0
  BY <1>2, DrawValue
<1>8. \/ fresh' = fresh /\ known' = known
      \/ fresh' = fresh + 1 /\ known' = known \cup {fresh} /\ c = "set"
  BY <1>1 DEF Begun
<1>9. Shared'
  <2>1. fresh' \in Nat \ {0} /\ known' \subseteq Value
    BY <1>7, <1>8, Before
  <2> QED BY <1>6, <2>1 DEF TypeInv, Shared
<1>10. c = "set" => ~MayDraw(m)
  BY <1>2 DEF MayDraw, Entry
<1> QED BY <1>1, <1>2, <1>4, <1>5, <1>6, <1>8, <1>9, <1>10, TypeNext

LEMMA PlanType ==
  ASSUME TypeInv, NEW p \in Procs, Plan(p)
  PROVE  TypeInv'
<1> DEFINE j == proc[p]
<1>1. PICK m \in Job : Become(p, m) /\ Planned(p, m)
  BY PlanEffect
<1>2. j.pc = "plan" /\ j \in Job /\ Routed(j) /\ Firm(j) /\ fresh \in Nat \ {0}
  BY <1>1, Before DEF Planned
<1>3. /\ m.cmd = j.cmd /\ m.box = j.box /\ m.mode = j.mode /\ m.tries = j.tries /\ m.store = j.store
      /\ m.init = {v \in Of(j.box) : cipher[v] # 0} /\ m.todo = Of(j.box)
  BY <1>1 DEF Planned, Like, Fields
<1>4. UNCHANGED <<setting, ring, stored, file, cipher, mounted, kills, changes>>
  BY DEF Plan
<1>5. /\ \/ m.pc \in {"ready", "select"} /\ j.cmd \in {"config", "start"}
         \/ m.pc = "select" /\ j.cmd = "mount"
         \/ m.pc = "exec" /\ j.cmd = "unmount"
         \/ m.pc = "exec" /\ j.cmd = "passwd" /\ m.new = fresh
         \/ m.pc \in Ended
      /\ \/ fresh' = fresh /\ known' = known
         \/ fresh' = fresh + 1 /\ known' = known \cup {fresh} /\ j.cmd = "passwd" /\ m.pc = "exec"
      /\ m.pc = "done" => fresh' = fresh
  BY <1>1, <1>2 DEF Planned, Ended
<1>6. m.pc \notin Ended => Routed(m)
  BY <1>2, <1>3, <1>5 DEF Routed, Ended, Users
<1>7. m.pc \notin Ended => Firm(m)'
  BY <1>2, <1>3, <1>4, <1>5 DEF Firm, Ended, Of
<1>8. CASE fresh' = fresh /\ known' = known
  <2>1. MayDraw(m) => MayDraw(j)
    BY <1>2, <1>3, <1>5 DEF MayDraw, Ended
  <2>2. Shared'
    BY <1>4, <1>8 DEF TypeInv, Shared
  <2> QED BY <1>1, <1>4, <1>6, <1>7, <1>8, <2>1, <2>2, TypeNext
<1>9. CASE fresh' = fresh + 1 /\ known' = known \cup {fresh} /\ j.cmd = "passwd" /\ m.pc = "exec"
  <2>1. MayDraw(j) /\ ~MayDraw(m)
    BY <1>2, <1>3, <1>9 DEF MayDraw
  <2>2. fresh \in Value
    BY <2>1, DrawValue
  <2>3. Shared'
    BY <1>4, <1>9, <2>2, Before DEF TypeInv, Shared
  <2> QED BY <1>1, <1>4, <1>6, <1>7, <1>9, <2>1, <2>3, TypeNext
<1> QED BY <1>5, <1>8, <1>9

LEMMA ReadyType ==
  ASSUME TypeInv, NEW p \in Procs, Ready(p)
  PROVE  TypeInv'
<1> DEFINE j == proc[p]
<1>1. PICK m \in Job : /\ Become(p, m) /\ j.pc = "ready" /\ Like(m, j, {"pc", "cmd"})
                       /\ \/ m.pc = "done" /\ m.cmd = j.cmd
                          \/ m.pc = "plan" /\ m.cmd = "unmount"
  BY ReadyEffect
<1>2. j \in Job /\ Routed(j) /\ Firm(j)
  BY Before
<1>3. /\ m.box = j.box /\ m.mode = j.mode /\ m.tries = j.tries /\ m.store = j.store
      /\ m.init = j.init /\ m.todo = j.todo /\ m.edit = j.edit
  BY <1>1 DEF Like, Fields
<1>4. m.pc \notin Ended => Routed(m) /\ Firm(m)
  BY <1>1, <1>2, <1>3 DEF Routed, Firm, Ended, Users
<1>5. MayDraw(m) => MayDraw(j)
  BY <1>1 DEF MayDraw
<1>6. UNCHANGED <<setting, ring, stored, file, cipher, mounted, fresh, known, kills, changes>>
  BY DEF Ready
<1> QED BY <1>1, <1>4, <1>5, <1>6, TypeKeeps DEF TypeInv, Shared

LEMMA SelectType ==
  ASSUME TypeInv, NEW p \in Procs, Select(p)
  PROVE  TypeInv'
<1> DEFINE j == proc[p]
<1>1. PICK m \in Job : Become(p, m) /\ Selects(p, m)
  BY SelectEffect
<1>2. j \in Job /\ Routed(j) /\ Firm(j) /\ j.pc = "select"
  BY <1>1, Before DEF Selects
<1>3. /\ m.cmd = j.cmd /\ m.box = j.box /\ m.mode = j.mode /\ m.tries = j.tries /\ m.store # "none"
      /\ m.init = j.init /\ m.todo = j.todo /\ m.edit = j.edit /\ m.pass = j.pass
      /\ m.pc = IF j.cmd \in {"set", "delete"} THEN "put" ELSE "get"
  BY <1>1 DEF Selects, Like, Fields
<1>4. Routed(m) /\ Firm(m)
  BY <1>2, <1>3 DEF Routed, Firm, Ended, Users
<1>5. MayDraw(m) => MayDraw(j)
  BY <1>2, <1>3 DEF MayDraw
<1>6. UNCHANGED <<setting, ring, stored, file, cipher, mounted, fresh, known, kills, changes>>
  BY DEF Select
<1> QED BY <1>1, <1>4, <1>5, <1>6, TypeKeeps DEF TypeInv, Shared

\* A lookup answers or does not.
LEMMA MissType ==
  ASSUME TypeInv, NEW p \in Procs, NEW m \in Job, Become(p, m), NEW source, proc[p].pc \in {"get", "fallback"},
         Misses(p, source, m),
         UNCHANGED <<setting, ring, stored, file, cipher, mounted, known, kills, changes>>
  PROVE  TypeInv'
<1> DEFINE j == proc[p]
<1>2. j \in Job /\ Routed(j) /\ Firm(j) /\ fresh \in Nat \ {0}
  BY Before
<1>3. /\ m.cmd = j.cmd /\ m.box = j.box /\ m.mode = j.mode /\ m.tries = j.tries /\ m.store = j.store
      /\ m.init = j.init /\ m.todo = j.todo /\ m.edit = j.edit
  BY DEF Misses, Like, Fields
<1>4. \/ j.cmd = "mount" /\ m.pc = Unmountable(j, source) /\ fresh' = fresh
      \/ j.cmd = "start" /\ m.pc = "prompt" /\ fresh' = fresh
      \/ j.cmd \in {"config", "provision"} /\ m.pc = "put" /\ m.pass = fresh /\ fresh' = fresh + 1
  BY DEF Misses
<1>5. CASE j.cmd = "mount" /\ m.pc = Unmountable(j, source) /\ fresh' = fresh
  <2>1. m.pc \in {"unstored", "await", "retry", "done"}
    BY <1>2, <1>5, UnmountablePc
  <2>2. m.pc = "await" => j.mode # "retry"
    BY <1>2, <1>5, UnmountablePc
  <2>3. m.pc = "retry" => j.mode = "first" \/ (j.mode = "retry" /\ j.tries < MaxTries)
    BY <1>2, <1>5, UnmountablePc
  <2>4. m.pc \notin Ended => Routed(m)
    BY <1>3, <1>5, <2>1 DEF Routed, Ended
  <2>5. m.pc \notin Ended => Firm(m)
    BY <1>2, <1>3, <1>5, <2>1, <2>2, <2>3, CredentialsAssumption DEF Firm, Ended
  <2>6. ~MayDraw(m)
    BY <1>3, <1>5, <2>1 DEF MayDraw
  <2> QED BY <1>5, <2>4, <2>5, <2>6, TypeKeeps DEF TypeInv, Shared
<1>6. CASE j.cmd = "start" /\ m.pc = "prompt" /\ fresh' = fresh
  <2>1. Routed(m) /\ Firm(m) /\ MayDraw(j)
    BY <1>2, <1>3, <1>6 DEF Routed, Firm, Ended, MayDraw
  <2> QED BY <1>6, <2>1, TypeKeeps DEF TypeInv, Shared
<1>7. CASE j.cmd \in {"config", "provision"} /\ m.pc = "put" /\ m.pass = fresh /\ fresh' = fresh + 1
  <2>1. Routed(m) /\ Firm(m)'
    BY <1>2, <1>3, <1>7 DEF Routed, Firm, Ended
  <2>2. MayDraw(j) /\ ~MayDraw(m)
    BY <1>3, <1>7 DEF MayDraw
  <2>3. Shared'
    BY <1>7, Before DEF TypeInv, Shared
  <2> QED BY <1>7, <2>1, <2>2, <2>3, TypeNext
<1> QED BY <1>4, <1>5, <1>6, <1>7

LEMMA FindType ==
  ASSUME TypeInv, NEW p \in Procs, NEW m \in Job, Become(p, m), NEW val, proc[p].pc \in {"get", "fallback"},
         Finds(p, val, m),
         UNCHANGED <<setting, ring, stored, file, cipher, mounted, known, kills, changes>>
  PROVE  TypeInv'
<1> DEFINE j == proc[p]
<1>2. j \in Job /\ Routed(j) /\ Firm(j)
  BY Before
<1>3. /\ m.cmd = j.cmd /\ m.box = j.box /\ m.mode = j.mode /\ m.tries = j.tries /\ m.store = j.store
      /\ m.init = j.init /\ m.todo = j.todo /\ m.edit = j.edit /\ m.pass # 0 /\ fresh' = fresh
      /\ m.pc = IF j.cmd = "provision" THEN "done" ELSE "exec"
  BY DEF Finds, Like, Fields
<1>4. j.cmd \in {"config", "start", "mount", "provision"}
  BY <1>2 DEF Routed
<1>5. m.pc \notin Ended => Routed(m) /\ Firm(m)
  BY <1>2, <1>3, <1>4 DEF Routed, Firm, Ended, Users
<1>6. ~MayDraw(m)
  BY <1>3 DEF MayDraw
<1> QED BY <1>3, <1>5, <1>6, TypeKeeps DEF TypeInv, Shared

LEMMA GetType ==
  ASSUME TypeInv, NEW p \in Procs, Get(p)
  PROVE  TypeInv'
<1> DEFINE j == proc[p]
<1>1. PICK m \in Job : Become(p, m) /\ Gets(p, m)
  BY GetEffect
<1>2. j \in Job /\ Routed(j) /\ Firm(j) /\ j.pc = "get"
  BY <1>1, Before DEF Gets
<1>3. UNCHANGED <<setting, ring, stored, file, cipher, mounted, known, kills, changes>>
  BY DEF Get
<1>4. CASE \E val : Finds(p, val, m)
  BY <1>1, <1>2, <1>3, <1>4, FindType
<1>5. CASE \E source : Misses(p, source, m)
  BY <1>1, <1>2, <1>3, <1>5, MissType
<1>6. CASE Falls(p, m)
  <2>1. /\ m.cmd = j.cmd /\ m.box = j.box /\ m.mode = j.mode /\ m.tries = j.tries /\ m.store = j.store
        /\ m.init = j.init /\ m.todo = j.todo /\ m.edit = j.edit /\ m.pc = "fallback" /\ fresh' = fresh
    BY <1>6 DEF Falls, Like, Fields
  <2>2. Routed(m) /\ Firm(m)
    BY <1>2, <2>1 DEF Routed, Firm, Ended, Users
  <2>3. MayDraw(m) => MayDraw(j)
    BY <1>2, <2>1 DEF MayDraw
  <2> QED BY <1>1, <1>3, <2>1, <2>2, <2>3, TypeKeeps DEF TypeInv, Shared
<1> QED BY <1>1, <1>4, <1>5, <1>6 DEF Gets

LEMMA FallbackType ==
  ASSUME TypeInv, NEW p \in Procs, Fallback(p)
  PROVE  TypeInv'
<1>1. PICK m \in Job : Become(p, m) /\ FallsBack(p, m)
  BY FallbackEffect
<1>2. UNCHANGED <<setting, ring, stored, file, cipher, mounted, known, kills, changes>>
  BY DEF Fallback
<1> QED BY <1>1, <1>2, FindType, MissType DEF FallsBack

LEMMA AgainType ==
  ASSUME TypeInv, NEW p \in Procs, Again(p)
  PROVE  TypeInv'
<1> DEFINE j == proc[p]
<1>1. PICK m \in Job : Become(p, m) /\ Resets(p, m)
  BY AgainEffect
<1>2. j \in Job /\ Routed(j) /\ Firm(j) /\ j.pc \in {"await", "retry"} /\ j.cmd = "mount"
  BY <1>1, Before DEF Resets, Routed
<1>3. /\ m.cmd = j.cmd /\ m.box = j.box /\ m.pc = "select" /\ m.mode = j.pc
      /\ m.init = j.init /\ m.todo = j.todo /\ m.edit = j.edit
      /\ j.pc = "await" => m.tries = j.tries
  BY <1>1, <1>2 DEF Resets, Like, Fields
<1>4. Routed(m) /\ Firm(m)
  BY <1>2, <1>3 DEF Routed, Firm, Ended
<1>5. ~MayDraw(m)
  BY <1>2, <1>3 DEF MayDraw
<1>6. UNCHANGED <<setting, ring, stored, file, cipher, mounted, fresh, known, kills, changes>>
  BY DEF Again
<1> QED BY <1>1, <1>4, <1>5, <1>6, TypeKeeps DEF TypeInv, Shared

LEMMA PromptType ==
  ASSUME TypeInv, NEW p \in Procs, Prompt(p)
  PROVE  TypeInv'
<1> DEFINE j == proc[p]
<1>1. PICK m \in Job : Become(p, m) /\ Types(p, m)
  BY PromptEffect
<1>2. j \in Job /\ Routed(j) /\ Firm(j) /\ j.pc = "prompt" /\ j.cmd = "start" /\ fresh \in Nat \ {0}
  BY <1>1, Before DEF Types, Routed
<1>3. /\ m.cmd = j.cmd /\ m.box = j.box /\ m.mode = j.mode /\ m.tries = j.tries
      /\ m.init = j.init /\ m.todo = j.todo /\ m.edit = j.edit
  BY <1>1 DEF Types, Like, Fields
<1>4. \/ m.pc = "done" /\ fresh' = fresh /\ known' = known
      \/ m.pc = "exec" /\ m.pass # 0 /\ fresh' = fresh /\ known' = known \cup {m.pass}
      \/ m.pc = "exec" /\ m.pass = fresh /\ known' = known \cup {fresh} /\ fresh' = fresh + 1
  BY <1>1 DEF Types
<1>5. UNCHANGED <<setting, ring, stored, file, cipher, mounted, kills, changes>>
  BY DEF Prompt
<1>6. m.pc \notin Ended => Routed(m) /\ Firm(m)'
  BY <1>2, <1>3, <1>4, <1>5 DEF Routed, Firm, Ended, Users
<1>7. MayDraw(j) /\ ~MayDraw(m)
  BY <1>2, <1>3, <1>4 DEF MayDraw
<1>8. fresh \in Value /\ m.pass \in Value
  BY <1>7, DrawValue, JobFields
<1>9. known' \subseteq Value
  BY <1>4, <1>8, Before
<1>10. fresh' \in Nat \ {0} /\ (fresh' = fresh \/ fresh' = fresh + 1)
  BY <1>2, <1>4
<1>11. Shared'
  BY <1>5, <1>9, <1>10 DEF TypeInv, Shared
<1> QED BY <1>1, <1>5, <1>6, <1>7, <1>10, <1>11, TypeNext

LEMMA PutType ==
  ASSUME TypeInv, NEW p \in Procs, Put(p)
  PROVE  TypeInv'
<1> DEFINE j == proc[p]
           val == IF j.cmd = "delete" THEN 0 ELSE j.pass
<1>1. PICK m \in Job : Become(p, m) /\ Puts(p, m)
  BY PutEffect
<1>2. j \in Job /\ Routed(j) /\ Firm(j) /\ j.pc = "put"
  BY <1>1, Before DEF Puts
<1>3. j.cmd \in {"config", "provision", "set", "delete", "migrate"} /\ val \in Value /\ j.box \in Boxes
  BY <1>2, JobFields, ValueFacts DEF Routed
<1>4. /\ m.cmd = j.cmd /\ m.box = j.box /\ m.mode = j.mode /\ m.tries = j.tries
      /\ m.init = j.init /\ m.todo = j.todo
      /\ \/ m.pc = "load" /\ m.edit = "plain" /\ m.pass = val
         \/ m.pc = "load" /\ m.edit = "index" /\ m.pass = j.pass
         \/ m.pc = After(j) /\ m.edit = j.edit /\ m.pass = j.pass
      /\ stored' = stored \/ stored' = [stored EXCEPT ![j.box] = val]
  BY <1>1 DEF Puts, Like, Fields
<1>5. UNCHANGED <<setting, ring, file, cipher, mounted, fresh, known, kills, changes>>
  BY DEF Put
<1>6. Shared'
  BY <1>3, <1>4, <1>5 DEF TypeInv, Shared
<1>7. After(j) = IF j.cmd = "config" THEN "exec" ELSE IF j.cmd = "migrate" THEN "next" ELSE "done"
  BY DEF After
<1>8. ~MayDraw(m)
  BY <1>4, <1>7 DEF MayDraw
<1>9. m.pc \notin Ended => Routed(m)
  BY <1>2, <1>3, <1>4, <1>7 DEF Routed, Ended, Users
<1>10. m.pc \notin Ended => Firm(m)'
  BY <1>2, <1>3, <1>4, <1>5, <1>7 DEF Firm, Ended
<1> QED BY <1>1, <1>5, <1>6, <1>8, <1>9, <1>10, TypeNext

LEMMA LoadType ==
  ASSUME TypeInv, NEW p \in Procs, Load(p)
  PROVE  TypeInv'
<1> DEFINE j == proc[p]
<1>1. PICK m \in Job : Become(p, m) /\ j.pc = "load" /\ Like(m, j, {"pc", "cfg"}) /\ m.pc = "save"
  BY LoadEffect
<1>2. j \in Job /\ Routed(j) /\ Firm(j)
  BY Before
<1>3. /\ m.cmd = j.cmd /\ m.box = j.box /\ m.mode = j.mode /\ m.tries = j.tries
      /\ m.init = j.init /\ m.todo = j.todo /\ m.edit = j.edit /\ m.pass = j.pass
  BY <1>1 DEF Like, Fields
<1>4. Routed(m) /\ Firm(m) /\ ~MayDraw(m)
  BY <1>1, <1>2, <1>3 DEF Routed, Firm, Ended, MayDraw
<1>5. UNCHANGED <<setting, ring, stored, file, cipher, mounted, fresh, known, kills, changes>>
  BY DEF Load
<1> QED BY <1>1, <1>4, <1>5, TypeKeeps DEF TypeInv, Shared

LEMMA EditedType ==
  ASSUME NEW j \in Job, j.edit # "none"
  PROVE  Edited(j) \in File
<1>1. /\ j.edit \in {"plain", "index", "clear", "settings"} /\ j.cfg \in File /\ j.old \in File
      /\ j.box \in Boxes /\ j.pass \in Value
  BY JobFields DEF Kinds
<1>2. CASE j.edit = "index"
  BY <1>1, <1>2 DEF Edited, File
<1>3. CASE j.edit = "plain"
  BY <1>1, <1>3 DEF Edited, File
<1>4. CASE j.edit = "clear"
  BY <1>1, <1>4, ValueFacts DEF Edited, File
<1>5. CASE j.edit = "settings"
  BY <1>1, <1>5 DEF Edited
<1> QED BY <1>1, <1>2, <1>3, <1>4, <1>5

LEMMA SaveType ==
  ASSUME TypeInv, NEW p \in Procs, Save(p)
  PROVE  TypeInv'
<1> DEFINE j == proc[p]
<1>1. PICK m \in Job : Become(p, m) /\ Saves(p, m)
  BY SaveEffect
<1>2. j \in Job /\ Routed(j) /\ Firm(j) /\ j.pc = "save"
  BY <1>1, Before DEF Saves
<1>3. j.edit # "none" /\ j.cmd \in Writers
  BY <1>2, JobFields DEF Routed, Kinds, Writers
<1>4. /\ m.cmd = j.cmd /\ m.box = j.box /\ m.mode = j.mode /\ m.tries = j.tries
      /\ m.init = j.init /\ m.todo = j.todo /\ m.pass = j.pass /\ m.edit = "none"
      /\ m.pc = "done" \/ m.pc = After(j)
      /\ file' = Edited(j)
  BY <1>1 DEF Saves, Like, Fields
<1>5. UNCHANGED <<setting, ring, stored, cipher, mounted, fresh, known, kills, changes>>
  BY DEF Save
<1>6. Shared'
  BY <1>2, <1>3, <1>4, <1>5, EditedType DEF TypeInv, Shared
<1>7. After(j) = IF j.cmd = "config" THEN "exec" ELSE IF j.cmd = "migrate" THEN "next" ELSE "done"
  BY DEF After
<1>8. ~MayDraw(m)
  BY <1>4, <1>7 DEF MayDraw
<1>9. m.pc \notin Ended => Routed(m)
  BY <1>2, <1>3, <1>4, <1>7 DEF Routed, Ended, Users
<1>10. m.pc \notin Ended => Firm(m)'
  BY <1>2, <1>3, <1>4, <1>5, <1>7 DEF Firm, Ended
<1> QED BY <1>1, <1>5, <1>6, <1>8, <1>9, <1>10, TypeNext

LEMMA MigrateReadType ==
  ASSUME TypeInv, NEW p \in Procs, MigrateRead(p)
  PROVE  TypeInv'
<1> DEFINE j == proc[p]
<1>1. PICK m \in Job : Become(p, m) /\ j.pc = "read" /\ Like(m, j, {"pc", "old", "keys"}) /\ m.pc \in {"probe", "done"}
  BY MigrateReadEffect
<1>2. j \in Job /\ Routed(j) /\ Firm(j)
  BY Before
<1>3. /\ m.cmd = j.cmd /\ m.box = j.box /\ m.mode = j.mode /\ m.tries = j.tries
      /\ m.init = j.init /\ m.todo = j.todo
  BY <1>1 DEF Like, Fields
<1>4. ~MayDraw(m) /\ (m.pc \notin Ended => Routed(m) /\ Firm(m))
  BY <1>1, <1>2, <1>3 DEF Routed, Firm, Ended, MayDraw
<1>5. UNCHANGED <<setting, ring, stored, file, cipher, mounted, fresh, known, kills, changes>>
  BY DEF MigrateRead
<1> QED BY <1>1, <1>4, <1>5, TypeKeeps DEF TypeInv, Shared

LEMMA MigrateProbeType ==
  ASSUME TypeInv, NEW p \in Procs, MigrateProbe(p)
  PROVE  TypeInv'
<1> DEFINE j == proc[p]
<1>1. PICK m \in Job : Become(p, m) /\ j.pc = "probe" /\ Like(m, j, {"pc", "store"}) /\ m.pc \in {"next", "done"}
  BY MigrateProbeEffect
<1>2. j \in Job /\ Routed(j) /\ Firm(j)
  BY Before
<1>3. /\ m.cmd = j.cmd /\ m.box = j.box /\ m.mode = j.mode /\ m.tries = j.tries
      /\ m.init = j.init /\ m.todo = j.todo
  BY <1>1 DEF Like, Fields
<1>4. ~MayDraw(m) /\ (m.pc \notin Ended => Routed(m) /\ Firm(m))
  BY <1>1, <1>2, <1>3 DEF Routed, Firm, Ended, MayDraw
<1>5. UNCHANGED <<setting, ring, stored, file, cipher, mounted, fresh, known, kills, changes>>
  BY DEF MigrateProbe
<1> QED BY <1>1, <1>4, <1>5, TypeKeeps DEF TypeInv, Shared

LEMMA MigrateNextType ==
  ASSUME TypeInv, NEW p \in Procs, MigrateNext(p)
  PROVE  TypeInv'
<1> DEFINE j == proc[p]
<1>1. PICK m \in Job : Become(p, m) /\ NextKey(p, m)
  BY MigrateNextEffect
<1>2. j \in Job /\ Routed(j) /\ Firm(j) /\ j.pc = "next" /\ j.cmd = "migrate"
  BY <1>1, Before DEF NextKey, Routed
<1>3. /\ m.cmd = j.cmd /\ m.mode = j.mode /\ m.tries = j.tries /\ m.init = j.init /\ m.todo = {}
      /\ m.pc = "put" \/ (m.pc \in {"save", "done"} /\ m.edit = "clear")
  BY <1>1, <1>2 DEF NextKey, Like, Fields, Firm
<1>4. ~MayDraw(m) /\ (m.pc \notin Ended => Routed(m) /\ Firm(m))
  BY <1>2, <1>3 DEF Routed, Firm, Ended, MayDraw
<1>5. UNCHANGED <<setting, ring, stored, file, cipher, mounted, fresh, known, kills, changes>>
  BY DEF MigrateNext
<1> QED BY <1>1, <1>4, <1>5, TypeKeeps DEF TypeInv, Shared

\* A volume that is encrypted stays so.
LEMMA ExecShared ==
  ASSUME TypeInv, NEW p \in Procs, Exec(p)
  PROVE  /\ Shared' /\ \A v \in Volumes : cipher[v] # 0 => cipher'[v] # 0
         /\ UNCHANGED <<setting, ring, stored, file, fresh, known, kills, changes>>
<1> DEFINE j == proc[p]
<1>1. PICK m \in Job : Become(p, m) /\ Executes(p, m)
  BY ExecEffect
<1>2. /\ j \in Job /\ Firm(j) /\ j.pc = "exec" /\ j.pass \in Value /\ j.new \in Value /\ j.todo \subseteq Volumes
      /\ cipher \in [Volumes -> Value] /\ mounted \subseteq {v \in Volumes : cipher[v] # 0}
  BY <1>1, Before, JobFields DEF Executes, TypeInv, Shared
<1>3. /\ j.cmd \in {"config", "start", "mount"} => j.pass # 0
      /\ j.cmd = "passwd" => j.new # 0
  BY <1>2 DEF Firm
<1>4. UNCHANGED <<setting, ring, stored, file, fresh, known, kills, changes>>
  BY DEF Exec
<1>5. /\ cipher' \in [Volumes -> Value] /\ mounted' \subseteq {v \in Volumes : cipher'[v] # 0}
      /\ \A v \in Volumes : cipher[v] # 0 => cipher'[v] # 0
  <2>1. \/ cipher' = cipher /\ mounted' \subseteq mounted
        \/ \E v \in j.todo : cipher[v] # 0 /\ cipher' = cipher /\ mounted' = mounted \cup {v}
        \/ \E v \in j.todo, n \in Value \ {0} : cipher' = [cipher EXCEPT ![v] = n] /\ mounted' = mounted
    BY <1>1, <1>2, <1>3 DEF Executes
  <2> HIDE DEF j
  <2> QED BY <1>2, <2>1
<1>6. Shared'
  BY <1>4, <1>5 DEF TypeInv, Shared
<1> QED BY <1>4, <1>5, <1>6

LEMMA ExecType ==
  ASSUME TypeInv, NEW p \in Procs, Exec(p)
  PROVE  TypeInv'
<1> DEFINE j == proc[p]
<1>1. PICK m \in Job : Become(p, m) /\ Executes(p, m)
  BY ExecEffect
<1>2. /\ j \in Job /\ Routed(j) /\ Firm(j) /\ j.pc = "exec" /\ j.cmd \in Users /\ j.init \subseteq Volumes
      /\ j.todo \subseteq Volumes
  BY <1>1, Before, JobFields DEF Executes, Routed
<1>3. Shared' /\ (\A v \in Volumes : cipher[v] # 0 => cipher'[v] # 0) /\ fresh' = fresh
  BY ExecShared
<1>4. \/ m.pc \in {"done", "ready"} /\ m.todo = j.todo /\ m.init = j.init /\ (m.pc = "ready" => j.cmd = "config")
      \/ m.pc = "exec" /\ m.todo \subseteq j.todo /\ m.init = j.init
      \/ m.pc = "exec" /\ m.todo = j.todo /\ \E v \in j.todo : m.init = j.init \cup {v} /\ cipher'[v] # 0
  <2>1. CASE \E v \in j.todo :
              /\ Like(m, j, {"init"}) /\ m.init = j.init \cup {v}
              /\ j.cmd \in {"config", "start"} /\ cipher[v] = 0
              /\ cipher' = [cipher EXCEPT ![v] = j.pass] /\ mounted' = mounted
    <3>1. PICK v \in j.todo : Like(m, j, {"init"}) /\ m.init = j.init \cup {v} /\ j.cmd \in {"config", "start"}
                              /\ cipher' = [cipher EXCEPT ![v] = j.pass]
      BY <2>1
    <3>2. j.pass # 0 /\ m.pc = "exec" /\ m.todo = j.todo
      BY <1>2, <3>1 DEF Firm, Like, Fields
    <3>3. cipher'[v] = j.pass
      BY <1>2, <3>1 DEF TypeInv, Shared
    <3> QED BY <3>1, <3>2, <3>3
  <2>2. CASE Like(m, j, {"pc"}) /\ (m.pc = "done" \/ (m.pc = "ready" /\ j.cmd = "config"))
    BY <2>2 DEF Like, Fields
  <2>3. CASE Like(m, j, {"todo"}) /\ m.todo \subseteq j.todo
    BY <1>2, <2>3 DEF Like, Fields
  <2> QED BY <1>1, <2>1, <2>2, <2>3 DEF Executes
<1>5. /\ m.cmd = j.cmd /\ m.box = j.box /\ m.mode = j.mode /\ m.tries = j.tries
      /\ m.pass = j.pass /\ m.new = j.new
  BY <1>1 DEF Executes, Like, Fields
<1>6. \A v \in m.init : cipher'[v] # 0
  BY <1>2, <1>3, <1>4 DEF Firm
<1>7. m.todo \subseteq j.todo
  BY <1>4
<1>8. m.pc \notin Ended => Routed(m)
  BY <1>2, <1>4, <1>5 DEF Routed, Ended, Users
<1>9. m.pc \notin Ended => Firm(m)'
  BY <1>2, <1>4, <1>5, <1>6, <1>7 DEF Firm, Ended, Users, Of
<1>10. ~MayDraw(m)
  BY <1>4 DEF MayDraw
<1> QED BY <1>1, <1>3, <1>8, <1>9, <1>10, TypeNext

LEMMA CrashType ==
  ASSUME TypeInv, NEW p \in Procs, Crash(p)
  PROVE  TypeInv'
<1>1. PICK m \in Job : Become(p, m) /\ m.pc = "done"
  BY CrashEffect
<1>2. UNCHANGED <<setting, ring, stored, file, cipher, mounted, fresh, known, changes>> /\ kills' \in 0..MaxKills
  BY CredentialsAssumption DEF Crash, TypeInv, Shared
<1> QED BY <1>1, <1>2, TypeKeeps DEF Ended, MayDraw

LEMMA RingType ==
  ASSUME TypeInv, KeyringChanges
  PROVE  TypeInv'
<1>1. UNCHANGED <<setting, stored, file, cipher, mounted, fresh, known, kills, proc>> /\ ring' \in Rings
      /\ changes' \in 0..MaxChanges
  BY CredentialsAssumption DEF KeyringChanges, TypeInv, Shared, Rings
<1>2. Shared' /\ Jobs'
  BY <1>1 DEF TypeInv, Shared, Jobs
<1>3. Counted'
  BY <1>1 DEF TypeInv, Counted, Drawers, MayDraw
<1>4. \A p \in Procs : Routed(proc[p])' /\ Firm(proc[p])'
  BY <1>1 DEF TypeInv, Routed, Firm
<1> QED BY <1>2, <1>3, <1>4 DEF TypeInv

LEMMA TypeStep ==
  ASSUME TypeInv, [Next]_vars
  PROVE  TypeInv'
<1>1. CASE UNCHANGED vars
  <2>1. UNCHANGED <<setting, ring, stored, file, cipher, mounted, fresh, known, kills, changes, proc>>
    BY <1>1 DEF vars
  <2>2. Shared' /\ Jobs'
    BY <2>1 DEF TypeInv, Shared, Jobs
  <2>3. Counted'
    BY <2>1 DEF TypeInv, Counted, Drawers, MayDraw
  <2>4. \A p \in Procs : Routed(proc[p])' /\ Firm(proc[p])'
    BY <2>1 DEF TypeInv, Routed, Firm
  <2> QED BY <2>2, <2>3, <2>4 DEF TypeInv
<1>2. ASSUME NEW p \in Procs, Begin(p) \/ Step(p) \/ Prompt(p) \/ Crash(p)
      PROVE  TypeInv'
  BY <1>2, BeginType, PlanType, ReadyType, SelectType, GetType, FallbackType, AgainType, PutType, LoadType,
     SaveType, MigrateReadType, MigrateProbeType, MigrateNextType, ExecType, PromptType, CrashType DEF Step
<1> QED BY <1>1, <1>2, RingType DEF Next

LEMMA TypeInit ==
  ASSUME Init
  PROVE  TypeInv
<1>1. 1 \in Value /\ 0 \in Value /\ Cardinality(Procs) \in Nat /\ MaxKills \in Nat /\ MaxChanges \in Nat
  BY ValueFacts, CredentialsAssumption DEF Value
<1>2. PICK old \in {{}} \cup {{v} : v \in Volumes} :
        /\ cipher = [v \in Volumes |-> IF v \in old THEN 1 ELSE 0]
        /\ file = [Empty EXCEPT !.plain = [b \in Boxes |-> IF Of(b) \cap old # {} THEN 1 ELSE 0]]
  BY DEF Init
<1>3. cipher \in [Volumes -> Value]
  BY <1>1, <1>2
<1>4. file \in File
  BY <1>1, <1>2 DEF File, Empty
<1>5. stored \in [Boxes -> Value]
  BY <1>1 DEF Init
<1>6. Shared
  BY <1>1, <1>3, <1>4, <1>5 DEF Shared, Init
<1>7. Jobs /\ \A p \in Procs : proc[p] = Idle
  BY IdleFacts DEF Jobs, Init
<1>8. Routed(Idle) /\ Firm(Idle)
  BY IdleFacts DEF Routed, Firm, Ended
<1>9. Counted
  <2>1. IsFiniteSet(Drawers) /\ Cardinality(Drawers) <= Cardinality(Procs)
    BY CredentialsAssumption, FS_Subset DEF Drawers
  <2>2. fresh = 2 /\ Cardinality(Drawers) \in Nat
    BY DrawersFinite DEF Init
  <2> QED BY <1>1, <2>1, <2>2 DEF Counted
<1> QED BY <1>6, <1>7, <1>8, <1>9 DEF TypeInv

\* The state keeps its type, whatever overlaps, fails or is killed: a value that is drawn is one of
\* those the processes can draw, and a mounted volume is an encrypted one.
THEOREM TypeCorrect == Spec => []TypeOK
<1>1. Init => TypeInv
  BY TypeInit
<1>2. TypeInv /\ [Next]_vars => TypeInv'
  BY TypeStep
<1>3. TypeInv => TypeOK
  BY DEF TypeInv, Shared, Jobs, TypeOK
<1> QED BY <1>1, <1>2, <1>3, PTL DEF Spec

-----------------------------------------------------------------------------
(* All of it: what a process p that becomes m has done.                    *)

Readied(p, m) ==
  /\ proc[p].pc = "ready" /\ Like(m, proc[p], {"pc", "cmd"})
  /\ (m.pc = "done" /\ m.cmd = proc[p].cmd) \/ (m.pc = "plan" /\ m.cmd = "unmount")

Loads(p, m) ==
  proc[p].pc = "load" /\ Like(m, proc[p], {"pc", "cfg"}) /\ m.pc = "save" /\ m.cfg = file

Reads(p, m) ==
  /\ proc[p].pc = "read" /\ Like(m, proc[p], {"pc", "old", "keys"})
  /\ m.pc \in {"probe", "done"} /\ m.old = file /\ m.keys = {b \in Boxes : file.plain[b] # 0}

Probes(p, m) ==
  /\ proc[p].pc = "probe" /\ Like(m, proc[p], {"pc", "store"})
  /\ m.pc \in {"next", "done"} /\ m.store = "keyring"

Crashed(p, m) == Active(p) /\ m.pc = "done" /\ Like(m, proc[p], {"pc"})

\* A step of a command that has begun, by what it may change.
Works(p, m) ==
  \/ Planned(p, m) \/ Readied(p, m) \/ Selects(p, m) \/ Gets(p, m) \/ FallsBack(p, m) \/ Resets(p, m)
  \/ Types(p, m) \/ Loads(p, m) \/ Reads(p, m) \/ Probes(p, m) \/ NextKey(p, m) \/ Crashed(p, m)

\* The operator has typed at most one passphrase more.
Learnt == known' = known \/ \E x \in Value : known' = known \cup {x}

Does(p, m) ==
  /\ \/ Works(p, m) /\ UNCHANGED <<stored, file, cipher, mounted>>
     \/ Puts(p, m) /\ UNCHANGED <<file, cipher, mounted, known>>
     \/ Saves(p, m) /\ UNCHANGED <<stored, cipher, mounted, known>>
     \/ Executes(p, m) /\ UNCHANGED <<stored, file, known>>
  /\ UNCHANGED <<setting, ring>> /\ known \subseteq known' /\ Learnt

Acts(p) == Step(p) \/ Prompt(p) \/ Crash(p)

LEMMA ActsEffect ==
  ASSUME TypeInv, NEW p \in Procs, Acts(p)
  PROVE  \E m \in Job : Become(p, m) /\ Does(p, m)
<1>0. known' = known => known \subseteq known' /\ Learnt
  BY DEF Learnt
<1>1. CASE Plan(p)
  <2>1. PICK m \in Job : Become(p, m) /\ Planned(p, m)
    BY <1>1, PlanEffect
  <2>2. m.new \in Value
    BY JobFields
  <2>3. known \subseteq known' /\ Learnt
    BY <2>1, <2>2 DEF Planned, Learnt
  <2> QED BY <1>1, <2>1, <2>3 DEF Does, Works, Plan
<1>2. CASE Ready(p)
  BY <1>0, <1>2, ReadyEffect DEF Does, Works, Readied, Ready
<1>3. CASE Select(p)
  <2>1. PICK m \in Job : Become(p, m) /\ Selects(p, m)
    BY <1>3, SelectEffect
  <2>2. UNCHANGED <<setting, ring, stored, file, cipher, mounted, fresh, known, kills, changes>>
    BY <1>3, ZenonT(60) DEF Select
  <2> QED BY <1>0, <2>1, <2>2 DEF Does, Works
<1>4. CASE Get(p)
  BY <1>0, <1>4, GetEffect DEF Does, Works, Get
<1>5. CASE Fallback(p)
  BY <1>0, <1>5, FallbackEffect DEF Does, Works, Fallback
<1>6. CASE Again(p)
  <2>1. PICK m \in Job : Become(p, m) /\ Resets(p, m)
    BY <1>6, AgainEffect
  <2>2. UNCHANGED <<setting, ring, stored, file, cipher, mounted, fresh, known, kills, changes>>
    BY <1>6, ZenonT(60) DEF Again
  <2> QED BY <1>0, <2>1, <2>2 DEF Does, Works
<1>7. CASE Put(p)
  BY <1>0, <1>7, PutEffect DEF Does, Put
<1>8. CASE Load(p)
  BY <1>0, <1>8, LoadEffect DEF Does, Works, Loads, Load
<1>9. CASE Save(p)
  BY <1>0, <1>9, SaveEffect DEF Does, Save
<1>10. CASE MigrateRead(p)
  BY <1>0, <1>10, MigrateReadEffect DEF Does, Works, Reads, MigrateRead
<1>11. CASE MigrateProbe(p)
  BY <1>0, <1>11, MigrateProbeEffect DEF Does, Works, Probes, MigrateProbe
<1>12. CASE MigrateNext(p)
  BY <1>0, <1>12, MigrateNextEffect DEF Does, Works, MigrateNext
<1>13. CASE Exec(p)
  BY <1>0, <1>13, ExecEffect DEF Does, Exec
<1>14. CASE Prompt(p)
  <2>1. PICK m \in Job : Become(p, m) /\ Types(p, m)
    BY <1>14, PromptEffect
  <2>2. m.pass \in Value
    BY JobFields
  <2>3. known \subseteq known' /\ Learnt
    BY <2>1, <2>2 DEF Types, Learnt
  <2> QED BY <1>14, <2>1, <2>3 DEF Does, Works, Prompt
<1>15. CASE Crash(p)
  BY <1>0, <1>15, CrashEffect DEF Does, Works, Crashed, Crash
<1> QED BY <1>1, <1>2, <1>3, <1>4, <1>5, <1>6, <1>7, <1>8, <1>9, <1>10, <1>11, <1>12, <1>13, <1>14, <1>15
        DEF Acts, Step

\* Begin, in the same form.
Begins(p, m) ==
  /\ \E c \in AllCommands, b \in Boxes : Begun(p, c, b, m)
  /\ UNCHANGED <<setting, ring, stored, file, cipher, mounted>> /\ known \subseteq known' /\ Learnt

LEMMA BeginsEffect ==
  ASSUME TypeInv, NEW p \in Procs, Begin(p)
  PROVE  \E m \in Job : Become(p, m) /\ Begins(p, m)
<1>1. PICK c \in AllCommands, b \in Boxes, m \in Job : Become(p, m) /\ Begun(p, c, b, m)
  BY BeginEffect
<1>2. known \subseteq known' /\ Learnt
  <2>1. m.pass \in Value
    BY JobFields
  <2> QED BY <1>1, <2>1 DEF Begun, Learnt
<1>3. UNCHANGED <<setting, ring, stored, file, cipher, mounted>>
  BY DEF Begin
<1> QED BY <1>1, <1>2, <1>3 DEF Begins

\* Who acts is at work, and stays what it is; a set up may become an unmount.
LEMMA Same ==
  ASSUME TypeInv, NEW p \in Procs, NEW m \in Job, Does(p, m)
  PROVE  /\ Active(p) /\ m.had = proc[p].had
         /\ m.cmd = proc[p].cmd \/ (m.cmd = "unmount" /\ proc[p].cmd \in {"config", "start"})
         /\ m.box = proc[p].box \/ proc[p].cmd = "migrate"
<1> DEFINE j == proc[p]
<1>0. Routed(j)
  BY Before
<1>1. CASE Readied(p, m)
  BY <1>0, <1>1 DEF Readied, Like, Fields, Active, Ended, Routed
<1>2. CASE NextKey(p, m)
  BY <1>0, <1>2 DEF NextKey, Like, Fields, Active, Ended, Routed
<1>3. CASE Planned(p, m)
  BY <1>3 DEF Planned, Like, Fields, Active, Ended
<1>4. CASE Selects(p, m)
  BY <1>4 DEF Selects, Like, Fields, Active, Ended
<1>5. CASE Gets(p, m)
  BY <1>5 DEF Gets, Finds, Misses, Falls, Like, Fields, Active, Ended
<1>6. CASE FallsBack(p, m)
  BY <1>6 DEF FallsBack, Finds, Misses, Like, Fields, Active, Ended
<1>7. CASE Resets(p, m)
  BY <1>7 DEF Resets, Like, Fields, Active, Ended
<1>8. CASE Types(p, m)
  BY <1>8 DEF Types, Like, Fields, Active, Ended
<1>9. CASE Loads(p, m) \/ Reads(p, m) \/ Probes(p, m) \/ Crashed(p, m)
  BY <1>9 DEF Loads, Reads, Probes, Crashed, Like, Fields, Active, Ended
<1>10. CASE Puts(p, m)
  BY <1>10 DEF Puts, Like, Fields, Active, Ended
<1>11. CASE Saves(p, m)
  BY <1>11 DEF Saves, Like, Fields, Active, Ended
<1>12. CASE Executes(p, m)
  BY <1>12 DEF Executes, Like, Fields, Active, Ended
<1> QED BY <1>1, <1>2, <1>3, <1>4, <1>5, <1>6, <1>7, <1>8, <1>9, <1>10, <1>11, <1>12 DEF Does, Works


-----------------------------------------------------------------------------
(* Commands that change credentials are kept apart: what one of them has   *)
(* read of config.yml is what is there.                                    *)

Apart == "overlap" \notin Faults

Compatible(c, d) == {"migrate", "set", "delete"} \cap {c, d} = {} /\ ~({c, d} \subseteq Writers)

Pairs ==
  \A p, q \in Procs : p # q /\ Active(p) /\ Active(q) => Compatible(proc[p].cmd, proc[q].cmd)

\* A writer saves a copy of what is there.
Copied(j) == j.pc = "save" /\ j.edit # "clear" => j.cfg = file

\* The store of a command follows from the configured backend, but for its errors.
Wired(j) ==
  /\ j.pc = "fallback" => setting.backend # "config"
  /\ j.pc \in {"get", "put"} /\ j.store = "keyring" /\ j.cmd # "migrate" => setting.backend # "config"
  /\ j.pc = "get" /\ j.store = "config" /\ ~j.err => setting.backend = "config"

Kept ==
  /\ TypeInv /\ Pairs
  /\ \A p \in Procs : Copied(proc[p]) /\ Wired(proc[p])

\* A process after its step: at work, or nothing is left of its command.
LEMMA Result ==
  ASSUME TypeInv, NEW p \in Procs, NEW m \in Job, Become(p, m)
  PROVE  /\ \A q \in Procs \ {p} : proc'[q] = proc[q]
         /\ \E k \in Job :
              /\ proc'[p] = k
              /\ \/ m.pc \notin Ended /\ k = m
                 \/ k.pc \in Ended /\ k.cmd = "none" /\ k.had = FALSE /\ k.pc = m.pc
<1>1. /\ \A q \in Procs \ {p} : proc'[q] = proc[q]
      /\ m.pc \notin Ended => proc'[p] = m
      /\ m.pc \in Ended => proc'[p] = [Idle EXCEPT !.pc = m.pc]
  BY BecomeEffect DEF TypeInv
<1>2. CASE m.pc \notin Ended
  BY <1>1, <1>2
<1>3. CASE m.pc \in Ended
  <2> DEFINE k == [Idle EXCEPT !.pc = m.pc]
  <2>1. Like(k, Idle, {"pc"}) /\ k.pc = m.pc /\ k.cmd = "none"
    BY <1>3, EndedJob
  <2>2. proc'[p] = k
    BY <1>1, <1>3
  <2> HIDE DEF k
  <2>3. k.had = FALSE /\ k \in Job
    BY <2>1, IdleFacts DEF Like, Fields
  <2> QED BY <1>1, <1>3, <2>1, <2>2, <2>3
<1> QED BY <1>2, <1>3

\* What a command at work may meet of another one.
LEMMA Alongside ==
  ASSUME Kept, Apart, NEW p \in Procs, NEW m \in Job, Does(p, m) \/ Begins(p, m), NEW q \in Procs \ {p}, Active(q)
  PROVE  /\ proc[q].cmd \notin {"migrate", "set", "delete"}
         /\ proc[q].cmd \in Writers => stored' = stored /\ file' = file
         /\ Does(p, m) => proc[p].cmd \notin {"migrate", "set", "delete"}
<1>1. CASE Does(p, m)
  <2>1. Active(p) /\ Compatible(proc[p].cmd, proc[q].cmd) /\ Routed(proc[p]) /\ proc[p] \in Job
    BY <1>1, Same, Before DEF Kept, Pairs
  <2>2. Puts(p, m) \/ Saves(p, m) => proc[p].cmd \in Writers
    <3>1. proc[p].edit \in Kinds
      BY <2>1, JobFields
    <3> QED BY <2>1, <3>1 DEF Puts, Saves, Routed, Writers, Kinds
  <2>3. stored' # stored \/ file' # file => proc[p].cmd \in Writers
    BY <1>1, <2>2 DEF Does
  <2> QED BY <2>1, <2>3 DEF Compatible
<1>2. CASE Begins(p, m)
  <2>1. PICK c \in AllCommands, b \in Boxes : Begun(p, c, b, m)
    BY <1>2 DEF Begins
  <2>2. Compatible(c, proc[q].cmd)
    BY <2>1 DEF Begun, Alone, Apart, Compatible
  <2>3. ~Does(p, m)
    BY <2>1, Same DEF Begun, Active, Kept
  <2> QED BY <1>2, <2>2, <2>3 DEF Compatible, Begins
<1> QED BY <1>1, <1>2

LEMMA BeginFields ==
  ASSUME TypeInv, NEW p \in Procs, NEW m \in Job, Begins(p, m)
  PROVE  /\ m.pc \in {"plan", "select", "read", "load"} /\ m.dead = FALSE /\ m.store = "none"
         /\ m.pc = "load" => m.cmd = "settings" /\ m.edit = "settings"
         /\ m.cmd \in AllCommands /\ m.pc = Entry(m.cmd)
<1>1. PICK c \in AllCommands, b \in Boxes : Begun(p, c, b, m)
  BY DEF Begins
<1>2. m.pc = Entry(c) /\ m.cmd = c /\ m.edit = (IF c = "settings" THEN "settings" ELSE "none")
      /\ m.dead = Idle.dead /\ m.store = Idle.store
  BY <1>1 DEF Begun, Like, Fields
<1> QED BY <1>2, IdleFacts DEF Entry, AllCommands

LEMMA OwnKept ==
  ASSUME Kept, Apart, NEW p \in Procs, NEW m \in Job, Does(p, m) \/ Begins(p, m)
  PROVE  Copied(m)' /\ Wired(m)'
<1> DEFINE j == proc[p]
<1>0. /\ TypeInv /\ Copied(j) /\ Wired(j) /\ Routed(j) /\ j \in Job
      /\ setting' = setting
  BY Before DEF Kept, Does, Begins
<1>1. CASE Begins(p, m)
  BY <1>0, <1>1, BeginFields DEF Copied, Wired
<1>2. CASE Planned(p, m) \/ Readied(p, m) \/ Resets(p, m) \/ Types(p, m) \/ Reads(p, m) \/ Probes(p, m)
           \/ Crashed(p, m) \/ Executes(p, m)
  <2>1. m.pc \notin {"save", "get", "put", "fallback"}
    BY <1>2 DEF Planned, Readied, Resets, Types, Reads, Probes, Crashed, Executes, Like, Fields
  <2> QED BY <2>1 DEF Copied, Wired
<1>3. CASE Selects(p, m)
  <2>1. /\ m.pc \in {"get", "put"} /\ m.cmd = j.cmd
        /\ \/ setting.backend = "config" /\ m.store = "config"
           \/ setting.backend # "config" /\ m.store = "keyring"
           \/ setting.backend # "config" /\ m.store = "config" /\ m.err = TRUE
    BY <1>3 DEF Selects, Like, Fields
  <2> QED BY <1>0, <2>1 DEF Copied, Wired
<1>4. CASE Gets(p, m) \/ FallsBack(p, m)
  <2>1. CASE Falls(p, m) /\ j.pc = "get"
    BY <1>0, <2>1 DEF Falls, Copied, Wired, Routed
  <2>2. ASSUME NEW source, Misses(p, source, m), j.pc \in {"get", "fallback"}
        PROVE  Copied(m)' /\ Wired(m)'
    <3>1. m.store = j.store /\ m.cmd = j.cmd /\ m.pc \notin {"get", "fallback", "save"}
      BY <1>0, <2>2, UnmountablePc DEF Misses, Like, Fields
    <3> QED BY <1>0, <2>2, <3>1 DEF Copied, Wired
  <2>3. ASSUME NEW val, Finds(p, val, m)
        PROVE  Copied(m)' /\ Wired(m)'
    BY <2>3 DEF Finds, Copied, Wired
  <2> QED BY <1>4, <2>1, <2>2, <2>3 DEF Gets, FallsBack
<1>5. CASE Loads(p, m) /\ file' = file
  BY <1>5 DEF Loads, Copied, Wired
<1>6. CASE Puts(p, m) \/ Saves(p, m)
  <2>1. After(j) \in {"exec", "next", "done"}
    BY AfterPc
  <2>2. m.pc \notin {"save", "get", "put", "fallback"}
    BY <1>6, <2>1 DEF Puts, Saves
  <2> QED BY <2>2 DEF Copied, Wired
<1>7. CASE NextKey(p, m)
  <2>1. /\ m.cmd = "migrate" /\ m.pc \in {"put", "save", "done"} /\ (m.pc = "save" => m.edit = "clear")
    BY <1>0, <1>7 DEF NextKey, Like, Fields, Routed
  <2> QED BY <2>1 DEF Copied, Wired
<1> QED BY <1>1, <1>2, <1>3, <1>4, <1>5, <1>6, <1>7 DEF Does, Works

LEMMA PairsKeep ==
  ASSUME Kept, Apart, NEW p \in Procs, NEW m \in Job, Become(p, m), Does(p, m) \/ Begins(p, m)
  PROVE  Pairs'
<1>1. PICK k \in Job : /\ proc'[p] = k
                       /\ \/ m.pc \notin Ended /\ k = m
                          \/ k.pc \in Ended /\ k.cmd = "none"
  BY Result DEF Kept
<1>2. \A q \in Procs \ {p} : proc'[q] = proc[q]
  BY Result DEF Kept
<1>3. ASSUME NEW q \in Procs \ {p}, Active(p)', Active(q)
      PROVE  Compatible(m.cmd, proc[q].cmd)
  <2>1. CASE Does(p, m)
    <3>1. Active(p) /\ (m.cmd = proc[p].cmd \/ (m.cmd = "unmount" /\ proc[p].cmd \in {"config", "start"}))
      BY <2>1, Same DEF Kept
    <3>2. Compatible(proc[p].cmd, proc[q].cmd)
      BY <1>3, <3>1 DEF Kept, Pairs
    <3> QED BY <3>1, <3>2 DEF Compatible, Writers
  <2>2. CASE Begins(p, m)
    <3>1. PICK c \in AllCommands, b \in Boxes : Begun(p, c, b, m)
      BY <2>2 DEF Begins
    <3> QED BY <1>3, <3>1 DEF Begun, Alone, Apart, Compatible
  <2> QED BY <2>1, <2>2
<1>4. ASSUME NEW q \in Procs \ {p}, Active(p)', Active(q)'
      PROVE  Compatible(proc'[p].cmd, proc'[q].cmd) /\ Compatible(proc'[q].cmd, proc'[p].cmd)
  <2>1. Active(q) /\ proc'[q] = proc[q] /\ proc'[p] = m
    BY <1>1, <1>2, <1>4 DEF Active
  <2> QED BY <1>3, <1>4, <2>1 DEF Compatible
<1>5. ASSUME NEW q \in Procs \ {p}, NEW r \in Procs \ {p}, q # r, Active(q)', Active(r)'
      PROVE  Compatible(proc'[q].cmd, proc'[r].cmd)
  BY <1>2, <1>5 DEF Kept, Pairs, Active
<1> QED BY <1>4, <1>5 DEF Pairs

LEMMA KeptActs ==
  ASSUME Kept, Apart, TypeInv', NEW p \in Procs, NEW m \in Job, Become(p, m), Does(p, m) \/ Begins(p, m)
  PROVE  Kept'
<1>1. Pairs'
  BY PairsKeep
<1>2. Copied(proc[p])' /\ Wired(proc[p])'
  <2>0. TypeInv
    BY DEF Kept
  <2>1. PICK k \in Job : /\ proc'[p] = k
                         /\ \/ m.pc \notin Ended /\ k = m
                            \/ k.pc \in Ended /\ k.cmd = "none" /\ k.had = FALSE /\ k.pc = m.pc
    BY <2>0, Result
  <2>2. Copied(k)' /\ Wired(k)'
    BY <2>1, OwnKept DEF Copied, Wired, Ended
  <2> QED BY <2>1, <2>2 DEF Copied, Wired
<1>3. ASSUME NEW q \in Procs \ {p}
      PROVE  Copied(proc[q])' /\ Wired(proc[q])'
  <2>1. proc'[q] = proc[q] /\ setting' = setting /\ Copied(proc[q]) /\ Wired(proc[q])
        /\ Routed(proc[q]) /\ proc[q] \in Job
    BY Result, Before DEF Kept, Does, Begins
  <2>2. Wired(proc[q])'
    BY <2>1 DEF Wired
  <2>3. CASE proc[q].pc = "save" /\ proc[q].edit # "clear"
    <3>1. proc[q].edit \in Kinds
      BY <2>1, JobFields
    <3>2. Active(q) /\ proc[q].cmd \in Writers
      BY <2>1, <2>3, <3>1 DEF Active, Ended, Routed, Writers, Kinds
    <3>3. file' = file
      BY <3>2, Alongside
    <3> QED BY <2>1, <2>2, <3>3 DEF Copied
  <2> QED BY <2>1, <2>2, <2>3 DEF Copied
<1> QED BY <1>1, <1>2, <1>3 DEF Kept

LEMMA KeptStill ==
  ASSUME Kept, TypeInv', UNCHANGED <<setting, file, proc>>
  PROVE  Kept'
<1>1. Pairs'
  BY DEF Kept, Pairs, Active
<1>2. \A p \in Procs : Copied(proc[p])' /\ Wired(proc[p])'
  BY DEF Kept, Copied, Wired
<1> QED BY <1>1, <1>2 DEF Kept

\* A step, by who takes it.
LEMMA WhoSteps ==
  ASSUME TypeInv, [Next]_vars
  PROVE  \/ UNCHANGED vars
         \/ KeyringChanges
         \/ \E p \in Procs, m \in Job : Become(p, m) /\ (Does(p, m) \/ Begins(p, m))
<1>1. ASSUME NEW p \in Procs, Begin(p)
      PROVE  \E m \in Job : Become(p, m) /\ (Does(p, m) \/ Begins(p, m))
  BY <1>1, BeginsEffect
<1>2. ASSUME NEW p \in Procs, Acts(p)
      PROVE  \E m \in Job : Become(p, m) /\ (Does(p, m) \/ Begins(p, m))
  BY <1>2, ActsEffect
<1> QED BY <1>1, <1>2 DEF Next, Acts

LEMMA KeptStep ==
  ASSUME Kept, Apart, [Next]_vars
  PROVE  Kept'
<1>1. TypeInv'
  BY TypeStep DEF Kept
<1>2. CASE UNCHANGED vars
  BY <1>1, <1>2, KeptStill DEF vars
<1>3. CASE KeyringChanges
  BY <1>1, <1>3, KeptStill DEF KeyringChanges
<1> QED BY <1>1, <1>2, <1>3, WhoSteps, KeptActs DEF Kept

LEMMA KeptInit ==
  ASSUME Init
  PROVE  Kept
<1>1. TypeInv
  BY TypeInit
<1>2. \A p \in Procs : proc[p].pc = "idle"
  BY IdleFacts DEF Init
<1> QED BY <1>1, <1>2 DEF Kept, Pairs, Active, Copied, Wired

-----------------------------------------------------------------------------
(* A mount under systemd.                                                  *)

Steady == "vanish" \notin Faults

\* What a mount knew of its credential when it began is still so where it looks.
Awaited(j) ==
  /\ j.had => j.cmd = "mount" /\ Resolved(j.box) # 0
  /\ j.had /\ j.pc = "fallback" /\ j.source = "default" => file.plain[j.box] # 0
  /\ j.pc = "get" /\ j.store = "keyring" => ring # "absent"

Waiting == Kept /\ \A p \in Procs : Awaited(proc[p])

\* config.yml after a save of a command that is neither a removal nor a migration.
LEMMA SavedFile ==
  ASSUME Kept, NEW p \in Procs, NEW m \in Job, Saves(p, m)
  PROVE  LET j == proc[p]
         IN  /\ j.edit \in {"index", "settings"} => file'.plain = file.plain
             /\ j.edit = "plain" => /\ j.cmd \in {"config", "provision", "set", "delete", "migrate"}
                                    /\ file'.plain = [file.plain EXCEPT ![j.box] = j.pass]
             /\ j.edit = "clear" => j.cmd = "migrate" /\ file'.plain = [b \in Boxes |-> 0]
             /\ j.edit \in {"plain", "index", "settings", "clear"} /\ j.pc = "save"
<1> DEFINE j == proc[p]
<1>0. TypeInv /\ Copied(j)
  BY DEF Kept
<1>1. j \in Job /\ Routed(j) /\ j.pc = "save" /\ file' = Edited(j)
  BY <1>0, Before DEF Saves
<1>2. j.edit \in {"plain", "index", "settings", "clear"} /\ file \in File /\ j.box \in Boxes /\ j.old \in File
  BY <1>0, <1>1, JobFields DEF Routed, Kinds, TypeInv, Shared
<1>3. /\ j.edit = "clear" => j.cmd = "migrate"
      /\ j.edit # "clear" => j.cfg = file
      /\ j.edit = "plain" => j.cmd \in {"config", "provision", "set", "delete", "migrate"}
  BY <1>0, <1>1 DEF Copied, Routed
<1> HIDE DEF j
<1>4. ASSUME j.edit = "index"
      PROVE  file'.plain = file.plain
  <2>1. Edited(j) = [file EXCEPT !.index = IF j.cmd = "delete" THEN @ \ {j.box} ELSE @ \cup {j.box}]
    BY <1>3, <1>4 DEF Edited
  <2> QED BY <1>1, <1>2, <2>1 DEF File
<1>5. ASSUME j.edit = "plain"
      PROVE  file'.plain = [file.plain EXCEPT ![j.box] = j.pass]
  <2>1. Edited(j) = [file EXCEPT !.plain[j.box] = j.pass]
    BY <1>3, <1>5 DEF Edited
  <2> QED BY <1>1, <1>2, <2>1 DEF File
<1>6. ASSUME j.edit = "clear"
      PROVE  file'.plain = [b \in Boxes |-> 0]
  <2>1. Edited(j) = [j.old EXCEPT !.plain = Empty.plain]
    BY <1>6 DEF Edited
  <2>2. Empty.plain = [b \in Boxes |-> 0]
    BY DEF Empty
  <2> QED BY <1>1, <1>2, <2>1, <2>2 DEF File
<1>7. ASSUME j.edit = "settings"
      PROVE  file'.plain = file.plain
  <2>1. Edited(j) = j.cfg
    BY <1>7 DEF Edited
  <2> QED BY <1>1, <1>3, <1>7, <2>1
<1> QED BY <1>1, <1>2, <1>3, <1>4, <1>5, <1>6, <1>7 DEF j

\* What a removal or a migration does not touch is not lost.
LEMMA Grows ==
  ASSUME Kept, Apart, NEW p \in Procs, NEW m \in Job, Does(p, m) \/ Begins(p, m),
         Does(p, m) => proc[p].cmd \notin {"migrate", "set", "delete"}, NEW b \in Boxes
  PROVE  /\ file.plain[b] # 0 => file'.plain[b] # 0
         /\ Resolved(b) # 0 => Resolved(b)' # 0
<1> DEFINE j == proc[p]
<1>0. TypeInv /\ setting' = setting
  BY DEF Kept, Does, Begins
<1>1. j \in Job /\ Routed(j) /\ Firm(j) /\ j.box \in Boxes /\ file.plain \in [Boxes -> Value]
      /\ stored \in [Boxes -> Value]
  BY <1>0, Before, JobFields, HeldValues DEF TypeInv, Shared
<1>2. file.plain[b] # 0 => file'.plain[b] # 0
  <2>1. CASE file' = file
    BY <2>1
  <2>2. CASE Saves(p, m) /\ Does(p, m)
    <3>1. CASE j.edit \in {"index", "settings"}
      BY <2>2, <3>1, SavedFile
    <3>2. CASE j.edit = "plain"
      <4>1. /\ file'.plain = [file.plain EXCEPT ![j.box] = j.pass] /\ j.pc = "save"
            /\ j.cmd \in {"config", "provision", "set", "delete", "migrate"}
        BY <2>2, <3>2, SavedFile
      <4>2. j.pass # 0
        BY <1>1, <2>2, <4>1 DEF Firm
      <4> QED BY <1>1, <4>1, <4>2
    <3>3. CASE j.edit = "clear"
      BY <2>2, <3>3, SavedFile
    <3> QED BY <2>2, <3>1, <3>2, <3>3, SavedFile
  <2> QED BY <2>1, <2>2 DEF Does, Begins
<1>3. stored[b] # 0 => stored'[b] # 0
  <2>1. CASE stored' = stored
    BY <2>1
  <2>2. CASE Puts(p, m) /\ Does(p, m)
    <3>1. j.pc = "put" /\ (stored' = stored \/ stored' = [stored EXCEPT ![j.box] = j.pass])
      BY <2>2 DEF Puts
    <3>2. j.pass # 0
      BY <1>1, <2>2, <3>1 DEF Firm, Routed
    <3> QED BY <1>1, <3>1, <3>2
  <2> QED BY <2>1, <2>2 DEF Does, Begins
<1> QED BY <1>0, <1>2, <1>3 DEF Resolved

LEMMA OwnAwaited ==
  ASSUME Waiting, Apart, NEW p \in Procs, NEW m \in Job, Does(p, m) \/ Begins(p, m), m.pc \notin Ended
  PROVE  Awaited(m)'
<1> DEFINE j == proc[p]
<1>0. Kept /\ TypeInv /\ Awaited(j) /\ Wired(j) /\ Routed(j) /\ j \in Job /\ setting' = setting /\ ring' = ring
      /\ j.box \in Boxes
  BY Before, JobFields DEF Waiting, Kept, Does, Begins
<1>1. CASE Begins(p, m)
  <2>1. PICK c \in AllCommands, b \in Boxes : Begun(p, c, b, m)
    BY <1>1 DEF Begins
  <2>2. (m.had => m.cmd = "mount" /\ Resolved(m.box) # 0) /\ m.pc \notin {"get", "fallback"}
    BY <1>0, <1>1, <2>1, BeginFields DEF Begun
  <2>3. UNCHANGED <<setting, stored, file>>
    BY <1>1 DEF Begins
  <2> QED BY <2>2, <2>3 DEF Awaited, Resolved
<1>2. CASE Does(p, m)
  <2>1. /\ m.had = j.had /\ Active(p)
        /\ m.cmd = j.cmd \/ (m.cmd = "unmount" /\ j.cmd \in {"config", "start"})
        /\ m.box = j.box \/ j.cmd = "migrate"
    BY <1>0, <1>2, Same
  <2>2. m.had => m.cmd = "mount" /\ m.box = j.box /\ j.cmd = "mount" /\ Resolved(j.box) # 0
    BY <1>0, <2>1 DEF Awaited
  <2>3. m.had => m.cmd = "mount" /\ Resolved(m.box)' # 0
    <3>1. CASE j.cmd = "mount"
      <4>1. \A b \in Boxes : Resolved(b) # 0 => Resolved(b)' # 0
        BY <1>0, <1>2, <3>1, Grows
      <4>2. m.box \in Boxes
        BY JobFields
      <4>3. Resolved(m.box) # 0 => Resolved(m.box)' # 0
        BY <4>1, <4>2
      <4> QED BY <2>2, <4>3
    <3> QED BY <2>2, <3>1
  <2>4. CASE Falls(p, m) /\ j.pc = "get" /\ file' = file
    <3>1. m.pc = "fallback" /\ m.box = j.box /\ ring # "absent"
      BY <1>0, <2>4 DEF Falls, Like, Fields, Awaited
    <3>2. m.had /\ m.source = "default" => file.plain[j.box] # 0
      <4>1. m.source = "default" => stored[j.box] = 0
        BY <2>4, <3>1 DEF Falls
      <4>2. m.had => Resolved(j.box) # 0
        BY <1>0, <2>1 DEF Awaited
      <4> QED BY <4>1, <4>2 DEF Resolved
    <3> QED BY <2>3, <2>4, <3>1, <3>2 DEF Awaited
  <2>5. CASE Selects(p, m)
    <3>1. m.pc # "fallback" /\ (m.pc = "get" /\ m.store = "keyring" => ring # "absent")
      BY <2>5 DEF Selects, Probe
    <3> QED BY <1>0, <2>3, <3>1 DEF Awaited
  <2>6. CASE m.pc \notin {"get", "fallback"}
    BY <2>3, <2>6 DEF Awaited
  <2>7. m.pc \in {"get", "fallback"} => Selects(p, m) \/ (Falls(p, m) /\ j.pc = "get" /\ file' = file)
    <3>1. CASE Gets(p, m) /\ file' = file /\ ~Falls(p, m)
      <4>1. PICK val, source : Finds(p, val, m) \/ Misses(p, source, m)
        BY <3>1 DEF Gets
      <4> QED BY <1>0, <4>1, UnmountablePc DEF Finds, Misses
    <3>2. CASE Gets(p, m) /\ file' = file /\ Falls(p, m)
      BY <3>2 DEF Gets
    <3>3. CASE FallsBack(p, m)
      <4>1. PICK val, source : Finds(p, val, m) \/ Misses(p, source, m)
        BY <3>3 DEF FallsBack
      <4> QED BY <1>0, <4>1, UnmountablePc DEF Finds, Misses
    <3>4. CASE Puts(p, m) \/ Saves(p, m)
      BY <3>4, AfterPc DEF Puts, Saves
    <3>5. CASE Planned(p, m) \/ Readied(p, m) \/ Resets(p, m) \/ Types(p, m) \/ Reads(p, m) \/ Probes(p, m)
               \/ Crashed(p, m) \/ Executes(p, m) \/ Loads(p, m) \/ NextKey(p, m)
      BY <3>5 DEF Planned, Readied, Resets, Types, Reads, Probes, Crashed, Executes, Loads, NextKey, Like, Fields
    <3> QED BY <1>2, <3>1, <3>2, <3>3, <3>4, <3>5 DEF Does, Works
  <2> QED BY <2>4, <2>5, <2>6, <2>7
<1> QED BY <1>1, <1>2

LEMMA WaitingActs ==
  ASSUME Waiting, Apart, Kept', NEW p \in Procs, NEW m \in Job, Become(p, m), Does(p, m) \/ Begins(p, m)
  PROVE  Waiting'
<1>0. Kept /\ TypeInv
  BY DEF Waiting, Kept
<1>1. Awaited(proc[p])'
  <2>1. PICK k \in Job : /\ proc'[p] = k
                         /\ \/ m.pc \notin Ended /\ k = m
                            \/ k.pc \in Ended /\ k.cmd = "none" /\ k.had = FALSE /\ k.pc = m.pc
    BY <1>0, Result
  <2>2. Awaited(k)'
    <3>1. CASE m.pc \notin Ended /\ k = m
      BY <3>1, OwnAwaited
    <3>2. CASE k.pc \in Ended /\ k.had = FALSE
      BY <3>2 DEF Awaited, Ended
    <3> QED BY <2>1, <3>1, <3>2
  <2> QED BY <2>1, <2>2 DEF Awaited, Resolved
<1>2. ASSUME NEW q \in Procs \ {p}
      PROVE  Awaited(proc[q])'
  <2>1. proc'[q] = proc[q] /\ setting' = setting /\ ring' = ring
    BY <1>0, Result DEF Does, Begins
  <2>2. Awaited(proc[q]) /\ proc[q] \in Job /\ proc[q].box \in Boxes /\ Routed(proc[q])
    BY <1>0, Before, JobFields DEF Waiting
  <2>3. CASE proc[q].had
    <3>1. proc[q].cmd = "mount" /\ Active(q)
      BY <2>2, <2>3 DEF Awaited, Active, Routed, Ended
    <3>2. Does(p, m) => proc[p].cmd \notin {"migrate", "set", "delete"}
      BY <1>0, <3>1, Alongside
    <3>3. \A b \in Boxes : /\ file.plain[b] # 0 => file'.plain[b] # 0
                           /\ Resolved(b) # 0 => Resolved(b)' # 0
      BY <1>0, <3>2, Grows
    <3> QED BY <2>1, <2>2, <3>3 DEF Awaited, Resolved
  <2>4. CASE ~proc[q].had
    BY <2>1, <2>2, <2>4 DEF Awaited
  <2> QED BY <2>3, <2>4
<1> QED BY <1>1, <1>2 DEF Waiting

LEMMA WaitingStep ==
  ASSUME Waiting, Apart, Steady, [Next]_vars
  PROVE  Waiting'
<1>0. Kept' /\ TypeInv
  BY KeptStep DEF Waiting, Kept
<1>1. CASE UNCHANGED <<setting, stored, file, proc>> /\ (ring # "absent" => ring' # "absent")
  BY <1>0, <1>1 DEF Waiting, Awaited, Resolved
<1>2. UNCHANGED vars => UNCHANGED <<setting, stored, file, proc>> /\ (ring # "absent" => ring' # "absent")
  BY DEF vars
<1>3. KeyringChanges => UNCHANGED <<setting, stored, file, proc>> /\ (ring # "absent" => ring' # "absent")
  BY DEF KeyringChanges, Steady
<1> QED BY <1>0, <1>1, <1>2, <1>3, WhoSteps, WaitingActs

\* What the property says of one step.
LEMMA TerminalStep ==
  ASSUME Waiting, Apart, [Next]_vars, NEW p \in Procs, proc'[p].pc = "unstored", proc[p].pc # "unstored"
  PROVE  ~proc[p].had \/ Resolved(proc[p].box) = 0
<1> DEFINE j == proc[p]
<1>0. Kept /\ TypeInv /\ Awaited(j) /\ Wired(j) /\ j \in Job
  BY Before DEF Waiting, Kept
<1>1. ~(UNCHANGED vars) /\ ~KeyringChanges
  BY DEF vars, KeyringChanges
<1>2. PICK r \in Procs, n \in Job : Become(r, n) /\ (Does(r, n) \/ Begins(r, n))
  BY <1>0, <1>1, WhoSteps
<1>3. r = p
  <2>1. \A q \in Procs \ {r} : proc'[q] = proc[q]
    BY <1>0, <1>2, Result
  <2> QED BY <2>1
<1>4. n.pc = "unstored"
  <2>1. PICK k \in Job : /\ proc'[r] = k
                         /\ \/ n.pc \notin Ended /\ k = n
                            \/ k.pc \in Ended /\ k.cmd = "none" /\ k.had = FALSE /\ k.pc = n.pc
    BY <1>0, <1>2, Result
  <2> QED BY <1>3, <2>1
<1>5. Does(p, n)
  BY <1>0, <1>2, <1>3, <1>4, BeginFields
<1>6. CASE Gets(p, n)
  <2>1. j.store = "config" /\ file.plain[j.box] = 0 /\ Misses(p, IF j.err THEN "unavailable" ELSE "default", n)
        /\ j.pc = "get"
    BY <1>4, <1>6 DEF Gets, Finds, Falls
  <2>2. setting.backend = "config" \/ ~j.err
    BY <1>0, <1>4, <2>1, UnmountablePc DEF Misses
  <2>3. setting.backend = "config"
    BY <1>0, <2>1, <2>2 DEF Wired
  <2> QED BY <2>1, <2>3 DEF Resolved
<1>7. CASE FallsBack(p, n)
  <2>1. file.plain[j.box] = 0 /\ Misses(p, j.source, n) /\ j.pc = "fallback"
    BY <1>4, <1>7 DEF FallsBack, Finds
  <2>2. setting.backend = "config" \/ j.source = "default"
    BY <1>0, <1>4, <2>1, UnmountablePc DEF Misses
  <2> QED BY <1>0, <2>1, <2>2 DEF Awaited, Resolved
<1>8. ~Puts(p, n) /\ ~Saves(p, n)
  BY <1>4, AfterPc DEF Puts, Saves
<1>9. /\ ~Planned(p, n) /\ ~Readied(p, n) /\ ~Resets(p, n) /\ ~Types(p, n) /\ ~Reads(p, n) /\ ~Probes(p, n)
      /\ ~Crashed(p, n) /\ ~Loads(p, n) /\ ~NextKey(p, n) /\ ~Selects(p, n)
  BY <1>4 DEF Planned, Readied, Resets, Types, Reads, Probes, Crashed, Loads, NextKey, Selects
<1>10. ~Executes(p, n)
  BY <1>4 DEF Executes, Like, Fields
<1> QED BY <1>5, <1>6, <1>7, <1>8, <1>9, <1>10 DEF Does, Works

LEMMA WaitingInit ==
  ASSUME Init
  PROVE  Waiting
BY KeptInit, IdleFacts DEF Waiting, Awaited, Init

\* A mount under systemd fails as `not stored` only for want of a credential, when the commands that
\* change credentials are kept apart and the keyring service stays once it is there.
THEOREM TerminalJustified ==
  ASSUME Apart, Steady
  PROVE  Spec => TerminalJust
<1>1. Init => Waiting
  BY WaitingInit
<1>2. Waiting /\ [Next]_vars => Waiting'
  BY WaitingStep
<1>3. Waiting /\ [Next]_vars =>
        [\A p \in Procs : proc'[p].pc = "unstored" /\ proc[p].pc # "unstored" =>
           ~proc[p].had \/ Resolved(proc[p].box) = 0]_vars
  BY TerminalStep
<1> QED BY <1>1, <1>2, <1>3, PTL DEF Spec, TerminalJust

-----------------------------------------------------------------------------
(* The keyring is open while a command changes a credential: every such    *)
(* command uses the store that is configured.                              *)

Attended == "away" \notin Faults

Near(j) ==
  j.pc \notin Ended /\ j.cmd \in Writers /\ setting.backend # "config" => ring = "open" /\ j.dead = FALSE

Configured == IF setting.backend = "config" THEN "config" ELSE "keyring"
Form       == IF setting.backend = "config" THEN "plain" ELSE "index"

\* What a command that writes has found: nothing to overwrite, or nothing that depends on it.
Chosen(j) ==
  /\ j.cmd \in Writers /\ j.pc \in {"get", "fallback", "put"} /\ j.cmd # "migrate" => j.store = Configured
  /\ j.cmd \in Writers /\ j.pc = "fallback" => stored[j.box] = 0
  /\ j.pc \in {"load", "save"} /\ j.cmd \in {"config", "provision", "set", "delete"} => j.edit = Form
  /\ j.pc = "put" /\ j.cmd \in {"config", "provision"} => Resolved(j.box) = 0
  /\ j.pc \in {"load", "save"} /\ j.cmd \in {"config", "provision"} =>
       /\ setting.backend = "config" => Resolved(j.box) = 0
       /\ setting.backend # "config" => stored[j.box] = j.pass
  /\ j.cmd \in {"set", "delete"} => \A v \in Of(j.box) : cipher[v] = 0

Choosing == Kept /\ \A p \in Procs : Near(proc[p]) /\ Chosen(proc[p])

LEMMA OwnNear ==
  ASSUME Choosing, Attended, NEW p \in Procs, NEW m \in Job, Does(p, m) \/ Begins(p, m)
  PROVE  Near(m)'
<1> DEFINE j == proc[p]
<1>0. /\ TypeInv /\ Near(j) /\ Wired(j) /\ Routed(j) /\ j \in Job /\ setting' = setting /\ ring' = ring
      /\ j.dead \in BOOLEAN
  BY Before, JobFields DEF Choosing, Kept, Does, Begins
<1>1. CASE Begins(p, m)
  <2>1. PICK c \in AllCommands, b \in Boxes : Begun(p, c, b, m)
    BY <1>1 DEF Begins
  <2>2. m.dead = FALSE /\ (m.cmd \in Writers /\ setting.backend # "config" => ring = "open")
    BY <1>0, <1>1, <2>1, BeginFields DEF Begun, Attended
  <2> QED BY <1>0, <2>2 DEF Near
<1>2. CASE Does(p, m)
  <2>1. Active(p) /\ (m.cmd = j.cmd \/ m.cmd = "unmount")
    BY <1>0, <1>2, Same
  <2>2. m.cmd \in Writers => j.cmd \in Writers
    BY <2>1 DEF Writers
  <2>3. j.cmd \in Writers /\ setting.backend # "config" => ring = "open" /\ j.dead = FALSE
    BY <1>0, <2>1 DEF Near, Active
  <2>4. m.dead = j.dead \/ Selects(p, m) \/ Falls(p, m) \/ Resets(p, m) \/ Puts(p, m)
    <3>1. CASE Gets(p, m) \/ FallsBack(p, m)
      BY <3>1 DEF Gets, FallsBack, Finds, Misses, Like, Fields
    <3>2. CASE Saves(p, m) \/ Executes(p, m)
      BY <3>2 DEF Saves, Executes, Like, Fields
    <3>3. CASE Planned(p, m) \/ Readied(p, m) \/ Types(p, m) \/ Reads(p, m) \/ Probes(p, m) \/ Crashed(p, m)
               \/ Loads(p, m) \/ NextKey(p, m)
      BY <3>3 DEF Planned, Readied, Types, Reads, Probes, Crashed, Loads, NextKey, Like, Fields
    <3> QED BY <1>2, <3>1, <3>2, <3>3 DEF Does, Works
  <2>5. m.cmd \in Writers /\ setting.backend # "config" => m.dead = FALSE
    <3>0. m.dead \in BOOLEAN
      BY JobFields
    <3>1. CASE m.dead = j.dead
      BY <2>2, <2>3, <3>1
    <3>2. CASE Selects(p, m)
      <4>1. ring = "open" => Probe = "ok"
        BY DEF Probe
      <4>2. setting.backend # "config" /\ Probe = "ok" => m.dead = j.dead
        BY <3>2 DEF Selects
      <4> QED BY <2>2, <2>3, <4>1, <4>2
    <3>3. CASE Falls(p, m)
      <4>1. m.dead = TRUE => j.dead = TRUE \/ ring = "locked"
        BY <1>0, <3>3 DEF Falls
      <4> QED BY <2>2, <2>3, <3>0, <4>1
    <3>4. CASE Resets(p, m)
      BY <1>0, <2>2, <3>4 DEF Resets, Routed, Writers
    <3>5. CASE Puts(p, m)
      <4>1. m.dead = TRUE => j.dead = TRUE \/ ring = "locked"
        BY <1>0, <3>5 DEF Puts, Like, Fields
      <4> QED BY <2>2, <2>3, <3>0, <4>1
    <3> QED BY <2>4, <3>1, <3>2, <3>3, <3>4, <3>5
  <2> QED BY <1>0, <2>2, <2>3, <2>5 DEF Near
<1> QED BY <1>1, <1>2

\* The steps that lead to a control state a writer is careful in.
LEMMA Careful ==
  ASSUME TypeInv, NEW p \in Procs, NEW m \in Job, Does(p, m), m.pc \in {"get", "fallback", "put", "load", "save"}
  PROVE  \/ Selects(p, m) /\ m.pc \in {"get", "put"}
         \/ proc[p].pc = "get" /\ Falls(p, m)
         \/ /\ proc[p].cmd \in {"config", "provision"} /\ m.pc = "put" /\ Like(m, proc[p], {"pc", "pass"})
            /\ \/ proc[p].pc = "get" /\ proc[p].store = "config" /\ file.plain[proc[p].box] = 0
               \/ proc[p].pc = "fallback" /\ file.plain[proc[p].box] = 0
         \/ Puts(p, m) /\ m.pc = "load"
         \/ Loads(p, m)
         \/ NextKey(p, m) /\ m.cmd = "migrate"
<1> DEFINE j == proc[p]
<1>0. j \in Job /\ Routed(j)
  BY Before
<1>1. CASE Gets(p, m)
  BY <1>0, <1>1, UnmountablePc DEF Gets, Finds, Misses
<1>2. CASE FallsBack(p, m)
  BY <1>0, <1>2, UnmountablePc DEF FallsBack, Finds, Misses
<1>3. CASE Puts(p, m) \/ Saves(p, m)
  BY <1>3, AfterPc DEF Puts, Saves
<1>4. CASE Selects(p, m)
  BY <1>4 DEF Selects
<1>5. CASE NextKey(p, m)
  BY <1>0, <1>5 DEF NextKey, Like, Fields, Routed
<1>6. CASE Planned(p, m) \/ Readied(p, m) \/ Types(p, m) \/ Reads(p, m) \/ Probes(p, m) \/ Crashed(p, m)
           \/ Resets(p, m) \/ Executes(p, m)
  BY <1>6 DEF Planned, Readied, Types, Reads, Probes, Crashed, Resets, Executes, Like, Fields
<1> QED BY <1>1, <1>2, <1>3, <1>4, <1>5, <1>6 DEF Does, Works

LEMMA OwnChosen ==
  ASSUME Choosing, Attended, NEW p \in Procs, NEW m \in Job, Does(p, m) \/ Begins(p, m), m.pc \notin Ended
  PROVE  Chosen(m)'
<1> DEFINE j == proc[p]
<1>0. /\ TypeInv /\ Near(j) /\ Chosen(j) /\ Wired(j) /\ Routed(j) /\ j \in Job /\ setting' = setting
      /\ j.box \in Boxes /\ j.pass \in Value /\ stored \in [Boxes -> Value] /\ j.store \in Stores
  BY Before, JobFields DEF Choosing, Kept, TypeInv, Shared, Does, Begins
<1>1. CASE Begins(p, m)
  <2>1. PICK c \in AllCommands, b \in Boxes : Begun(p, c, b, m)
    BY <1>1 DEF Begins
  <2>2. m.cmd \in {"set", "delete"} => \A v \in Of(m.box) : cipher'[v] = 0
    BY <1>1, <2>1 DEF Begun, Begins
  <2>3. m.pc \notin {"get", "fallback", "put", "save"} /\ (m.pc = "load" => m.cmd = "settings")
    BY <1>0, <1>1, BeginFields
  <2> QED BY <2>2, <2>3 DEF Chosen, Of
<1>2. CASE Does(p, m)
  <2>1. Active(p) /\ (m.cmd = j.cmd \/ m.cmd = "unmount") /\ (m.box = j.box \/ j.cmd = "migrate")
    BY <1>0, <1>2, Same
  <2>2. m.cmd \in {"set", "delete"} => \A v \in Of(m.box) : cipher'[v] = 0
    <3>1. CASE m.cmd \in {"set", "delete"}
      <4>1. j.cmd \in {"set", "delete"} /\ m.box = j.box
        BY <2>1, <3>1
      <4>2. ~Executes(p, m)
        BY <1>0, <4>1 DEF Executes, Routed, Users
      <4>3. cipher' = cipher
        BY <1>2, <4>2 DEF Does
      <4> QED BY <1>0, <4>1, <4>3 DEF Chosen, Of
    <3> QED BY <3>1
  <2>3. CASE m.pc \notin {"get", "fallback", "put", "load", "save"}
    BY <2>2, <2>3 DEF Chosen, Of
  <2>4. j.cmd \in Writers /\ setting.backend # "config" => ring = "open" /\ j.dead = FALSE
    BY <1>0, <2>1 DEF Near, Active
  <2>5. CASE Selects(p, m) /\ m.pc \in {"get", "put"}
    <3>1. ring = "open" => Probe = "ok"
      BY DEF Probe
    <3>2. j.cmd \in Writers => m.store = Configured
      BY <2>4, <2>5, <3>1 DEF Selects, Configured
    <3>3. m.cmd = j.cmd /\ (m.pc = "put" => j.cmd \in {"set", "delete"})
      BY <2>5 DEF Selects, Like, Fields
    <3> QED BY <1>0, <2>2, <2>5, <3>2, <3>3 DEF Chosen, Of, Configured
  <2>6. CASE j.pc = "get" /\ Falls(p, m)
    <3>1. m.pc = "fallback" /\ m.cmd = j.cmd /\ m.box = j.box /\ m.store = j.store /\ j.store = "keyring"
      BY <2>6 DEF Falls, Like, Fields
    <3>2. setting.backend # "config"
      BY <1>0, <2>6, <3>1 DEF Wired, Routed
    <3>3. j.cmd \in Writers => stored[j.box] = 0
      BY <2>4, <2>6, <3>2 DEF Falls
    <3>4. stored' = stored
      BY <1>2, <2>6 DEF Does, Puts
    <3> QED BY <2>2, <1>0, <3>1, <3>2, <3>3, <3>4 DEF Chosen, Of, Configured
  <2>7. CASE /\ j.cmd \in {"config", "provision"} /\ m.pc = "put" /\ Like(m, j, {"pc", "pass"})
             /\ \/ j.pc = "get" /\ j.store = "config" /\ file.plain[j.box] = 0
                \/ j.pc = "fallback" /\ file.plain[j.box] = 0
    <3>1. m.cmd = j.cmd /\ m.box = j.box /\ m.store = j.store /\ j.cmd \in Writers
      BY <2>7 DEF Like, Fields, Writers
    <3>2. j.store = Configured
      BY <1>0, <2>7, <3>1 DEF Chosen
    <3>3. Resolved(j.box) = 0
      BY <1>0, <2>7, <3>1, <3>2 DEF Chosen, Configured, Resolved
    <3>4. stored' = stored /\ file' = file
      BY <1>2, <2>7 DEF Does, Puts, Saves
    <3> QED BY <1>0, <2>2, <2>7, <3>1, <3>2, <3>3, <3>4 DEF Chosen, Of, Configured, Resolved
  <2>8. CASE Puts(p, m) /\ m.pc = "load"
    <3>1. m.cmd = j.cmd /\ m.box = j.box /\ j.pc = "put" /\ file' = file
      BY <1>2, <2>8, AfterPc DEF Puts, Like, Fields, Does, Saves
    <3>2. /\ j.store = "config" => m.edit = "plain" /\ stored' = stored
          /\ j.store = "keyring" => /\ m.edit = "index" /\ m.pass = j.pass
                                    /\ j.cmd # "delete" => stored' = [stored EXCEPT ![j.box] = j.pass]
      BY <2>8, AfterPc DEF Puts, Like, Fields
    <3>3. m.cmd \in {"config", "provision", "set", "delete"} => j.store = Configured
      BY <1>0, <3>1 DEF Chosen, Writers
    <3>4. m.cmd \in {"config", "provision"} => Resolved(j.box) = 0
      BY <1>0, <3>1 DEF Chosen
    <3>5. m.cmd \in {"config", "provision", "set", "delete"} => m.edit = Form
      BY <3>2, <3>3 DEF Configured, Form
    <3>6. m.cmd \in {"config", "provision"} /\ setting.backend = "config" => Resolved(m.box)' = 0
      BY <1>0, <3>1, <3>4 DEF Resolved
    <3>7. m.cmd \in {"config", "provision"} /\ setting.backend # "config" => stored'[m.box] = m.pass
      BY <1>0, <3>1, <3>2, <3>3 DEF Configured
    <3> QED BY <1>0, <2>2, <2>8, <3>5, <3>6, <3>7 DEF Chosen, Of, Form
  <2>9. CASE Loads(p, m)
    <3>1. /\ m.cmd = j.cmd /\ m.box = j.box /\ m.edit = j.edit /\ m.pass = j.pass /\ m.pc = "save" /\ j.pc = "load"
      BY <2>9 DEF Loads, Like, Fields
    <3>2. stored' = stored /\ file' = file
      BY <1>2, <2>9 DEF Does, Puts, Saves, Loads
    <3> QED BY <1>0, <2>2, <3>1, <3>2 DEF Chosen, Of, Form, Resolved
  <2>10. CASE NextKey(p, m) /\ m.cmd = "migrate"
    <3>1. m.pc \notin {"fallback"}
      BY <2>10 DEF NextKey
    <3> QED BY <2>10, <3>1 DEF Chosen
  <2> QED BY <1>0, <1>2, <2>3, <2>5, <2>6, <2>7, <2>8, <2>9, <2>10, Careful
<1> QED BY <1>1, <1>2

LEMMA ChoosingActs ==
  ASSUME Choosing, Apart, Attended, Kept', NEW p \in Procs, NEW m \in Job, Become(p, m),
         Does(p, m) \/ Begins(p, m)
  PROVE  Choosing'
<1>0. Kept /\ TypeInv /\ setting' = setting /\ ring' = ring
  BY DEF Choosing, Kept, Does, Begins
<1>1. Near(proc[p])' /\ Chosen(proc[p])'
  <2>1. PICK k \in Job : /\ proc'[p] = k
                         /\ \/ m.pc \notin Ended /\ k = m
                            \/ k.pc \in Ended /\ k.cmd = "none" /\ k.had = FALSE /\ k.pc = m.pc
    BY <1>0, Result
  <2>2. Near(k)' /\ Chosen(k)'
    <3>1. CASE m.pc \notin Ended /\ k = m
      BY <3>1, OwnNear, OwnChosen
    <3>2. CASE k.pc \in Ended /\ k.cmd = "none"
      BY <3>2 DEF Near, Chosen, Ended, Writers
    <3> QED BY <2>1, <3>1, <3>2
  <2> QED BY <2>1, <2>2 DEF Near, Chosen, Configured, Form, Resolved, Of
<1>2. ASSUME NEW q \in Procs \ {p}
      PROVE  Near(proc[q])' /\ Chosen(proc[q])'
  <2>1. \A r \in Procs \ {p} : proc'[r] = proc[r]
    BY <1>0, Result
  <2>2. proc'[q] = proc[q] /\ Near(proc[q]) /\ Chosen(proc[q]) /\ Routed(proc[q]) /\ proc[q] \in Job
    BY <1>0, <2>1, Before DEF Choosing
  <2>3. Near(proc[q])'
    BY <1>0, <2>2 DEF Near
  <2>4. CASE Active(q) /\ proc[q].cmd \in Writers
    <3>1. stored' = stored /\ file' = file /\ proc[q].cmd \notin {"migrate", "set", "delete"}
      BY <1>0, <2>4, Alongside
    <3> QED BY <1>0, <2>2, <2>3, <3>1 DEF Chosen, Configured, Form, Resolved
  <2>5. CASE ~(Active(q) /\ proc[q].cmd \in Writers)
    <3>1. proc[q].cmd \notin Writers
      BY <2>2, <2>5 DEF Active, Routed, Ended, Writers
    <3>2. proc[q].cmd \notin {"config", "provision", "set", "delete", "migrate", "settings"}
      BY <3>1 DEF Writers
    <3> QED BY <2>2, <2>3, <3>1, <3>2 DEF Chosen
  <2> QED BY <2>4, <2>5
<1> QED BY <1>1, <1>2 DEF Choosing

LEMMA ChoosingStep ==
  ASSUME Choosing, Apart, Attended, [Next]_vars
  PROVE  Choosing'
<1>0. Kept' /\ TypeInv
  BY KeptStep DEF Choosing, Kept
<1>1. ASSUME UNCHANGED <<setting, stored, file, cipher, proc>>,
             \A p \in Procs : ring' = ring \/ ~(Active(p) /\ proc[p].cmd \in Writers)
      PROVE  Choosing'
  <2>1. \A p \in Procs : Near(proc[p])'
    <3> SUFFICES ASSUME NEW p \in Procs
                 PROVE  Near(proc[p])'
      OBVIOUS
    <3>1. Near(proc[p]) /\ Routed(proc[p])
      BY <1>0, Before DEF Choosing
    <3> QED BY <1>1, <3>1 DEF Near, Active, Routed, Ended, Writers
  <2>2. \A p \in Procs : Chosen(proc[p])'
    BY <1>1 DEF Choosing, Chosen, Configured, Form, Resolved
  <2> QED BY <1>0, <2>1, <2>2 DEF Choosing
<1>2. UNCHANGED vars => Choosing'
  BY <1>1 DEF vars
<1>3. KeyringChanges => Choosing'
  BY <1>1 DEF KeyringChanges, Attended
<1> QED BY <1>0, <1>2, <1>3, WhoSteps, ChoosingActs

LEMMA ChoosingInit ==
  ASSUME Init
  PROVE  Choosing
<1>1. \A p \in Procs : proc[p].pc = "idle" /\ proc[p].cmd = "none"
  BY IdleFacts DEF Init
<1> QED BY <1>1, KeptInit DEF Choosing, Near, Chosen, Writers

\* A command that goes on to store a value has found none.
LEMMA GenerateStep ==
  ASSUME Choosing, [Next]_vars, NEW p \in Procs, proc'[p].pc = "put", proc[p].pc \in {"get", "fallback"}
  PROVE  Resolved(proc[p].box) = 0
<1> DEFINE j == proc[p]
<1>0. Kept /\ TypeInv /\ j \in Job /\ Routed(j) /\ Chosen(j)
  BY Before DEF Choosing, Kept
<1>1. ~(UNCHANGED vars) /\ ~KeyringChanges
  BY DEF vars, KeyringChanges
<1>2. PICK r \in Procs, n \in Job : Become(r, n) /\ (Does(r, n) \/ Begins(r, n))
  BY <1>0, <1>1, WhoSteps
<1>3. r = p
  <2>1. \A q \in Procs \ {r} : proc'[q] = proc[q]
    BY <1>0, <1>2, Result
  <2> QED BY <2>1
<1>4. n.pc = "put" /\ proc'[p] = n
  <2>1. PICK k \in Job : /\ proc'[r] = k
                         /\ \/ n.pc \notin Ended /\ k = n
                            \/ k.pc \in Ended /\ k.cmd = "none" /\ k.had = FALSE /\ k.pc = n.pc
    BY <1>0, <1>2, Result
  <2> QED BY <1>3, <2>1 DEF Ended
<1>5. Does(p, n)
  BY <1>0, <1>2, <1>3, <1>4, BeginFields
<1>6. /\ j.cmd \in {"config", "provision"} /\ Like(n, j, {"pc", "pass"})
      /\ \/ j.pc = "get" /\ j.store = "config" /\ file.plain[j.box] = 0
         \/ j.pc = "fallback" /\ file.plain[j.box] = 0
  <2>1. ~Selects(p, n) /\ ~Falls(p, n) /\ ~Puts(p, n) /\ ~Loads(p, n) /\ ~NextKey(p, n)
    BY <1>4 DEF Selects, Falls, Puts, Loads, NextKey
  <2> QED BY <1>0, <1>4, <1>5, <2>1, Careful
<1>7. j.cmd \in Writers
  BY <1>6 DEF Writers
<1> QED BY <1>0, <1>6, <1>7 DEF Chosen, Configured, Resolved

\* A secret is generated only when it is in neither store, when the commands that change credentials are
\* kept apart and the keyring is open while one of them runs.
THEOREM GeneratesWhenMissing ==
  ASSUME Apart, Attended
  PROVE  Spec => GeneratedWhenMissing
<1>1. Init => Choosing
  BY ChoosingInit
<1>2. Choosing /\ [Next]_vars => Choosing'
  BY ChoosingStep
<1>3. Choosing /\ [Next]_vars =>
        [\A p \in Procs : proc'[p].pc = "put" /\ proc[p].pc \in {"get", "fallback"} => Resolved(proc[p].box) = 0]_vars
  BY GenerateStep
<1> QED BY <1>1, <1>2, <1>3, PTL DEF Spec, GeneratedWhenMissing

-----------------------------------------------------------------------------
(* The passphrase of a volume stays where it is looked for.                *)

Willing == "setfails" \notin Faults
Placed  == "config" \in Backends => "migrate" \notin Menu["config"]

\* With a keyring, the plaintext is what is left from before it, and the keyring holds the same or nothing.
Left(b) ==
  setting.backend # "config" /\ file.plain[b] # 0 =>
    (\E v \in Of(b) : cipher[v] # 0) /\ stored[b] \in {0, file.plain[b]}

\* What a migration has still to move, and what it has moved.
Moving(j) ==
  j.cmd = "migrate" =>
    /\ setting.backend # "config"
    /\ j.pc # "read" => j.old.plain = file.plain /\ \A b \in j.keys : file.plain[b] # 0
    /\ j.pc = "probe" => \A b \in Boxes : file.plain[b] # 0 => b \in j.keys
    /\ j.pc \notin {"read", "probe"} =>
         /\ j.store = "keyring"
         /\ \A b \in Boxes : file.plain[b] # 0 =>
              b \in j.keys \/ stored[b] = file.plain[b] \/ (j.pc = "put" /\ b = j.box)
    /\ j.pc = "put" => j.pass = file.plain[j.box] /\ j.pass # 0
    /\ j.pc = "load" => j.edit = "index"
    /\ j.pc = "save" => j.edit = "index" \/ (j.edit = "clear" /\ j.keys = {})

\* What is encrypted with is what a lookup answers, or typed by the operator.
Sound(j) ==
  /\ j.pc = "exec" /\ j.cmd \in {"config", "start"} => j.pass = Resolved(j.box) \/ j.pass \in known
  /\ j.pc = "exec" /\ j.cmd = "passwd" => j.new \in known

Opening ==
  /\ Choosing /\ Openable
  /\ \A b \in Boxes : Left(b)
  /\ \A p \in Procs : Moving(proc[p]) /\ Sound(proc[p])

\* With the keyring at hand a value is stored where the command has chosen.
LEMMA PutHolds ==
  ASSUME Opening, Attended, Willing, NEW p \in Procs, NEW m \in Job, Puts(p, m)
  PROVE  LET j == proc[p]
         IN  /\ m.pc = "load"
             /\ \/ j.store = "config" /\ m.edit = "plain" /\ stored' = stored /\ j.cmd # "migrate"
                \/ /\ j.store = "keyring" /\ m.edit = "index" /\ setting.backend # "config" /\ m.pass = j.pass
                   /\ stored' = [stored EXCEPT ![j.box] = IF j.cmd = "delete" THEN 0 ELSE j.pass]
<1> DEFINE j == proc[p]
<1>0. /\ TypeInv /\ Near(j) /\ Wired(j) /\ Moving(j) /\ Routed(j) /\ j \in Job /\ j.pc = "put"
  BY Before DEF Opening, Choosing, Kept, Puts
<1>1. j.cmd \in Writers /\ j.pc \notin Ended
  BY <1>0 DEF Routed, Writers, Ended
<1>2. j.store = "keyring" => setting.backend # "config"
  BY <1>0 DEF Wired, Moving
<1>3. j.store = "keyring" => ring = "open" /\ j.dead = FALSE
  BY <1>0, <1>1, <1>2 DEF Near
<1>4. j.store = "config" => j.cmd # "migrate"
  BY <1>0 DEF Moving
<1> QED BY <1>2, <1>3, <1>4 DEF Puts, Like, Fields, Willing

\* What a writer has found of its box: nothing but for a migration, which has found what is there.
LEMMA PutFound ==
  ASSUME Opening, NEW p \in Procs, proc[p].pc = "put"
  PROVE  LET j == proc[p]
         IN  /\ j.cmd \in {"config", "provision"} => Resolved(j.box) = 0
             /\ j.cmd \in {"set", "delete"} => \A v \in Of(j.box) : cipher[v] = 0
             /\ j.cmd = "migrate" => j.pass = file.plain[j.box] /\ j.pass # 0
             /\ setting.backend # "config" /\ j.cmd # "migrate" => file.plain[j.box] = 0
<1> DEFINE j == proc[p]
<1>0. TypeInv /\ Chosen(j) /\ Moving(j) /\ Routed(j) /\ j.box \in Boxes
  BY Before, JobFields DEF Opening, Choosing, Kept
<1>1. Left(j.box)
  BY <1>0 DEF Opening
<1>2. j.cmd \in {"config", "provision"} => Resolved(j.box) = 0
  BY <1>0 DEF Chosen
<1>3. j.cmd \in {"set", "delete"} => \A v \in Of(j.box) : cipher[v] = 0
  BY <1>0 DEF Chosen
<1>4. j.cmd = "migrate" => j.pass = file.plain[j.box] /\ j.pass # 0
  BY <1>0 DEF Moving
<1>5. j.cmd \in {"config", "provision", "set", "delete", "migrate"}
  BY <1>0 DEF Routed
<1>6. j.cmd \in {"config", "provision"} /\ setting.backend # "config" => file.plain[j.box] = 0
  <2>1. CASE Resolved(j.box) = 0 /\ setting.backend # "config"
    BY <2>1 DEF Resolved
  <2> QED BY <1>2, <2>1
<1>7. j.cmd \in {"set", "delete"} /\ setting.backend # "config" => file.plain[j.box] = 0
  BY <1>1, <1>3 DEF Left
<1> QED BY <1>2, <1>3, <1>4, <1>5, <1>6, <1>7

\* A lookup keeps its answer, but for a box that has none and one whose volumes are not encrypted.
LEMMA Answers ==
  ASSUME Opening, Apart, Attended, Willing, NEW p \in Procs, NEW m \in Job, Does(p, m) \/ Begins(p, m),
         NEW b \in Boxes
  PROVE  \/ Resolved(b)' = Resolved(b)
         \/ Resolved(b) = 0
         \/ proc[p].cmd \in {"set", "delete"} /\ Does(p, m) /\ \A v \in Of(b) : cipher[v] = 0
<1> DEFINE j == proc[p]
<1>0. /\ Kept /\ TypeInv /\ Chosen(j) /\ Moving(j) /\ Wired(j) /\ Routed(j) /\ Left(b) /\ j \in Job /\ j.box \in Boxes
      /\ stored \in [Boxes -> Value] /\ file.plain \in [Boxes -> Value] /\ setting' = setting
  BY Before, JobFields, HeldValues DEF Opening, Choosing, Kept, TypeInv, Shared, Does, Begins
<1>1. CASE stored' = stored /\ file' = file
  BY <1>0, <1>1 DEF Resolved
<1>2. CASE Puts(p, m) /\ file' = file /\ Does(p, m)
  <2>1. j.pc = "put"
    BY <1>2 DEF Puts
  <2>2. \/ stored' = stored
        \/ /\ setting.backend # "config"
           /\ stored' = [stored EXCEPT ![j.box] = IF j.cmd = "delete" THEN 0 ELSE j.pass]
    BY <1>2, PutHolds
  <2>3. CASE b # j.box \/ stored' = stored
    BY <1>0, <1>2, <2>2, <2>3 DEF Resolved
  <2>4. CASE b = j.box /\ j.cmd = "migrate" /\ setting.backend # "config" /\ stored' = [stored EXCEPT ![j.box] = j.pass]
    <3>1. j.pass = file.plain[b] /\ j.pass # 0
      BY <2>1, <2>4, PutFound
    <3>2. stored'[b] = file.plain[b] /\ file'.plain[b] = file.plain[b] /\ stored[b] \in {0, file.plain[b]}
      BY <1>0, <1>2, <2>4, <3>1 DEF Left
    <3> QED BY <1>0, <2>4, <3>1, <3>2 DEF Resolved
  <2>5. CASE b = j.box /\ j.cmd # "migrate"
    <3>1. j.cmd \in {"config", "provision", "set", "delete"}
      BY <1>0, <2>1, <2>5 DEF Routed
    <3> QED BY <1>2, <2>1, <2>5, <3>1, PutFound
  <2> QED BY <2>2, <2>3, <2>4, <2>5
<1>3. CASE Saves(p, m) /\ stored' = stored /\ Does(p, m)
  <2>1. CASE j.edit \in {"index", "settings"}
    <3>1. file'.plain = file.plain
      BY <1>0, <1>3, <2>1, SavedFile
    <3> QED BY <1>0, <1>3, <3>1 DEF Resolved
  <2>2. CASE j.edit = "plain"
    <3>1. /\ file'.plain = [file.plain EXCEPT ![j.box] = j.pass] /\ j.pc = "save"
          /\ j.cmd \in {"config", "provision", "set", "delete", "migrate"}
      BY <1>0, <1>3, <2>2, SavedFile
    <3>2. j.cmd # "migrate"
      BY <1>0, <2>2, <3>1 DEF Moving
    <3>3. setting.backend = "config"
      BY <1>0, <2>2, <3>1, <3>2 DEF Chosen, Form
    <3>4. CASE b # j.box
      BY <1>0, <1>3, <3>1, <3>4 DEF Resolved
    <3>5. CASE b = j.box
      BY <1>0, <1>3, <3>1, <3>2, <3>3, <3>5 DEF Chosen
    <3> QED BY <3>4, <3>5
  <2>3. CASE j.edit = "clear"
    <3>1. j.cmd = "migrate" /\ file'.plain = [a \in Boxes |-> 0] /\ j.pc = "save"
      BY <1>0, <1>3, <2>3, SavedFile
    <3>2. setting.backend # "config" /\ j.keys = {} /\ (file.plain[b] # 0 => stored[b] = file.plain[b])
      BY <1>0, <2>3, <3>1 DEF Moving
    <3> QED BY <1>0, <1>3, <3>1, <3>2 DEF Resolved
  <2> QED BY <1>0, <1>3, <2>1, <2>2, <2>3, SavedFile
<1> QED BY <1>1, <1>2, <1>3 DEF Does, Begins

LEMMA LeftKeep ==
  ASSUME Opening, Apart, Attended, Willing, NEW p \in Procs, NEW m \in Job, Does(p, m) \/ Begins(p, m),
         \A v \in Volumes : cipher[v] # 0 => cipher'[v] # 0, NEW b \in Boxes
  PROVE  Left(b)'
<1> DEFINE j == proc[p]
<1>0. /\ Kept /\ TypeInv /\ Chosen(j) /\ Moving(j) /\ Routed(j) /\ Left(b) /\ j \in Job /\ j.box \in Boxes
      /\ stored \in [Boxes -> Value] /\ file.plain \in [Boxes -> Value] /\ setting' = setting
  BY Before, JobFields, HeldValues DEF Opening, Choosing, Kept, TypeInv, Shared, Does, Begins
<1>1. (\E v \in Of(b) : cipher[v] # 0) => \E v \in Of(b) : cipher'[v] # 0
  BY DEF Of
<1>2. CASE stored' = stored /\ file'.plain = file.plain
  BY <1>0, <1>1, <1>2 DEF Left, Of
<1>3. CASE Puts(p, m) /\ file' = file
  <2>1. j.pc = "put"
    BY <1>3 DEF Puts
  <2>2. \/ stored' = stored
        \/ /\ setting.backend # "config"
           /\ stored' = [stored EXCEPT ![j.box] = IF j.cmd = "delete" THEN 0 ELSE j.pass]
    BY <1>3, PutHolds
  <2>3. CASE b # j.box \/ stored' = stored
    BY <1>0, <1>1, <1>3, <2>2, <2>3 DEF Left, Of
  <2>4. CASE b = j.box /\ setting.backend # "config"
             /\ stored' = [stored EXCEPT ![j.box] = IF j.cmd = "delete" THEN 0 ELSE j.pass]
    <3>1. CASE j.cmd = "migrate"
      <4>1. j.pass = file.plain[b]
        BY <2>1, <2>4, <3>1, PutFound
      <4>2. stored'[b] = file'.plain[b]
        BY <1>0, <1>3, <2>4, <3>1, <4>1
      <4> QED BY <1>0, <1>1, <1>3, <4>2 DEF Left, Of
    <3>2. CASE j.cmd # "migrate"
      <4>1. file.plain[b] = 0
        BY <2>1, <2>4, <3>2, PutFound
      <4> QED BY <1>3, <4>1 DEF Left
    <3> QED BY <3>1, <3>2
  <2> QED BY <2>2, <2>3, <2>4
<1>4. CASE Saves(p, m) /\ stored' = stored
  <2>1. CASE j.edit \in {"index", "settings"}
    BY <1>0, <1>2, <1>4, <2>1, SavedFile
  <2>2. CASE j.edit = "plain"
    <3>1. j.cmd \in {"config", "provision", "set", "delete", "migrate"} /\ j.pc = "save"
      BY <1>0, <1>4, <2>2, SavedFile
    <3>2. setting.backend = "config"
      BY <1>0, <2>2, <3>1 DEF Chosen, Form, Moving
    <3> QED BY <1>0, <3>2 DEF Left
  <2>3. CASE j.edit = "clear"
    <3>1. file'.plain = [a \in Boxes |-> 0]
      BY <1>0, <1>4, <2>3, SavedFile
    <3> QED BY <3>1 DEF Left
  <2> QED BY <1>0, <1>4, <2>1, <2>2, <2>3, SavedFile
<1> QED BY <1>2, <1>3, <1>4 DEF Does, Begins

LEMMA OwnMoving ==
  ASSUME Opening, Attended, Willing, Placed, NEW p \in Procs, NEW m \in Job, Does(p, m) \/ Begins(p, m)
  PROVE  m.pc \notin Ended => Moving(m)'
<1> DEFINE j == proc[p]
<1>0. /\ Kept /\ TypeInv /\ Moving(j) /\ Routed(j) /\ j \in Job /\ setting' = setting
      /\ j.keys \in SUBSET Boxes /\ stored \in [Boxes -> Value] /\ j.box \in Boxes
  BY Before, JobFields DEF Opening, Choosing, Kept, TypeInv, Shared, Does, Begins
<1>1. CASE Begins(p, m)
  <2>1. PICK c \in AllCommands, b \in Boxes : Begun(p, c, b, m)
    BY <1>1 DEF Begins
  <2>2. m.cmd = "migrate" => m.pc = "read" /\ setting.backend # "config"
    BY <1>0, <2>1 DEF Begun, Entry, Placed, TypeInv, Shared
  <2> QED BY <1>0, <2>2 DEF Moving
<1>2. CASE Does(p, m)
  <2>1. m.cmd = "migrate" => j.cmd = "migrate"
    BY <1>0, <1>2, Same
  <2> SUFFICES ASSUME m.cmd = "migrate", m.pc \notin Ended
               PROVE  Moving(m)'
    BY DEF Moving
  <2>2. j.cmd = "migrate" /\ setting.backend # "config"
    BY <1>0, <2>1 DEF Moving
  <2>3. CASE Reads(p, m) /\ file' = file
    <3>1. /\ m.pc = "probe" /\ m.old = file /\ \A b \in Boxes : b \in m.keys <=> file.plain[b] # 0
      BY <2>3 DEF Reads, Ended
    <3>2. m.keys \in SUBSET Boxes
      BY JobFields
    <3> QED BY <1>0, <2>2, <2>3, <3>1, <3>2 DEF Moving
  <2>4. CASE Probes(p, m) /\ file' = file /\ stored' = stored
    <3>1. m.pc = "next" /\ m.store = "keyring" /\ m.old = j.old /\ m.keys = j.keys /\ j.pc = "probe"
      BY <2>4 DEF Probes, Like, Fields, Ended
    <3> QED BY <1>0, <2>2, <2>4, <3>1 DEF Moving
  <2>5. CASE NextKey(p, m) /\ file' = file /\ stored' = stored
    <3>0. j.pc = "next" /\ j.old.plain = file.plain /\ \A b \in j.keys : file.plain[b] # 0
      BY <1>0, <2>2, <2>5 DEF NextKey, Moving
    <3>1. CASE /\ j.keys = {} /\ Like(m, j, {"pc", "edit"}) /\ m.edit = "clear" /\ m.pc \in {"save", "done"}
      <4>1. m.pc = "save" /\ m.keys = {} /\ m.store = j.store /\ m.old = j.old
        BY <3>1 DEF Like, Fields, Ended
      <4> QED BY <1>0, <2>2, <2>5, <3>0, <3>1, <4>1 DEF Moving
    <3>2. ASSUME NEW b \in j.keys, Like(m, j, {"pc", "box", "pass", "keys"}), m.pc = "put", m.box = b,
                 m.pass = j.old.plain[b], m.keys = j.keys \ {b}
          PROVE  Moving(m)'
      <4>1. m.store = j.store /\ m.old = j.old
        BY <3>2 DEF Like, Fields
      <4>2. m.pass = file.plain[b] /\ m.pass # 0 /\ \A c \in m.keys : file.plain[c] # 0
        BY <3>0, <3>2
      <4>3. \A c \in Boxes : file.plain[c] # 0 => c \in m.keys \/ stored[c] = file.plain[c] \/ c = m.box
        BY <1>0, <2>2, <3>0, <3>2 DEF Moving
      <4> QED BY <1>0, <2>2, <2>5, <3>0, <3>2, <4>1, <4>2, <4>3 DEF Moving
    <3> QED BY <2>5, <3>1, <3>2 DEF NextKey
  <2>6. CASE Puts(p, m) /\ file' = file
    <3>1. j.pc = "put" /\ m.pc = "load" /\ m.edit = "index" /\ stored' = [stored EXCEPT ![j.box] = j.pass]
      BY <2>2, <2>6, PutHolds DEF Puts
    <3>2. m.store = j.store /\ m.old = j.old /\ m.keys = j.keys
      BY <2>6 DEF Puts, Like, Fields
    <3>3. j.pass = file.plain[j.box]
      BY <1>0, <2>2, <3>1 DEF Moving
    <3>4. \A c \in Boxes : file.plain[c] # 0 => c \in j.keys \/ stored'[c] = file.plain[c]
      BY <1>0, <2>2, <3>1, <3>3 DEF Moving
    <3> QED BY <1>0, <2>2, <2>6, <3>1, <3>2, <3>4 DEF Moving
  <2>7. CASE Loads(p, m) /\ file' = file /\ stored' = stored
    <3>1. /\ j.pc = "load" /\ m.pc = "save" /\ m.edit = j.edit /\ m.store = j.store /\ m.old = j.old
          /\ m.keys = j.keys
      BY <2>7 DEF Loads, Like, Fields
    <3> QED BY <1>0, <2>2, <2>7, <3>1 DEF Moving
  <2>8. CASE Saves(p, m) /\ stored' = stored
    <3>1. j.pc = "save" /\ (j.edit = "clear" => m.pc = "done") /\ m.pc \notin {"read", "probe", "put", "load", "save"}
      BY <2>8, AfterPc DEF Saves
    <3>2. j.edit = "index"
      BY <1>0, <2>2, <3>1 DEF Moving, Ended
    <3>3. file'.plain = file.plain
      BY <1>0, <2>8, <3>2, SavedFile
    <3>4. m.store = j.store /\ m.old = j.old /\ m.keys = j.keys
      BY <2>8 DEF Saves, Like, Fields
    <3> QED BY <1>0, <2>2, <2>8, <3>1, <3>3, <3>4 DEF Moving
  <2>9. ~Planned(p, m) /\ ~Readied(p, m) /\ ~Selects(p, m) /\ ~Gets(p, m) /\ ~FallsBack(p, m) /\ ~Resets(p, m)
        /\ ~Types(p, m) /\ ~Executes(p, m)
    BY <1>0, <2>2 DEF Planned, Readied, Selects, Gets, FallsBack, Resets, Types, Executes, Routed, Users
  <2>10. ~Crashed(p, m)
    BY DEF Crashed, Ended
  <2> QED BY <1>2, <2>3, <2>4, <2>5, <2>6, <2>7, <2>8, <2>9, <2>10 DEF Does, Works
<1> QED BY <1>1, <1>2

\* What a lookup returns is what any lookup would.
LEMMA FoundValue ==
  ASSUME Opening, NEW p \in Procs, NEW m \in Job, Gets(p, m) \/ FallsBack(p, m), m.pc = "exec",
         proc[p].cmd \in {"config", "start"}
  PROVE  m.pass = Resolved(proc[p].box)
<1> DEFINE j == proc[p]
<1>0. TypeInv /\ Wired(j) /\ Routed(j) /\ j \in Job /\ j.box \in Boxes
  BY Before, JobFields DEF Opening, Choosing, Kept
<1>1. Left(j.box)
  BY <1>0 DEF Opening
<1>2. ASSUME NEW source, Misses(p, source, m)
      PROVE  FALSE
  BY <1>2 DEF Misses
<1>3. CASE j.pc = "get" /\ j.store = "keyring" /\ Finds(p, stored[j.box], m)
  <2>1. setting.backend # "config"
    BY <1>0, <1>3 DEF Wired, Routed
  <2> QED BY <1>3, <2>1 DEF Finds, Resolved
<1>4. CASE Finds(p, file.plain[j.box], m)
  BY <1>1, <1>4 DEF Finds, Resolved, Left
<1>5. ~Falls(p, m)
  BY DEF Falls
<1> QED BY <1>2, <1>3, <1>4, <1>5 DEF Gets, FallsBack

LEMMA OwnSound ==
  ASSUME Opening, Apart, Attended, Willing, NEW p \in Procs, NEW m \in Job, Does(p, m) \/ Begins(p, m)
  PROVE  m.pc \notin Ended => Sound(m)'
<1> DEFINE j == proc[p]
<1>0. /\ Kept /\ TypeInv /\ Sound(j) /\ Chosen(j) /\ Routed(j) /\ Firm(j) /\ j \in Job /\ setting' = setting
      /\ file.plain \in [Boxes -> Value] /\ j.box \in Boxes /\ known \subseteq known'
  BY Before, JobFields, HeldValues DEF Opening, Choosing, Kept, Does, Begins
<1>1. CASE m.pc # "exec"
  BY <1>1 DEF Sound
<1>2. CASE m.pc = "exec"
  <2>0. Does(p, m)
    BY <1>0, <1>2, BeginFields
  <2>1. CASE Planned(p, m)
    <3>1. m.cmd = j.cmd /\ (m.cmd \in {"config", "start"} => m.pc # "exec") /\ (m.cmd = "passwd" => m.new \in known')
      BY <1>2, <2>1 DEF Planned, Like, Fields
    <3> QED BY <1>2, <3>1 DEF Sound
  <2>2. CASE (Gets(p, m) \/ FallsBack(p, m)) /\ stored' = stored /\ file' = file
    <3>1. m.cmd = j.cmd /\ m.box = j.box
      BY <1>2, <2>2 DEF Gets, FallsBack, Finds, Misses, Falls, Like, Fields
    <3>2. j.cmd \in {"config", "start"} => m.pass = Resolved(m.box)
      BY <1>2, <2>2, <3>1, FoundValue
    <3>3. j.cmd # "passwd"
      BY <1>0, <2>2 DEF Gets, FallsBack, Routed
    <3> QED BY <1>0, <2>2, <3>1, <3>2, <3>3 DEF Sound, Resolved
  <2>3. CASE Types(p, m)
    <3>1. m.pass \in known' /\ m.cmd # "passwd"
      BY <1>0, <1>2, <2>3 DEF Types, Like, Fields, Routed
    <3> QED BY <3>1 DEF Sound
  <2>4. CASE Puts(p, m)
    BY <1>2, <2>4, PutHolds
  <2>5. CASE Saves(p, m) /\ stored' = stored
    <3>1. /\ m.cmd = j.cmd /\ m.box = j.box /\ m.pass = j.pass /\ j.cmd = "config" /\ j.pc = "save"
      BY <1>2, <2>5, AfterPc DEF Saves, Like, Fields
    <3>2. j.pass # 0
      BY <1>0, <3>1 DEF Firm
    <3>3. CASE setting.backend = "config"
      <4>1. j.edit = "plain"
        BY <1>0, <3>1, <3>3 DEF Chosen, Form
      <4>2. file'.plain = [file.plain EXCEPT ![j.box] = j.pass]
        BY <1>0, <2>5, <4>1, SavedFile
      <4>3. file'.plain[m.box] = m.pass
        BY <1>0, <3>1, <4>2
      <4> QED BY <1>0, <3>1, <3>3, <4>3 DEF Sound, Resolved
    <3>4. CASE setting.backend # "config"
      <4>1. stored'[m.box] = m.pass
        BY <1>0, <2>5, <3>1, <3>4 DEF Chosen
      <4> QED BY <1>0, <3>1, <3>2, <3>4, <4>1 DEF Sound, Resolved
    <3> QED BY <3>3, <3>4
  <2>6. CASE Executes(p, m) /\ stored' = stored /\ file' = file
    <3>1. m.cmd = j.cmd /\ m.box = j.box /\ m.pass = j.pass /\ m.new = j.new /\ j.pc = "exec"
      BY <2>6 DEF Executes, Like, Fields
    <3> QED BY <1>0, <2>6, <3>1 DEF Sound, Resolved
  <2>7. ~Readied(p, m) /\ ~Selects(p, m) /\ ~Resets(p, m) /\ ~Loads(p, m) /\ ~Reads(p, m) /\ ~Probes(p, m)
        /\ ~NextKey(p, m) /\ ~Crashed(p, m)
    BY <1>2 DEF Readied, Selects, Resets, Loads, Reads, Probes, NextKey, Crashed
  <2> QED BY <2>0, <2>1, <2>2, <2>3, <2>4, <2>5, <2>6, <2>7 DEF Does, Works
<1> QED BY <1>1, <1>2

\* A volume is encrypted with what its command has found, or with a passphrase that was typed.
LEMMA OpenableKeep ==
  ASSUME Opening, Apart, Attended, Willing, NEW p \in Procs, NEW m \in Job, Does(p, m) \/ Begins(p, m)
  PROVE  Openable'
<1> DEFINE j == proc[p]
<1>0. /\ Kept /\ TypeInv /\ Sound(j) /\ Routed(j) /\ Firm(j) /\ j \in Job /\ known \subseteq known'
      /\ cipher \in [Volumes -> Value] /\ j.todo \in SUBSET Volumes /\ j.box \in Boxes /\ setting' = setting
  BY Before, JobFields DEF Opening, Choosing, Kept, TypeInv, Shared, Does, Begins
<1>1. ASSUME NEW v \in Volumes, cipher'[v] # 0, cipher'[v] = cipher[v]
      PROVE  cipher'[v] \in {Resolved(BoxOf[v])'} \cup known'
  <2>1. BoxOf[v] \in Boxes /\ v \in Of(BoxOf[v])
    BY CredentialsAssumption DEF Of
  <2>2. cipher[v] \in {Resolved(BoxOf[v])} \cup known
    BY <1>1 DEF Opening, Openable
  <2>3. PICK b \in Boxes : b = BoxOf[v]
    BY <2>1
  <2>4. \/ Resolved(b)' = Resolved(b)
        \/ Resolved(b) = 0
        \/ \A w \in Of(b) : cipher[w] = 0
    BY Answers
  <2> QED BY <1>0, <1>1, <2>1, <2>2, <2>3, <2>4
<1>2. CASE cipher' = cipher
  BY <1>1, <1>2 DEF Openable
<1>3. CASE Executes(p, m) /\ stored' = stored /\ file' = file
  <2>1. j.pc = "exec"
    BY <1>3 DEF Executes
  <2>2. \/ cipher' = cipher
        \/ \E v \in j.todo : j.cmd \in {"config", "start"} /\ cipher' = [cipher EXCEPT ![v] = j.pass]
        \/ \E v \in j.todo : j.cmd = "passwd" /\ cipher' = [cipher EXCEPT ![v] = j.new]
    BY <1>3 DEF Executes
  <2>3. ASSUME NEW v \in j.todo, j.cmd \in {"config", "start"}, cipher' = [cipher EXCEPT ![v] = j.pass]
        PROVE  Openable'
    <3>1. BoxOf[v] = j.box /\ v \in Volumes
      BY <1>0 DEF Firm, Of
    <3>2. cipher'[v] = Resolved(BoxOf[v]) \/ cipher'[v] \in known
      BY <1>0, <2>1, <2>3, <3>1 DEF Sound
    <3>3. cipher'[v] \in {Resolved(BoxOf[v])'} \cup known'
      BY <1>0, <1>3, <3>2 DEF Resolved
    <3>4. \A w \in Volumes \ {v} : cipher'[w] = cipher[w]
      BY <1>0, <2>3
    <3> QED BY <1>1, <3>3, <3>4 DEF Openable
  <2>4. ASSUME NEW v \in j.todo, j.cmd = "passwd", cipher' = [cipher EXCEPT ![v] = j.new]
        PROVE  Openable'
    <3>1. v \in Volumes /\ cipher'[v] \in known'
      BY <1>0, <2>1, <2>4 DEF Sound
    <3>2. \A w \in Volumes \ {v} : cipher'[w] = cipher[w]
      BY <1>0, <2>4
    <3> QED BY <1>1, <3>1, <3>2 DEF Openable
  <2> QED BY <1>2, <2>2, <2>3, <2>4
<1> QED BY <1>2, <1>3 DEF Does, Begins

LEMMA OthersOpening ==
  ASSUME Opening, Apart, Attended, Willing, NEW p \in Procs, NEW m \in Job, Become(p, m),
         Does(p, m) \/ Begins(p, m), NEW q \in Procs \ {p}
  PROVE  Moving(proc[q])' /\ Sound(proc[q])'
<1> DEFINE k == proc[q]
<1>0. /\ Kept /\ TypeInv /\ Moving(k) /\ Sound(k) /\ Routed(k) /\ Firm(k) /\ k \in Job /\ known \subseteq known'
      /\ k.box \in Boxes
  BY Before, JobFields DEF Opening, Choosing, Kept, Does, Begins
<1>1. proc'[q] = proc[q]
  <2>1. \A r \in Procs \ {p} : proc'[r] = proc[r]
    BY <1>0, Result
  <2> QED BY <2>1
<1>2. CASE ~Active(q)
  <2>1. k.cmd = "none" /\ k.pc # "exec"
    BY <1>0, <1>2 DEF Active, Routed, Ended
  <2> QED BY <1>1, <2>1 DEF Moving, Sound
<1>3. CASE Active(q)
  <2>1. k.cmd # "migrate" /\ (Does(p, m) => proc[p].cmd \notin {"migrate", "set", "delete"})
    BY <1>0, <1>3, Alongside
  <2>2. \A b \in Boxes : Resolved(b)' = Resolved(b) \/ Resolved(b) = 0
    BY <2>1, Answers
  <2>3. k.pc = "exec" /\ k.cmd \in {"config", "start"} => k.pass # 0
    BY <1>0 DEF Firm
  <2>4. PICK b \in Boxes : b = k.box
    BY <1>0
  <2>5. Resolved(b)' = Resolved(b) \/ Resolved(b) = 0
    BY <2>2
  <2>6. Sound(k) => (k.pc = "exec" /\ k.cmd \in {"config", "start"} => k.pass = Resolved(b)' \/ k.pass \in known')
    BY <1>0, <2>3, <2>4, <2>5 DEF Sound
  <2>7. Sound(proc[q])'
    BY <1>0, <1>1, <2>4, <2>6 DEF Sound, Resolved
  <2> QED BY <1>1, <2>1, <2>7 DEF Moving
<1> QED BY <1>2, <1>3

\* A volume that is encrypted stays so.
LEMMA Encrypted ==
  ASSUME TypeInv, NEW p \in Procs, NEW m \in Job, Does(p, m) \/ Begins(p, m), NEW v \in Volumes, cipher[v] # 0
  PROVE  cipher'[v] # 0
<1> DEFINE j == proc[p]
<1>0. Firm(j) /\ cipher \in [Volumes -> Value] /\ j \in Job
  BY Before DEF TypeInv, Shared
<1>1. CASE cipher' = cipher
  BY <1>1
<1>2. CASE Executes(p, m)
  <2>1. j.pc = "exec"
    BY <1>2 DEF Executes
  <2>2. /\ j.cmd \in {"config", "start"} => j.pass # 0
        /\ j.cmd = "passwd" => j.new # 0
    BY <1>0, <2>1 DEF Firm
  <2>3. cipher' = cipher \/ \E w \in j.todo, n \in Value \ {0} : cipher' = [cipher EXCEPT ![w] = n]
    <3>1. j.pass \in Value /\ j.new \in Value
      BY <1>0, JobFields
    <3> QED BY <1>2, <2>2, <3>1 DEF Executes
  <2> HIDE DEF j
  <2> QED BY <1>0, <1>1, <2>3
<1> QED BY <1>1, <1>2 DEF Does, Begins

LEMMA OpeningActs ==
  ASSUME Opening, Apart, Attended, Willing, Placed, Choosing', NEW p \in Procs, NEW m \in Job, Become(p, m),
         Does(p, m) \/ Begins(p, m)
  PROVE  Opening'
<1>0. Kept /\ TypeInv
  BY DEF Opening, Choosing, Kept
<1>1. Openable'
  BY OpenableKeep
<1>2. \A b \in Boxes : Left(b)'
  BY <1>0, LeftKeep, Encrypted
<1>3. Moving(proc[p])' /\ Sound(proc[p])'
  <2>1. PICK k \in Job : /\ proc'[p] = k
                         /\ \/ m.pc \notin Ended /\ k = m
                            \/ k.pc \in Ended /\ k.cmd = "none" /\ k.had = FALSE /\ k.pc = m.pc
    BY <1>0, Result
  <2>2. Moving(k)' /\ Sound(k)'
    <3>1. CASE m.pc \notin Ended /\ k = m
      BY <3>1, OwnMoving, OwnSound
    <3>2. CASE k.pc \in Ended /\ k.cmd = "none"
      BY <3>2 DEF Moving, Sound
    <3> QED BY <2>1, <3>1, <3>2
  <2> QED BY <2>1, <2>2 DEF Moving, Sound, Resolved
<1>4. \A q \in Procs \ {p} : Moving(proc[q])' /\ Sound(proc[q])'
  BY OthersOpening
<1> QED BY <1>1, <1>2, <1>3, <1>4 DEF Opening

LEMMA OpeningStep ==
  ASSUME Opening, Apart, Attended, Willing, Placed, [Next]_vars
  PROVE  Opening'
<1>0. Choosing' /\ TypeInv
  BY ChoosingStep DEF Opening, Choosing, Kept
<1>1. ASSUME UNCHANGED <<setting, stored, file, cipher, known, proc>>
      PROVE  Opening'
  <2>1. Openable' /\ \A b \in Boxes : Left(b)'
    BY <1>1 DEF Opening, Openable, Left, Resolved, Of
  <2>2. \A p \in Procs : Moving(proc[p])' /\ Sound(proc[p])'
    BY <1>1 DEF Opening, Moving, Sound, Resolved
  <2> QED BY <1>0, <2>1, <2>2 DEF Opening
<1>2. UNCHANGED vars => Opening'
  BY <1>1 DEF vars
<1>3. KeyringChanges => Opening'
  BY <1>1 DEF KeyringChanges
<1> QED BY <1>0, <1>2, <1>3, WhoSteps, OpeningActs

LEMMA OpeningInit ==
  ASSUME Init
  PROVE  Opening
<1>1. PICK old \in {{}} \cup {{v} : v \in Volumes} :
        /\ cipher = [v \in Volumes |-> IF v \in old THEN 1 ELSE 0]
        /\ file = [Empty EXCEPT !.plain = [b \in Boxes |-> IF Of(b) \cap old # {} THEN 1 ELSE 0]]
  BY DEF Init
<1>2. file.plain = [b \in Boxes |-> IF Of(b) \cap old # {} THEN 1 ELSE 0]
  BY <1>1 DEF Empty
<1>3. stored = [b \in Boxes |-> 0]
  BY DEF Init
<1>4. \A b \in Boxes : Left(b)
  BY <1>1, <1>2, <1>3 DEF Left, Of
<1>5. Openable
  <2> SUFFICES ASSUME NEW v \in Volumes, cipher[v] # 0
               PROVE  cipher[v] = Resolved(BoxOf[v])
    BY DEF Openable
  <2>1. v \in old /\ cipher[v] = 1
    BY <1>1
  <2>2. BoxOf[v] \in Boxes /\ v \in Of(BoxOf[v])
    BY CredentialsAssumption DEF Of
  <2>3. file.plain[BoxOf[v]] = 1 /\ stored[BoxOf[v]] = 0
    BY <1>2, <1>3, <2>1, <2>2
  <2> QED BY <2>1, <2>3 DEF Resolved
<1>6. \A p \in Procs : proc[p].pc = "idle" /\ proc[p].cmd = "none"
  BY IdleFacts DEF Init
<1> QED BY <1>4, <1>5, <1>6, ChoosingInit DEF Opening, Moving, Sound

\* Every volume opens with what the stores answer or with what the operator has typed, when the commands
\* that change credentials are kept apart, the keyring is open and takes the values while one of them runs,
\* and no migration runs under the config-file backend.
THEOREM StaysOpenable ==
  ASSUME Apart, Attended, Willing, Placed
  PROVE  Spec => []Openable
<1>1. Init => Opening
  BY OpeningInit
<1>2. Opening /\ [Next]_vars => Opening'
  BY OpeningStep
<1>3. Opening => Openable
  BY DEF Opening
<1> QED BY <1>1, <1>2, <1>3, PTL DEF Spec

-----------------------------------------------------------------------------
(* The vault: to whoever looks one up, a box has one answer.               *)

Answered == [b \in Boxes |-> Resolved(b)]
Vaulted  == [Promise!Next]_(Promise!vault)

\* A command that writes changes the answer of its box only, and a migration of none.
LEMMA OtherAnswers ==
  ASSUME Opening, Apart, Attended, Willing, NEW p \in Procs, NEW m \in Job, setting' = setting,
         (Puts(p, m) /\ file' = file) \/ (Saves(p, m) /\ stored' = stored),
         NEW b \in Boxes, b # proc[p].box \/ proc[p].cmd = "migrate"
  PROVE  Resolved(b)' = Resolved(b)
<1> DEFINE j == proc[p]
<1>0. /\ Kept /\ TypeInv /\ Chosen(j) /\ Moving(j) /\ Left(b) /\ j \in Job /\ j.box \in Boxes
      /\ stored \in [Boxes -> Value] /\ file.plain \in [Boxes -> Value]
  BY Before, JobFields, HeldValues DEF Opening, Choosing, Kept, TypeInv, Shared
<1>1. CASE Puts(p, m) /\ file' = file
  <2>1. j.pc = "put"
    BY <1>1 DEF Puts
  <2>2. \/ stored' = stored
        \/ /\ setting.backend # "config"
           /\ stored' = [stored EXCEPT ![j.box] = IF j.cmd = "delete" THEN 0 ELSE j.pass]
    BY <1>1, PutHolds
  <2>3. CASE b # j.box \/ stored' = stored
    BY <1>0, <1>1, <2>2, <2>3 DEF Resolved
  <2>4. CASE b = j.box /\ j.cmd = "migrate" /\ setting.backend # "config" /\ stored' = [stored EXCEPT ![j.box] = j.pass]
    <3>1. j.pass = file.plain[b] /\ j.pass # 0
      BY <2>1, <2>4, PutFound
    <3>2. stored'[b] = file.plain[b] /\ file'.plain[b] = file.plain[b] /\ stored[b] \in {0, file.plain[b]}
      BY <1>0, <1>1, <2>4, <3>1 DEF Left
    <3> QED BY <1>0, <2>4, <3>1, <3>2 DEF Resolved
  <2> QED BY <2>2, <2>3, <2>4
<1>2. CASE Saves(p, m) /\ stored' = stored
  <2>1. CASE j.edit \in {"index", "settings"}
    <3>1. file'.plain = file.plain
      BY <1>0, <1>2, <2>1, SavedFile
    <3> QED BY <1>2, <3>1 DEF Resolved
  <2>2. CASE j.edit = "plain"
    <3>1. file'.plain = [file.plain EXCEPT ![j.box] = j.pass] /\ j.pc = "save"
      BY <1>0, <1>2, <2>2, SavedFile
    <3>2. b # j.box
      BY <1>0, <2>2, <3>1 DEF Moving
    <3> QED BY <1>0, <1>2, <3>1, <3>2 DEF Resolved
  <2>3. CASE j.edit = "clear"
    <3>1. j.cmd = "migrate" /\ file'.plain = [a \in Boxes |-> 0] /\ j.pc = "save"
      BY <1>0, <1>2, <2>3, SavedFile
    <3>2. setting.backend # "config" /\ j.keys = {} /\ (file.plain[b] # 0 => stored[b] = file.plain[b])
      BY <1>0, <2>3, <3>1 DEF Moving
    <3> QED BY <1>0, <1>2, <3>1, <3>2 DEF Resolved
  <2> QED BY <1>0, <1>2, <2>1, <2>2, <2>3, SavedFile
<1> QED BY <1>1, <1>2

LEMMA AnsweredType ==
  ASSUME TypeInv
  PROVE  Answered \in [Boxes -> Value] /\ \A b \in Boxes : Answered[b] = Resolved(b)
<1>1. \A b \in Boxes : Resolved(b) \in Value
  BY HeldValues DEF Resolved
<1> QED BY <1>1 DEF Answered

\* A store of a value is one of the vault or none.
LEMMA StoreMaps ==
  ASSUME Opening, Apart, Attended, Willing, TypeInv', NEW p \in Procs, NEW m \in Job, Does(p, m),
         (Puts(p, m) /\ file' = file) \/ (Saves(p, m) /\ stored' = stored), UNCHANGED <<cipher, mounted, known>>
  PROVE  Vaulted
<1>0. TypeInv /\ proc[p].box \in Boxes /\ setting' = setting
  BY Before, JobFields DEF Opening, Choosing, Kept, Does
<1>1. PICK b \in Boxes : b = proc[p].box
  BY <1>0
<1>2. /\ Answered \in [Boxes -> Value] /\ \A c \in Boxes : Answered[c] = Resolved(c)
      /\ Answered' \in [Boxes -> Value] /\ \A c \in Boxes : Answered'[c] = Resolved(c)'
  <2>1. Answered \in [Boxes -> Value] /\ \A c \in Boxes : Answered[c] = Resolved(c)
    BY <1>0, AnsweredType
  <2>2. \A c \in Boxes : Resolved(c)' \in Value
    BY DEF TypeInv, Shared, File, Resolved
  <2> QED BY <2>1, <2>2 DEF Answered
<1>3. \A c \in Boxes \ {b} : Answered'[c] = Answered[c]
  BY <1>0, <1>1, <1>2, OtherAnswers
<1>4. Answered' = [Answered EXCEPT ![b] = Resolved(b)'] /\ Resolved(b)' \in Value
  BY <1>2, <1>3
<1>5. CASE Resolved(b)' = Resolved(b)
  <2>1. Answered' = Answered
    BY <1>2, <1>4, <1>5
  <2> QED BY <2>1 DEF Vaulted, Promise!vault, Answered
<1>6. CASE Resolved(b)' # Resolved(b)
  <2>1. Resolved(b) = 0 \/ \A v \in Of(b) : cipher[v] = 0
    BY <1>6, Answers
  <2>2. Answered[b] = 0 \/ \A v \in Volumes : BoxOf[v] = b => cipher[v] = 0
    BY <1>2, <2>1 DEF Of
  <2>3. Promise!Store(b)
    BY <1>4, <2>2 DEF Promise!Store, Answered
  <2> QED BY <2>3 DEF Vaulted, Promise!Next
<1> QED BY <1>5, <1>6

\* A volume is encrypted, mounted and unmounted and gets another passphrase as the vault allows.
LEMMA ExecMaps ==
  ASSUME Opening, NEW p \in Procs, NEW m \in Job, Executes(p, m), UNCHANGED <<setting, stored, file, known>>
  PROVE  Vaulted
<1> DEFINE j == proc[p]
<1>0. /\ TypeInv /\ Sound(j) /\ Firm(j) /\ Routed(j) /\ j \in Job /\ j.pc = "exec"
      /\ cipher \in [Volumes -> Value] /\ j.todo \in SUBSET Volumes /\ j.box \in Boxes
  BY Before, JobFields DEF Opening, Choosing, Kept, TypeInv, Shared, Executes
<1>1. Answered' = Answered
  BY DEF Answered, Resolved
<1>2. \A v \in Volumes : BoxOf[v] \in Boxes /\ Answered[BoxOf[v]] = Resolved(BoxOf[v])
  BY <1>0, AnsweredType, CredentialsAssumption
<1>3. ASSUME NEW v \in Volumes, NEW x, x # 0, x = Resolved(BoxOf[v]) \/ x \in known
      PROVE  x \in Promise!AtHand(v)
  BY <1>2, <1>3 DEF Promise!AtHand, Answered
<1>4. CASE cipher' = cipher /\ mounted' \subseteq mounted
  BY <1>1, <1>4 DEF Vaulted, Promise!Next, Promise!Unmount, Answered
<1>5. ASSUME NEW v \in j.todo, j.cmd \in {"config", "start", "mount"}, cipher[v] = j.pass, cipher' = cipher,
             mounted' = mounted \cup {v}
      PROVE  Vaulted
  <2>1. v \in Volumes /\ cipher[v] # 0
    BY <1>0, <1>5 DEF Firm
  <2>2. cipher[v] = Resolved(BoxOf[v]) \/ cipher[v] \in known
    BY <2>1 DEF Opening, Openable
  <2>3. Promise!Mount(v)
    BY <1>1, <1>3, <1>5, <2>1, <2>2 DEF Promise!Mount, Answered
  <2> QED BY <2>1, <2>3 DEF Vaulted, Promise!Next
<1>6. ASSUME NEW v \in j.todo, j.cmd \in {"config", "start"}, cipher[v] = 0,
             cipher' = [cipher EXCEPT ![v] = j.pass], mounted' = mounted
      PROVE  Vaulted
  <2>1. v \in Volumes /\ BoxOf[v] = j.box /\ j.pass # 0
    BY <1>0, <1>6 DEF Firm, Of
  <2>2. j.pass = Resolved(BoxOf[v]) \/ j.pass \in known
    BY <1>0, <1>6, <2>1 DEF Sound
  <2>3. j.pass \in Promise!AtHand(v)
    BY <1>3, <2>1, <2>2
  <2>4. Promise!Encrypt(v)
    BY <1>1, <1>6, <2>3 DEF Promise!Encrypt, Answered
  <2> QED BY <2>1, <2>4 DEF Vaulted, Promise!Next
<1>7. ASSUME NEW v \in j.todo, j.cmd = "passwd", v \in j.init, cipher' = [cipher EXCEPT ![v] = j.new],
             mounted' = mounted
      PROVE  Vaulted
  <2>1. v \in Volumes /\ cipher[v] # 0 /\ j.new # 0 /\ j.new \in known
    BY <1>0, <1>7 DEF Firm, Sound
  <2>2. Promise!Rekey(v)
    BY <1>1, <1>7, <2>1 DEF Promise!Rekey, Answered
  <2> QED BY <2>1, <2>2 DEF Vaulted, Promise!Next
<1> QED BY <1>4, <1>5, <1>6, <1>7 DEF Executes

\* Nothing happens to the vault but that the operator may type a passphrase.
LEMMA StillMaps ==
  ASSUME UNCHANGED <<setting, stored, file, cipher, mounted>>, Learnt
  PROVE  Vaulted
<1>1. Answered' = Answered
  BY DEF Answered, Resolved
<1>2. CASE known' = known
  BY <1>1, <1>2 DEF Vaulted, Promise!vault, Answered
<1>3. ASSUME NEW x \in Value, known' = known \cup {x}
      PROVE  Vaulted
  <2>1. Promise!Type(x)
    BY <1>1, <1>3 DEF Promise!Type, Answered
  <2> QED BY <2>1 DEF Vaulted, Promise!Next
<1> QED BY <1>2, <1>3 DEF Learnt

LEMMA StepMaps ==
  ASSUME Opening, Apart, Attended, Willing, [Next]_vars
  PROVE  Vaulted
<1>0. TypeInv /\ TypeInv'
  BY TypeStep DEF Opening, Choosing, Kept
<1>1. CASE UNCHANGED vars
  BY <1>1, StillMaps DEF vars, Learnt
<1>2. CASE KeyringChanges
  BY <1>2, StillMaps DEF KeyringChanges, Learnt
<1>3. ASSUME NEW p \in Procs, NEW m \in Job, Begins(p, m)
      PROVE  Vaulted
  BY <1>3, StillMaps DEF Begins
<1>4. ASSUME NEW p \in Procs, NEW m \in Job, Does(p, m)
      PROVE  Vaulted
  <2>1. UNCHANGED <<setting, ring>> /\ Learnt
    BY <1>4 DEF Does
  <2>2. \/ UNCHANGED <<stored, file, cipher, mounted>>
        \/ Puts(p, m) /\ UNCHANGED <<file, cipher, mounted, known>>
        \/ Saves(p, m) /\ UNCHANGED <<stored, cipher, mounted, known>>
        \/ Executes(p, m) /\ UNCHANGED <<stored, file, known>>
    BY <1>4 DEF Does
  <2>3. CASE UNCHANGED <<stored, file, cipher, mounted>>
    BY <2>1, <2>3, StillMaps
  <2>4. CASE Puts(p, m) /\ UNCHANGED <<file, cipher, mounted, known>>
    BY <1>0, <1>4, <2>4, StoreMaps
  <2>5. CASE Saves(p, m) /\ UNCHANGED <<stored, cipher, mounted, known>>
    BY <1>0, <1>4, <2>5, StoreMaps
  <2>6. CASE Executes(p, m) /\ UNCHANGED <<stored, file, known>>
    BY <2>1, <2>6, ExecMaps
  <2> QED BY <2>2, <2>3, <2>4, <2>5, <2>6
<1> QED BY <1>0, <1>1, <1>2, <1>3, <1>4, WhoSteps

LEMMA InitMaps ==
  ASSUME Init
  PROVE  Promise!Init
<1>1. TypeInv /\ Opening
  BY TypeInit, OpeningInit
<1>2. Answered \in [Boxes -> Value] /\ cipher \in [Volumes -> Value] /\ mounted = {} /\ known = {}
  BY <1>1, AnsweredType DEF TypeInv, Shared, Init
<1>3. \A v \in Volumes : cipher[v] # 0 => cipher[v] = Answered[BoxOf[v]]
  <2> SUFFICES ASSUME NEW v \in Volumes, cipher[v] # 0
               PROVE  cipher[v] = Answered[BoxOf[v]]
    OBVIOUS
  <2>1. BoxOf[v] \in Boxes
    BY CredentialsAssumption
  <2>2. cipher[v] = Resolved(BoxOf[v])
    BY <1>1, <1>2 DEF Opening, Openable
  <2> QED BY <1>1, <2>1, <2>2, AnsweredType
<1> QED BY <1>2, <1>3 DEF Promise!Init, Answered

\* The commands implement the vault: whatever is interleaved, looked up, stored, moved or killed, a volume
\* keeps a passphrase that a lookup answers or the operator knows; under the hypotheses of StaysOpenable.
THEOREM KeepsTheVault ==
  ASSUME Apart, Attended, Willing, Placed
  PROVE  Spec => ImplementsVault
<1>1. Init => Opening /\ Promise!Init
  BY OpeningInit, InitMaps
<1>2. Opening /\ [Next]_vars => Opening'
  BY OpeningStep
<1>3. Opening /\ [Next]_vars => [Promise!Next]_(Promise!vault)
  BY StepMaps DEF Vaulted
<1> QED BY <1>1, <1>2, <1>3, PTL DEF Spec, ImplementsVault, Promise!Spec

\* What the vault alone keeps.
Opens ==
  /\ Answered \in [Boxes -> Value] /\ cipher \in [Volumes -> Value] /\ known \subseteq Value
  /\ \A v \in Volumes : cipher[v] # 0 => cipher[v] \in {Answered[BoxOf[v]]} \cup known

LEMMA OpensStep ==
  ASSUME Opens, Vaulted
  PROVE  Opens'
<1>0. \A v \in Volumes : BoxOf[v] \in Boxes
  BY CredentialsAssumption
<1>1. CASE UNCHANGED Promise!vault
  BY <1>1 DEF Opens, Promise!vault, Answered
<1>2. ASSUME NEW b \in Boxes, Promise!Store(b)
      PROVE  Opens'
  <2>1. PICK x \in Value : Answered' = [Answered EXCEPT ![b] = x]
    BY <1>2 DEF Promise!Store, Answered
  <2>2. cipher' = cipher /\ known' = known /\ (Answered[b] = 0 \/ \A v \in Volumes : BoxOf[v] = b => cipher[v] = 0)
    BY <1>2 DEF Promise!Store, Answered
  <2>3. Answered' \in [Boxes -> Value]
    BY <2>1 DEF Opens
  <2>4. ASSUME NEW v \in Volumes, cipher'[v] # 0
        PROVE  cipher'[v] \in {Answered'[BoxOf[v]]} \cup known'
    BY <1>0, <2>1, <2>2, <2>4 DEF Opens
  <2> QED BY <2>2, <2>3, <2>4 DEF Opens
<1>3. ASSUME NEW x \in Value, Promise!Type(x)
      PROVE  Opens'
  <2>1. Answered' = Answered /\ cipher' = cipher /\ known' = known \cup {x}
    BY <1>3 DEF Promise!Type, Answered
  <2> QED BY <2>1 DEF Opens
<1>4. ASSUME NEW v \in Volumes, Promise!Encrypt(v) \/ Promise!Rekey(v)
      PROVE  Opens'
  <2>1. Answered' = Answered /\ known' = known
    BY <1>4 DEF Promise!Encrypt, Promise!Rekey, Answered
  <2>2. PICK x \in {Answered[BoxOf[v]]} \cup known : cipher' = [cipher EXCEPT ![v] = x]
    BY <1>4 DEF Promise!Encrypt, Promise!Rekey, Promise!AtHand, Answered
  <2>3. x \in Value
    BY <1>0, <2>2 DEF Opens
  <2> QED BY <2>1, <2>2, <2>3 DEF Opens
<1>5. ASSUME (\E v \in Volumes : Promise!Mount(v)) \/ Promise!Unmount
      PROVE  Opens'
  <2>1. Answered' = Answered /\ known' = known /\ cipher' = cipher
    BY <1>5 DEF Promise!Mount, Promise!Unmount, Answered
  <2> QED BY <2>1 DEF Opens
<1> QED BY <1>1, <1>2, <1>3, <1>4, <1>5 DEF Vaulted, Promise!Next

\* The vault is worth implementing: whoever implements it leaves no volume that cannot be opened.
THEOREM VaultOpens == ImplementsVault => []Openable
<1>1. Promise!Init => Opens
  BY DEF Promise!Init, Opens, Answered
<1>2. Opens /\ [Promise!Next]_(Promise!vault) => Opens'
  BY OpensStep DEF Vaulted
<1>3. Opens => Openable
  <2>1. \A v \in Volumes : BoxOf[v] \in Boxes
    BY CredentialsAssumption
  <2> QED BY <2>1 DEF Opens, Openable, Answered
<1> QED BY <1>1, <1>2, <1>3, PTL DEF ImplementsVault, Promise!Spec
=============================================================================
