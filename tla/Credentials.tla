----------------------------- MODULE Credentials -----------------------------
(***************************************************************************)
(* Passphrases and secrets: the credential stores (candy/plugin-secrets),  *)
(* the commands that generate, move and use them (charly/enc.go,           *)
(* charly/secrets.go) and the gocryptfs volumes encrypted with them        *)
(* (candy/plugin-enc).                                                     *)
(*                                                                         *)
(* A box is a key of the stores and the owner of some volumes; a value is  *)
(* a passphrase, 0 being none. A step of a process is one access to the    *)
(* keyring, to config.yml or to a volume.                                  *)
(***************************************************************************)
EXTENDS Integers, FiniteSets, FiniteSetsExt

CONSTANTS
  Procs,       \* processes, each one command
  Boxes,       \* keys of the credential stores
  Volumes,     \* encrypted volumes, numbered in the order of the deploy configuration
  BoxOf,       \* [Volumes -> Boxes]
  Backends,    \* values of secret_backend to start with
  Providers,   \* what a locked keyring does to a probe: it "answers" or "blocks"
  Menu,        \* [Backends -> SUBSET AllCommands]  what is run under each backend
  Faults,      \* SUBSET AllFaults
  MaxKills,    \* processes that are killed
  MaxChanges,  \* changes of the keyring
  MaxTries     \* attempts while a store is unavailable (encMountDeadline / encMountPollPeriod)

AllCommands == {"config", "start", "mount", "unmount", "passwd",
                "provision", "set", "delete", "migrate", "settings"}

\* "away"     the keyring is locked or absent when a command changes a credential
\* "vanish"   the keyring service goes away
\* "setfails" the keyring refuses to store a value
\* "overlap"  commands that change credentials run at the same time
AllFaults == {"away", "vanish", "setfails", "overlap"}

\* Commands that write the keyring or config.yml.
Writers == {"config", "provision", "set", "delete", "migrate", "settings"}

Rings == {"open", "locked", "absent"}

ASSUME CredentialsAssumption ==
  /\ IsFiniteSet(Procs) /\ Boxes # {}
  /\ IsFiniteSet(Volumes) /\ Volumes \subseteq Nat
  /\ BoxOf \in [Volumes -> Boxes]
  /\ Backends \subseteq {"auto", "keyring", "config"}
  /\ Providers \subseteq {"answers", "blocks"}
  /\ Menu \in [Backends -> SUBSET AllCommands]
  /\ Faults \subseteq AllFaults
  /\ MaxKills \in Nat /\ MaxChanges \in Nat /\ MaxTries \in Nat \ {0}

VARIABLES
  setting, \* the configured backend and the provider, constant
  ring,    \* the state of the keyring service
  stored,  \* [Boxes -> Value]  what the keyring holds
  file,    \* config.yml: the plaintext credentials and the shadow index of the keyring
  cipher,  \* [Volumes -> Value]  the passphrase a volume was initialised with
  mounted, \* the volumes that are mounted
  fresh,   \* the next new value
  known,   \* values the operator has typed (history)
  kills, changes,
  proc     \* [Procs -> Job]

vars == <<setting, ring, stored, file, cipher, mounted, fresh, known, kills, changes, proc>>

Value == 0..(Cardinality(Procs) + 2)

\* The runtime config as far as it matters here.
File == [plain : [Boxes -> Value], index : SUBSET Boxes]

Empty == [plain |-> [b \in Boxes |-> 0], index |-> {}]

Idle == [pc |-> "idle", cmd |-> "none", box |-> CHOOSE b \in Boxes : TRUE, had |-> FALSE,
         store |-> "none", dead |-> FALSE, err |-> FALSE, source |-> "none",
         mode |-> "first", tries |-> 0, pass |-> 0, new |-> 0, init |-> {}, mnt |-> {},
         todo |-> {}, keys |-> {}, moved |-> FALSE, edit |-> "none", cfg |-> Empty, old |-> Empty]

Of(b) == {v \in Volumes : BoxOf[v] = b}

\* Nothing yet, or a volume with a passphrase that is still in plaintext.
Init ==
  /\ setting \in [backend : Backends, provider : Providers]
  /\ ring \in Rings
  /\ \E old \in {{}} \cup {{v} : v \in Volumes} :
       /\ cipher = [v \in Volumes |-> IF v \in old THEN 1 ELSE 0]
       /\ file = [Empty EXCEPT !.plain = [b \in Boxes |-> IF Of(b) \cap old # {} THEN 1 ELSE 0]]
  /\ stored = [b \in Boxes |-> 0]
  /\ mounted = {} /\ known = {} /\ fresh = 2
  /\ kills = 0 /\ changes = 0
  /\ proc = [p \in Procs |-> Idle]

Ended == {"done", "unstored"}
Active(p) == proc[p].pc \notin Ended \cup {"idle"}

\* The next local state of p; nothing is left of a command that has ended.
Become(p, j) == proc' = [proc EXCEPT ![p] = IF j.pc \in Ended THEN [Idle EXCEPT !.pc = j.pc] ELSE j]

\* What a lookup answers when the keyring is open.
Resolved(b) ==
  IF setting.backend # "config" /\ stored[b] # 0 THEN stored[b] ELSE file.plain[b]

-----------------------------------------------------------------------------
(* Commands begin.                                                         *)

\* Nothing in the code keeps the commands apart: a run without "overlap" does.
Alone(c) ==
  \/ "overlap" \in Faults
  \/ \A q \in Procs : Active(q) =>
       {"migrate", "set", "delete"} \cap {c, proc[q].cmd} = {} /\ ~({c, proc[q].cmd} \subseteq Writers)

Entry(c) ==
  CASE c \in {"config", "start", "mount", "unmount", "passwd"} -> "plan"
    [] c \in {"provision", "set", "delete"} -> "select"
    [] c = "migrate" -> "read"
    [] c = "settings" -> "load"

\* The operator stores or deletes a passphrase before a volume is encrypted with it.
Begin(p) ==
  /\ proc[p].pc = "idle"
  /\ \E c \in Menu[setting.backend], b \in Boxes :
       /\ Alone(c)
       /\ c \in Writers /\ setting.backend # "config" /\ "away" \notin Faults => ring = "open"
       /\ c \in {"config", "start", "mount", "unmount", "passwd"} => Of(b) # {}
       /\ c = "provision" => Of(b) = {}
       /\ c \in {"set", "delete"} => \A v \in Of(b) : cipher[v] = 0
       /\ c \in {"migrate", "settings"} => b = Idle.box
       /\ Become(p, [Idle EXCEPT !.pc = Entry(c), !.cmd = c, !.box = b, !.had = c = "mount" /\ Resolved(b) # 0,
                       !.pass = IF c = "set" THEN fresh ELSE 0, !.edit = IF c = "settings" THEN "settings" ELSE "none"])
       /\ fresh' = IF c = "set" THEN fresh + 1 ELSE fresh
       /\ known' = IF c = "set" THEN known \cup {fresh} ELSE known
  /\ UNCHANGED <<setting, ring, stored, file, cipher, mounted, kills, changes>>

\* encPlanFor: what is initialised and mounted is read once, and the command acts on that.
Plan(p) ==
  LET j     == proc[p]
      here  == Of(j.box)
      init  == {v \in here : cipher[v] # 0}
      mnt   == here \cap mounted
      seen  == [j EXCEPT !.init = init, !.mnt = mnt, !.todo = here]
  IN  /\ j.pc = "plan"
      /\ \/ /\ j.cmd \in {"config", "start"}
            /\ Become(p, [seen EXCEPT !.pc = IF here \subseteq init \cap mnt THEN "ready" ELSE "select"])
            /\ UNCHANGED <<fresh, known>>
         \/ /\ j.cmd = "mount"
            /\ Become(p, [seen EXCEPT !.pc = IF here \subseteq mnt THEN "done" ELSE "select"])
            /\ UNCHANGED <<fresh, known>>
         \/ /\ j.cmd = "unmount"
            /\ Become(p, [seen EXCEPT !.pc = "exec"])
            /\ UNCHANGED <<fresh, known>>
         \/ /\ j.cmd = "passwd"
            /\ IF mnt # {} \/ init = {}
               THEN Become(p, [seen EXCEPT !.pc = "done"]) /\ UNCHANGED <<fresh, known>>
               ELSE /\ \E v \in init : Become(p, [seen EXCEPT !.pc = "exec", !.pass = cipher[v], !.new = fresh])
                    /\ fresh' = fresh + 1
                    /\ known' = known \cup {fresh}
      /\ UNCHANGED <<setting, ring, stored, file, cipher, mounted, kills, changes>>

\* `charly config` unmounts what it has set up, unless asked not to.
Ready(p) ==
  /\ proc[p].pc = "ready"
  /\ \/ Become(p, [proc[p] EXCEPT !.pc = "done"])
     \/ /\ proc[p].cmd = "config"
        /\ Become(p, [proc[p] EXCEPT !.pc = "plan", !.cmd = "unmount"])
  /\ UNCHANGED <<setting, ring, stored, file, cipher, mounted, fresh, known, kills, changes>>

-----------------------------------------------------------------------------
(* The stores.                                                             *)

\* KeyringStore.Probe: a provider that answers tells nothing of the lock.
Probe ==
  CASE ring = "open"   -> "ok"
    [] ring = "absent" -> "error"
    [] ring = "locked" -> IF setting.provider = "blocks" THEN "timeout" ELSE "ok"

\* DefaultCredentialStore: chosen once, until it is reset.
Selected(j) ==
  IF setting.backend = "config" THEN [j EXCEPT !.store = "config"]
  ELSE IF Probe = "ok" THEN [j EXCEPT !.store = "keyring"]
  ELSE IF Probe = "timeout" /\ setting.backend = "keyring"
       THEN [j EXCEPT !.store = "keyring", !.dead = TRUE]
       ELSE [j EXCEPT !.store = "config", !.err = TRUE]

Select(p) ==
  /\ proc[p].pc = "select"
  /\ Become(p, [Selected(proc[p]) EXCEPT !.pc = IF proc[p].cmd \in {"set", "delete"} THEN "put" ELSE "get"])
  /\ UNCHANGED <<setting, ring, stored, file, cipher, mounted, fresh, known, kills, changes>>

\* A value is found.
Found(j, val) == [j EXCEPT !.pc = IF j.cmd = "provision" THEN "done" ELSE "exec", !.pass = val]

\* resolveEncPassphraseForMount under systemd.
Unmountable(j, source) ==
  CASE setting.backend = "config" -> "unstored"
    [] j.mode = "first"  -> CASE source = "default" -> "unstored" [] source = "locked" -> "await" [] OTHER -> "retry"
    [] j.mode = "await"  -> CASE source = "default" -> "unstored" [] source = "locked" -> "await" [] OTHER -> "done"
    [] j.mode = "retry"  -> IF source = "default" THEN "unstored" ELSE IF j.tries < MaxTries THEN "retry" ELSE "done"

\* No value: mount waits or gives up, start asks, the others generate one.
Missing(p, j, source) ==
  \/ j.cmd = "mount" /\ Become(p, [j EXCEPT !.pc = Unmountable(j, source)]) /\ UNCHANGED fresh
  \/ j.cmd = "start" /\ Become(p, [j EXCEPT !.pc = "prompt"]) /\ UNCHANGED fresh
  \/ /\ j.cmd \in {"config", "provision"}
     /\ Become(p, [j EXCEPT !.pc = "put", !.pass = fresh])
     /\ fresh' = fresh + 1

Answer(p, j, val, source) ==
  IF val # 0 THEN Become(p, Found(j, val)) /\ UNCHANGED fresh ELSE Missing(p, j, source)

Get_bug(p) ==
  LET j == proc[p]
      fall(source) == /\ Become(p, [j EXCEPT !.pc = "fallback", !.source = source, !.dead = FALSE])
                      /\ UNCHANGED fresh
  IN  /\ j.pc = "get"
      /\ CASE j.store = "config" -> Answer(p, j, file.plain[j.box], IF j.err THEN "unavailable" ELSE "default")
           [] j.store = "keyring" /\ (j.dead \/ ring # "open") -> fall("default")
           [] j.store = "keyring" /\ ~j.dead /\ ring = "open"  ->
                IF stored[j.box] # 0 THEN Answer(p, j, stored[j.box], "keyring") ELSE fall("default")
      /\ UNCHANGED <<setting, ring, stored, file, cipher, mounted, known, kills, changes>>

\* resolveStoreChain: the active store, ...
Get(p) ==
  LET j == proc[p]
      fall(source) == /\ Become(p, [j EXCEPT !.pc = "fallback", !.source = source, !.dead = source = "locked"])
                      /\ UNCHANGED fresh
  IN  /\ j.pc = "get"
      /\ CASE j.store = "config" -> Answer(p, j, file.plain[j.box], IF j.err THEN "unavailable" ELSE "default")
           [] j.store = "keyring" /\ (j.dead \/ ring = "locked") -> fall("locked")
           [] j.store = "keyring" /\ ~j.dead /\ ring = "absent"  -> fall("default")
           [] j.store = "keyring" /\ ~j.dead /\ ring = "open"    ->
                IF stored[j.box] # 0 THEN Answer(p, j, stored[j.box], "keyring") ELSE fall("default")
      /\ UNCHANGED <<setting, ring, stored, file, cipher, mounted, known, kills, changes>>

Fallback_bug(p) ==
  LET j == proc[p]
  IN  /\ j.pc = "fallback"
      /\ Missing(p, j, j.source)
      /\ UNCHANGED <<setting, ring, stored, file, cipher, mounted, known, kills, changes>>

\* ... then the config file behind the keyring.
Fallback(p) ==
  LET j == proc[p]
  IN  /\ j.pc = "fallback"
      /\ Answer(p, j, file.plain[j.box], j.source)
      /\ UNCHANGED <<setting, ring, stored, file, cipher, mounted, known, kills, changes>>

Again_bug(p) ==
  LET j == proc[p]
  IN  /\ j.pc \in {"await", "retry"}
      /\ Become(p, [j EXCEPT !.pc = "get", !.mode = j.pc, !.tries = IF j.pc = "retry" THEN @ + 1 ELSE @])
      /\ UNCHANGED <<setting, ring, stored, file, cipher, mounted, fresh, known, kills, changes>>

\* awaitUnlock, retryUnavailable: the store is reset and everything resolved again.
Again(p) ==
  LET j == proc[p]
  IN  /\ j.pc \in {"await", "retry"}
      /\ Become(p, [j EXCEPT !.pc = "select", !.mode = j.pc, !.store = "none", !.dead = FALSE, !.err = FALSE,
                      !.tries = IF j.pc = "retry" THEN @ + 1 ELSE @])
      /\ UNCHANGED <<setting, ring, stored, file, cipher, mounted, fresh, known, kills, changes>>

\* The operator cancels, or types the passphrase of a volume or a new one.
Prompt(p) ==
  LET j == proc[p]
  IN  /\ j.pc = "prompt"
      /\ \/ Become(p, [j EXCEPT !.pc = "done"]) /\ UNCHANGED <<fresh, known>>
         \/ \E v \in j.init :
              /\ Become(p, [j EXCEPT !.pc = "exec", !.pass = cipher[v]])
              /\ known' = known \cup {cipher[v]}
              /\ UNCHANGED fresh
         \/ /\ j.init = {}
            /\ Become(p, [j EXCEPT !.pc = "exec", !.pass = fresh])
            /\ known' = known \cup {fresh}
            /\ fresh' = fresh + 1
      /\ UNCHANGED <<setting, ring, stored, file, cipher, mounted, kills, changes>>

-----------------------------------------------------------------------------
(* Set and Delete; every change of config.yml is a load and a save.        *)

\* Where a command goes on after its value is stored, or not.
After(j) ==
  CASE j.cmd = "config"  -> "exec"
    [] j.cmd = "migrate" -> "next"
    [] OTHER             -> "done"

\* KeyringStore.Set, ConfigFileStore.Set and the Deletes; a refusal is at most reported.
Put(p) ==
  LET j == proc[p]
      val == IF j.cmd = "delete" THEN 0 ELSE j.pass
      keep == UNCHANGED stored
  IN  /\ j.pc = "put"
      /\ \/ /\ j.store = "config"
            /\ Become(p, [j EXCEPT !.pc = "load", !.edit = "plain", !.pass = val]) /\ keep
         \/ /\ j.store = "keyring" /\ ~j.dead /\ ring = "open"
            /\ stored' = [stored EXCEPT ![j.box] = val]
            /\ Become(p, [j EXCEPT !.pc = "load", !.edit = "index"])
         \/ /\ j.store = "keyring" /\ (j.dead \/ ring # "open" \/ "setfails" \in Faults)
            /\ Become(p, [j EXCEPT !.pc = After(j), !.dead = j.dead \/ ring = "locked"]) /\ keep
      /\ UNCHANGED <<setting, ring, file, cipher, mounted, fresh, known, kills, changes>>

\* LoadRuntimeConfig.
Load(p) ==
  /\ proc[p].pc = "load"
  /\ Become(p, [proc[p] EXCEPT !.pc = "save", !.cfg = file])
  /\ UNCHANGED <<setting, ring, stored, file, cipher, mounted, fresh, known, kills, changes>>

Edited_bug(j) ==
  CASE j.edit = "index"    -> [j.cfg EXCEPT !.index = IF j.cmd = "delete" THEN @ \ {j.box} ELSE @ \cup {j.box}]
    [] j.edit = "plain"    -> [j.cfg EXCEPT !.plain = [Empty.plain EXCEPT ![j.box] = j.pass]]
    [] j.edit = "clear"    -> [j.old EXCEPT !.plain = Empty.plain]
    [] j.edit = "settings" -> j.cfg

\* addKeyringIndex, removeKeyringIndex, setConfigCredential, migrate's last edit.
Edited(j) ==
  CASE j.edit = "index"    -> [j.cfg EXCEPT !.index = IF j.cmd = "delete" THEN @ \ {j.box} ELSE @ \cup {j.box}]
    [] j.edit = "plain"    -> [j.cfg EXCEPT !.plain[j.box] = j.pass]
    [] j.edit = "clear"    -> [j.old EXCEPT !.plain = Empty.plain]
    [] j.edit = "settings" -> j.cfg

\* SaveRuntimeConfig: the whole file, without a lock.
Save(p) ==
  LET j == proc[p]
  IN  /\ j.pc = "save"
      /\ file' = Edited(j)
      /\ Become(p, [j EXCEPT !.pc = IF j.edit = "clear" THEN "done" ELSE After(j), !.moved = TRUE, !.cfg = Empty, !.edit = "none"])
      /\ UNCHANGED <<setting, ring, stored, cipher, mounted, fresh, known, kills, changes>>

\* ConfigMigrateSecretsCmd: reads the plaintext entries, ...
MigrateRead(p) ==
  LET keys == {b \in Boxes : file.plain[b] # 0}
  IN  /\ proc[p].pc = "read"
      /\ Become(p, [proc[p] EXCEPT !.pc = IF keys = {} THEN "done" ELSE "probe", !.old = file, !.keys = keys])
      /\ UNCHANGED <<setting, ring, stored, file, cipher, mounted, fresh, known, kills, changes>>

\* ... needs the keyring, ...
MigrateProbe(p) ==
  /\ proc[p].pc = "probe"
  /\ Become(p, [proc[p] EXCEPT !.pc = IF Probe = "ok" THEN "next" ELSE "done", !.store = "keyring"])
  /\ UNCHANGED <<setting, ring, stored, file, cipher, mounted, fresh, known, kills, changes>>

MigrateNext_bug(p) ==
  LET j == proc[p]
  IN  /\ j.pc = "next"
      /\ \/ \E b \in j.keys : Become(p, [j EXCEPT !.pc = "put", !.box = b, !.pass = j.old.plain[b], !.keys = @ \ {b}])
         \/ Become(p, [j EXCEPT !.pc = "save", !.edit = "clear"])
      /\ UNCHANGED <<setting, ring, stored, file, cipher, mounted, fresh, known, kills, changes>>

\* ... sets one after the other in the order of a map, and clears the file it has read.
MigrateNext(p) ==
  LET j == proc[p]
  IN  /\ j.pc = "next"
      /\ \/ \E b \in j.keys : Become(p, [j EXCEPT !.pc = "put", !.box = b, !.pass = j.old.plain[b], !.keys = @ \ {b}])
         \/ /\ j.keys = {}
            /\ Become(p, [j EXCEPT !.pc = IF j.moved THEN "save" ELSE "done", !.edit = "clear"])
      /\ UNCHANGED <<setting, ring, stored, file, cipher, mounted, fresh, known, kills, changes>>

-----------------------------------------------------------------------------
(* candy/plugin-enc: the volumes in their order, up to the first error.    *)

\* runGocryptfsScope. A scope that is there, mounted by another command in the meantime, is stopped first.
Mount(p, v) ==
  /\ mounted' = IF cipher[v] = proc[p].pass THEN mounted \cup {v} ELSE mounted \ {v}
  /\ Become(p, IF cipher[v] = proc[p].pass THEN [proc[p] EXCEPT !.todo = @ \ {v}] ELSE [proc[p] EXCEPT !.pc = "done"])
  /\ UNCHANGED cipher

Skip(p, v) == Become(p, [proc[p] EXCEPT !.todo = @ \ {v}]) /\ UNCHANGED <<cipher, mounted>>
Fails(p)   == Become(p, [proc[p] EXCEPT !.pc = "done"]) /\ UNCHANGED <<cipher, mounted>>

\* ensureVolumes.
Ensure(p, v) ==
  LET j == proc[p]
  IN  \/ /\ v \notin j.init
         /\ \/ /\ cipher[v] = 0
               /\ cipher' = [cipher EXCEPT ![v] = j.pass]
               /\ Become(p, [j EXCEPT !.init = @ \cup {v}])
               /\ UNCHANGED mounted
            \/ Fails(p)
      \/ v \in j.init /\ v \notin j.mnt /\ Mount(p, v)
      \/ v \in j.init /\ v \in j.mnt /\ Skip(p, v)

\* mountVolumes.
MountOnly(p, v) ==
  LET j == proc[p]
  IN  \/ v \notin j.init /\ Fails(p)
      \/ v \in j.init /\ v \notin j.mnt /\ Mount(p, v)
      \/ v \in j.init /\ v \in j.mnt /\ Skip(p, v)

\* unmountVolumes.
Unmount(p, v) ==
  LET j == proc[p]
  IN  \/ v \notin j.mnt /\ Skip(p, v)
      \/ /\ v \in j.mnt /\ v \in mounted
         /\ mounted' = mounted \ {v}
         /\ Become(p, [j EXCEPT !.todo = @ \ {v}])
         /\ UNCHANGED cipher
      \/ v \in j.mnt /\ Fails(p)

\* passwdVolumes.
Passwd(p, v) ==
  LET j == proc[p]
  IN  \/ v \notin j.init /\ Skip(p, v)
      \/ /\ v \in j.init /\ cipher[v] = j.pass
         /\ cipher' = [cipher EXCEPT ![v] = j.new]
         /\ Become(p, [j EXCEPT !.todo = @ \ {v}])
         /\ UNCHANGED mounted
      \/ v \in j.init /\ Fails(p)

Exec(p) ==
  LET j == proc[p]
  IN  /\ j.pc = "exec"
      /\ \/ /\ j.todo = {}
            /\ Become(p, [j EXCEPT !.pc = IF j.cmd = "config" THEN "ready" ELSE "done"])
            /\ UNCHANGED <<cipher, mounted>>
         \/ /\ j.todo # {}
            /\ CASE j.cmd \in {"config", "start"} -> Ensure(p, Min(j.todo))
                 [] j.cmd = "mount"   -> MountOnly(p, Min(j.todo))
                 [] j.cmd = "unmount" -> Unmount(p, Min(j.todo))
                 [] j.cmd = "passwd"  -> Passwd(p, Min(j.todo))
      /\ UNCHANGED <<setting, ring, stored, file, fresh, known, kills, changes>>

-----------------------------------------------------------------------------
(* The world.                                                              *)

\* A killed process; a mounted volume stays, its scope is a unit of systemd.
Crash(p) ==
  /\ Active(p) /\ kills < MaxKills
  /\ kills' = kills + 1
  /\ Become(p, [proc[p] EXCEPT !.pc = "done"])
  /\ UNCHANGED <<setting, ring, stored, file, cipher, mounted, fresh, known, changes>>

\* The session comes up, the user locks or unlocks the keyring.
KeyringChanges ==
  /\ changes < MaxChanges /\ changes' = changes + 1
  /\ "away" \notin Faults => \A p \in Procs : ~(Active(p) /\ proc[p].cmd \in Writers)
  /\ \/ ring = "absent" /\ ring' \in {"open", "locked"}
     \/ ring = "locked" /\ ring' = "open"
     \/ ring = "open" /\ ring' = "locked"
     \/ "vanish" \in Faults /\ ring # "absent" /\ ring' = "absent"
  /\ UNCHANGED <<setting, stored, file, cipher, mounted, fresh, known, kills, proc>>

Step(p) ==
  \/ Plan(p) \/ Ready(p) \/ Select(p) \/ Get(p) \/ Fallback(p) \/ Again(p) \/ Put(p) \/ Load(p) \/ Save(p)
  \/ MigrateRead(p) \/ MigrateProbe(p) \/ MigrateNext(p) \/ Exec(p)

Next ==
  \/ \E p \in Procs : Begin(p) \/ Step(p) \/ Prompt(p) \/ Crash(p)
  \/ KeyringChanges

\* A process that can go on does; nothing makes the operator type or the keyring change.
Spec == Init /\ [][Next]_vars /\ \A p \in Procs : WF_vars(Step(p))

-----------------------------------------------------------------------------
(* Properties.                                                             *)

Job == [pc : {"idle", "plan", "ready", "select", "get", "fallback", "await", "retry", "prompt", "put", "load",
              "save", "read", "probe", "next", "exec", "done", "unstored"},
        cmd : AllCommands \cup {"none"}, box : Boxes, had : BOOLEAN,
        store : {"none", "keyring", "config"}, dead : BOOLEAN, err : BOOLEAN,
        source : {"none", "locked", "default"}, mode : {"first", "await", "retry"}, tries : 0..MaxTries,
        pass : Value, new : Value, init : SUBSET Volumes, mnt : SUBSET Volumes,
        todo : SUBSET Volumes, keys : SUBSET Boxes, moved : BOOLEAN,
        edit : {"none", "plain", "index", "clear", "settings"}, cfg : File, old : File]

\* The type of the state; a mounted volume is an initialised one.
TypeOK ==
  /\ setting \in [backend : Backends, provider : Providers]
  /\ ring \in Rings
  /\ stored \in [Boxes -> Value] /\ file \in File
  /\ cipher \in [Volumes -> Value]
  /\ mounted \subseteq {v \in Volumes : cipher[v] # 0}
  /\ fresh \in Nat /\ known \subseteq Value
  /\ kills \in 0..MaxKills /\ changes \in 0..MaxChanges
  /\ \A p \in Procs : proc[p] \in Job

\* Every volume opens with what the stores answer or with what the operator has typed: the passphrase
\* resolveEncPassphrase generates is stored before ensureVolumes encrypts with it, and no migration loses it.
Openable ==
  \A v \in Volumes : cipher[v] # 0 => cipher[v] \in {Resolved(BoxOf[v])} \cup known

\* The commands implement the vault: what a lookup would find with the keyring open is its answer, so a
\* migration, which moves every value in several steps, does nothing at all, and no store, deletion or
\* generation takes from a volume what opens it.
Promise == INSTANCE Vault WITH answer <- [b \in Boxes |-> Resolved(b)], typed <- known, Values <- Value

ImplementsVault == Promise!Spec

\* A mount under systemd fails as `not stored` only for want of a credential (resolveEncPassphraseForMount).
TerminalJust ==
  [][\A p \in Procs : proc'[p].pc = "unstored" /\ proc[p].pc # "unstored" =>
       ~proc[p].had \/ Resolved(proc[p].box) = 0]_vars

\* A secret is generated only when it is in neither store (ensureCandySecret, resolveEncPassphrase).
GeneratedWhenMissing ==
  [][\A p \in Procs : proc'[p].pc = "put" /\ proc[p].pc \in {"get", "fallback"} => Resolved(proc[p].box) = 0]_vars

\* After a migration `charly secrets list` shows what was moved (ConfigMigrateSecretsCmd).
MigratedListed ==
  [][\A p \in Procs : proc[p].edit = "clear" /\ proc[p].pc = "save" /\ proc'[p].pc = "done" =>
       \A b \in Boxes : stored[b] # 0 => b \in file'.index \/ file'.plain[b] # 0]_vars

\* A mount ends once the keyring stays open, however long it waits for that (awaitUnlock, retryUnavailable).
MountsEnd ==
  <>[](ring = "open") => \A p \in Procs : proc[p].cmd = "mount" ~> proc[p].pc \in Ended
=============================================================================
