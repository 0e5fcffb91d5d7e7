---------------------------- MODULE MCCredentials ----------------------------
(* Instances of Credentials.                                               *)
EXTENDS Credentials, TLC

\* Two volumes of one box, and a secret without volumes.
TwoVolumes == 1 :> "vault" @@ 2 :> "vault"

\* What is stored, moved and encrypted; under the config backend nothing is migrated into a keyring
\* that is not read.
Storing == [b \in Backends |->
  {"config", "start", "passwd", "set", "delete", "settings", "provision"} \cup IF b = "config" THEN {} ELSE {"migrate"}]

\* What is mounted, with the commands that make it possible.
Mounting == [b \in Backends |-> {"config", "start", "mount", "unmount", "set"}]

\* All of it.
Everything == [b \in Backends |-> Storing[b] \cup Mounting[b]]

Migrations == [b \in Backends |-> {"migrate"}]
Secrets    == [b \in Backends |-> {"provision"}]
Moves      == [b \in Backends |-> {"provision", "migrate"}]
Setups     == [b \in Backends |-> {"config"}]

Sym == Permutations(Procs)
=============================================================================
