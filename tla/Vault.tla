-------------------------------- MODULE Vault --------------------------------
(***************************************************************************)
(* What the credential stores promise the encrypted volumes, with no       *)
(* process, keyring, file, lookup or migration in it: every box has one    *)
(* answer, and every volume opens with the answer of its box or with a     *)
(* passphrase the operator knows.  Module Credentials implements it.       *)
(***************************************************************************)

CONSTANTS Boxes, Volumes, BoxOf, Values

VARIABLES
  answer,   \* what a lookup finds for each box, 0 for nothing
  cipher,   \* the passphrase each volume is encrypted with, 0 for none
  mounted,  \* the volumes that are mounted
  typed     \* the passphrases the operator has typed

vault == <<answer, cipher, mounted, typed>>

\* The passphrases one can come by for a volume.
AtHand(v) == ({answer[BoxOf[v]]} \cup typed) \ {0}

Init ==
  /\ answer \in [Boxes -> Values]
  /\ cipher \in [Volumes -> Values]
  /\ \A v \in Volumes : cipher[v] # 0 => cipher[v] = answer[BoxOf[v]]
  /\ mounted = {} /\ typed = {}

\* A box gets another answer: the first one, or while nothing is encrypted with it.
Store(b) ==
  /\ answer[b] = 0 \/ \A v \in Volumes : BoxOf[v] = b => cipher[v] = 0
  /\ \E x \in Values : answer' = [answer EXCEPT ![b] = x]
  /\ UNCHANGED <<cipher, mounted, typed>>

Type(x) ==
  /\ typed' = typed \cup {x}
  /\ UNCHANGED <<answer, cipher, mounted>>

Encrypt(v) ==
  /\ cipher[v] = 0
  /\ \E x \in AtHand(v) : cipher' = [cipher EXCEPT ![v] = x]
  /\ UNCHANGED <<answer, mounted, typed>>

\* A new passphrase is one that the operator has chosen.
Rekey(v) ==
  /\ cipher[v] # 0
  /\ \E x \in typed \ {0} : cipher' = [cipher EXCEPT ![v] = x]
  /\ UNCHANGED <<answer, mounted, typed>>

Mount(v) ==
  /\ cipher[v] \in AtHand(v)
  /\ mounted' = mounted \cup {v}
  /\ UNCHANGED <<answer, cipher, typed>>

\* Volumes are unmounted as one likes.
Unmount ==
  /\ mounted' \in SUBSET mounted
  /\ UNCHANGED <<answer, cipher, typed>>

Next ==
  \/ \E b \in Boxes : Store(b)
  \/ \E x \in Values : Type(x)
  \/ \E v \in Volumes : Encrypt(v) \/ Rekey(v) \/ Mount(v)
  \/ Unmount

Spec == Init /\ [][Next]_vault

=============================================================================
