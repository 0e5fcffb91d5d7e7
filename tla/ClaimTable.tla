------------------------------ MODULE ClaimTable ------------------------------
(***************************************************************************)
(* What the resource arbiter promises, with no process, lock, file or      *)
(* crash in it: a table of granted claims, the holders the table answers   *)
(* for, and which deployments are up.  Module Arbiter implements it.       *)
(***************************************************************************)

CONSTANTS Deploys, Requires, SharedClaim

VARIABLES
  claims,   \* the claimants that have a lease
  debts,    \* the holders some lease has to start again
  up        \* the deployments that are up

table == <<claims, debts, up>>

Clash(c, d) == Requires[c] \cap Requires[d] # {}
Claimant(d) == Requires[d] # {}

Init ==
  /\ claims = {}
  /\ debts = {}
  /\ up \subseteq {d \in Deploys : ~Claimant(d)}

\* c gets its claim: no exclusive claim clashes with it, and an exclusive claim
\* evicts the shared ones it clashes with.  No debt is forgotten, and a new one
\* is made only for a holder that is up, before it is stopped.
Grant(c) ==
  /\ Claimant(c) /\ c \notin claims
  /\ \A d \in claims : Clash(c, d) => d \in SharedClaim
  /\ claims' = {d \in claims : Clash(c, d) => c \in SharedClaim} \cup {c}
  /\ debts \subseteq debts' /\ debts' \ debts \subseteq up
  /\ UNCHANGED up

\* Claims end (one is released, or a reconcile drops several).  A debt ends with
\* them only when its holder is up; the others stay in the table.
Retire(gone) ==
  /\ gone # {} /\ gone \subseteq claims
  /\ claims' = claims \ gone
  /\ debts' \subseteq debts /\ debts \ debts' \subseteq up
  /\ UNCHANGED up

\* Claimants come and go as they like; a holder is stopped only once the table
\* answers for it.
GoDown(d) ==
  /\ d \in up
  /\ Claimant(d) \/ d \in debts
  /\ up' = up \ {d}
  /\ UNCHANGED <<claims, debts>>

ComeUp(d) ==
  /\ up' = up \cup {d}
  /\ UNCHANGED <<claims, debts>>

Next ==
  \/ \E c \in Deploys : Grant(c)
  \/ \E gone \in SUBSET claims : Retire(gone)
  \/ \E d \in Deploys : GoDown(d) \/ ComeUp(d)

Spec == Init /\ [][Next]_table

=============================================================================
