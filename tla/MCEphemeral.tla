----------------------------- MODULE MCEphemeral -----------------------------
(* Instances of Ephemeral for TLC.                                          *)
EXTENDS Ephemeral, TLC

CONSTANTS d1, d2, d3, s1, p1, p2, p3, q1, q2, q3

\* Three deployments from one snapshot.
OneSnap == [d \in {d1, d2, d3} |-> s1]

\* One deployment.
OneDeploy == [d \in {d1} |-> s1]

\* The timer of each command has a command of its own.
ThreeAgents == (p1 :> q1) @@ (p2 :> q2) @@ (p3 :> q3)
TwoAgents   == (p1 :> q1) @@ (p2 :> q2)
=============================================================================
