--------------------------- MODULE MCInstallLedger ---------------------------
(* Instances of InstallLedger for TLC.                                      *)
EXTENDS InstallLedger

CONSTANTS d1, d2, d3, c1, c3, f1, f2, f3, u1, u2, p1, p2, p3, p4, p5

File(f) == [kind |-> "File", at |-> f]
Service(u, f) == [kind |-> "ServicePackaged", at |-> u, dropin |-> f]

\* Two deployments with one candy record and one plan, and one that has its own record
\* and a substrate that charly brings up.
ThreeCandyOf == [d \in {d1, d2, d3} |-> IF d = d3 THEN c3 ELSE c1]
ThreePlans ==
  [d \in {d1, d2, d3} |-> IF d = d3 THEN {<<File(f2), Service(u2, f3)>>}
                          ELSE {<<File(f1), Service(u1, None)>>}]
\* d3 has the deployment d2 as a kind:local member.
ThreeMembers == [d \in {d1, d2, d3} |-> IF d = d3 THEN {d2} ELSE {}]
ThreeEnvd == [c \in {c1, c3} |-> IF c = c3 THEN f2 ELSE None]

\* One deployment, one packaged unit.
OnePlans == [d \in {d1} |-> {<<Service(u1, f1)>>}]
NoMembers == [d \in {d1} |-> {}]
OneCandyOf == [d \in {d1} |-> c1]
NoEnvd == [c \in {c1} |-> None]

\* A deployment and its kind:local member.
TwoPlans == [d \in {d1, d2} |-> {<<File(f1)>>}]
TwoMembers == [d \in {d1, d2} |-> IF d = d1 THEN {d2} ELSE {}]
TwoCandyOf == [d \in {d1, d2} |-> IF d = d1 THEN c1 ELSE c3]
TwoEnvd == [c \in {c1, c3} |-> None]
=============================================================================
