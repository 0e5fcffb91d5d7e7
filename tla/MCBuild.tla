------------------------------- MODULE MCBuild -------------------------------
(* Instances of Build.                                                     *)
EXTENDS Build, TLC

\* Three boxes with every possible bases; the third is the format builder of those that need
\* one, the second may be the bootstrap builder of the first.
ThreeBoxes ==
  {[base |-> b, builder |-> 1 :> {3} @@ 2 :> {3} @@ 3 :> {3},
    bootstrap |-> 1 :> c @@ 2 :> 0 @@ 3 :> 0, needs |-> n] :
      b \in {f \in [1..3 -> 0..3] : \A i \in 1..3 : f[i] # i}, c \in {0, 2}, n \in {f \in [1..3 -> BOOLEAN] : ~f[3]}}

SameVersion == 1 :> 2 @@ 2 :> 2
TwoVersions == 1 :> 2 @@ 2 :> 3
=============================================================================
