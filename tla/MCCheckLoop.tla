----------------------------- MODULE MCCheckLoop -----------------------------
(* Instances of CheckLoop for TLC.                                          *)
EXTENDS CheckLoop

CONSTANTS s1, s2, s3

\* A chain of two steps and one on its own.
Chain == [s \in {s1, s2, s3} |-> IF s = s2 THEN {s1} ELSE {}]
=============================================================================
