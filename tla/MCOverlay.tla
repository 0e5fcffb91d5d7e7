------------------------------ MODULE MCOverlay ------------------------------
(* Instances of Overlay for TLC.                                            *)
EXTENDS Overlay, TLC

CONSTANTS pod, inst, vm, xref, vm2

\* A pod and an instance of it, a VM and a bundle that names it.
FourBase == [k \in {pod, inst, vm, xref} |-> IF k = inst THEN pod ELSE k]
FourVm   == [k \in {pod, inst, vm, xref} |-> IF k \in {vm, xref} THEN vm ELSE None]

\* Two pods.
TwoBase == [k \in {pod, inst} |-> pod]
TwoVm   == [k \in {pod, inst} |-> None]

\* One VM.
OneBase == [k \in {vm} |-> vm]

\* Two VMs.
TwoVms == [k \in {vm, vm2} |-> k]

Symmetry == Permutations(Procs)
=============================================================================
