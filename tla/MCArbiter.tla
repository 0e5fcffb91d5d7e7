------------------------------ MODULE MCArbiter ------------------------------
(* Instances of Arbiter for TLC: three small projects, and what is run on   *)
(* them.                                                                    *)
EXTENDS Arbiter, TLC

CONSTANTS vm, vm2, pod, pod2, vmh, podh, gpu, usb, p1, p2, p3, p4

\* The function on dom that is {} but for the given pairs.
Table(dom, pairs) ==
  [d \in dom |-> UNION {x[2] : x \in {y \in pairs : y[1] = d}}]

\* One GPU: a passthrough VM and two pods that want it, a preemptible VM that has it.
OneGpuDeploys  == {vm, pod, pod2, vmh}
OneGpuRequires == Table(OneGpuDeploys, {<<vm, {gpu}>>, <<pod, {gpu}>>, <<pod2, {gpu}>>})
OneGpuHolds    == Table(OneGpuDeploys, {<<vmh, {gpu}>>})

\* Two VMs that want the GPU for themselves, and two preemptible holders of it.
TwoVmDeploys  == {vm, vm2, vmh, podh}
TwoVmRequires == Table(TwoVmDeploys, {<<vm, {gpu}>>, <<vm2, {gpu}>>})
TwoVmHolds    == Table(TwoVmDeploys, {<<vmh, {gpu}>>, <<podh, {gpu}>>})

\* Two tokens: pods that share the GPU, a VM that wants the GPU and a token with
\* no device behind it, and a preemptible holder of each.
TwoTokDeploys  == {pod, pod2, vm, vmh, podh}
TwoTokRequires == Table(TwoTokDeploys, {<<pod, {gpu}>>, <<pod2, {gpu}>>, <<vm, {gpu, usb}>>})
TwoTokHolds    == Table(TwoTokDeploys, {<<vmh, {gpu}>>, <<podh, {usb}>>})

\* Two VMs that want a token each, and a preemptible VM that holds both.
TwoHoldDeploys  == {vm, vm2, vmh}
TwoHoldRequires == Table(TwoHoldDeploys, {<<vm, {gpu}>>, <<vm2, {usb}>>})
TwoHoldHolds    == Table(TwoHoldDeploys, {<<vmh, {gpu, usb}>>})

\* A pod that wants the GPU, a pod that wants it and another token, and a
\* preemptible holder of each token.
TwoShareDeploys  == {pod, pod2, vmh, podh}
TwoShareRequires == Table(TwoShareDeploys, {<<pod, {gpu}>>, <<pod2, {gpu, usb}>>})
TwoShareHolds    == Table(TwoShareDeploys, {<<vmh, {gpu}>>, <<podh, {usb}>>})

Pods      == {<<"check", pod>>, <<"start", pod2>>, <<"stop", pod2>>}
Mixed     == Pods \cup {<<"check", vm>>, <<"restore", vm>>}
Vms       == {<<"check", vm2>>, <<"start", vm>>, <<"vmstop", vm>>, <<"stop", vm>>,
              <<"restore", vm2>>}
Checks    == {<<"check", pod>>, <<"check", vm>>}
AllChecks == {<<"check", pod>>, <<"check", pod2>>, <<"check", vm>>}
TwoChecks == {<<"check", vm>>, <<"check", vm2>>}
PodChecks == {<<"check", pod>>, <<"check", pod2>>}
Restart   == TwoChecks \cup {<<"start", vm>>}
Again     == {<<"start", pod>>, <<"restore", pod>>}
Reconcile == TwoChecks \cup {<<"reconcile", vm>>}

Sym3 == Permutations({p1, p2, p3})
Sym4 == Permutations({p1, p2, p3, p4})
=============================================================================
