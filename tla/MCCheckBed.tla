----------------------------- MODULE MCCheckBed -----------------------------
(* Instances of CheckBed.                                                  *)
EXTENDS CheckBed, TLC

CONSTANTS b1, b2, b3, b4, t1, t2, t3, t4, t5, t6, k1, k2, k3, r1, r2

\* A pod with a nested device and a peer, a domain with a nested pod and a nested local
\* deployment, a group of a domain and a pod, and a local deployment.
AllKinds    == b1 :> "pod" @@ b2 :> "vm" @@ b3 :> "group" @@ b4 :> "inplace"
OwnRoot     == b1 :> t1 @@ b2 :> t3 @@ b3 :> None @@ b4 :> t6
OwnMembers  == b1 :> <<t2>> @@ b2 :> <<>> @@ b3 :> <<t4, t5>> @@ b4 :> <<>>
OwnChildren == b1 :> <<k1>> @@ b2 :> <<k2, k3>> @@ b3 :> <<>> @@ b4 :> <<>>

\* check-k3s-vm and check-k8s-deploy of charly.yml: the same domain is the root of the one and
\* a member of the other.
SharedMembers == b1 :> <<t2>> @@ b2 :> <<>> @@ b3 :> <<t3, t5>> @@ b4 :> <<>>

\* A domain with a pod as its peer.
VmPeers == b1 :> <<t2>> @@ b2 :> <<t5>> @@ b3 :> <<t4>> @@ b4 :> <<>>

SomeOptions == [level : {"build", "noagent"}, keep : BOOLEAN, norebuild : BOOLEAN]
Runners == Permutations({r1, r2})

FullOptions == {[level |-> "noagent", keep |-> FALSE, norebuild |-> FALSE]}
=============================================================================
