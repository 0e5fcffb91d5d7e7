--------------------------- MODULE CheckBedProofs ---------------------------
(***************************************************************************)
(* Proofs about CheckBed: the steps of a bed work on what the bed owns,    *)
(* whatever its kind, level and options; and, if no two beds own the same  *)
(* target, a run never has what it brought up wiped by another, and a run  *)
(* that passed has checked all of its bed, whatever earlier runs left.     *)
(* The second part is about Poll, with which the steps of a bed wait, for  *)
(* all bounds, deadlines, scores and horizons.                             *)
(***************************************************************************)
EXTENDS CheckBed, Poll, WellFoundedInduction, NaturalsInduction, TLAPS

-----------------------------------------------------------------------------
(* Sequences.                                                              *)

\* A nonempty set of numbers has a least element; with it the inductions below are done on sets of
\* counterexamples.
LEMMA Least ==
  ASSUME NEW T, T \subseteq Nat, T # {}
  PROVE  \E n \in T : \A m \in T : ~(m < n)
<1>1. PICK n \in T : \A m \in T : <<m, n>> \notin OpToRel(<, Nat)
  BY WFMin, NatLessThanWellFounded, Zenon
<1>2. \A m \in T : m \in Nat
  OBVIOUS
<1>3. \A m \in T : ~(m < n)
  BY <1>1, <1>2, Zenon DEF OpToRel
<1> QED
  BY <1>3

\* The equation that defines FlattenSeq has a solution.
LEMMA FlattenExists ==
  ASSUME NEW E, NEW s \in Seq(Seq(E))
  PROVE  \E f \in [1..Len(s) -> Seq(E)] : \A i \in 1..Len(s) : f[i] = IF i = 1 THEN s[i] ELSE f[i-1] \o s[i]
<1> DEFINE Solves(m, f) == \A i \in 1..m : f[i] = IF i = 1 THEN s[i] ELSE f[i-1] \o s[i]
           Bad == {m \in Nat : m <= Len(s) /\ ~ \E f \in [1..m -> Seq(E)] : Solves(m, f)}
<1>1. SUFFICES Bad = {}
  <2>1. Len(s) \in Nat /\ Len(s) <= Len(s)
    OBVIOUS
  <2>2. (Len(s) \notin Bad) => \E f \in [1..Len(s) -> Seq(E)] : Solves(Len(s), f)
    <3> HIDE DEF Solves
    <3> QED BY <2>1
  <2> QED BY <2>2
<1>2. SUFFICES ASSUME NEW m \in Bad, \A k \in Bad : ~(k < m)
               PROVE  FALSE
  <2> HIDE DEF Bad
  <2> Bad \subseteq Nat
    BY DEF Bad
  <2> QED BY Least
<1>3. m # 0
  <2>1. SUFFICES ASSUME m = 0 PROVE FALSE
    OBVIOUS
  <2>2. [i \in 1..0 |-> <<>>] \in [1..0 -> Seq(E)] /\ Solves(0, [i \in 1..0 |-> <<>>])
    OBVIOUS
  <2> QED BY <2>1, <2>2
<1>4. PICK f \in [1..(m-1) -> Seq(E)] : Solves(m-1, f)
  <2>1. m-1 \in Nat /\ m-1 <= Len(s) /\ m-1 < m
    BY <1>3
  <2>2. m-1 \notin Bad
    BY <1>2, <2>1
  <2> HIDE DEF Solves
  <2> QED BY <2>1, <2>2
<1> DEFINE g == [i \in 1..m |-> IF i = m THEN (IF m = 1 THEN s[m] ELSE f[m-1] \o s[m]) ELSE f[i]]
<1>5. \A i \in 1..m : s[i] \in Seq(E)
  OBVIOUS
<1>6. g \in [1..m -> Seq(E)]
  <2>1. ASSUME m # 1 PROVE f[m-1] \o s[m] \in Seq(E)
    BY <2>1, <1>3, <1>5
  <2>2. ASSUME NEW i \in 1..m, i # m PROVE f[i] \in Seq(E)
    BY <2>2
  <2> QED BY <2>1, <2>2, <1>5, <1>3
<1>7. Solves(m, g)
  <2> TAKE i \in 1..m
  <2>1. CASE i = m
    BY <2>1, <1>3
  <2>2. CASE i # m
    <3>1. i \in 1..(m-1) /\ (i # 1 => i-1 \in 1..(m-1) /\ i-1 \in 1..m /\ i-1 # m)
      BY <2>2, <1>3
    <3>2. f[i] = IF i = 1 THEN s[i] ELSE f[i-1] \o s[i]
      BY <3>1, <1>4
    <3>3. g[i] = f[i] /\ (i # 1 => g[i-1] = f[i-1])
      BY <3>1, <2>2
    <3> HIDE DEF g
    <3> QED BY <3>2, <3>3
  <2> QED BY <2>1, <2>2
<1> HIDE DEF g, Solves
<1> QED BY <1>6, <1>7

\* FlattenSeq solves that equation.
LEMMA FlattenIs ==
  ASSUME NEW E, NEW s \in Seq(Seq(E)), Len(s) # 0
  PROVE  \E h \in [1..Len(s) -> Seq(E)] :
           /\ \A i \in 1..Len(s) : h[i] = IF i = 1 THEN s[i] ELSE h[i-1] \o s[i]
           /\ FlattenSeq(s) = h[Len(s)]
<1> DEFINE Recurs(f) == f = [i \in 1..Len(s) |-> IF i = 1 THEN s[i] ELSE f[i-1] \o s[i]]
           g == CHOOSE f : Recurs(f)
<1>0. Len(s) \in Nat /\ Len(s) # 0 /\ Len(s) <= Len(s)
  OBVIOUS
<1>1. PICK h \in [1..Len(s) -> Seq(E)] : \A i \in 1..Len(s) : h[i] = IF i = 1 THEN s[i] ELSE h[i-1] \o s[i]
  BY FlattenExists
<1>2. Recurs(h)
  BY <1>1
<1>3. Recurs(g)
  <2> HIDE DEF Recurs
  <2> QED BY <1>2
<1>4. \A i \in 1..Len(s) : g[i] = IF i = 1 THEN s[i] ELSE g[i-1] \o s[i]
  <2> HIDE DEF g
  <2> QED BY <1>3
<1>5. FlattenSeq(s) = g[Len(s)]
  BY <1>0 DEF FlattenSeq
<1> DEFINE Bad == {i \in 1..Len(s) : g[i] # h[i]}
<1> HIDE DEF g
<1>6. Bad = {}
  <2>0. SUFFICES ASSUME Bad # {} PROVE FALSE
    OBVIOUS
  <2>1. Bad \subseteq Nat
    OBVIOUS
  <2>2. PICK m \in Bad : \A k \in Bad : ~(k < m)
    <3> HIDE DEF Bad
    <3> QED BY <2>0, <2>1, Least
  <2>3. m # 1
    BY <1>4, <1>1, <1>0
  <2>4. g[m-1] = h[m-1]
    BY <2>2, <2>3
  <2> QED BY <2>3, <2>4, <2>2, <1>4, <1>1, ZenonT(60)
<1>7. g[Len(s)] = h[Len(s)]
  BY <1>6, <1>0, Len(s) \in 1..Len(s)
<1> QED BY <1>1, <1>5, <1>7

LEMMA FlattenNothing ==
  ASSUME NEW s, NEW E, s \in Seq(Seq(E)), Len(s) = 0
  PROVE  FlattenSeq(s) = <<>>
<1>1. s = <<>>
  OBVIOUS
<1> QED BY <1>1 DEF FlattenSeq

\* FlattenSeq makes one sequence over E of a sequence of them.
LEMMA FlattenStays ==
  ASSUME NEW E, NEW s \in Seq(Seq(E))
  PROVE  FlattenSeq(s) \in Seq(E)
<1>1. CASE Len(s) = 0
  <2>1. <<>> \in Seq(E)
    OBVIOUS
  <2> QED BY <1>1, <2>1, FlattenNothing
<1>2. CASE Len(s) # 0
  BY <1>2, FlattenIs, Len(s) \in 1..Len(s)
<1> QED BY <1>1, <1>2

LEMMA SeqWider ==
  ASSUME NEW D, NEW E, D \subseteq E, NEW s \in Seq(D)
  PROVE  s \in Seq(E)
<1>1. Len(s) \in Nat /\ \A i \in 1..Len(s) : s[i] \in E
  OBVIOUS
<1>2. s = [i \in 1..Len(s) |-> s[i]]
  OBVIOUS
<1>3. [i \in 1..Len(s) |-> s[i]] \in Seq(E)
  BY <1>1
<1> QED BY <1>2, <1>3

LEMMA HeadTailStay ==
  ASSUME NEW E, NEW s \in Seq(E), s # <<>>
  PROVE  Head(s) \in E /\ Tail(s) \in Seq(E)
OBVIOUS

LEMMA ConcatStays ==
  ASSUME NEW E, NEW s \in Seq(E), NEW t \in Seq(E)
  PROVE  s \o t \in Seq(E)
OBVIOUS

LEMMA Concat4Stays ==
  ASSUME NEW E, NEW s \in Seq(E), NEW t \in Seq(E), NEW u \in Seq(E), NEW v \in Seq(E)
  PROVE  s \o t \o u \o v \in Seq(E)
<1>1. s \o t \in Seq(E)
  OBVIOUS
<1>2. (s \o t) \o u \in Seq(E)
  BY <1>1, ConcatStays
<1> QED BY <1>2, ConcatStays

LEMMA WhenStays ==
  ASSUME NEW E, NEW c, NEW s, c => s \in Seq(E)
  PROVE  When(c, s) \in Seq(E)
BY DEF When

LEMMA OneStays ==
  ASSUME NEW E, NEW op, NEW x, [op |-> op, on |-> x] \in E
  PROVE  S(op, x) \in Seq(E)
BY DEF S

LEMMA EachButStays ==
  ASSUME NEW E, NEW op, NEW X, NEW xs \in Seq(X), NEW those,
         \A x \in X : [op |-> op, on |-> x] \in E
  PROVE  EachBut(op, xs, those) \in Seq(E)
<1> DEFINE one(i) == When(xs[i] \notin those, S(op, xs[i]))
<1>1. \A i \in 1..Len(xs) : one(i) \in Seq(E)
  <2> TAKE i \in 1..Len(xs)
  <2>1. xs[i] \in X
    OBVIOUS
  <2> QED BY <2>1, OneStays, WhenStays
<1>2. [i \in 1..Len(xs) |-> one(i)] \in Seq(Seq(E))
  <2> HIDE DEF one
  <2> QED BY <1>1
<1> HIDE DEF one
<1>3. FlattenSeq([i \in 1..Len(xs) |-> one(i)]) \in Seq(E)
  BY <1>2, FlattenStays
<1> QED BY <1>3 DEF EachBut, one

-----------------------------------------------------------------------------
(* The steps of a bed.                                                     *)

OnTargets == {"image", "check box", "clear", "create", "deploy", "config", "start", "update",
              "peer create", "peer"}

\* What a step of bed b may be.
StepsOf(b) ==
  [op : OnTargets, on : Own(b)]
  \cup [op : {"cleanup"}, on : Own(b) \cup {None}]
  \cup [op : {"child"}, on : ToSet(Children[b])]
  \cup [op : {"check live", "feature run", "rebuild"}, on : {b}]

LEMMA OwnTargets ==
  ASSUME NEW b \in Beds
  PROVE  /\ Members[b] \in Seq(Own(b))
         /\ Children[b] \in Seq(ToSet(Children[b]))
         /\ Kind[b] # "group" => Root[b] \in Own(b)
         /\ Own(b) \subseteq Targets
         /\ ToSet(Children[b]) \subseteq Kids
<1>1. /\ Members[b] \in Seq(Targets) /\ Children[b] \in Seq(Kids)
      /\ Root[b] = None <=> Kind[b] = "group"
  BY CheckBedAssumption
<1>2. None \notin Targets
  BY DEF Targets
<1>3. ToSet(Members[b]) \subseteq Targets /\ ToSet(Children[b]) \subseteq Kids
  BY <1>1 DEF ToSet
<1>4. \A i \in 1..Len(Members[b]) : Members[b][i] \in Own(b)
  BY <1>1, <1>2, <1>3 DEF ToSet, Own
<1>5. \A i \in 1..Len(Children[b]) : Children[b][i] \in ToSet(Children[b])
  BY <1>1 DEF ToSet
<1>6. Own(b) \subseteq Targets
  BY <1>3 DEF Own, Targets
<1> QED BY <1>1, <1>3, <1>4, <1>5, <1>6, SMTT(30) DEF Own

LEMMA BuildStays ==
  ASSUME NEW b \in Beds, NEW level
  PROVE  Build(b, level) \in Seq(StepsOf(b))
<1> DEFINE image(t) == S("image", t)
                       \o When(CheckLevelReaches(level, "build") /\ t \notin Vms, S("check box", t))
<1>1. \A t \in Own(b) : image(t) \in Seq(StepsOf(b))
  <2> TAKE t \in Own(b)
  <2>1. S("image", t) \in Seq(StepsOf(b)) /\ S("check box", t) \in Seq(StepsOf(b))
    BY OneStays DEF StepsOf, OnTargets
  <2>2. When(CheckLevelReaches(level, "build") /\ t \notin Vms, S("check box", t)) \in Seq(StepsOf(b))
    BY <2>1, WhenStays
  <2> QED BY <2>1, <2>2, ConcatStays
<1> HIDE DEF image
<1>2. When(Kind[b] = "pod", image(Root[b])) \in Seq(StepsOf(b))
  BY <1>1, OwnTargets, WhenStays
<1> DEFINE all == FlattenSeq([i \in 1..Len(Members[b]) |-> image(Members[b][i])])
<1>3. all \in Seq(StepsOf(b))
  <2>1. [i \in 1..Len(Members[b]) |-> image(Members[b][i])] \in Seq(Seq(StepsOf(b)))
    BY <1>1, OwnTargets
  <2> QED BY <2>1, FlattenStays
<1> HIDE DEF all
<1>4. When(Kind[b] = "group", all) \in Seq(StepsOf(b))
  BY <1>3, WhenStays
<1>5. Build(b, level) = When(Kind[b] = "pod", image(Root[b])) \o When(Kind[b] = "group", all)
  BY DEF Build, image, all
<1> QED BY <1>2, <1>4, <1>5, ConcatStays

LEMMA PeersStay ==
  ASSUME NEW b \in Beds
  PROVE  Peers(b) \in Seq(StepsOf(b))
<1> DEFINE peer(t) == IF t \in Vms THEN S("clear", t) \o S("peer create", t) \o S("peer", t)
                                   ELSE S("peer", t)
<1>1. \A t \in Own(b) : peer(t) \in Seq(StepsOf(b))
  <2> TAKE t \in Own(b)
  <2>1. /\ S("clear", t) \in Seq(StepsOf(b)) /\ S("peer create", t) \in Seq(StepsOf(b))
        /\ S("peer", t) \in Seq(StepsOf(b))
    BY OneStays DEF StepsOf, OnTargets
  <2> QED BY <2>1, ConcatStays
<1> HIDE DEF peer
<1>2. [i \in 1..Len(Members[b]) |-> peer(Members[b][i])] \in Seq(Seq(StepsOf(b)))
  BY <1>1, OwnTargets
<1>3. FlattenSeq([i \in 1..Len(Members[b]) |-> peer(Members[b][i])]) \in Seq(StepsOf(b))
  BY <1>2, FlattenStays
<1>4. Peers(b) = FlattenSeq([i \in 1..Len(Members[b]) |-> peer(Members[b][i])])
  BY DEF Peers, peer
<1> QED BY <1>3, <1>4

\* Every single step a bed may be given is one of StepsOf.
LEMMA SingleSteps ==
  ASSUME NEW b \in Beds
  PROVE  /\ Kind[b] # "group" =>
              \A op \in OnTargets : S(op, Root[b]) \in Seq(StepsOf(b))
         /\ S("cleanup", Root[b]) \in Seq(StepsOf(b))
         /\ \A op \in {"check live", "feature run", "rebuild"} : S(op, b) \in Seq(StepsOf(b))
         /\ Each("clear", Members[b]) \in Seq(StepsOf(b))
         /\ EachBut("image", Members[b], Vms) \in Seq(StepsOf(b))
         /\ Nested(b) \in Seq(StepsOf(b))
<1>1. ASSUME Kind[b] # "group", NEW op \in OnTargets
      PROVE  S(op, Root[b]) \in Seq(StepsOf(b))
  BY <1>1, OwnTargets, OneStays DEF StepsOf
<1>2. S("cleanup", Root[b]) \in Seq(StepsOf(b))
  BY OneStays, CheckBedAssumption DEF StepsOf, Own
<1>3. ASSUME NEW op \in {"check live", "feature run", "rebuild"}
      PROVE  S(op, b) \in Seq(StepsOf(b))
  BY OneStays DEF StepsOf
<1>4. \A op \in {"clear", "image"} : \A those : EachBut(op, Members[b], those) \in Seq(StepsOf(b))
  <2> TAKE op \in {"clear", "image"}
  <2> TAKE those
  <2>1. \A t \in Own(b) : [op |-> op, on |-> t] \in StepsOf(b)
    BY DEF StepsOf, OnTargets
  <2> QED BY <2>1, OwnTargets, EachButStays
<1>5. Nested(b) \in Seq(StepsOf(b))
  <2>1. \A k \in ToSet(Children[b]) : [op |-> "child", on |-> k] \in StepsOf(b)
    BY DEF StepsOf
  <2> QED BY <2>1, OwnTargets, EachButStays DEF Nested
<1> QED BY <1>1, <1>2, <1>3, <1>4, <1>5 DEF Each

LEMMA DeployStays ==
  ASSUME NEW b \in Beds
  PROVE  Deploy(b) \in Seq(StepsOf(b))
<1> DEFINE E == StepsOf(b)
<1>1. /\ Each("clear", Members[b]) \in Seq(E) /\ Nested(b) \in Seq(E)
      /\ Kind[b] # "group" => \A op \in OnTargets : S(op, Root[b]) \in Seq(E)
  BY SingleSteps
<1>2. Kind[b] \in Kinds
  BY CheckBedAssumption
<1>0. SUFFICES Deploy(b) \in Seq(E)
  OBVIOUS
<1> HIDE DEF E
<1>3. CASE Kind[b] = "group"
  BY <1>1, <1>3 DEF Deploy
<1>4. CASE Kind[b] # "group"
  <2>1. /\ S("clear", Root[b]) \in Seq(E) /\ S("image", Root[b]) \in Seq(E)
        /\ S("create", Root[b]) \in Seq(E) /\ S("deploy", Root[b]) \in Seq(E)
        /\ S("config", Root[b]) \in Seq(E) /\ S("start", Root[b]) \in Seq(E)
    BY <1>1, <1>4 DEF OnTargets
  <2>2. CASE Kind[b] = "vm"
    <3>1. Deploy(b) = S("clear", Root[b]) \o S("image", Root[b]) \o S("create", Root[b])
                      \o S("deploy", Root[b]) \o Nested(b)
      BY <2>2 DEF Deploy
    <3> QED BY <1>1, <2>1, <3>1, ConcatStays
  <2>3. CASE Kind[b] = "inplace"
    <3>1. Deploy(b) = S("clear", Root[b]) \o Each("clear", Members[b]) \o S("deploy", Root[b])
      BY <2>3 DEF Deploy
    <3> QED BY <1>1, <2>1, <3>1, ConcatStays
  <2>4. CASE Kind[b] = "pod"
    <3>1. Deploy(b) = S("clear", Root[b]) \o Each("clear", Members[b]) \o S("deploy", Root[b])
                      \o S("config", Root[b]) \o S("start", Root[b]) \o Nested(b)
      BY <2>4 DEF Deploy
    <3> QED BY <1>1, <2>1, <3>1, ConcatStays
  <2> QED BY <1>2, <1>4, <2>2, <2>3, <2>4 DEF Kinds
<1> QED BY <1>3, <1>4

LEMMA RebuildStays ==
  ASSUME NEW b \in Beds, NEW runtime
  PROVE  Rebuild(b, runtime) \in Seq(StepsOf(b))
<1> DEFINE E == StepsOf(b)
<1>1. /\ Each("clear", Members[b]) \in Seq(E) /\ Nested(b) \in Seq(E)
      /\ EachBut("image", Members[b], Vms) \in Seq(E)
      /\ S("rebuild", b) \in Seq(E) /\ CheckLive(b) \in Seq(E) /\ S("feature run", b) \in Seq(E)
      /\ Kind[b] # "group" => S("update", Root[b]) \in Seq(E)
      /\ Peers(b) \in Seq(E)
  BY SingleSteps, PeersStay DEF CheckLive, OnTargets
<1>0. SUFFICES Rebuild(b, runtime) \in Seq(E)
  OBVIOUS
<1> HIDE DEF E
<1>2. CASE Kind[b] = "group"
  <2> DEFINE back == When(runtime, Peers(b) \o CheckLive(b))
  <2>1. back \in Seq(E)
    BY <1>1, ConcatStays, WhenStays
  <2>2. Rebuild(b, runtime) = S("rebuild", b) \o EachBut("image", Members[b], Vms)
          \o Each("clear", Members[b]) \o back
    BY <1>2 DEF Rebuild
  <2> HIDE DEF back
  <2>3. S("rebuild", b) \o EachBut("image", Members[b], Vms) \o Each("clear", Members[b]) \o back
          \in Seq(E)
    BY <1>1, <2>1, Concat4Stays
  <2> QED BY <2>2, <2>3, Zenon
<1>3. CASE Kind[b] # "group"
  <2> DEFINE again == When(Kind[b] = "pod", Nested(b)) \o CheckLive(b)
             rechecked == When(runtime /\ Kind[b] # "inplace" /\ Children[b] # <<>>, again)
             features == When(runtime, Feature(b))
  <2>1. When(Kind[b] = "pod", Nested(b)) \in Seq(E)
    BY <1>1, WhenStays
  <2>2. again \in Seq(E)
    BY <1>1, <2>1, ConcatStays
  <2>3. rechecked \in Seq(E)
    BY <2>2, WhenStays
  <2>4. Feature(b) \in Seq(E)
    BY <1>1, WhenStays DEF Feature
  <2>5. features \in Seq(E)
    BY <2>4, WhenStays
  <2>6. Rebuild(b, runtime) = S("rebuild", b) \o S("update", Root[b]) \o rechecked \o features
    BY <1>3 DEF Rebuild
  <2> HIDE DEF again, rechecked, features
  <2>7. S("rebuild", b) \o S("update", Root[b]) \o rechecked \o features \in Seq(E)
    BY <1>1, <1>3, <2>3, <2>5, Concat4Stays
  <2> QED BY <2>6, <2>7, Zenon
<1> QED BY <1>2, <1>3

\* Every step of a run of a bed works on what the bed owns, for every kind of bed, level and option
\* (runCheckBed, bringUpMembers, tearDownMembers).
THEOREM StepsStay ==
  \A b \in Beds, o \in Options : Sequence(b, o) \in Seq(StepsOf(b))
<1> SUFFICES ASSUME NEW b \in Beds, NEW o \in Options
             PROVE  Sequence(b, o) \in Seq(StepsOf(b))
  OBVIOUS
<1> DEFINE E == StepsOf(b)
           runtime == CheckLevelReaches(o.level, "noagent")
<1>1. /\ Build(b, o.level) \in Seq(E) /\ Deploy(b) \in Seq(E)
      /\ Rebuild(b, runtime) \in Seq(E) /\ Peers(b) \in Seq(E)
      /\ CheckLive(b) \in Seq(E) /\ S("feature run", b) \in Seq(E)
      /\ S("cleanup", Root[b]) \in Seq(E) /\ Each("clear", Members[b]) \in Seq(E)
  BY BuildStays, DeployStays, RebuildStays, PeersStay, SingleSteps DEF CheckLive
<1>0. SUFFICES Sequence(b, o) \in Seq(E)
  OBVIOUS
<1> HIDE DEF E, runtime
<1> DEFINE live    == When(runtime, Peers(b) \o CheckLive(b) \o Feature(b))
           fresh   == When(~o.norebuild, Rebuild(b, runtime))
           cleaned == When(~o.keep, Cleanup(b))
<1>2. Feature(b) \in Seq(E)
  BY <1>1, WhenStays DEF Feature
<1>3. live \in Seq(E)
  <2>1. Peers(b) \o CheckLive(b) \o Feature(b) \in Seq(E)
    BY <1>1, <1>2, ConcatStays
  <2> QED BY <2>1, WhenStays
<1>4. fresh \in Seq(E)
  BY <1>1, WhenStays
<1>5. cleaned \in Seq(E)
  <2>1. Cleanup(b) \in Seq(E)
    BY <1>1, ConcatStays DEF Cleanup
  <2> QED BY <2>1, WhenStays
<1>6. Sequence(b, o) = Build(b, o.level) \o Deploy(b) \o live \o fresh \o cleaned
  BY DEF Sequence, runtime
<1> HIDE DEF live, fresh, cleaned
<1>7. Build(b, o.level) \o Deploy(b) \o live \o fresh \in Seq(E)
  BY <1>1, <1>3, <1>4, Concat4Stays
<1> QED BY <1>5, <1>6, <1>7, ConcatStays

-----------------------------------------------------------------------------
(* The invariant.                                                          *)

Live == {"acquire", "steps", "release", "pass", "unlock"}

\* A run that is under way holds the lock of its bed, ...
Locked ==
  /\ \A r \in Runs : run[r].pc \in Live => lock[run[r].bed] = r
  /\ \A b \in Beds : lock[b] # None => run[lock[b]].pc \in Live /\ run[lock[b]].bed = b

\* ... has before it only steps of its bed, ...
Ahead == \A r \in Runs : run[r].pc # "start" => run[r].todo \in Seq(StepsOf(run[r].bed))

\* ... and has brought up only what its bed owns.
Brought ==
  \A r \in Runs :
    /\ run[r].pc \in {"start", "lock", "acquire"} => mine[r] = {}
    /\ run[r].pc # "start" => mine[r] \subseteq Own(run[r].bed)

IInv == TypeOK /\ Locked /\ Ahead /\ Brought /\ NoWipe

Started == [bed : Beds, opts : Options, todo : Seq([op : Ops, on : Targets \cup Kids \cup Beds \cup {None}]),
            pc : {"lock", "acquire", "steps", "release", "pass", "unlock"} \cup Finished,
            ok : BOOLEAN, lease : {"none", "held", "released", "failed"},
            rebuilt : BOOLEAN, left : BOOLEAN]

LEMMA RunnerStarted ==
  /\ \A j \in Runner : j.pc # "start" => j \in Started
  /\ Started \subseteq Runner
BY DEF Runner, Started

LEMMA StepTypes ==
  ASSUME NEW b \in Beds
  PROVE  Seq(StepsOf(b)) \subseteq Seq([op : Ops, on : Targets \cup Kids \cup Beds \cup {None}])
<1> DEFINE All == Targets \cup Kids \cup Beds \cup {None}
<1>1. Own(b) \subseteq All /\ ToSet(Children[b]) \subseteq All /\ None \in All /\ b \in All
  BY OwnTargets
<1> HIDE DEF All
<1>2. StepsOf(b) \subseteq [op : Ops, on : All]
  <2> SUFFICES ASSUME NEW x \in StepsOf(b) PROVE x \in [op : Ops, on : All]
    OBVIOUS
  <2>1. CASE x \in [op : OnTargets, on : Own(b)]
    BY <1>1, <2>1 DEF OnTargets, Ops
  <2>2. CASE x \in [op : {"cleanup"}, on : Own(b) \cup {None}]
    BY <1>1, <2>2 DEF Ops
  <2>3. CASE x \in [op : {"child"}, on : ToSet(Children[b])]
    BY <1>1, <2>3 DEF Ops
  <2>4. CASE x \in [op : {"check live", "feature run", "rebuild"}, on : {b}]
    BY <1>1, <2>4 DEF Ops
  <2> QED BY <2>1, <2>2, <2>3, <2>4 DEF StepsOf
<1>3. ASSUME NEW s \in Seq(StepsOf(b)) PROVE s \in Seq([op : Ops, on : All])
  BY <1>2, SeqWider
<1> QED BY <1>3 DEF All

\* The next step of a run, and those after it.
LEMMA Coming ==
  ASSUME IInv, NEW r \in Runs, NEW ops, At(r, ops)
  PROVE  /\ run[r] \in Started /\ run[r].pc = "steps"
         /\ Head(run[r].todo) \in StepsOf(run[r].bed) /\ Head(run[r].todo).op \in ops
         /\ Tail(run[r].todo) \in Seq(StepsOf(run[r].bed))
<1>1. run[r] \in Started /\ run[r].pc = "steps"
  BY RunnerStarted DEF IInv, TypeOK, At
<1>2. run[r].todo \in Seq(StepsOf(run[r].bed)) /\ run[r].todo # <<>>
  BY <1>1 DEF IInv, Ahead, At
<1>3. Head(run[r].todo) \in StepsOf(run[r].bed) /\ Tail(run[r].todo) \in Seq(StepsOf(run[r].bed))
  BY <1>2, HeadTailStay
<1> QED BY <1>1, <1>3 DEF At

\* Two runs under way have nothing in common.
LEMMA Alone ==
  ASSUME Apart, IInv, NEW r \in Runs, NEW q \in Runs, r # q, run[r].pc \in Live, run[q].pc \in Live
  PROVE  Own(run[r].bed) \cap Own(run[q].bed) = {}
<1>1. run[r] \in Started /\ run[q] \in Started
  BY RunnerStarted DEF IInv, TypeOK, Live
<1>2. run[r].bed \in Beds /\ run[q].bed \in Beds
  BY <1>1 DEF Started
<1>3. run[r].bed # run[q].bed
  BY DEF IInv, Locked
<1> QED BY <1>2, <1>3 DEF Apart

\* A run goes on, or ends, with its bed.
LEMMA Moves ==
  ASSUME IInv, NEW r \in Runs, run[r].pc \in Live,
         NEW j \in Started, j.bed = run[r].bed, j.pc \in Live \ {"acquire"},
         j.todo \in Seq(StepsOf(j.bed)),
         run' = [run EXCEPT ![r] = j], UNCHANGED lock
  PROVE  run' \in [Runs -> Runner] /\ Locked' /\ Ahead'
<1>1. run' \in [Runs -> Runner]
  BY RunnerStarted DEF IInv, TypeOK
<1>2. \A q \in Runs : run'[q] = IF q = r THEN j ELSE run[q]
  BY DEF IInv, TypeOK
<1>3. Locked'
  BY <1>2, CheckBedAssumption DEF IInv, TypeOK, Locked
<1>4. Ahead'
  BY <1>2 DEF IInv, Ahead
<1> QED BY <1>1, <1>3, <1>4

\* What a run does to its own targets wipes no other run's.
LEMMA Effects ==
  ASSUME Apart, IInv, NEW r \in Runs, run[r].pc = "steps", run[r] \in Started,
         NEW j \in Started, j.bed = run[r].bed, j.pc \in Live \ {"acquire"},
         run' = [run EXCEPT ![r] = j],
         up' \in [Targets -> Presence], mine' \in [Runs -> SUBSET Targets],
         \A t \in Targets \ Own(run[r].bed) : up'[t] = up[t],
         \A q \in Runs \ {r} : mine'[q] = mine[q],
         mine'[r] \subseteq Own(run[r].bed),
         \A t \in mine'[r] : up'[t].by = r
  PROVE  Brought' /\ NoWipe'
<1>1. \A q \in Runs : run'[q] = IF q = r THEN j ELSE run[q]
  BY DEF IInv, TypeOK
<1>2. Brought'
  BY <1>1 DEF IInv, Brought, Live
<1>3. ASSUME NEW q \in Runs, run'[q].pc = "steps", NEW t \in mine'[q]
      PROVE  up'[t].by = q
  <2>1. CASE q = r
    BY <1>3, <2>1
  <2>2. CASE q # r
    <3>1. run[q].pc = "steps" /\ t \in mine[q]
      BY <1>1, <1>3, <2>2
    <3>2. t \in Own(run[q].bed) /\ t \in Targets /\ up[t].by = q
      BY <3>1 DEF IInv, TypeOK, Brought, NoWipe
    <3>3. t \notin Own(run[r].bed)
      BY <2>2, <3>1, <3>2, Alone DEF Live
    <3> QED BY <3>2, <3>3
  <2> QED BY <2>1, <2>2
<1>4. NoWipe'
  BY <1>3 DEF NoWipe
<1> QED BY <1>2, <1>4

\* A step that brings nothing up and takes nothing down.
LEMMA NoEffects ==
  ASSUME IInv, NEW r \in Runs, run[r] \in Started, NEW j \in Started, j.bed = run[r].bed,
         j.pc \in {"lock", "acquire"} => mine[r] = {},
         j.pc = "steps" => run[r].pc \in {"steps", "acquire"},
         run' = [run EXCEPT ![r] = j], UNCHANGED <<up, mine>>
  PROVE  Brought' /\ NoWipe'
<1>1. \A q \in Runs : run'[q] = IF q = r THEN j ELSE run[q]
  BY DEF IInv, TypeOK
<1>2. run[r].pc # "start" /\ j.pc # "start"
  BY DEF Started, Finished
<1>3. Brought'
  BY <1>1, <1>2 DEF IInv, Brought
<1>4. NoWipe'
  BY <1>1 DEF IInv, Brought, NoWipe
<1> QED BY <1>3, <1>4

LEMMA Types ==
  ASSUME lock' \in [Beds -> Runs \cup {None}], run' \in [Runs -> Runner],
         up' \in [Targets -> Presence], kids' \in [Kids -> Presence],
         mine' \in [Runs -> SUBSET Targets],
         seen' \in [Runs -> [by : Runs \cup {None}, rebuilt : BOOLEAN, whole : BOOLEAN]],
         Locked', Ahead', Brought', NoWipe'
  PROVE  IInv'
<1>1. \A b \in Beds : lock'[b] # None => run'[lock'[b]].pc \notin Finished /\ run'[lock'[b]].bed = b
  BY DEF Locked, Live, Finished
<1>2. TypeOK'
  BY <1>1 DEF TypeOK
<1> QED BY <1>2 DEF IInv

LEMMA QuietStep ==
  ASSUME IInv, NEW r \in Runs, run[r].pc \in Live,
         NEW j \in Started, j.bed = run[r].bed, j.pc \in Live \ {"acquire"},
         j.pc = "steps" => run[r].pc \in {"steps", "acquire"},
         j.todo \in Seq(StepsOf(j.bed)),
         run' = [run EXCEPT ![r] = j], UNCHANGED <<lock, up, kids, mine>>,
         seen' \in [Runs -> [by : Runs \cup {None}, rebuilt : BOOLEAN, whole : BOOLEAN]]
  PROVE  IInv'
<1>1. run[r] \in Started
  BY RunnerStarted DEF IInv, TypeOK, Live
<1>2. run' \in [Runs -> Runner] /\ Locked' /\ Ahead'
  BY Moves
<1>3. Brought' /\ NoWipe'
  BY <1>1, NoEffects DEF Live
<1> QED BY <1>2, <1>3, Types DEF IInv, TypeOK

LEMMA StartInv ==
  ASSUME IInv, NEW r \in Runs, Start(r)
  PROVE  IInv'
<1>1. PICK b \in Beds, o \in Options :
        run' = [run EXCEPT ![r] = [bed |-> b, opts |-> o, pc |-> "lock", todo |-> Sequence(b, o),
                  ok |-> TRUE, lease |-> "none", rebuilt |-> FALSE, left |-> FALSE]]
  BY DEF Start
<1> DEFINE j == [bed |-> b, opts |-> o, pc |-> "lock", todo |-> Sequence(b, o),
                 ok |-> TRUE, lease |-> "none", rebuilt |-> FALSE, left |-> FALSE]
<1>2. Sequence(b, o) \in Seq(StepsOf(b))
  BY StepsStay
<1>3. j \in Started
  BY <1>2, StepTypes DEF Started
<1>4. /\ j.bed = b /\ j.pc = "lock" /\ j.todo \in Seq(StepsOf(b)) /\ run[r].pc = "start"
      /\ run' = [run EXCEPT ![r] = j] /\ UNCHANGED <<lock, up, kids, mine, seen>>
  BY <1>1, <1>2 DEF Start
<1> HIDE DEF j
<1>5. run' \in [Runs -> Runner] /\ \A q \in Runs : run'[q] = IF q = r THEN j ELSE run[q]
  BY <1>3, <1>4, RunnerStarted DEF IInv, TypeOK
<1>6. Locked'
  BY <1>4, <1>5, CheckBedAssumption DEF IInv, TypeOK, Locked, Live
<1>7. Ahead'
  BY <1>4, <1>5 DEF IInv, Ahead
<1>8. Brought' /\ NoWipe'
  BY <1>4, <1>5 DEF IInv, Brought, NoWipe
<1> QED BY <1>4, <1>5, <1>6, <1>7, <1>8, Types DEF IInv, TypeOK

LEMMA LockInv ==
  ASSUME IInv, NEW r \in Runs, Lock(r)
  PROVE  IInv'
<1> DEFINE b == run[r].bed
<1>1. run[r] \in Started /\ run[r].pc = "lock" /\ mine[r] = {}
  BY RunnerStarted DEF IInv, TypeOK, Lock, Brought
<1>2. b \in Beds /\ run[r].todo \in Seq(StepsOf(b))
  BY <1>1 DEF Started, IInv, Ahead
<1>3. UNCHANGED <<up, kids, mine, seen>>
  BY DEF Lock
<1>4. CASE Free(b) /\ lock' = [lock EXCEPT ![b] = r] /\ run' = [run EXCEPT ![r].pc = "acquire"]
  <2> DEFINE j == [run[r] EXCEPT !.pc = "acquire"]
  <2>1. j \in Started /\ j.bed = b /\ j.pc = "acquire" /\ j.todo = run[r].todo
    BY <1>1 DEF Started
  <2>2. run' = [run EXCEPT ![r] = j]
    BY <1>4
  <2> HIDE DEF j
  <2>3. run' \in [Runs -> Runner] /\ \A q \in Runs : run'[q] = IF q = r THEN j ELSE run[q]
    BY <2>1, <2>2, RunnerStarted DEF IInv, TypeOK
  <2>4. lock' \in [Beds -> Runs \cup {None}] /\ \A c \in Beds : lock'[c] = IF c = b THEN r ELSE lock[c]
    BY <1>2, <1>4 DEF IInv, TypeOK
  <2>5. Locked'
    <3>1. \A q \in Runs : run'[q].pc \in Live => lock'[run'[q].bed] = q
      <4> SUFFICES ASSUME NEW q \in Runs, run'[q].pc \in Live PROVE lock'[run'[q].bed] = q
        OBVIOUS
      <4>1. CASE q = r
        BY <4>1, <1>2, <2>1, <2>3, <2>4
      <4>2. CASE q # r
        <5>1. run[q].pc \in Live /\ run'[q] = run[q] /\ lock[run[q].bed] = q
          BY <4>2, <2>3 DEF IInv, Locked
        <5>2. run[q].bed \in Beds
          BY <5>1, RunnerStarted DEF IInv, TypeOK, Live, Started
        <5>3. run[q].bed # b
          BY <5>1, <1>4, CheckBedAssumption DEF Free
        <5> QED BY <5>1, <5>2, <5>3, <2>4
      <4> QED BY <4>1, <4>2
    <3>2. \A c \in Beds : lock'[c] # None => run'[lock'[c]].pc \in Live /\ run'[lock'[c]].bed = c
      BY <1>1, <2>1, <2>3, <2>4 DEF IInv, TypeOK, Locked, Live
    <3> QED BY <3>1, <3>2 DEF Locked
  <2>6. Ahead'
    BY <1>2, <2>1, <2>3 DEF IInv, Ahead
  <2>7. Brought' /\ NoWipe'
    BY <1>1, <1>3, <2>1, <2>2, NoEffects
  <2> QED BY <1>3, <2>3, <2>4, <2>5, <2>6, <2>7, Types DEF IInv, TypeOK
<1>5. CASE run' = [run EXCEPT ![r].pc = "error", ![r].ok = FALSE] /\ UNCHANGED lock
  <2> DEFINE j == [run[r] EXCEPT !.pc = "error", !.ok = FALSE]
  <2>1. j \in Started /\ j.bed = b /\ j.pc = "error" /\ j.todo = run[r].todo
    BY <1>1 DEF Started, Finished
  <2>2. run' = [run EXCEPT ![r] = j]
    BY <1>5
  <2> HIDE DEF j
  <2>3. run' \in [Runs -> Runner] /\ \A q \in Runs : run'[q] = IF q = r THEN j ELSE run[q]
    BY <2>1, <2>2, RunnerStarted DEF IInv, TypeOK
  <2>4. Locked'
    BY <1>1, <1>5, <2>1, <2>3, CheckBedAssumption DEF IInv, TypeOK, Locked, Live
  <2>5. Ahead'
    BY <1>2, <2>1, <2>3 DEF IInv, Ahead
  <2>6. Brought' /\ NoWipe'
    BY <1>1, <1>3, <2>1, <2>2, NoEffects
  <2> QED BY <1>3, <1>5, <2>3, <2>4, <2>5, <2>6, Types DEF IInv, TypeOK
<1> QED BY <1>4, <1>5 DEF Lock

LEMMA AcquireInv ==
  ASSUME IInv, NEW r \in Runs, Acquire(r)
  PROVE  IInv'
<1>1. run[r] \in Started /\ run[r].pc = "acquire" /\ run[r].todo \in Seq(StepsOf(run[r].bed))
  BY RunnerStarted DEF IInv, TypeOK, Acquire, Ahead
<1>2. PICK j \in {[run[r] EXCEPT !.pc = "steps", !.lease = "held"], [run[r] EXCEPT !.pc = "unlock", !.ok = FALSE]} :
        run' = [run EXCEPT ![r] = j]
  BY DEF Acquire
<1>3. j \in Started /\ j.bed = run[r].bed /\ j.pc \in {"steps", "unlock"} /\ j.todo = run[r].todo
  BY <1>1, <1>2 DEF Started
<1> QED BY <1>1, <1>2, <1>3, QuietStep DEF Acquire, Live, IInv, TypeOK

LEMMA FailsInv ==
  ASSUME IInv, NEW r \in Runs, NEW ops, Fails(r, ops)
  PROVE  IInv'
<1>1. run[r] \in Started /\ run[r].pc = "steps" /\ run[r].todo \in Seq(StepsOf(run[r].bed))
  BY RunnerStarted DEF IInv, TypeOK, Fails, At, Ahead
<1> DEFINE j == [run[r] EXCEPT !.pc = "release", !.ok = FALSE]
<1>2. run' = [run EXCEPT ![r] = j]
  BY DEF Fails
<1>3. j \in Started /\ j.bed = run[r].bed /\ j.pc = "release" /\ j.todo = run[r].todo
  BY <1>1 DEF Started
<1> HIDE DEF j
<1> QED BY <1>1, <1>2, <1>3, QuietStep, ZenonT(60) DEF Fails, Live, IInv, TypeOK

LEMMA PeerFailsInv ==
  ASSUME IInv, NEW r \in Runs, PeerFails(r)
  PROVE  IInv'
<1>1. run[r] \in Started /\ run[r].pc = "steps" /\ run[r].todo \in Seq(StepsOf(run[r].bed))
  BY RunnerStarted DEF IInv, TypeOK, PeerFails, At, Ahead
<1> DEFINE j == [run[r] EXCEPT !.pc = "release"]
<1>2. run' = [run EXCEPT ![r] = j]
  BY DEF PeerFails
<1>3. j \in Started /\ j.bed = run[r].bed /\ j.pc = "release" /\ j.todo = run[r].todo
  BY <1>1 DEF Started
<1> HIDE DEF j
<1> QED BY <1>1, <1>2, <1>3, QuietStep, ZenonT(60) DEF PeerFails, Live, IInv, TypeOK

\* A step that is done and leaves what is up as it is.
LEMMA GoInv ==
  ASSUME IInv, NEW r \in Runs, NEW ops, At(r, ops), Go(r), UNCHANGED <<lock, up, kids, mine>>,
         seen' \in [Runs -> [by : Runs \cup {None}, rebuilt : BOOLEAN, whole : BOOLEAN]]
  PROVE  IInv'
<1>1. run[r] \in Started /\ run[r].pc = "steps" /\ Tail(run[r].todo) \in Seq(StepsOf(run[r].bed))
  BY Coming
<1> DEFINE j == [run[r] EXCEPT !.todo = Tail(@)]
<1>2. run' = [run EXCEPT ![r] = j]
  BY DEF Go
<1>3. j.todo = Tail(run[r].todo) /\ j.bed = run[r].bed /\ j.pc = "steps"
  BY <1>1 DEF Started
<1>4. j \in Started
  BY <1>1, StepTypes DEF Started
<1> HIDE DEF j
<1> QED BY <1>1, <1>2, <1>3, <1>4, QuietStep DEF Live

LEMMA PassesInv ==
  ASSUME IInv, NEW r \in Runs, Passes(r)
  PROVE  IInv'
BY GoInv DEF Passes, IInv, TypeOK

LEMMA CheckPassesInv ==
  ASSUME IInv, NEW r \in Runs, CheckPasses(r)
  PROVE  IInv'
<1>1. run[r] \in Started
  BY Coming DEF CheckPasses
<1>2. Whole(r) \in BOOLEAN
  BY DEF Whole
<1>3. seen' \in [Runs -> [by : Runs \cup {None}, rebuilt : BOOLEAN, whole : BOOLEAN]]
  BY <1>1, <1>2 DEF CheckPasses, IInv, TypeOK, Started
<1> QED BY <1>3, GoInv DEF CheckPasses

LEMMA RebuildBeginsInv ==
  ASSUME IInv, NEW r \in Runs, RebuildBegins(r)
  PROVE  IInv'
<1>1. run[r] \in Started /\ run[r].pc = "steps" /\ Tail(run[r].todo) \in Seq(StepsOf(run[r].bed))
  BY Coming DEF RebuildBegins
<1> DEFINE j == [run[r] EXCEPT !.todo = Tail(@), !.rebuilt = TRUE]
<1>2. run' = [run EXCEPT ![r] = j]
  BY DEF RebuildBegins
<1>3. j.todo = Tail(run[r].todo) /\ j.bed = run[r].bed /\ j.pc = "steps"
  BY <1>1 DEF Started
<1>4. j \in Started
  BY <1>1, StepTypes DEF Started
<1> HIDE DEF j
<1> QED BY <1>1, <1>2, <1>3, <1>4, QuietStep, ZenonT(60) DEF RebuildBegins, Live, IInv, TypeOK

LEMMA SummaryInv ==
  ASSUME IInv, NEW r \in Runs, Summary(r)
  PROVE  IInv'
<1>1. run[r] \in Started /\ run[r].pc = "steps" /\ run[r].todo \in Seq(StepsOf(run[r].bed))
  BY RunnerStarted DEF IInv, TypeOK, Summary, Ahead
<1> DEFINE j == [run[r] EXCEPT !.pc = IF run[r].ok THEN "pass" ELSE "release"]
<1>2. run' = [run EXCEPT ![r] = j]
  BY DEF Summary
<1>3. j \in Started /\ j.bed = run[r].bed /\ j.pc \in {"pass", "release"} /\ j.todo = run[r].todo
  BY <1>1 DEF Started
<1> HIDE DEF j
<1> QED BY <1>1, <1>2, <1>3, QuietStep, ZenonT(60) DEF Summary, Live, IInv, TypeOK

LEMMA ReleaseInv ==
  ASSUME IInv, NEW r \in Runs, Release(r)
  PROVE  IInv'
<1>1. run[r] \in Started /\ run[r].pc \in {"release", "pass"} /\ run[r].todo \in Seq(StepsOf(run[r].bed))
  BY RunnerStarted DEF IInv, TypeOK, Release, Ahead
<1> DEFINE j == [run[r] EXCEPT !.lease = IF run[r].ok THEN "released" ELSE "failed"]
<1>2. run' = [run EXCEPT ![r] = j]
  BY DEF Release
<1>3. j \in Started /\ j.bed = run[r].bed /\ j.pc = run[r].pc /\ j.todo = run[r].todo
  BY <1>1 DEF Started
<1> HIDE DEF j
<1>4. run[r].pc \in Live /\ j.pc \in Live \ {"acquire", "steps"}
  BY <1>1, <1>3 DEF Live
<1> QED BY <1>1, <1>2, <1>3, <1>4, QuietStep, ZenonT(60) DEF Release, IInv, TypeOK

\* A run that ends, by itself or by a kill, gives the lock back.
LEMMA EndInv ==
  ASSUME IInv, NEW r \in Runs, run[r].pc \in Live, NEW j \in Started, j.bed = run[r].bed,
         j.pc \in Finished, j.todo \in Seq(StepsOf(j.bed)), run' = [run EXCEPT ![r] = j],
         lock' = [lock EXCEPT ![run[r].bed] = None], UNCHANGED <<up, kids, mine, seen>>
  PROVE  IInv'
<1>1. run[r] \in Started
  BY RunnerStarted DEF IInv, TypeOK, Live
<1>2. run[r].bed \in Beds
  BY <1>1 DEF Started
<1>3. run' \in [Runs -> Runner] /\ \A q \in Runs : run'[q] = IF q = r THEN j ELSE run[q]
  BY RunnerStarted DEF IInv, TypeOK
<1>4. /\ lock' \in [Beds -> Runs \cup {None}]
      /\ \A c \in Beds : lock'[c] = IF c = run[r].bed THEN None ELSE lock[c]
  BY <1>2 DEF IInv, TypeOK
<1>5. Locked'
  <2>1. ASSUME NEW q \in Runs, run'[q].pc \in Live PROVE lock'[run'[q].bed] = q
    <3>1. q # r /\ run'[q] = run[q]
      BY <2>1, <1>3 DEF Live, Finished
    <3>2. lock[run[q].bed] = q /\ lock[run[r].bed] = r
      BY <2>1, <3>1 DEF IInv, Locked
    <3>3. run[q].bed \in Beds
      BY <2>1, <3>1, RunnerStarted DEF IInv, TypeOK, Live, Started
    <3> QED BY <3>1, <3>2, <3>3, <1>4
  <2>2. ASSUME NEW c \in Beds, lock'[c] # None PROVE run'[lock'[c]].pc \in Live /\ run'[lock'[c]].bed = c
    <3>1. c # run[r].bed /\ lock'[c] = lock[c] /\ lock[c] # None
      BY <2>2, <1>4
    <3>2. lock[c] \in Runs /\ run[lock[c]].pc \in Live /\ run[lock[c]].bed = c
      BY <3>1 DEF IInv, TypeOK, Locked
    <3> QED BY <3>1, <3>2, <1>3
  <2> QED BY <2>1, <2>2 DEF Locked
<1>6. Ahead'
  BY <1>3 DEF IInv, Ahead
<1>7. Brought' /\ NoWipe'
  BY <1>1, NoEffects DEF Finished
<1> QED BY <1>3, <1>4, <1>5, <1>6, <1>7, Types DEF IInv, TypeOK

LEMMA UnlockInv ==
  ASSUME IInv, NEW r \in Runs, Unlock(r)
  PROVE  IInv'
<1>1. run[r] \in Started /\ run[r].pc \in {"unlock", "release", "pass"} /\ run[r].todo \in Seq(StepsOf(run[r].bed))
  BY RunnerStarted DEF IInv, TypeOK, Unlock, Ahead
<1> DEFINE j == [run[r] EXCEPT !.pc = IF run[r].pc = "pass" THEN "passed" ELSE "error"]
<1>2. run' = [run EXCEPT ![r] = j]
  BY DEF Unlock
<1>3. j \in Started /\ j.bed = run[r].bed /\ j.pc \in Finished /\ j.todo = run[r].todo
  BY <1>1 DEF Started, Finished
<1> HIDE DEF j
<1> QED BY <1>1, <1>2, <1>3, EndInv DEF Unlock, Live

LEMMA KillInv ==
  ASSUME IInv, NEW r \in Runs, Kill(r)
  PROVE  IInv'
<1>1. run[r] \in Started /\ run[r].pc \in Live
  BY RunnerStarted DEF IInv, TypeOK, Kill, Live
<1> DEFINE j == [run[r] EXCEPT !.pc = "killed", !.todo = <<>>]
<1>2. run' = [run EXCEPT ![r] = j]
  BY DEF Kill
<1>3. j \in Started /\ j.bed = run[r].bed /\ j.pc \in Finished /\ j.todo = <<>>
  <2>1. <<>> \in Seq([op : Ops, on : Targets \cup Kids \cup Beds \cup {None}])
    OBVIOUS
  <2> QED BY <1>1, <2>1 DEF Started, Finished
<1>4. <<>> \in Seq(StepsOf(j.bed))
  OBVIOUS
<1> HIDE DEF j
<1> QED BY <1>1, <1>2, <1>3, <1>4, EndInv DEF Kill

-----------------------------------------------------------------------------
(* The steps with effects.                                                 *)

\* What bringing up or taking down a target of the bed preserves.
LEMMA EffectInv ==
  ASSUME Apart, IInv, NEW r \in Runs, run[r] \in Started, run[r].pc = "steps",
         NEW j \in Started, j.bed = run[r].bed, j.pc = "steps", j.todo \in Seq(StepsOf(j.bed)),
         run' = [run EXCEPT ![r] = j], UNCHANGED <<lock, seen>>, kids' \in [Kids -> Presence],
         NEW t \in Own(run[r].bed),
         \/ up' = [up EXCEPT ![t] = Down] /\ mine' = [mine EXCEPT ![r] = @ \ {t}]
         \/ up' = [up EXCEPT ![t] = Put(r)] /\ mine' = [mine EXCEPT ![r] = @ \cup {t}]
         \/ UNCHANGED <<up, mine>>
  PROVE  IInv'
<1>1. run[r].bed \in Beds
  BY DEF Started
<1>2. t \in Targets
  BY <1>1, OwnTargets
<1>3. Down \in Presence /\ Put(r) \in Presence /\ Put(r).by = r
  BY DEF Down, Put, Presence, Started
<1>4. up' \in [Targets -> Presence] /\ mine' \in [Runs -> SUBSET Targets]
  BY <1>2, <1>3 DEF IInv, TypeOK
<1>5. /\ \A x \in Targets \ {t} : up'[x] = up[x]
      /\ \A q \in Runs \ {r} : mine'[q] = mine[q]
  BY <1>2 DEF IInv, TypeOK
<1>6. mine[r] \subseteq Own(run[r].bed) /\ \A x \in mine[r] : x \in Targets /\ up[x].by = r
  BY DEF IInv, TypeOK, Brought, NoWipe
<1>7. mine'[r] \subseteq Own(run[r].bed) /\ \A x \in mine'[r] : up'[x].by = r
  <2>1. CASE up' = [up EXCEPT ![t] = Down] /\ mine' = [mine EXCEPT ![r] = @ \ {t}]
    <3>1. mine'[r] = mine[r] \ {t}
      BY <2>1 DEF IInv, TypeOK
    <3> QED BY <3>1, <1>5, <1>6
  <2>2. CASE up' = [up EXCEPT ![t] = Put(r)] /\ mine' = [mine EXCEPT ![r] = @ \cup {t}]
    <3>1. mine'[r] = mine[r] \cup {t} /\ up'[t] = Put(r)
      BY <2>2, <1>2 DEF IInv, TypeOK
    <3> QED BY <3>1, <1>3, <1>5, <1>6
  <2>3. CASE UNCHANGED <<up, mine>>
    BY <2>3, <1>6
  <2> QED BY <2>1, <2>2, <2>3
<1>8. run' \in [Runs -> Runner] /\ Locked' /\ Ahead'
  BY Moves DEF Live
<1>9. Brought' /\ NoWipe'
  <2>1. j.pc \in Live \ {"acquire"}
    BY DEF Live
  <2>2. \A x \in Targets \ Own(run[r].bed) : up'[x] = up[x]
    BY <1>5
  <2> QED BY <2>1, <2>2, <1>4, <1>5, <1>7, Effects
<1> QED BY <1>4, <1>8, <1>9, Types DEF IInv, TypeOK

\* A run after its next step.
Gone(r) == [run[r] EXCEPT !.todo = Tail(@)]

LEMMA Goes ==
  ASSUME IInv, NEW r \in Runs, NEW ops, At(r, ops)
  PROVE  /\ run[r] \in Started /\ run[r].pc = "steps"
         /\ Gone(r) \in Started /\ Gone(r).bed = run[r].bed /\ Gone(r).pc = "steps"
         /\ Gone(r).todo \in Seq(StepsOf(Gone(r).bed))
<1>1. /\ run[r] \in Started /\ run[r].pc = "steps"
      /\ Tail(run[r].todo) \in Seq(StepsOf(run[r].bed))
  BY Coming
<1>2. Tail(run[r].todo) \in Seq([op : Ops, on : Targets \cup Kids \cup Beds \cup {None}])
  BY <1>1, StepTypes DEF Started
<1> QED BY <1>1, <1>2 DEF Started, Gone

LEMMA OnOwn ==
  ASSUME IInv, NEW r \in Runs, NEW ops \in SUBSET OnTargets, At(r, ops)
  PROVE  On(r) \in Own(run[r].bed)
<1>1. Head(run[r].todo) \in StepsOf(run[r].bed) /\ Head(run[r].todo).op \in ops
  BY Coming
<1> QED BY <1>1 DEF On, StepsOf, OnTargets

LEMMA KidTypes ==
  ASSUME IInv, NEW r \in Runs, run[r] \in Started, NEW K
  PROVE  /\ [k \in Kids |-> IF k \in K THEN Down ELSE kids[k]] \in [Kids -> Presence]
         /\ [k \in Kids |-> IF k \in K THEN Put(r) ELSE kids[k]] \in [Kids -> Presence]
         /\ \A x : [kids EXCEPT ![x] = Put(r)] \in [Kids -> Presence]
BY DEF IInv, TypeOK, Presence, Down, Put, Started

LEMMA ClearInv ==
  ASSUME Apart, IInv, NEW r \in Runs, Clear(r)
  PROVE  IInv'
<1>1. At(r, {"clear"}) /\ UNCHANGED <<lock, seen>>
  BY DEF Clear
<1>2. On(r) \in Own(run[r].bed)
  BY <1>1, OnOwn DEF OnTargets
<1>3. CASE Go(r) /\ TakeDown(r, On(r))
  <2>1. run' = [run EXCEPT ![r] = Gone(r)] /\ kids' \in [Kids -> Presence]
    BY <1>1, <1>3, Goes, KidTypes DEF Go, Gone, TakeDown
  <2> QED BY <1>1, <1>2, <1>3, <2>1, Goes, EffectInv DEF TakeDown
<1>4. CASE run' = [run EXCEPT ![r].todo = Tail(@), ![r].left = TRUE] /\ UNCHANGED <<up, kids, mine>>
  <2> DEFINE j == [Gone(r) EXCEPT !.left = TRUE]
  <2>1. run' = [run EXCEPT ![r] = j]
    BY <1>4 DEF Gone
  <2>2. j \in Started /\ j.bed = run[r].bed /\ j.pc = "steps" /\ j.todo \in Seq(StepsOf(j.bed))
    BY <1>1, Goes DEF Started
  <2> HIDE DEF j
  <2>3. run[r] \in Started /\ run[r].pc = "steps"
    BY <1>1, Goes
  <2> QED BY <1>1, <1>4, <2>1, <2>2, <2>3, QuietStep DEF Live, IInv, TypeOK
<1> QED BY <1>1, <1>3, <1>4 DEF Clear

LEMMA CreateInv ==
  ASSUME Apart, IInv, NEW r \in Runs, Create(r)
  PROVE  IInv'
<1>1. At(r, {"create", "peer create"}) /\ UNCHANGED <<lock, kids, seen>>
  BY DEF Create
<1>2. On(r) \in Own(run[r].bed)
  BY <1>1, OnOwn DEF OnTargets
<1>3. run' = [run EXCEPT ![r] = Gone(r)] /\ kids' \in [Kids -> Presence]
  BY <1>1 DEF Create, Go, Gone, IInv, TypeOK
<1> QED BY <1>1, <1>2, <1>3, Goes, EffectInv DEF Create, BringUp

LEMMA DeployRootInv ==
  ASSUME Apart, IInv, NEW r \in Runs, DeployRoot(r)
  PROVE  IInv'
<1>1. At(r, {"deploy"}) /\ UNCHANGED <<lock, seen>>
  BY DEF DeployRoot
<1>2. On(r) \in Own(run[r].bed)
  BY <1>1, OnOwn DEF OnTargets
<1>3. run' = [run EXCEPT ![r] = Gone(r)] /\ kids' \in [Kids -> Presence]
  BY <1>1, Goes, KidTypes, ZenonT(60) DEF DeployRoot, Go, Gone
<1> QED BY <1>1, <1>2, <1>3, Goes, EffectInv DEF DeployRoot, BringUp

LEMMA ChildInv ==
  ASSUME IInv, NEW r \in Runs, Child(r)
  PROVE  IInv'
<1>1. At(r, {"child"}) /\ UNCHANGED <<lock, up, mine, seen>> /\ run' = [run EXCEPT ![r] = Gone(r)]
  BY DEF Child, Go, Gone
<1>2. kids' \in [Kids -> Presence]
  BY <1>1, Goes, KidTypes DEF Child
<1>3. run' \in [Runs -> Runner] /\ Locked' /\ Ahead'
  BY <1>1, Goes, Moves DEF Live
<1>4. Brought' /\ NoWipe'
  BY <1>1, Goes, NoEffects
<1> QED BY <1>1, <1>2, <1>3, <1>4, Types DEF IInv, TypeOK

LEMMA PeerInv ==
  ASSUME Apart, IInv, NEW r \in Runs, Peer(r)
  PROVE  IInv'
<1>1. At(r, {"peer"}) /\ UNCHANGED <<lock, kids, seen>>
  BY DEF Peer
<1>2. On(r) \in Own(run[r].bed)
  BY <1>1, OnOwn DEF OnTargets
<1>3. run' = [run EXCEPT ![r] = Gone(r)] /\ kids' \in [Kids -> Presence]
  BY <1>1 DEF Peer, Go, Gone, IInv, TypeOK
<1> QED BY <1>1, <1>2, <1>3, Goes, EffectInv DEF Peer, BringUp

LEMMA UpdateInv ==
  ASSUME Apart, IInv, NEW r \in Runs, Update(r)
  PROVE  IInv'
<1>1. At(r, {"update"}) /\ UNCHANGED <<lock, seen>>
  BY DEF Update
<1>2. On(r) \in Own(run[r].bed)
  BY <1>1, OnOwn DEF OnTargets
<1>3. run' = [run EXCEPT ![r] = Gone(r)]
  BY DEF Update, Go, Gone
<1>4. kids' \in [Kids -> Presence]
  BY DEF Update, IInv, TypeOK, Down, Presence
<1> QED BY <1>1, <1>2, <1>3, <1>4, Goes, EffectInv DEF Update, BringUp

LEMMA CleanupRootInv ==
  ASSUME Apart, IInv, NEW r \in Runs, CleanupRoot(r)
  PROVE  IInv'
<1>1. At(r, {"cleanup"}) /\ UNCHANGED <<lock, seen>>
  BY DEF CleanupRoot
<1>2. On(r) # None => On(r) \in Own(run[r].bed)
  <2>1. Head(run[r].todo) \in StepsOf(run[r].bed) /\ Head(run[r].todo).op \in {"cleanup"}
    BY <1>1, Coming
  <2> QED BY <2>1 DEF On, StepsOf, OnTargets
<1>3. CASE Go(r) /\ IF On(r) = None THEN UNCHANGED <<up, kids, mine>> ELSE TakeDown(r, On(r))
  <2>1. run' = [run EXCEPT ![r] = Gone(r)]
    BY <1>3 DEF Go, Gone
  <2>2. CASE On(r) = None
    <3>1. Go(r) /\ UNCHANGED <<up, kids, mine>>
      BY <1>3, <2>2
    <3> QED BY <1>1, <3>1, GoInv DEF IInv, TypeOK
  <2>3. CASE On(r) # None
    <3>1. TakeDown(r, On(r)) /\ kids' \in [Kids -> Presence]
      BY <1>1, <1>3, <2>3, Goes, KidTypes DEF TakeDown
    <3> QED BY <1>1, <1>2, <2>1, <2>3, <3>1, Goes, EffectInv DEF TakeDown
  <2> QED BY <2>2, <2>3
<1>4. CASE run' = [run EXCEPT ![r].todo = Tail(@), ![r].ok = FALSE] /\ UNCHANGED <<up, kids, mine>>
  <2> DEFINE j == [Gone(r) EXCEPT !.ok = FALSE]
  <2>1. run' = [run EXCEPT ![r] = j]
    BY <1>4 DEF Gone
  <2>2. j \in Started /\ j.bed = run[r].bed /\ j.pc = "steps" /\ j.todo \in Seq(StepsOf(j.bed))
    BY <1>1, Goes DEF Started
  <2> HIDE DEF j
  <2>3. run[r] \in Started /\ run[r].pc = "steps"
    BY <1>1, Goes
  <2> QED BY <1>1, <1>4, <2>1, <2>2, <2>3, QuietStep DEF Live, IInv, TypeOK
<1> QED BY <1>1, <1>3, <1>4 DEF CleanupRoot

-----------------------------------------------------------------------------
(* The types, and that nothing is wiped.                                   *)

LEMMA InitInv == Init => IInv
<1> SUFFICES ASSUME Init PROVE IInv
  OBVIOUS
<1>1. TypeOK
  <2>1. run \in [Runs -> Runner]
    BY DEF Init, Runner
  <2> QED BY <2>1 DEF Init, TypeOK, Presence, Down, Nobody
<1>2. Locked /\ Ahead /\ Brought /\ NoWipe
  BY DEF Init, Locked, Live, Ahead, Brought, NoWipe
<1> QED BY <1>1, <1>2 DEF IInv

LEMMA NextInv == Apart /\ IInv /\ [Next]_vars => IInv'
<1> SUFFICES ASSUME Apart, IInv, [Next]_vars PROVE IInv'
  OBVIOUS
<1>1. CASE UNCHANGED vars
  BY <1>1 DEF vars, IInv, TypeOK, Locked, Ahead, Brought, NoWipe
<1>2. ASSUME NEW r \in Runs, Step(r) PROVE IInv'
  <2>1. CASE Start(r) \/ Lock(r) \/ Acquire(r)
    BY <2>1, StartInv, LockInv, AcquireInv
  <2>2. CASE StepFails(r) \/ PeerFails(r)
    BY <2>2, FailsInv, PeerFailsInv DEF StepFails
  <2>3. CASE Passes(r) \/ CheckPasses(r) \/ RebuildBegins(r) \/ Summary(r) \/ Release(r) \/ Unlock(r)
    BY <2>3, PassesInv, CheckPassesInv, RebuildBeginsInv, SummaryInv, ReleaseInv, UnlockInv
  <2>4. CASE Clear(r) \/ Create(r) \/ DeployRoot(r) \/ Child(r) \/ Peer(r) \/ Update(r) \/ CleanupRoot(r)
    BY <2>4, ClearInv, CreateInv, DeployRootInv, ChildInv, PeerInv, UpdateInv, CleanupRootInv
  <2> QED BY <1>2, <2>1, <2>2, <2>3, <2>4 DEF Step
<1> QED BY <1>1, <1>2, KillInv DEF Next, AllDone

\* Every reachable state has its type: a lock is held by a run of that bed that is under way
\* (runCheckBed), and what a run has left to do are steps of its bed.
THEOREM TypeCorrect == Apart => (Spec => []TypeOK)
<1> SUFFICES ASSUME Apart PROVE Spec => []TypeOK
  OBVIOUS
<1>1. IInv => TypeOK
  BY DEF IInv
<1>2. IInv /\ [Next]_vars => IInv'
  BY NextInv
<1> QED BY <1>1, <1>2, InitInv, PTL DEF Spec

\* If no two beds own the same target, no run has what it brought up taken down by another, for any
\* beds, runs, levels, options, failures and kills (runCheckBed takes the lock of its bed).
THEOREM NeverWiped == Apart => (Spec => []NoWipe)
<1> SUFFICES ASSUME Apart PROVE Spec => []NoWipe
  OBVIOUS
<1>1. IInv => NoWipe
  BY DEF IInv
<1>2. IInv /\ [Next]_vars => IInv'
  BY NextInv
<1> QED BY <1>1, <1>2, InitInv, PTL DEF Spec

-----------------------------------------------------------------------------
(* What the steps of a bed do, one after the other, to what it owns.  A     *)
(* sequence of steps leads from P to Q if, done without a failure from a    *)
(* state in P, it ends in one in Q, whatever comes after it.                *)

\* What a run knows and owns: its targets, its children, and what its last check saw.
States(b) ==
  [up : [Own(b) -> Presence], kids : [ToSet(Children[b]) -> Presence], rebuilt : BOOLEAN,
   whole : BOOLEAN, again : BOOLEAN]

Made(r, fresh) == [by |-> r, rebuilt |-> fresh]

RootIs(r, b, v, fresh)   == Kind[b] # "group" => v.up[Root[b]] = Made(r, fresh)
PeersAre(r, b, v, fresh) == \A m \in ToSet(Members[b]) : v.up[m] = Made(r, fresh)
KidsAre(r, b, v, fresh)  == \A k \in ToSet(Children[b]) : v.kids[k] = Made(r, fresh)

AllThere(r, b, v) ==
  /\ RootIs(r, b, v, v.rebuilt)
  /\ PeersAre(r, b, v, Kind[b] = "group" /\ v.rebuilt)
  /\ KidsAre(r, b, v, Kind[b] = "pod" /\ v.rebuilt)

UpAfter(r, b, x, v) ==
  [t \in Own(b) |->
     IF t # x.on THEN v.up[t]
     ELSE IF x.op \in {"clear", "cleanup"} THEN Down
     ELSE IF \/ x.op \in {"create", "peer create", "update"}
             \/ x.op = "deploy" /\ (t \notin Vms \/ v.up[t] = Down)
             \/ x.op = "peer" /\ v.up[t] = Down
          THEN Made(r, v.rebuilt) ELSE v.up[t]]

KidsAfter(r, b, x, v) ==
  [k \in ToSet(Children[b]) |->
     IF \/ x.op = "child" /\ k = x.on
        \/ x.op = "deploy" /\ x.on = Root[b] /\ k \in InGuest
     THEN Made(r, v.rebuilt)
     ELSE IF \/ x.op \in {"clear", "cleanup"} /\ x.on = Root[b]
             \/ x.op = "update" /\ x.on = Root[b] /\ x.on \notin Vms
          THEN Down ELSE v.kids[k]]

After(r, b, x, v) ==
  [up |-> UpAfter(r, b, x, v), kids |-> KidsAfter(r, b, x, v),
   rebuilt |-> v.rebuilt \/ x.op = "rebuild",
   whole |-> IF x.op = "check live" THEN AllThere(r, b, v) ELSE v.whole,
   again |-> IF x.op = "check live" THEN v.rebuilt ELSE v.again]

LEMMA AfterType ==
  ASSUME NEW r \in Runs, NEW b \in Beds, NEW x \in StepsOf(b), NEW v \in States(b)
  PROVE  After(r, b, x, v) \in States(b)
<1>1. /\ v.up \in [Own(b) -> Presence] /\ v.kids \in [ToSet(Children[b]) -> Presence]
      /\ v.rebuilt \in BOOLEAN /\ v.whole \in BOOLEAN /\ v.again \in BOOLEAN
  BY DEF States
<1>2. Down \in Presence /\ \A f \in BOOLEAN : Made(r, f) \in Presence
  BY DEF Down, Made, Presence
<1>3. UpAfter(r, b, x, v) \in [Own(b) -> Presence]
  BY <1>1, <1>2 DEF UpAfter
<1>4. KidsAfter(r, b, x, v) \in [ToSet(Children[b]) -> Presence]
  BY <1>1, <1>2 DEF KidsAfter
<1>5. AllThere(r, b, v) \in BOOLEAN
  BY DEF AllThere, RootIs, PeersAre, KidsAre
<1>6. (v.rebuilt \/ x.op = "rebuild") \in BOOLEAN
  OBVIOUS
<1>7. /\ (IF x.op = "check live" THEN AllThere(r, b, v) ELSE v.whole) \in BOOLEAN
      /\ (IF x.op = "check live" THEN v.rebuilt ELSE v.again) \in BOOLEAN
  BY <1>1, <1>5
<1> QED BY <1>3, <1>4, <1>6, <1>7, ZenonT(60) DEF After, States

\* A set of pairs of what is still to do and a state, closed under the steps, that ends in G.
Closed(r, b, G, W) ==
  \A q \in Seq(StepsOf(b)), v \in States(b) :
    <<q, v>> \in W => IF q = <<>> THEN v \in G ELSE <<Tail(q), After(r, b, Head(q), v)>> \in W

\* The steps of q take v into G.
Wins(r, b, G, q, v) ==
  \E W \in SUBSET (Seq(StepsOf(b)) \X States(b)) : Closed(r, b, G, W) /\ <<q, v>> \in W

LEMMA SamePair ==
  ASSUME NEW x, NEW y, NEW u, NEW v
  PROVE  <<u, v>> \in {<<x, y>>} <=> u = x /\ v = y
OBVIOUS

LEMMA WinsEnd ==
  ASSUME NEW r, NEW b, NEW G, NEW v \in States(b)
  PROVE  Wins(r, b, G, <<>>, v) <=> v \in G
<1>1. ASSUME v \in G PROVE Wins(r, b, G, <<>>, v)
  <2>5. <<>> \in Seq(StepsOf(b))
    OBVIOUS
  <2>0. PICK e \in Seq(StepsOf(b)) : e = <<>>
    BY <2>5
  <2>1. {<<e, v>>} \in SUBSET (Seq(StepsOf(b)) \X States(b)) /\ <<e, v>> \in {<<e, v>>}
    OBVIOUS
  <2>2. \A q, u : <<q, u>> \in {<<e, v>>} => q = e /\ u = v
    BY SamePair
  <2>3. Closed(r, b, G, {<<e, v>>})
    BY <1>1, <2>0, <2>2, Zenon DEF Closed
  <2>4. Wins(r, b, G, e, v)
    BY <2>1, <2>3, Zenon DEF Wins
  <2> QED BY <2>0, <2>4
<1>2. ASSUME Wins(r, b, G, <<>>, v) PROVE v \in G
  <2>1. <<>> \in Seq(StepsOf(b))
    OBVIOUS
  <2> QED BY <1>2, <2>1 DEF Wins, Closed
<1> QED BY <1>1, <1>2

LEMMA WinsStep ==
  ASSUME NEW r, NEW b, NEW G, NEW v \in States(b), NEW q \in Seq(StepsOf(b)), q # <<>>,
         Wins(r, b, G, q, v)
  PROVE  Wins(r, b, G, Tail(q), After(r, b, Head(q), v))
<1>1. PICK W \in SUBSET (Seq(StepsOf(b)) \X States(b)) : Closed(r, b, G, W) /\ <<q, v>> \in W
  BY DEF Wins
<1>2. <<Tail(q), After(r, b, Head(q), v)>> \in W
  BY <1>1 DEF Closed
<1> QED BY <1>1, <1>2 DEF Wins

LEMMA WinsBack ==
  ASSUME NEW r \in Runs, NEW b \in Beds, NEW G, NEW v \in States(b), NEW q \in Seq(StepsOf(b)), q # <<>>,
         Wins(r, b, G, Tail(q), After(r, b, Head(q), v))
  PROVE  Wins(r, b, G, q, v)
<1>1. PICK W \in SUBSET (Seq(StepsOf(b)) \X States(b)) :
        Closed(r, b, G, W) /\ <<Tail(q), After(r, b, Head(q), v)>> \in W
  BY DEF Wins
<1> DEFINE N == W \cup {<<q, v>>}
<1>2. N \in SUBSET (Seq(StepsOf(b)) \X States(b))
  BY <1>1
<1>3. Closed(r, b, G, N)
  <2> SUFFICES ASSUME NEW p \in Seq(StepsOf(b)), NEW u \in States(b), <<p, u>> \in N
               PROVE  IF p = <<>> THEN u \in G ELSE <<Tail(p), After(r, b, Head(p), u)>> \in N
    BY DEF Closed
  <2>1. CASE <<p, u>> \in W
    BY <1>1, <2>1 DEF Closed
  <2>2. CASE p = q /\ u = v
    BY <1>1, <2>2
  <2> QED BY <2>1, <2>2
<1> QED BY <1>2, <1>3 DEF Wins

Leads(r, b, P, s, Q) ==
  \A G \in SUBSET States(b) : \A q \in Seq(StepsOf(b)) :
    (\A v \in Q : Wins(r, b, G, q, v)) => \A v \in P : Wins(r, b, G, s \o q, v)

LEMMA LeadsWeaker ==
  ASSUME NEW r, NEW b, NEW s, NEW P, NEW Q, NEW A, NEW B, Leads(r, b, P, s, Q), A \subseteq P, Q \subseteq B
  PROVE  Leads(r, b, A, s, B)
BY Zenon DEF Leads

LEMMA Reassociate ==
  ASSUME NEW E, NEW s \in Seq(E), NEW t \in Seq(E), NEW q \in Seq(E)
  PROVE  (s \o t) \o q = s \o (t \o q)
OBVIOUS

LEMMA LeadsThen ==
  ASSUME NEW r, NEW b, NEW P, NEW Q, NEW R, NEW s \in Seq(StepsOf(b)), NEW t \in Seq(StepsOf(b)),
         Leads(r, b, P, s, Q), Leads(r, b, Q, t, R)
  PROVE  Leads(r, b, P, s \o t, R)
<1> SUFFICES ASSUME NEW G \in SUBSET States(b), NEW q \in Seq(StepsOf(b)),
                    \A v \in R : Wins(r, b, G, q, v),
                    NEW v \in P
             PROVE  Wins(r, b, G, (s \o t) \o q, v)
  BY DEF Leads
<1>1. t \o q \in Seq(StepsOf(b)) /\ (s \o t) \o q = s \o (t \o q)
  BY ConcatStays, Reassociate
<1>2. \A u \in Q : Wins(r, b, G, t \o q, u)
  BY DEF Leads
<1>3. Wins(r, b, G, s \o (t \o q), v)
  BY <1>1, <1>2, Zenon DEF Leads
<1> QED BY <1>1, <1>3

LEMMA LeadsNothing ==
  ASSUME NEW r, NEW b, NEW P, NEW Q, P \subseteq Q
  PROVE  Leads(r, b, P, <<>>, Q)
<1> SUFFICES ASSUME NEW G \in SUBSET States(b), NEW q \in Seq(StepsOf(b)),
                    \A v \in Q : Wins(r, b, G, q, v),
                    NEW v \in P
             PROVE  Wins(r, b, G, <<>> \o q, v)
  BY DEF Leads
<1>1. <<>> \o q = q
  OBVIOUS
<1> QED BY <1>1

LEMMA LeadsWhen ==
  ASSUME NEW r, NEW b, NEW P, NEW Q, NEW c \in BOOLEAN, NEW s,
         c => Leads(r, b, P, s, Q), ~c => P \subseteq Q
  PROVE  Leads(r, b, P, When(c, s), Q)
BY LeadsNothing DEF When

LEMMA LeadsOne ==
  ASSUME NEW r \in Runs, NEW b \in Beds, NEW P \in SUBSET States(b), NEW Q, NEW op, NEW y,
         [op |-> op, on |-> y] \in StepsOf(b),
         \A v \in P : After(r, b, [op |-> op, on |-> y], v) \in Q
  PROVE  Leads(r, b, P, S(op, y), Q)
<1> DEFINE x == [op |-> op, on |-> y]
<1> SUFFICES ASSUME NEW G \in SUBSET States(b), NEW q \in Seq(StepsOf(b)),
                    \A v \in Q : Wins(r, b, G, q, v),
                    NEW v \in P
             PROVE  Wins(r, b, G, <<x>> \o q, v)
  BY DEF Leads, S
<1>1. x \in StepsOf(b) /\ After(r, b, x, v) \in Q
  OBVIOUS
<1> HIDE DEF x
<1>2. <<x>> \o q \in Seq(StepsOf(b)) /\ <<x>> \o q # <<>> /\ Head(<<x>> \o q) = x /\ Tail(<<x>> \o q) = q
  BY <1>1
<1>3. Wins(r, b, G, Tail(<<x>> \o q), After(r, b, Head(<<x>> \o q), v))
  BY <1>1, <1>2
<1> QED BY <1>2, <1>3, WinsBack

\* One part after the other: I[i] holds behind the first i parts.
LEMMA PartsStay ==
  ASSUME NEW E, NEW s \in Seq(Seq(E)), NEW h \in [1..Len(s) -> Seq(E)]
  PROVE  \A i \in 1..Len(s) : h[i] \in Seq(E) /\ s[i] \in Seq(E)
<1>1. \A i \in 1..Len(s) : s[i] \in Seq(E)
  OBVIOUS
<1>2. \A i \in 1..Len(s) : h[i] \in Seq(E)
  OBVIOUS
<1> QED BY <1>1, <1>2

LEMMA LeadsFlatten ==
  ASSUME NEW r, NEW b, NEW s \in Seq(Seq(StepsOf(b))), NEW I,
         \A i \in 1..Len(s) : Leads(r, b, I[i-1], s[i], I[i])
  PROVE  Leads(r, b, I[0], FlattenSeq(s), I[Len(s)])
<1>1. CASE Len(s) = 0
  <2>1. FlattenSeq(s) = <<>> /\ I[Len(s)] = I[0]
    BY <1>1, FlattenNothing
  <2> QED BY <2>1, LeadsNothing
<1>2. CASE Len(s) # 0
  <2>1. PICK h \in [1..Len(s) -> Seq(StepsOf(b))] :
          /\ \A i \in 1..Len(s) : h[i] = IF i = 1 THEN s[i] ELSE h[i-1] \o s[i]
          /\ FlattenSeq(s) = h[Len(s)]
    BY <1>2, FlattenIs
  <2>2. Len(s) \in Nat /\ Len(s) \in 1..Len(s)
    BY <1>2
  <2>9. \A i \in 1..Len(s) : h[i] \in Seq(StepsOf(b)) /\ s[i] \in Seq(StepsOf(b))
    BY PartsStay
  <2> DEFINE Bad == {i \in 1..Len(s) : ~Leads(r, b, I[0], h[i], I[i])}
  <2>3. SUFFICES ASSUME Bad # {} PROVE FALSE
    BY <2>1, <2>2
  <2>4. Bad \subseteq Nat
    OBVIOUS
  <2>5. PICK m \in Bad : \A k \in Bad : ~(k < m)
    <3> HIDE DEF Bad
    <3> QED BY <2>3, <2>4, Least
  <2>6. m \in 1..Len(s) /\ ~Leads(r, b, I[0], h[m], I[m])
    OBVIOUS
  <2> HIDE DEF Bad
  <2>7. CASE m = 1
    <3>0. m-1 = 0
      BY <2>7
    <3>3. h[m] = IF m = 1 THEN s[m] ELSE h[m-1] \o s[m]
      BY <2>1, <2>6, Zenon
    <3>1. h[m] = s[m]
      BY <3>3, <2>7, Zenon
    <3>2. Leads(r, b, I[m-1], s[m], I[m])
      BY <2>6
    <3> QED BY <2>6, <3>0, <3>1, <3>2
  <2>8. CASE m # 1
    <3>1. m-1 \in 1..Len(s) /\ m-1 < m
      BY <2>6, <2>8
    <3>2. Leads(r, b, I[0], h[m-1], I[m-1])
      BY <2>5, <3>1 DEF Bad
    <3>3. Leads(r, b, I[m-1], s[m], I[m])
      BY <2>6
    <3>4. h[m-1] \in Seq(StepsOf(b)) /\ s[m] \in Seq(StepsOf(b))
      BY <2>6, <2>9, <3>1
    <3>6. h[m] = h[m-1] \o s[m]
      BY <2>1, <2>6, <2>8
    <3>5. Leads(r, b, I[0], h[m-1] \o s[m], I[m])
      BY <3>2, <3>3, <3>4, LeadsThen
    <3> QED BY <2>6, <3>6, <3>5
  <2> QED BY <2>7, <2>8
<1> QED BY <1>1, <1>2

-----------------------------------------------------------------------------
(* What the parts of the sequence lead to.                                  *)

\* A deployment's root is not among its members (foldMembers refuses a peer with the name of
\* another entry), and what is nested in it is its own.  A domain has other domains for members
\* only: no other member of a domain's bed is cleared before it is used.
Regular ==
  /\ \A b \in Beds : /\ Root[b] \notin ToSet(Members[b])
                     /\ Kind[b] = "vm" => Root[b] \in Vms /\ ToSet(Members[b]) \subseteq Vms
  /\ \A b, c \in Beds : b # c => ToSet(Children[b]) \cap ToSet(Children[c]) = {}

\* What is checked of it that is no domain is down, before its members are brought up.
Fresh(b, v) == \A m \in ToSet(Members[b]) \ Vms : v.up[m] = Down

LEMMA Listed ==
  ASSUME NEW b \in Beds
  PROVE  /\ \A m \in ToSet(Members[b]) : m \in Own(b)
         /\ \A i \in 1..Len(Members[b]) : Members[b][i] \in ToSet(Members[b])
         /\ \A m \in ToSet(Members[b]) : \E i \in 1..Len(Members[b]) : m = Members[b][i]
         /\ \A i \in 1..Len(Children[b]) : Children[b][i] \in ToSet(Children[b])
         /\ \A k \in ToSet(Children[b]) : \E i \in 1..Len(Children[b]) : k = Children[b][i]
         /\ Len(Members[b]) \in Nat /\ Len(Children[b]) \in Nat
<1>1. Members[b] \in Seq(Own(b)) /\ Children[b] \in Seq(ToSet(Children[b]))
  BY OwnTargets
<1>2. Len(Members[b]) \in Nat /\ Len(Children[b]) \in Nat
  BY <1>1
<1>3. \A i \in 1..Len(Members[b]) : Members[b][i] \in Own(b)
  BY <1>1
<1> QED BY <1>2, <1>3 DEF ToSet

\* What a step with operation op on y does, from v to w.
Does(r, b, op, y, v, w) ==
  /\ \A t \in Own(b) : t # y => w.up[t] = v.up[t]
  /\ \A t \in Own(b) : t = y => w.up[t] =
       IF op \in {"clear", "cleanup"} THEN Down
       ELSE IF \/ op \in {"create", "peer create", "update"}
               \/ op = "deploy" /\ (t \notin Vms \/ v.up[t] = Down)
               \/ op = "peer" /\ v.up[t] = Down
            THEN Made(r, v.rebuilt) ELSE v.up[t]
  /\ \A k \in ToSet(Children[b]) : w.kids[k] =
       IF (op = "child" /\ k = y) \/ (op = "deploy" /\ y = Root[b] /\ k \in InGuest)
       THEN Made(r, v.rebuilt)
       ELSE IF \/ op \in {"clear", "cleanup"} /\ y = Root[b]
               \/ op = "update" /\ y = Root[b] /\ y \notin Vms
            THEN Down ELSE v.kids[k]
  /\ w.rebuilt <=> v.rebuilt \/ op = "rebuild"
  /\ w.whole <=> IF op = "check live" THEN AllThere(r, b, v) ELSE v.whole
  /\ w.again <=> IF op = "check live" THEN v.rebuilt ELSE v.again

LEMMA Effect ==
  ASSUME NEW r, NEW b, NEW v, NEW x
  PROVE  Does(r, b, x.op, x.on, v, After(r, b, x, v))
<1> DEFINE w == After(r, b, x, v)
<1>1. \A t \in Own(b) : t # x.on => w.up[t] = v.up[t]
  BY DEF After, UpAfter
<1>2. \A t \in Own(b) : t = x.on => w.up[t] =
       IF x.op \in {"clear", "cleanup"} THEN Down
       ELSE IF \/ x.op \in {"create", "peer create", "update"}
               \/ x.op = "deploy" /\ (t \notin Vms \/ v.up[t] = Down)
               \/ x.op = "peer" /\ v.up[t] = Down
            THEN Made(r, v.rebuilt) ELSE v.up[t]
  BY DEF After, UpAfter
<1>3. \A k \in ToSet(Children[b]) : w.kids[k] =
       IF (x.op = "child" /\ k = x.on) \/ (x.op = "deploy" /\ x.on = Root[b] /\ k \in InGuest)
       THEN Made(r, v.rebuilt)
       ELSE IF \/ x.op \in {"clear", "cleanup"} /\ x.on = Root[b]
               \/ x.op = "update" /\ x.on = Root[b] /\ x.on \notin Vms
            THEN Down ELSE v.kids[k]
  <2>1. w.kids = KidsAfter(r, b, x, v)
    BY DEF After
  <2> HIDE DEF w
  <2> SUFFICES ASSUME NEW k \in ToSet(Children[b])
               PROVE  KidsAfter(r, b, x, v)[k] =
       IF (x.op = "child" /\ k = x.on) \/ (x.op = "deploy" /\ x.on = Root[b] /\ k \in InGuest)
       THEN Made(r, v.rebuilt)
       ELSE IF \/ x.op \in {"clear", "cleanup"} /\ x.on = Root[b]
               \/ x.op = "update" /\ x.on = Root[b] /\ x.on \notin Vms
            THEN Down ELSE v.kids[k]
    BY <2>1
  <2> QED BY DEF KidsAfter
<1>4. w.rebuilt <=> v.rebuilt \/ x.op = "rebuild"
  BY Zenon DEF After
<1>5. w.whole <=> IF x.op = "check live" THEN AllThere(r, b, v) ELSE v.whole
  BY Zenon DEF After
<1>6. w.again <=> IF x.op = "check live" THEN v.rebuilt ELSE v.again
  BY Zenon DEF After
<1> HIDE DEF w
<1>7. Does(r, b, x.op, x.on, v, w)
  BY <1>1, <1>2, <1>3, <1>4, <1>5, <1>6, Zenon DEF Does
<1> QED BY <1>7 DEF w

LEMMA LeadsOp ==
  ASSUME NEW r \in Runs, NEW b \in Beds, NEW P \in SUBSET States(b), NEW Q, NEW op, NEW y,
         [op |-> op, on |-> y] \in StepsOf(b),
         \A v \in P : \A w \in States(b) : Does(r, b, op, y, v, w) => w \in Q
  PROVE  Leads(r, b, P, S(op, y), Q)
<1> DEFINE x == [op |-> op, on |-> y]
<1>1. x \in StepsOf(b) /\ x.op = op /\ x.on = y
  OBVIOUS
<1>3. SUFFICES \A v \in P : After(r, b, x, v) \in Q
  BY <1>1, LeadsOne
<1> HIDE DEF x
<1>2. ASSUME NEW v \in P PROVE After(r, b, x, v) \in Q
  <2>1. After(r, b, x, v) \in States(b)
    BY <1>1, AfterType
  <2>2. Does(r, b, op, y, v, After(r, b, x, v))
    BY <1>1, Effect
  <2> QED BY <2>1, <2>2
<1> QED BY <1>2

LEMMA LeadsEachBut ==
  ASSUME NEW r \in Runs, NEW b \in Beds, NEW op, NEW X, NEW xs \in Seq(X), NEW those, NEW I,
         \A y \in X : [op |-> op, on |-> y] \in StepsOf(b),
         \A i \in 0..Len(xs) : I[i] \subseteq States(b),
         \A i \in 1..Len(xs) : xs[i] \in those => I[i-1] \subseteq I[i],
         \A i \in 1..Len(xs) : xs[i] \notin those =>
           \A v \in I[i-1] : \A w \in States(b) : Does(r, b, op, xs[i], v, w) => w \in I[i]
  PROVE  Leads(r, b, I[0], EachBut(op, xs, those), I[Len(xs)])
<1> DEFINE one(i) == When(xs[i] \notin those, S(op, xs[i]))
           s == [i \in 1..Len(xs) |-> one(i)]
<1>1. \A i \in 1..Len(xs) : one(i) \in Seq(StepsOf(b)) /\ Leads(r, b, I[i-1], one(i), I[i])
  <2> TAKE i \in 1..Len(xs)
  <2>1. xs[i] \in X /\ i-1 \in 0..Len(xs)
    OBVIOUS
  <2>2. xs[i] \notin those => Leads(r, b, I[i-1], S(op, xs[i]), I[i])
    BY <2>1, LeadsOp
  <2>3. one(i) \in Seq(StepsOf(b))
    BY <2>1, OneStays, WhenStays
  <2>4. Leads(r, b, I[i-1], one(i), I[i])
    BY <2>1, <2>2, LeadsWhen
  <2> QED BY <2>3, <2>4
<1>2. EachBut(op, xs, those) = FlattenSeq(s)
  BY DEF EachBut
<1> HIDE DEF one
<1>3. s \in Seq(Seq(StepsOf(b))) /\ Len(s) = Len(xs) /\ \A i \in 1..Len(xs) : s[i] = one(i)
  BY <1>1
<1> HIDE DEF s
<1>4. \A i \in 1..Len(s) : Leads(r, b, I[i-1], s[i], I[i])
  BY <1>1, <1>3
<1>5. Leads(r, b, I[0], FlattenSeq(s), I[Len(s)])
  BY <1>3, <1>4, LeadsFlatten
<1> QED BY <1>2, <1>3, <1>5

\* A step that builds or checks leaves everything as it is.
LEMMA QuietAfter ==
  ASSUME NEW r \in Runs, NEW b \in Beds, NEW v \in States(b), NEW w \in States(b), NEW y,
         NEW op \in {"image", "check box", "config", "start", "feature run"}, Does(r, b, op, y, v, w)
  PROVE  w = v
<1>1. /\ v.up \in [Own(b) -> Presence] /\ v.kids \in [ToSet(Children[b]) -> Presence]
      /\ w.up \in [Own(b) -> Presence] /\ w.kids \in [ToSet(Children[b]) -> Presence]
  BY DEF States
<1>8. /\ v = [up |-> v.up, kids |-> v.kids, rebuilt |-> v.rebuilt, whole |-> v.whole, again |-> v.again]
      /\ w = [up |-> w.up, kids |-> w.kids, rebuilt |-> w.rebuilt, whole |-> w.whole, again |-> w.again]
  BY DEF States
<1>9. /\ v.rebuilt \in BOOLEAN /\ v.whole \in BOOLEAN /\ v.again \in BOOLEAN
      /\ w.rebuilt \in BOOLEAN /\ w.whole \in BOOLEAN /\ w.again \in BOOLEAN
  BY DEF States
<1>2. \A t \in Own(b) : w.up[t] = v.up[t]
  BY DEF Does
<1>3. w.up = v.up
  <2>1. PICK f \in [Own(b) -> Presence], g \in [Own(b) -> Presence] : f = w.up /\ g = v.up
    BY <1>1
  <2>4. f = [t \in Own(b) |-> f[t]] /\ g = [t \in Own(b) |-> g[t]]
    OBVIOUS
  <2>2. \A t \in Own(b) : f[t] = g[t]
    BY <2>1, <1>2
  <2>3. f = g
    BY <2>2, <2>4, Zenon
  <2> QED BY <2>1, <2>3
<1>4. \A k \in ToSet(Children[b]) : w.kids[k] = v.kids[k]
  BY DEF Does
<1>5. w.kids = v.kids
  <2>1. PICK f \in [ToSet(Children[b]) -> Presence], g \in [ToSet(Children[b]) -> Presence] :
          f = w.kids /\ g = v.kids
    BY <1>1
  <2>4. f = [k \in ToSet(Children[b]) |-> f[k]] /\ g = [k \in ToSet(Children[b]) |-> g[k]]
    OBVIOUS
  <2>2. \A k \in ToSet(Children[b]) : f[k] = g[k]
    BY <2>1, <1>4
  <2>3. f = g
    BY <2>2, <2>4, Zenon
  <2> QED BY <2>1, <2>3
<1>6. op # "rebuild" /\ op # "check live"
  OBVIOUS
<1>7. w.rebuilt = v.rebuilt /\ w.whole = v.whole /\ w.again = v.again
  BY <1>9, <1>6 DEF Does
<1> QED BY <1>8, <1>3, <1>5, <1>7, Zenon

LEMMA QuietLeads ==
  ASSUME NEW r \in Runs, NEW b \in Beds, NEW P \in SUBSET States(b), NEW y,
         NEW op \in {"image", "check box", "config", "start", "feature run"},
         [op |-> op, on |-> y] \in StepsOf(b)
  PROVE  Leads(r, b, P, S(op, y), P)
<1>1. \A v \in P : \A w \in States(b) : Does(r, b, op, y, v, w) => w = v
  BY QuietAfter
<1> QED BY <1>1, LeadsOp

LEMMA BuildLeads ==
  ASSUME NEW r \in Runs, NEW b \in Beds, NEW P \in SUBSET States(b), NEW level
  PROVE  Leads(r, b, P, Build(b, level), P)
<1> DEFINE image(t) == S("image", t)
                       \o When(CheckLevelReaches(level, "build") /\ t \notin Vms, S("check box", t))
<1>1. \A t \in Own(b) : image(t) \in Seq(StepsOf(b)) /\ Leads(r, b, P, image(t), P)
  <2> TAKE t \in Own(b)
  <2>1. \A op \in {"image", "check box"} : [op |-> op, on |-> t] \in StepsOf(b)
    BY DEF StepsOf, OnTargets
  <2>2. S("image", t) \in Seq(StepsOf(b)) /\ S("check box", t) \in Seq(StepsOf(b))
    BY <2>1, OneStays
  <2>3. Leads(r, b, P, S("image", t), P) /\ Leads(r, b, P, S("check box", t), P)
    BY <2>1, QuietLeads
  <2> DEFINE c == CheckLevelReaches(level, "build") /\ t \notin Vms
  <2>4. c \in BOOLEAN
    BY DEF CheckLevelReaches
  <2> HIDE DEF c
  <2>5. When(c, S("check box", t)) \in Seq(StepsOf(b)) /\ Leads(r, b, P, When(c, S("check box", t)), P)
    BY <2>2, <2>3, <2>4, WhenStays, LeadsWhen
  <2>6. /\ S("image", t) \o When(c, S("check box", t)) \in Seq(StepsOf(b))
        /\ Leads(r, b, P, S("image", t) \o When(c, S("check box", t)), P)
    BY <2>2, <2>3, <2>5, ConcatStays, LeadsThen
  <2> QED BY <2>6 DEF c
<1> HIDE DEF image
<1> DEFINE one == When(Kind[b] = "pod", image(Root[b]))
           parts == [i \in 1..Len(Members[b]) |-> image(Members[b][i])]
           all == When(Kind[b] = "group", FlattenSeq(parts))
<1>2. one \in Seq(StepsOf(b)) /\ Leads(r, b, P, one, P)
  BY <1>1, OwnTargets, WhenStays, LeadsWhen
<1>3. parts \in Seq(Seq(StepsOf(b))) /\ Len(parts) = Len(Members[b])
      /\ \A i \in 1..Len(parts) : Leads(r, b, P, parts[i], P)
  BY <1>1, OwnTargets
<1> HIDE DEF parts
<1>4. FlattenSeq(parts) \in Seq(StepsOf(b)) /\ Leads(r, b, P, FlattenSeq(parts), P)
  <2> DEFINE I == [i \in Nat |-> P]
  <2>1. \A i \in 1..Len(parts) : Leads(r, b, I[i-1], parts[i], I[i])
    BY <1>3
  <2>2. I[0] = P /\ I[Len(parts)] = P
    BY <1>3
  <2> HIDE DEF I
  <2>3. Leads(r, b, I[0], FlattenSeq(parts), I[Len(parts)])
    BY <1>3, <2>1, LeadsFlatten
  <2> QED BY <1>3, <2>2, <2>3, FlattenStays
<1>5. all \in Seq(StepsOf(b)) /\ Leads(r, b, P, all, P)
  BY <1>4, WhenStays, LeadsWhen
<1>6. Build(b, level) = one \o all
  BY DEF Build, one, all, parts, image
<1> HIDE DEF one, all
<1> QED BY <1>2, <1>5, <1>6, LeadsThen

\* Clearing the members, from states that it does not leave.
LEMMA ClearsLead ==
  ASSUME NEW r \in Runs, NEW b \in Beds, NEW P \in SUBSET States(b),
         \A v \in P : \A w \in States(b) : \A m \in ToSet(Members[b]) : Does(r, b, "clear", m, v, w) => w \in P
  PROVE  Leads(r, b, P, Each("clear", Members[b]), {v \in P : \A m \in ToSet(Members[b]) : v.up[m] = Down})
<1> DEFINE xs == Members[b]
           I == [i \in 0..Len(xs) |-> {v \in P : \A j \in 1..i : v.up[xs[j]] = Down}]
<1>1. xs \in Seq(ToSet(xs)) /\ Len(xs) \in Nat /\ \A i \in 1..Len(xs) : xs[i] \in ToSet(xs) /\ xs[i] \in Own(b)
  <2>1. xs \in Seq(Own(b))
    BY OwnTargets
  <2> QED BY <2>1, Listed
<1>2. \A m \in ToSet(xs) : [op |-> "clear", on |-> m] \in StepsOf(b)
  BY Listed DEF StepsOf, OnTargets
<1>3. \A m \in ToSet(xs) : \E i \in 1..Len(xs) : m = xs[i]
  BY Listed
<1>4. ASSUME NEW i \in 1..Len(xs), NEW v \in I[i-1], NEW w \in States(b), Does(r, b, "clear", xs[i], v, w)
      PROVE  w \in I[i]
  <2>1. v \in P /\ \A j \in 1..(i-1) : v.up[xs[j]] = Down
    BY <1>1
  <2>2. w \in P
    BY <1>1, <1>4, <2>1
  <2>3. \A t \in Own(b) : w.up[t] = IF t = xs[i] THEN Down ELSE v.up[t]
    BY <1>4 DEF Does
  <2>4. ASSUME NEW j \in 1..i PROVE w.up[xs[j]] = Down
    <3>1. xs[j] \in Own(b) /\ (j = i \/ j \in 1..(i-1))
      BY <1>1
    <3> QED BY <2>1, <2>3, <3>1
  <2> QED BY <2>2, <2>4, <1>1
<1>5. \A i \in 0..Len(xs) : I[i] \subseteq States(b)
  OBVIOUS
<1>6. I[0] = P
  BY <1>1
<1>7. I[Len(xs)] = {v \in P : \A m \in ToSet(xs) : v.up[m] = Down}
  <2>1. I[Len(xs)] = {v \in P : \A j \in 1..Len(xs) : v.up[xs[j]] = Down}
    BY <1>1
  <2>2. \A v \in P : (\A j \in 1..Len(xs) : v.up[xs[j]] = Down) <=> \A m \in ToSet(xs) : v.up[m] = Down
    BY <1>1, <1>3, ZenonT(60)
  <2> HIDE DEF I
  <2> QED BY <2>1, <2>2
<1> HIDE DEF I, xs
<1>8. Leads(r, b, I[0], EachBut("clear", xs, {}), I[Len(xs)])
  BY <1>1, <1>2, <1>4, <1>5, LeadsEachBut
<1> QED BY <1>6, <1>7, <1>8 DEF Each, xs

\* Deploying the nested deployments one by one, from states with all of the others there.
LEMMA NestedLeads ==
  ASSUME NEW r \in Runs, NEW b \in Beds, NEW P \in SUBSET States(b), NEW fresh \in BOOLEAN,
         \A v \in P : v.rebuilt = fresh,
         \A v \in P : \A k \in ToSet(Children[b]) \cap InGuest : Kind[b] # "pod" => v.kids[k] = Made(r, fresh),
         \A v \in P : \A w \in States(b) : \A k \in ToSet(Children[b]) : Does(r, b, "child", k, v, w) =>
           \/ w \in P
           \/ k \in InGuest /\ Kind[b] # "pod"
  PROVE  Leads(r, b, P, Nested(b), {v \in P : KidsAre(r, b, v, fresh)})
<1> DEFINE xs == Children[b]
           those == IF Kind[b] = "pod" THEN {} ELSE InGuest
           I == [i \in 0..Len(xs) |-> {v \in P : \A j \in 1..i : v.kids[xs[j]] = Made(r, fresh)}]
<1>1. xs \in Seq(ToSet(xs)) /\ Len(xs) \in Nat /\ \A i \in 1..Len(xs) : xs[i] \in ToSet(xs)
  BY OwnTargets, Listed
<1>2. \A k \in ToSet(xs) : [op |-> "child", on |-> k] \in StepsOf(b)
  BY DEF StepsOf
<1>3. \A m \in ToSet(xs) : \E i \in 1..Len(xs) : m = xs[i]
  BY Listed
<1>4. ASSUME NEW i \in 1..Len(xs), xs[i] \notin those,
             NEW v \in I[i-1], NEW w \in States(b), Does(r, b, "child", xs[i], v, w)
      PROVE  w \in I[i]
  <2>1. v \in P /\ v.rebuilt = fresh /\ \A j \in 1..(i-1) : v.kids[xs[j]] = Made(r, fresh)
    BY <1>1
  <2>2. w \in P
    BY <1>1, <1>4, <2>1
  <2>3. \A k \in ToSet(xs) : w.kids[k] = IF k = xs[i] THEN Made(r, fresh) ELSE v.kids[k]
    BY <1>4, <2>1 DEF Does
  <2>4. ASSUME NEW j \in 1..i PROVE w.kids[xs[j]] = Made(r, fresh)
    <3>1. xs[j] \in ToSet(xs) /\ (j = i \/ j \in 1..(i-1))
      BY <1>1
    <3> QED BY <2>1, <2>3, <3>1
  <2> QED BY <2>2, <2>4, <1>1
<1>9. ASSUME NEW i \in 1..Len(xs), xs[i] \in those
      PROVE  I[i-1] \subseteq I[i]
  <2> SUFFICES ASSUME NEW v \in I[i-1] PROVE v \in I[i]
    OBVIOUS
  <2>1. v \in P /\ \A j \in 1..(i-1) : v.kids[xs[j]] = Made(r, fresh)
    BY <1>1
  <2>2. v.kids[xs[i]] = Made(r, fresh)
    BY <1>1, <1>9, <2>1
  <2>3. ASSUME NEW j \in 1..i PROVE v.kids[xs[j]] = Made(r, fresh)
    <3>1. j = i \/ j \in 1..(i-1)
      BY <1>1
    <3> QED BY <2>1, <2>2, <3>1
  <2> QED BY <2>1, <2>3, <1>1
<1>5. \A i \in 0..Len(xs) : I[i] \subseteq States(b)
  OBVIOUS
<1>6. I[0] = P
  BY <1>1
<1>7. I[Len(xs)] = {v \in P : KidsAre(r, b, v, fresh)}
  <2>1. I[Len(xs)] = {v \in P : \A j \in 1..Len(xs) : v.kids[xs[j]] = Made(r, fresh)}
    BY <1>1
  <2>2. ASSUME NEW v \in P
        PROVE  (\A j \in 1..Len(xs) : v.kids[xs[j]] = Made(r, fresh)) <=> KidsAre(r, b, v, fresh)
    <3>1. xs = Children[b]
      OBVIOUS
    <3>2. KidsAre(r, b, v, fresh) <=> \A k \in ToSet(xs) : v.kids[k] = Made(r, fresh)
      BY <3>1 DEF KidsAre
    <3> HIDE DEF xs
    <3>3. ASSUME \A j \in 1..Len(xs) : v.kids[xs[j]] = Made(r, fresh), NEW k \in ToSet(xs)
          PROVE  v.kids[k] = Made(r, fresh)
      <4>1. PICK j \in 1..Len(xs) : k = xs[j]
        BY <1>3
      <4> QED BY <3>3, <4>1
    <3>4. ASSUME \A k \in ToSet(xs) : v.kids[k] = Made(r, fresh), NEW j \in 1..Len(xs)
          PROVE  v.kids[xs[j]] = Made(r, fresh)
      BY <1>1, <3>4
    <3> QED BY <3>2, <3>3, <3>4
  <2> HIDE DEF I
  <2> QED BY <2>1, <2>2
<1> HIDE DEF I, xs, those
<1>8. Leads(r, b, I[0], EachBut("child", xs, those), I[Len(xs)])
  BY <1>1, <1>2, <1>4, <1>5, <1>9, LeadsEachBut
<1> QED BY <1>6, <1>7, <1>8 DEF Nested, xs, those

\* Steps with one of these operations on a member do not leave P.
PeerOps == {"clear", "peer create", "peer"}

Keep(r, b, P, ops) ==
  \A v \in P : \A w \in States(b) : \A m \in ToSet(Members[b]) : \A op \in ops :
    Does(r, b, op, m, v, w) => w \in P

\* The members in X are up, and the others that are no domain are down, or up as well.
UpTo(r, b, P, fresh, X) ==
  {v \in P : /\ \A m \in ToSet(Members[b]) \ Vms : v.up[m] \in {Down, Made(r, fresh)}
             /\ \A m \in X : v.up[m] = Made(r, fresh)}

BringsUp(t) == IF t \in Vms THEN S("clear", t) \o S("peer create", t) \o S("peer", t) ELSE S("peer", t)

LEMMA BringsUpStays ==
  ASSUME NEW b \in Beds, NEW t \in ToSet(Members[b])
  PROVE  /\ BringsUp(t) \in Seq(StepsOf(b))
         /\ S("clear", t) \in Seq(StepsOf(b))
         /\ S("peer create", t) \in Seq(StepsOf(b))
         /\ S("peer", t) \in Seq(StepsOf(b))
         /\ \A op \in {"clear", "peer create", "peer"} : [op |-> op, on |-> t] \in StepsOf(b)
<1>1. \A op \in {"clear", "peer create", "peer"} : [op |-> op, on |-> t] \in StepsOf(b)
  BY Listed DEF StepsOf, OnTargets
<1>2. S("clear", t) \in Seq(StepsOf(b)) /\ S("peer create", t) \in Seq(StepsOf(b)) /\ S("peer", t) \in Seq(StepsOf(b))
  BY <1>1, OneStays
<1> QED BY <1>1, <1>2, ConcatStays DEF BringsUp

LEMMA OneUp ==
  ASSUME NEW r \in Runs, NEW b \in Beds, NEW P \in SUBSET States(b), NEW fresh \in BOOLEAN,
         \A v \in P : v.rebuilt = fresh,
         Keep(r, b, P, PeerOps),
         NEW t \in ToSet(Members[b]), NEW X \in SUBSET ToSet(Members[b])
  PROVE  Leads(r, b, UpTo(r, b, P, fresh, X), BringsUp(t), UpTo(r, b, P, fresh, X \cup {t}))
<1> DEFINE A == {v \in UpTo(r, b, P, fresh, X \ {t}) : v.up[t] = Down}
           B == UpTo(r, b, P, fresh, X)
           C == UpTo(r, b, P, fresh, X \cup {t})
<1>1. \A m \in ToSet(Members[b]) : m \in Own(b)
  BY Listed
<1>2. Down # Made(r, fresh)
  BY CheckBedAssumption DEF Down, Made
<1>3. A \in SUBSET States(b) /\ B \in SUBSET States(b) /\ C \in SUBSET States(b)
  BY DEF UpTo
<1>4. \A op \in {"clear", "peer create", "peer"} : \A v \in P : \A w \in States(b) : Does(r, b, op, t, v, w) => w \in P
  BY DEF Keep, PeerOps
<1>5. ASSUME t \in Vms, NEW v \in B, NEW w \in States(b), Does(r, b, "clear", t, v, w)
      PROVE  w \in A
  <2>1. v \in P /\ w \in P
    BY <1>4, <1>5 DEF UpTo
  <2>2. \A u \in Own(b) : w.up[u] = IF u = t THEN Down ELSE v.up[u]
    BY <1>5 DEF Does
  <2>3. \A m \in ToSet(Members[b]) \ Vms : v.up[m] \in {Down, Made(r, fresh)}
    BY <1>5 DEF UpTo
  <2>4. \A m \in X : v.up[m] = Made(r, fresh)
    BY <1>5 DEF UpTo
  <2>5. \A m \in ToSet(Members[b]) \ Vms : w.up[m] \in {Down, Made(r, fresh)}
    BY <1>1, <2>2, <2>3
  <2>6. \A m \in X \ {t} : w.up[m] = Made(r, fresh)
    BY <1>1, <2>2, <2>4
  <2>7. w.up[t] = Down
    BY <1>1, <2>2
  <2> QED BY <2>1, <2>5, <2>6, <2>7 DEF UpTo
<1>6. ASSUME t \in Vms, NEW v \in A, NEW w \in States(b), Does(r, b, "peer create", t, v, w)
      PROVE  w \in C
  <2>1. v \in P /\ w \in P /\ v.rebuilt = fresh
    BY <1>4, <1>6 DEF UpTo
  <2>2. \A u \in Own(b) : w.up[u] = IF u = t THEN Made(r, fresh) ELSE v.up[u]
    BY <1>6, <2>1 DEF Does
  <2>3. \A m \in ToSet(Members[b]) \ Vms : v.up[m] \in {Down, Made(r, fresh)}
    BY <1>6 DEF UpTo
  <2>4. \A m \in X \ {t} : v.up[m] = Made(r, fresh)
    BY <1>6 DEF UpTo
  <2>5. \A m \in ToSet(Members[b]) \ Vms : w.up[m] \in {Down, Made(r, fresh)}
    BY <1>1, <2>2, <2>3
  <2>6. \A m \in X \cup {t} : w.up[m] = Made(r, fresh)
    BY <1>1, <2>2, <2>4
  <2> QED BY <2>1, <2>5, <2>6 DEF UpTo
<1>7. ASSUME t \in Vms, NEW v \in C, NEW w \in States(b), Does(r, b, "peer", t, v, w)
      PROVE  w \in C
  <2>1. v \in P /\ w \in P
    BY <1>4, <1>7 DEF UpTo
  <2>3. \A m \in ToSet(Members[b]) \ Vms : v.up[m] \in {Down, Made(r, fresh)}
    BY <1>7 DEF UpTo
  <2>4. \A m \in X \cup {t} : v.up[m] = Made(r, fresh)
    BY <1>7 DEF UpTo
  <2>2. \A u \in Own(b) : w.up[u] = v.up[u]
    BY <1>2, <1>7, <2>4 DEF Does
  <2>5. \A m \in ToSet(Members[b]) \ Vms : w.up[m] \in {Down, Made(r, fresh)}
    BY <1>1, <2>2, <2>3
  <2>6. \A m \in X \cup {t} : w.up[m] = Made(r, fresh)
    BY <1>1, <2>2, <2>4
  <2> QED BY <2>1, <2>5, <2>6 DEF UpTo
<1>8. ASSUME t \notin Vms, NEW v \in B, NEW w \in States(b), Does(r, b, "peer", t, v, w)
      PROVE  w \in C
  <2>1. v \in P /\ w \in P /\ v.rebuilt = fresh
    BY <1>4, <1>8 DEF UpTo
  <2>3. \A m \in ToSet(Members[b]) \ Vms : v.up[m] \in {Down, Made(r, fresh)}
    BY <1>8 DEF UpTo
  <2>4. \A m \in X : v.up[m] = Made(r, fresh)
    BY <1>8 DEF UpTo
  <2>7. v.up[t] \in {Down, Made(r, fresh)}
    BY <1>8, <2>3
  <2>2. \A u \in Own(b) : w.up[u] = IF u = t THEN Made(r, fresh) ELSE v.up[u]
    BY <1>2, <1>8, <2>1, <2>7 DEF Does
  <2>5. \A m \in ToSet(Members[b]) \ Vms : w.up[m] \in {Down, Made(r, fresh)}
    BY <1>1, <2>2, <2>3
  <2>6. \A m \in X \cup {t} : w.up[m] = Made(r, fresh)
    BY <1>1, <2>2, <2>4
  <2> QED BY <2>1, <2>5, <2>6 DEF UpTo
<1>9. CASE t \in Vms
  <2> HIDE DEF A, B, C
  <2>1. Leads(r, b, B, S("clear", t), A)
    BY <1>3, <1>5, <1>9, BringsUpStays, LeadsOp
  <2>2. Leads(r, b, A, S("peer create", t), C)
    BY <1>3, <1>6, <1>9, BringsUpStays, LeadsOp
  <2>3. Leads(r, b, C, S("peer", t), C)
    BY <1>3, <1>7, <1>9, BringsUpStays, LeadsOp
  <2>4. /\ S("clear", t) \o S("peer create", t) \in Seq(StepsOf(b))
        /\ Leads(r, b, B, S("clear", t) \o S("peer create", t), C)
    BY <2>1, <2>2, BringsUpStays, ConcatStays, LeadsThen
  <2>5. Leads(r, b, B, S("clear", t) \o S("peer create", t) \o S("peer", t), C)
    BY <2>3, <2>4, BringsUpStays, LeadsThen
  <2> QED BY <1>9, <2>5 DEF BringsUp, B, C
<1>10. CASE t \notin Vms
  <2> HIDE DEF A, B, C
  <2>1. Leads(r, b, B, S("peer", t), C)
    BY <1>3, <1>8, <1>10, BringsUpStays, LeadsOp
  <2> QED BY <1>10, <2>1 DEF BringsUp, B, C
<1> QED BY <1>9, <1>10

\* bringUpMembers, from states in which every member that is no domain is down.
LEMMA PeersLead ==
  ASSUME NEW r \in Runs, NEW b \in Beds, NEW P \in SUBSET States(b), NEW fresh \in BOOLEAN,
         \A v \in P : v.rebuilt = fresh,
         Keep(r, b, P, PeerOps)
  PROVE  Leads(r, b, {v \in P : Fresh(b, v)}, Peers(b), {v \in P : PeersAre(r, b, v, fresh)})
<1> DEFINE first(i) == {Members[b][j] : j \in 1..i}
           I == [i \in 0..Len(Members[b]) |-> UpTo(r, b, P, fresh, first(i))]
           parts == [i \in 1..Len(Members[b]) |-> BringsUp(Members[b][i])]
<1>1. Len(Members[b]) \in Nat /\ \A i \in 1..Len(Members[b]) : Members[b][i] \in ToSet(Members[b])
  BY Listed
<1>2. \A i \in 0..Len(Members[b]) : first(i) \in SUBSET ToSet(Members[b])
  <2> HIDE DEF I, parts
  <2> QED BY <1>1
<1>3. \A i \in 1..Len(Members[b]) : first(i) = first(i-1) \cup {Members[b][i]}
  <2> HIDE DEF I, parts
  <2> TAKE i \in 1..Len(Members[b])
  <2>1. \A j \in 1..i : j = i \/ j \in 1..(i-1)
    BY <1>1
  <2>2. i \in 1..i /\ \A j \in 1..(i-1) : j \in 1..i
    BY <1>1
  <2> QED BY <2>1, <2>2
<1>4. first(0) = {}
  <2> HIDE DEF I, parts
  <2> QED OBVIOUS
<1>5. first(Len(Members[b])) = ToSet(Members[b])
  <2> HIDE DEF I, parts
  <2> QED BY <1>1, Listed, ZenonT(60)
<1> HIDE DEF first
<1>6. parts \in Seq(Seq(StepsOf(b))) /\ Len(parts) = Len(Members[b])
  <2> HIDE DEF I, parts
  <2>1. \A i \in 1..Len(Members[b]) : BringsUp(Members[b][i]) \in Seq(StepsOf(b))
    BY <1>1, BringsUpStays
  <2> QED BY <1>1, <2>1 DEF parts
<1>7. \A i \in 1..Len(Members[b]) : Leads(r, b, I[i-1], parts[i], I[i])
  <2> TAKE i \in 1..Len(Members[b])
  <2>1. i \in 0..Len(Members[b]) /\ i-1 \in 0..Len(Members[b])
    BY <1>1
  <2>2. parts[i] = BringsUp(Members[b][i])
    OBVIOUS
  <2>3. I[i-1] = UpTo(r, b, P, fresh, first(i-1)) /\ I[i] = UpTo(r, b, P, fresh, first(i-1) \cup {Members[b][i]})
    BY <1>3, <2>1
  <2> HIDE DEF I, parts
  <2> QED BY <1>1, <1>2, <2>1, <2>2, <2>3, OneUp
<1>8. I[0] = UpTo(r, b, P, fresh, {}) /\ I[Len(Members[b])] = UpTo(r, b, P, fresh, ToSet(Members[b]))
  BY <1>1, <1>4, <1>5, SMTT(30)
<1>9. Peers(b) = FlattenSeq(parts)
  BY DEF Peers, BringsUp
<1> HIDE DEF I, parts
<1>10. Leads(r, b, I[0], FlattenSeq(parts), I[Len(parts)])
  BY <1>6, <1>7, LeadsFlatten
<1>11. {v \in P : Fresh(b, v)} \subseteq I[0]
  BY <1>8 DEF UpTo, Fresh
<1>12. I[Len(parts)] \subseteq {v \in P : PeersAre(r, b, v, fresh)}
  BY <1>6, <1>8 DEF UpTo, PeersAre
<1> QED BY <1>9, <1>10, <1>11, <1>12, LeadsWeaker

\* What the deployment starts from and what it leads to, all of it of the first build.
Early(b) == {v \in States(b) : ~v.rebuilt}

Deployed(r, b) == {v \in Early(b) : RootIs(r, b, v, FALSE) /\ KidsAre(r, b, v, FALSE)}

LEMMA ClearsKeepRoot ==
  ASSUME Regular, NEW r \in Runs, NEW b \in Beds, NEW v \in States(b), NEW w \in States(b),
         NEW m \in ToSet(Members[b]), NEW op \in PeerOps, Does(r, b, op, m, v, w)
  PROVE  /\ Kind[b] # "group" => w.up[Root[b]] = v.up[Root[b]]
         /\ \A k \in ToSet(Children[b]) : w.kids[k] = v.kids[k]
         /\ w.rebuilt <=> v.rebuilt
         /\ w.whole <=> v.whole
         /\ w.again <=> v.again
<1>1. Root[b] # m
  BY DEF Regular
<1>2. Kind[b] # "group" => Root[b] \in Own(b)
  BY OwnTargets
<1>3. Kind[b] # "group" => w.up[Root[b]] = v.up[Root[b]]
  BY <1>1, <1>2 DEF Does
<1>4. \A k \in ToSet(Children[b]) : w.kids[k] = v.kids[k]
  BY <1>1 DEF Does, PeerOps
<1>5. op \in {"clear", "peer create", "peer"}
  BY DEF PeerOps
<1>6. (w.rebuilt <=> v.rebuilt) /\ (w.whole <=> v.whole) /\ (w.again <=> v.again)
  BY <1>5 DEF Does
<1> QED BY <1>3, <1>4, <1>6

\* The root is cleared, and then what is no part of it.
LEMMA RootCleared ==
  ASSUME NEW r \in Runs, NEW b \in Beds, Kind[b] # "group"
  PROVE  Leads(r, b, Early(b), S("clear", Root[b]), {v \in Early(b) : v.up[Root[b]] = Down})
<1>1. [op |-> "clear", on |-> Root[b]] \in StepsOf(b)
  BY OwnTargets DEF StepsOf, OnTargets
<1>2. Early(b) \in SUBSET States(b)
  BY DEF Early
<1>3. ASSUME NEW v \in Early(b), NEW w \in States(b), Does(r, b, "clear", Root[b], v, w)
      PROVE  w \in {u \in Early(b) : u.up[Root[b]] = Down}
  <2>1. v \in States(b) /\ ~v.rebuilt
    BY DEF Early
  <2>2. w.up[Root[b]] = Down
    BY <1>3, OwnTargets DEF Does
  <2>3. ~w.rebuilt
    BY <1>3, <2>1 DEF Does
  <2> QED BY <2>2, <2>3 DEF Early
<1> QED BY <1>1, <1>2, <1>3, LeadsOp

LEMMA Distinct ==
  ASSUME NEW r \in Runs, NEW fresh
  PROVE  Down # Made(r, fresh)
BY CheckBedAssumption DEF Down, Made

LEMMA DeployGroup ==
  ASSUME Regular, NEW r \in Runs, NEW b \in Beds, Kind[b] = "group"
  PROVE  Leads(r, b, Early(b), Deploy(b), {v \in Deployed(r, b) : Fresh(b, v)})
<1> DEFINE Q == {v \in Early(b) : \A m \in ToSet(Members[b]) : v.up[m] = Down}
<1>1. Early(b) \in SUBSET States(b)
  BY DEF Early
<1>2. ASSUME NEW v \in Early(b), NEW w \in States(b), NEW m \in ToSet(Members[b]), Does(r, b, "clear", m, v, w)
      PROVE  w \in Early(b)
  BY <1>2 DEF Early, Does
<1>3. Leads(r, b, Early(b), Each("clear", Members[b]), Q)
  BY <1>1, <1>2, ClearsLead
<1>4. ToSet(Children[b]) = {}
  <2>1. Children[b] = <<>>
    BY CheckBedAssumption
  <2> QED BY <2>1 DEF ToSet
<1>5. Q \subseteq {v \in Deployed(r, b) : Fresh(b, v)}
  BY <1>4 DEF Deployed, RootIs, KidsAre, Fresh
<1>6. Deploy(b) = Each("clear", Members[b])
  BY DEF Deploy
<1> QED BY <1>3, <1>5, <1>6, LeadsWeaker

\* The root of a deployment that is no domain, after its members and itself were cleared.
LEMMA DeployCleared ==
  ASSUME Regular, NEW r \in Runs, NEW b \in Beds, Kind[b] # "group"
  PROVE  LET s == S("clear", Root[b]) \o Each("clear", Members[b]) \o S("deploy", Root[b])
             Q == {v \in Early(b) : v.up[Root[b]] = Made(r, FALSE) /\ Fresh(b, v)}
         IN  s \in Seq(StepsOf(b)) /\ Leads(r, b, Early(b), s, Q)
<1> DEFINE P == {v \in Early(b) : v.up[Root[b]] = Down}
           R == {v \in P : \A m \in ToSet(Members[b]) : v.up[m] = Down}
           Q == {v \in Early(b) : v.up[Root[b]] = Made(r, FALSE) /\ Fresh(b, v)}
<1>1. /\ S("clear", Root[b]) \in Seq(StepsOf(b)) /\ Each("clear", Members[b]) \in Seq(StepsOf(b))
      /\ S("deploy", Root[b]) \in Seq(StepsOf(b))
  BY SingleSteps DEF OnTargets
<1>2. Leads(r, b, Early(b), S("clear", Root[b]), P)
  BY RootCleared
<1>3. P \in SUBSET States(b) /\ R \in SUBSET States(b)
  BY DEF Early
<1>4. ASSUME NEW v \in P, NEW w \in States(b), NEW m \in ToSet(Members[b]), Does(r, b, "clear", m, v, w)
      PROVE  w \in P
  <2>1. v \in States(b) /\ ~v.rebuilt /\ v.up[Root[b]] = Down
    BY DEF Early
  <2>2. w.up[Root[b]] = v.up[Root[b]] /\ (w.rebuilt <=> v.rebuilt)
    BY <1>4, <2>1, ClearsKeepRoot DEF PeerOps
  <2> QED BY <2>1, <2>2 DEF Early
<1>5. Leads(r, b, P, Each("clear", Members[b]), R)
  <2> HIDE DEF P
  <2> QED BY <1>3, <1>4, ClearsLead
<1>6. ASSUME NEW v \in R, NEW w \in States(b), Does(r, b, "deploy", Root[b], v, w)
      PROVE  w \in Q
  <2>1. v \in States(b) /\ ~v.rebuilt /\ v.up[Root[b]] = Down /\ \A m \in ToSet(Members[b]) : v.up[m] = Down
    BY DEF Early
  <2>2. w.up[Root[b]] = Made(r, v.rebuilt)
    BY <1>6, <2>1, OwnTargets DEF Does
  <2>3. v.rebuilt = FALSE
    BY <2>1 DEF States
  <2>4. \A m \in ToSet(Members[b]) : w.up[m] = Down
    <3>1. \A m \in ToSet(Members[b]) : m # Root[b] /\ m \in Own(b)
      BY Listed DEF Regular
    <3> QED BY <1>6, <2>1, <3>1 DEF Does
  <2>5. ~w.rebuilt
    BY <1>6, <2>1 DEF Does
  <2> QED BY <2>2, <2>3, <2>4, <2>5 DEF Early, Fresh
<1>7. [op |-> "deploy", on |-> Root[b]] \in StepsOf(b)
  BY OwnTargets DEF StepsOf, OnTargets
<1> HIDE DEF P, R, Q
<1>8. Leads(r, b, R, S("deploy", Root[b]), Q)
  BY <1>3, <1>6, <1>7, LeadsOp
<1>9. /\ S("clear", Root[b]) \o Each("clear", Members[b]) \in Seq(StepsOf(b))
      /\ Leads(r, b, Early(b), S("clear", Root[b]) \o Each("clear", Members[b]), R)
  BY <1>1, <1>2, <1>5, ConcatStays, LeadsThen
<1>10. /\ S("clear", Root[b]) \o Each("clear", Members[b]) \o S("deploy", Root[b]) \in Seq(StepsOf(b))
       /\ Leads(r, b, Early(b), S("clear", Root[b]) \o Each("clear", Members[b]) \o S("deploy", Root[b]), Q)
  BY <1>1, <1>8, <1>9, ConcatStays, LeadsThen
<1> QED BY <1>10 DEF Q

LEMMA DeployInplace ==
  ASSUME Regular, NEW r \in Runs, NEW b \in Beds, Kind[b] = "inplace"
  PROVE  Leads(r, b, Early(b), Deploy(b), {v \in Deployed(r, b) : Fresh(b, v)})
<1> DEFINE Q == {v \in Early(b) : v.up[Root[b]] = Made(r, FALSE) /\ Fresh(b, v)}
<1>1. Leads(r, b, Early(b), S("clear", Root[b]) \o Each("clear", Members[b]) \o S("deploy", Root[b]), Q)
  BY DeployCleared
<1>2. ToSet(Children[b]) = {}
  <2>1. Children[b] = <<>>
    BY CheckBedAssumption
  <2> QED BY <2>1 DEF ToSet
<1>3. Q \subseteq {v \in Deployed(r, b) : Fresh(b, v)}
  BY <1>2 DEF Deployed, RootIs, KidsAre
<1>4. Deploy(b) = S("clear", Root[b]) \o Each("clear", Members[b]) \o S("deploy", Root[b])
  BY DEF Deploy
<1> HIDE DEF Q
<1> QED BY <1>1, <1>3, <1>4, LeadsWeaker

LEMMA DeployPod ==
  ASSUME Regular, NEW r \in Runs, NEW b \in Beds, Kind[b] = "pod"
  PROVE  Leads(r, b, Early(b), Deploy(b), {v \in Deployed(r, b) : Fresh(b, v)})
<1> DEFINE Q == {v \in Early(b) : v.up[Root[b]] = Made(r, FALSE) /\ Fresh(b, v)}
           s == S("clear", Root[b]) \o Each("clear", Members[b]) \o S("deploy", Root[b])
           D == {v \in Q : KidsAre(r, b, v, FALSE)}
<1>1. s \in Seq(StepsOf(b)) /\ Leads(r, b, Early(b), s, Q)
  BY DeployCleared
<1>2. Q \in SUBSET States(b)
  BY DEF Early
<1>3. S("config", Root[b]) \in Seq(StepsOf(b)) /\ S("start", Root[b]) \in Seq(StepsOf(b)) /\ Nested(b) \in Seq(StepsOf(b))
  BY SingleSteps DEF OnTargets
<1>4. [op |-> "config", on |-> Root[b]] \in StepsOf(b) /\ [op |-> "start", on |-> Root[b]] \in StepsOf(b)
  BY OwnTargets DEF StepsOf, OnTargets
<1>5. \A v \in Q : v.rebuilt = FALSE
  BY DEF Early, States
<1>6. ASSUME NEW v \in Q, NEW w \in States(b), NEW k \in ToSet(Children[b]), Does(r, b, "child", k, v, w)
      PROVE  w \in Q
  <2>1. \A t \in Own(b) : w.up[t] = v.up[t]
    BY <1>6 DEF Does
  <2>2. ~w.rebuilt
    BY <1>5, <1>6 DEF Does
  <2>3. Root[b] \in Own(b) /\ \A m \in ToSet(Members[b]) : m \in Own(b)
    BY OwnTargets, Listed
  <2> QED BY <2>1, <2>2, <2>3 DEF Early, Fresh
<1>7. Deploy(b) = s \o S("config", Root[b]) \o S("start", Root[b]) \o Nested(b)
  BY DEF Deploy
<1>8. D \subseteq {v \in Deployed(r, b) : Fresh(b, v)}
  BY DEF Deployed, RootIs
<1>12. D = {v \in Q : KidsAre(r, b, v, FALSE)}
  OBVIOUS
<1> HIDE DEF Q, s, D
<1>9. Leads(r, b, Q, S("config", Root[b]), Q) /\ Leads(r, b, Q, S("start", Root[b]), Q)
  BY <1>2, <1>4, QuietLeads
<1>10. Leads(r, b, Q, Nested(b), D)
  BY <1>2, <1>5, <1>6, <1>12, NestedLeads
<1>11. /\ s \o S("config", Root[b]) \in Seq(StepsOf(b))
       /\ Leads(r, b, Early(b), s \o S("config", Root[b]), Q)
  BY <1>1, <1>3, <1>9, ConcatStays, LeadsThen
<1>13. /\ s \o S("config", Root[b]) \o S("start", Root[b]) \in Seq(StepsOf(b))
       /\ Leads(r, b, Early(b), s \o S("config", Root[b]) \o S("start", Root[b]), Q)
  BY <1>3, <1>9, <1>11, ConcatStays, LeadsThen
<1>14. Leads(r, b, Early(b), s \o S("config", Root[b]) \o S("start", Root[b]) \o Nested(b), D)
  BY <1>3, <1>10, <1>13, LeadsThen
<1> QED BY <1>7, <1>8, <1>14, LeadsWeaker

LEMMA DeployVm ==
  ASSUME Regular, NEW r \in Runs, NEW b \in Beds, Kind[b] = "vm"
  PROVE  Leads(r, b, Early(b), Deploy(b), {v \in Deployed(r, b) : Fresh(b, v)})
<1> DEFINE P == {v \in Early(b) : v.up[Root[b]] = Down}
           Q == {v \in Early(b) : v.up[Root[b]] = Made(r, FALSE)}
           R == {v \in Q : \A k \in ToSet(Children[b]) : k \in InGuest => v.kids[k] = Made(r, FALSE)}
           D == {v \in R : KidsAre(r, b, v, FALSE)}
<1>0. Root[b] \in Vms /\ ToSet(Members[b]) \subseteq Vms /\ Root[b] \in Own(b)
  BY OwnTargets DEF Regular
<1>1. /\ S("clear", Root[b]) \in Seq(StepsOf(b)) /\ S("image", Root[b]) \in Seq(StepsOf(b))
      /\ S("create", Root[b]) \in Seq(StepsOf(b)) /\ S("deploy", Root[b]) \in Seq(StepsOf(b))
      /\ Nested(b) \in Seq(StepsOf(b))
  BY SingleSteps DEF OnTargets
<1>2. \A op \in {"image", "create", "deploy"} : [op |-> op, on |-> Root[b]] \in StepsOf(b)
  BY OwnTargets DEF StepsOf, OnTargets
<1>3. P \in SUBSET States(b) /\ Q \in SUBSET States(b) /\ R \in SUBSET States(b)
  BY DEF Early
<1>4. \A v \in P \cup Q \cup R : v.rebuilt = FALSE
  BY DEF Early, States
<1>5. Leads(r, b, Early(b), S("clear", Root[b]), P)
  BY RootCleared
<1>6. Leads(r, b, P, S("image", Root[b]), P)
  <2> HIDE DEF P
  <2> QED BY <1>2, <1>3, QuietLeads
<1>7. ASSUME NEW v \in P, NEW w \in States(b), Does(r, b, "create", Root[b], v, w)
      PROVE  w \in Q
  <2>1. w.up[Root[b]] = Made(r, FALSE)
    BY <1>0, <1>4, <1>7 DEF Does
  <2>2. ~w.rebuilt
    BY <1>4, <1>7 DEF Does
  <2> QED BY <2>1, <2>2 DEF Early
<1>8. ASSUME NEW v \in Q, NEW w \in States(b), Does(r, b, "deploy", Root[b], v, w)
      PROVE  w \in R
  <2>1. v.up[Root[b]] = Made(r, FALSE) /\ v.rebuilt = FALSE
    BY <1>4
  <2>2. w.up[Root[b]] = Made(r, FALSE)
    BY <1>0, <1>8, <2>1, Distinct, ZenonT(60) DEF Does
  <2>3. ~w.rebuilt
    BY <1>8, <2>1 DEF Does
  <2>4. \A k \in ToSet(Children[b]) : k \in InGuest => w.kids[k] = Made(r, FALSE)
    BY <1>8, <2>1 DEF Does
  <2> QED BY <2>2, <2>3, <2>4 DEF Early
<1>9. ASSUME NEW v \in R, NEW w \in States(b), NEW k \in ToSet(Children[b]), Does(r, b, "child", k, v, w)
      PROVE  w \in R
  <2>1. v.up[Root[b]] = Made(r, FALSE) /\ v.rebuilt = FALSE
    BY <1>4
  <2>2. w.up[Root[b]] = Made(r, FALSE)
    BY <1>0, <1>9, <2>1 DEF Does
  <2>3. ~w.rebuilt
    BY <1>9, <2>1 DEF Does
  <2>4. \A j \in ToSet(Children[b]) : j \in InGuest => w.kids[j] = Made(r, FALSE)
    BY <1>9, <2>1 DEF Does
  <2> QED BY <2>2, <2>3, <2>4 DEF Early
<1>10. \A v \in R : \A k \in ToSet(Children[b]) \cap InGuest : Kind[b] # "pod" => v.kids[k] = Made(r, FALSE)
  OBVIOUS
<1>11. D \subseteq {v \in Deployed(r, b) : Fresh(b, v)}
  BY <1>0 DEF Deployed, RootIs, Fresh
<1>12. Deploy(b) = S("clear", Root[b]) \o S("image", Root[b]) \o S("create", Root[b])
                   \o S("deploy", Root[b]) \o Nested(b)
  BY DEF Deploy
<1>13. D = {v \in R : KidsAre(r, b, v, FALSE)}
  OBVIOUS
<1> HIDE DEF P, Q, R, D
<1>14. Leads(r, b, P, S("create", Root[b]), Q)
  BY <1>2, <1>3, <1>7, LeadsOp
<1>15. Leads(r, b, Q, S("deploy", Root[b]), R)
  BY <1>2, <1>3, <1>8, LeadsOp
<1>16. Leads(r, b, R, Nested(b), D)
  BY <1>3, <1>4, <1>9, <1>10, <1>13, NestedLeads
<1>17. /\ S("clear", Root[b]) \o S("image", Root[b]) \in Seq(StepsOf(b))
       /\ Leads(r, b, Early(b), S("clear", Root[b]) \o S("image", Root[b]), P)
  BY <1>1, <1>5, <1>6, ConcatStays, LeadsThen
<1>18. /\ S("clear", Root[b]) \o S("image", Root[b]) \o S("create", Root[b]) \in Seq(StepsOf(b))
       /\ Leads(r, b, Early(b), S("clear", Root[b]) \o S("image", Root[b]) \o S("create", Root[b]), Q)
  BY <1>1, <1>14, <1>17, ConcatStays, LeadsThen
<1>19. /\ S("clear", Root[b]) \o S("image", Root[b]) \o S("create", Root[b]) \o S("deploy", Root[b])
            \in Seq(StepsOf(b))
       /\ Leads(r, b, Early(b),
                S("clear", Root[b]) \o S("image", Root[b]) \o S("create", Root[b]) \o S("deploy", Root[b]), R)
  BY <1>1, <1>15, <1>18, ConcatStays, LeadsThen
<1>20. Leads(r, b, Early(b), S("clear", Root[b]) \o S("image", Root[b]) \o S("create", Root[b])
                   \o S("deploy", Root[b]) \o Nested(b), D)
  BY <1>1, <1>16, <1>19, LeadsThen
<1> QED BY <1>11, <1>12, <1>20, LeadsWeaker

LEMMA DeployLeads ==
  ASSUME Regular, NEW r \in Runs, NEW b \in Beds
  PROVE  Leads(r, b, Early(b), Deploy(b), {v \in Deployed(r, b) : Fresh(b, v)})
<1>1. Kind[b] \in Kinds
  BY CheckBedAssumption
<1> QED BY <1>1, DeployGroup, DeployInplace, DeployPod, DeployVm DEF Kinds

\* The bed is all there, and the last check has seen it so.
Checked(r, b, fresh) ==
  {v \in States(b) : /\ v.rebuilt = fresh
                     /\ AllThere(r, b, v)
                     /\ v.whole
                     /\ v.again = fresh}

\* What a run with runtime acceptance has to show of what it has seen.
Goal(b, norebuild) ==
  {v \in States(b) : /\ v.whole
                     /\ ~norebuild /\ (Kind[b] = "group" \/ Children[b] # <<>>) => v.again}

LEMMA CheckLeads ==
  ASSUME NEW r \in Runs, NEW b \in Beds, NEW P \in SUBSET States(b), NEW fresh \in BOOLEAN,
         \A v \in P : v.rebuilt = fresh,
         \A v \in P : AllThere(r, b, v)
  PROVE  Leads(r, b, P, CheckLive(b), Checked(r, b, fresh))
<1>1. [op |-> "check live", on |-> b] \in StepsOf(b)
  BY DEF StepsOf
<1>2. ASSUME NEW v \in P, NEW w \in States(b), Does(r, b, "check live", b, v, w)
      PROVE  w \in Checked(r, b, fresh)
  <2>1. v.rebuilt = fresh /\ AllThere(r, b, v) /\ v.rebuilt \in BOOLEAN /\ w.rebuilt \in BOOLEAN /\ w.again \in BOOLEAN
    BY DEF States
  <2>2. (w.rebuilt <=> v.rebuilt) /\ (w.whole <=> AllThere(r, b, v)) /\ (w.again <=> v.rebuilt)
    BY <1>2 DEF Does
  <2>3. w.rebuilt = fresh /\ w.whole /\ w.again = fresh
    BY <2>1, <2>2
  <2>4. \A t \in Own(b) : w.up[t] = v.up[t]
    BY <1>2 DEF Does
  <2>5. \A k \in ToSet(Children[b]) : w.kids[k] = v.kids[k]
    BY <1>2 DEF Does
  <2>6. AllThere(r, b, w)
    <3>1. w.rebuilt = v.rebuilt
      BY <2>1, <2>3
    <3>2. RootIs(r, b, w, w.rebuilt)
      BY <2>1, <2>4, <3>1, OwnTargets DEF AllThere, RootIs
    <3>3. PeersAre(r, b, w, Kind[b] = "group" /\ w.rebuilt)
      BY <2>1, <2>4, <3>1, Listed DEF AllThere, PeersAre
    <3>4. KidsAre(r, b, w, Kind[b] = "pod" /\ w.rebuilt)
      BY <2>1, <2>5, <3>1 DEF AllThere, KidsAre
    <3> QED BY <3>2, <3>3, <3>4 DEF AllThere
  <2> QED BY <2>3, <2>6 DEF Checked
<1> QED BY <1>1, <1>2, LeadsOp DEF CheckLive

LEMMA FeatureLeads ==
  ASSUME NEW r \in Runs, NEW b \in Beds, NEW P \in SUBSET States(b)
  PROVE  Feature(b) \in Seq(StepsOf(b)) /\ Leads(r, b, P, Feature(b), P)
<1>1. [op |-> "feature run", on |-> b] \in StepsOf(b)
  BY DEF StepsOf
<1>2. S("feature run", b) \in Seq(StepsOf(b)) /\ Leads(r, b, P, S("feature run", b), P)
  BY <1>1, OneStays, QuietLeads
<1>3. (Kind[b] = "pod") \in BOOLEAN
  OBVIOUS
<1> QED BY <1>2, <1>3, WhenStays, LeadsWhen DEF Feature

\* The members and the check, when the root and its children are there already.
LEMMA LiveLeads ==
  ASSUME Regular, NEW r \in Runs, NEW b \in Beds, NEW P \in SUBSET States(b), NEW fresh \in BOOLEAN,
         fresh => Kind[b] = "group",
         \A v \in P : v.rebuilt = fresh,
         \A v \in P : RootIs(r, b, v, fresh),
         \A v \in P : KidsAre(r, b, v, FALSE),
         Keep(r, b, P, PeerOps)
  PROVE  /\ Peers(b) \o CheckLive(b) \in Seq(StepsOf(b))
         /\ Leads(r, b, {v \in P : Fresh(b, v)}, Peers(b) \o CheckLive(b), Checked(r, b, fresh))
<1> DEFINE Q == {v \in P : PeersAre(r, b, v, fresh)}
<1>1. Leads(r, b, {v \in P : Fresh(b, v)}, Peers(b), Q)
  BY PeersLead
<1>2. Q \in SUBSET States(b) /\ \A v \in Q : v.rebuilt = fresh
  OBVIOUS
<1>3. ASSUME NEW v \in Q PROVE AllThere(r, b, v)
  <2>1. v.rebuilt = fresh /\ RootIs(r, b, v, fresh) /\ KidsAre(r, b, v, FALSE) /\ PeersAre(r, b, v, fresh)
    OBVIOUS
  <2>2. RootIs(r, b, v, v.rebuilt)
    BY <2>1
  <2>3. PeersAre(r, b, v, Kind[b] = "group" /\ v.rebuilt)
    <3>1. CASE Kind[b] = "group"
      BY <2>1, <3>1 DEF PeersAre
    <3>2. CASE Kind[b] # "group"
      BY <2>1, <3>2 DEF PeersAre
    <3> QED BY <3>1, <3>2
  <2>4. KidsAre(r, b, v, Kind[b] = "pod" /\ v.rebuilt)
    BY <2>1 DEF KidsAre
  <2> QED BY <2>2, <2>3, <2>4 DEF AllThere
<1> HIDE DEF Q
<1>4. Leads(r, b, Q, CheckLive(b), Checked(r, b, fresh))
  BY <1>2, <1>3, CheckLeads
<1>5. Peers(b) \in Seq(StepsOf(b)) /\ CheckLive(b) \in Seq(StepsOf(b))
  BY PeersStay, SingleSteps DEF CheckLive
<1> QED BY <1>1, <1>4, <1>5, ConcatStays, LeadsThen

LEMMA DeployedKeep ==
  ASSUME Regular, NEW r \in Runs, NEW b \in Beds
  PROVE  Keep(r, b, Deployed(r, b), PeerOps)
<1> SUFFICES ASSUME NEW v \in Deployed(r, b), NEW w \in States(b), NEW m \in ToSet(Members[b]),
                    NEW op \in PeerOps, Does(r, b, op, m, v, w)
             PROVE  w \in Deployed(r, b)
  BY DEF Keep
<1>1. v \in States(b) /\ ~v.rebuilt /\ RootIs(r, b, v, FALSE) /\ KidsAre(r, b, v, FALSE)
  BY DEF Deployed, Early
<1>2. /\ Kind[b] # "group" => w.up[Root[b]] = v.up[Root[b]]
      /\ \A k \in ToSet(Children[b]) : w.kids[k] = v.kids[k]
      /\ w.rebuilt <=> v.rebuilt
  BY <1>1, ClearsKeepRoot
<1>3. RootIs(r, b, w, FALSE)
  BY <1>1, <1>2 DEF RootIs
<1>4. KidsAre(r, b, w, FALSE)
  BY <1>1, <1>2 DEF KidsAre
<1> QED BY <1>1, <1>2, <1>3, <1>4 DEF Deployed, Early

\* The deployment of what was built first, and its check.
LEMMA FirstLeads ==
  ASSUME Regular, NEW r \in Runs, NEW b \in Beds
  PROVE  /\ Peers(b) \o CheckLive(b) \in Seq(StepsOf(b))
         /\ Leads(r, b, {v \in Deployed(r, b) : Fresh(b, v)}, Peers(b) \o CheckLive(b), Checked(r, b, FALSE))
<1>1. Deployed(r, b) \in SUBSET States(b)
  BY DEF Deployed, Early
<1>2. \A v \in Deployed(r, b) : v.rebuilt = FALSE
  BY DEF Deployed, Early, States
<1>3. /\ \A v \in Deployed(r, b) : RootIs(r, b, v, FALSE)
      /\ \A v \in Deployed(r, b) : KidsAre(r, b, v, FALSE)
  BY DEF Deployed
<1>4. Keep(r, b, Deployed(r, b), PeerOps)
  BY DeployedKeep
<1> QED BY <1>1, <1>2, <1>3, <1>4, LiveLeads

\* The fresh rebuild of a group: its members are made again.
LEMMA RebuildGroup ==
  ASSUME Regular, NEW r \in Runs, NEW b \in Beds, Kind[b] = "group"
  PROVE  Leads(r, b, Checked(r, b, FALSE), Rebuild(b, TRUE), Checked(r, b, TRUE))
<1> DEFINE P == {v \in States(b) : v.rebuilt}
           Q == {v \in P : \A m \in ToSet(Members[b]) : v.up[m] = Down}
           images == EachBut("image", Members[b], Vms)
           live == Peers(b) \o CheckLive(b)
<1>1. P \in SUBSET States(b) /\ Checked(r, b, FALSE) \in SUBSET States(b)
  BY DEF Checked
<1>2. \A v \in P : v.rebuilt = TRUE
  BY DEF States
<1>3. [op |-> "rebuild", on |-> b] \in StepsOf(b)
  BY DEF StepsOf
<1>4. ASSUME NEW v \in Checked(r, b, FALSE), NEW w \in States(b), Does(r, b, "rebuild", b, v, w)
      PROVE  w \in P
  BY <1>4 DEF Does
<1>5. ToSet(Children[b]) = {}
  <2>1. Children[b] = <<>>
    BY CheckBedAssumption
  <2> QED BY <2>1 DEF ToSet
<1>6. \A v \in P : RootIs(r, b, v, TRUE)
  BY DEF RootIs
<1>7. \A v \in P : KidsAre(r, b, v, FALSE)
  BY <1>5 DEF KidsAre
<1>8. ASSUME NEW v \in P, NEW w \in States(b), NEW m, NEW op, Does(r, b, op, m, v, w)
      PROVE  w \in P
  BY <1>8 DEF Does
<1>9. Keep(r, b, P, PeerOps)
  BY <1>8 DEF Keep
<1>10. Q \subseteq {v \in P : Fresh(b, v)}
  BY DEF Fresh
<1>19. Q = {v \in P : \A m \in ToSet(Members[b]) : v.up[m] = Down}
  OBVIOUS
<1> HIDE DEF P, Q
<1>11. Leads(r, b, Checked(r, b, FALSE), S("rebuild", b), P)
  BY <1>1, <1>3, <1>4, LeadsOp
<1>12. Leads(r, b, P, images, P)
  <2>0. Members[b] \in Seq(Own(b)) /\ Len(Members[b]) \in Nat
    BY OwnTargets, Listed
  <2>1. \A t \in Own(b) : [op |-> "image", on |-> t] \in StepsOf(b)
    BY DEF StepsOf, OnTargets
  <2> DEFINE I == [i \in Nat |-> P]
  <2>2. \A i \in Nat : I[i] = P
    OBVIOUS
  <2>3. \A i \in 0..Len(Members[b]) : i \in Nat
    BY <2>0
  <2>6. \A i \in 1..Len(Members[b]) : i \in Nat /\ i-1 \in Nat
    BY <2>0
  <2> HIDE DEF I
  <2>4. /\ \A i \in 0..Len(Members[b]) : I[i] \subseteq States(b)
        /\ \A i \in 1..Len(Members[b]) : Members[b][i] \in Vms => I[i-1] \subseteq I[i]
        /\ \A i \in 1..Len(Members[b]) : Members[b][i] \notin Vms =>
             \A v \in I[i-1] : \A w \in States(b) : Does(r, b, "image", Members[b][i], v, w) => w \in I[i]
    BY <1>1, <1>8, <2>2, <2>3, <2>6
  <2>5. Leads(r, b, I[0], EachBut("image", Members[b], Vms), I[Len(Members[b])])
    BY <2>0, <2>1, <2>4, LeadsEachBut
  <2> QED BY <2>0, <2>2, <2>5
<1>13. Leads(r, b, P, Each("clear", Members[b]), Q)
  BY <1>1, <1>8, <1>19, ClearsLead
<1>14. live \in Seq(StepsOf(b)) /\ Leads(r, b, {v \in P : Fresh(b, v)}, live, Checked(r, b, TRUE))
  BY <1>1, <1>2, <1>6, <1>7, <1>9, LiveLeads
<1>15. Leads(r, b, Q, live, Checked(r, b, TRUE))
  BY <1>10, <1>14, LeadsWeaker
<1>16. S("rebuild", b) \in Seq(StepsOf(b)) /\ images \in Seq(StepsOf(b)) /\ Each("clear", Members[b]) \in Seq(StepsOf(b))
  BY SingleSteps
<1>17. Rebuild(b, TRUE) = S("rebuild", b) \o images \o Each("clear", Members[b]) \o live
  BY DEF Rebuild, When
<1> HIDE DEF images, live
<1>18. /\ S("rebuild", b) \o images \in Seq(StepsOf(b))
       /\ Leads(r, b, Checked(r, b, FALSE), S("rebuild", b) \o images, P)
  BY <1>11, <1>12, <1>16, ConcatStays, LeadsThen
<1>20. /\ S("rebuild", b) \o images \o Each("clear", Members[b]) \in Seq(StepsOf(b))
       /\ Leads(r, b, Checked(r, b, FALSE), S("rebuild", b) \o images \o Each("clear", Members[b]), Q)
  BY <1>13, <1>16, <1>18, ConcatStays, LeadsThen
<1>21. Leads(r, b, Checked(r, b, FALSE), S("rebuild", b) \o images \o Each("clear", Members[b]) \o live,
             Checked(r, b, TRUE))
  BY <1>14, <1>15, <1>20, LeadsThen
<1> QED BY <1>17, <1>21

\* The fresh rebuild of any other bed: its root is made anew, and its children are deployed and
\* checked again.
LEMMA RebuildRoot ==
  ASSUME Regular, NEW r \in Runs, NEW b \in Beds, Kind[b] # "group"
  PROVE  Leads(r, b, Checked(r, b, FALSE), Rebuild(b, TRUE), Goal(b, FALSE))
<1> DEFINE P == {v \in States(b) : /\ v.rebuilt /\ v.whole
                                   /\ PeersAre(r, b, v, FALSE)
                                   /\ KidsAre(r, b, v, FALSE)}
           Q == {v \in States(b) : /\ v.rebuilt /\ v.whole
                                   /\ RootIs(r, b, v, TRUE)
                                   /\ PeersAre(r, b, v, FALSE)
                                   /\ Kind[b] # "pod" => KidsAre(r, b, v, FALSE)}
           R == {v \in Q : KidsAre(r, b, v, Kind[b] = "pod")}
           N == {v \in Q : KidsAre(r, b, v, TRUE)}
           again == When(Kind[b] = "pod", Nested(b)) \o CheckLive(b)
           c == Kind[b] # "inplace" /\ Children[b] # <<>>
           rechecked == When(c, again)
<1>1. P \in SUBSET States(b) /\ Q \in SUBSET States(b) /\ R \in SUBSET States(b)
      /\ Checked(r, b, FALSE) \in SUBSET States(b) /\ Goal(b, FALSE) \in SUBSET States(b)
  BY DEF Checked, Goal
<1>2. Kind[b] \in Kinds /\ Root[b] \in Own(b) /\ Root[b] \notin ToSet(Members[b])
      /\ (Kind[b] = "vm" => Root[b] \in Vms) /\ (Kind[b] = "inplace" => Children[b] = <<>>)
  BY CheckBedAssumption, OwnTargets DEF Regular
<1>3. [op |-> "rebuild", on |-> b] \in StepsOf(b) /\ [op |-> "update", on |-> Root[b]] \in StepsOf(b)
  BY <1>2 DEF StepsOf, OnTargets
<1>4. \A m \in ToSet(Members[b]) : m \in Own(b) /\ m # Root[b]
  BY <1>2, Listed
<1>5. ASSUME NEW v \in Checked(r, b, FALSE), NEW w \in States(b), Does(r, b, "rebuild", b, v, w)
      PROVE  w \in P
  <2>1. v.rebuilt = FALSE /\ v.whole /\ PeersAre(r, b, v, FALSE) /\ KidsAre(r, b, v, FALSE)
    <3>1. v.rebuilt = FALSE /\ v.whole /\ AllThere(r, b, v)
      BY DEF Checked
    <3>2. PeersAre(r, b, v, Kind[b] = "group" /\ v.rebuilt) /\ KidsAre(r, b, v, Kind[b] = "pod" /\ v.rebuilt)
      BY <3>1 DEF AllThere
    <3>3. (Kind[b] = "group" /\ v.rebuilt) = FALSE /\ (Kind[b] = "pod" /\ v.rebuilt) = FALSE
      BY <3>1
    <3> QED BY <3>1, <3>2, <3>3
  <2>2. w.rebuilt /\ w.whole
    BY <1>5, <2>1 DEF Does
  <2>3. PeersAre(r, b, w, FALSE)
    BY <1>4, <1>5, <2>1 DEF Does, PeersAre
  <2>4. KidsAre(r, b, w, FALSE)
    BY <1>5, <2>1 DEF Does, KidsAre
  <2> QED BY <2>2, <2>3, <2>4
<1>6. ASSUME NEW v \in P, NEW w \in States(b), Does(r, b, "update", Root[b], v, w)
      PROVE  w \in Q
  <2>0. v.rebuilt = TRUE /\ v.whole = TRUE /\ PeersAre(r, b, v, FALSE) /\ KidsAre(r, b, v, FALSE)
    BY DEF States
  <2>1. w.rebuilt /\ w.whole
    BY <1>6, <2>0 DEF Does
  <2>2. RootIs(r, b, w, TRUE)
    BY <1>2, <1>6, <2>0 DEF Does, RootIs
  <2>3. PeersAre(r, b, w, FALSE)
    BY <1>4, <1>6, <2>0 DEF Does, PeersAre
  <2>4. ASSUME Kind[b] # "pod" PROVE KidsAre(r, b, w, FALSE)
    <3>1. CASE Kind[b] = "vm"
      BY <1>2, <1>6, <2>0, <3>1 DEF Does, KidsAre
    <3>2. CASE Kind[b] = "inplace"
      <4>1. ToSet(Children[b]) = {}
        BY <1>2, <3>2 DEF ToSet
      <4> QED BY <4>1 DEF KidsAre
    <3> QED BY <1>2, <2>4, <3>1, <3>2 DEF Kinds
  <2> QED BY <2>1, <2>2, <2>3, <2>4
<1>7. ASSUME Kind[b] = "pod",
             NEW v \in Q, NEW w \in States(b), NEW k \in ToSet(Children[b]), Does(r, b, "child", k, v, w)
      PROVE  w \in Q
  <2>0. v.rebuilt /\ v.whole /\ RootIs(r, b, v, TRUE) /\ PeersAre(r, b, v, FALSE)
    OBVIOUS
  <2>1. \A t \in Own(b) : w.up[t] = v.up[t]
    BY <1>7 DEF Does
  <2>2. w.rebuilt /\ w.whole
    BY <1>7, <2>0 DEF Does
  <2>3. RootIs(r, b, w, TRUE)
    BY <1>2, <2>0, <2>1 DEF RootIs
  <2>4. PeersAre(r, b, w, FALSE)
    BY <1>4, <2>0, <2>1 DEF PeersAre
  <2> QED BY <1>7, <2>2, <2>3, <2>4
<1>8. \A v \in Q : v.rebuilt = TRUE
  BY DEF States
<1>9. ASSUME NEW v \in R PROVE AllThere(r, b, v)
  <2>0. v.rebuilt = TRUE /\ RootIs(r, b, v, TRUE) /\ PeersAre(r, b, v, FALSE) /\ KidsAre(r, b, v, Kind[b] = "pod")
    BY <1>8
  <2>1. RootIs(r, b, v, v.rebuilt)
    BY <2>0
  <2>2. (Kind[b] = "group" /\ v.rebuilt) = FALSE /\ (Kind[b] = "pod" /\ v.rebuilt) = (Kind[b] = "pod")
    BY <2>0
  <2> QED BY <2>0, <2>1, <2>2 DEF AllThere
<1>10. \A v \in R : v.rebuilt = TRUE
  BY <1>8
<1>11. Checked(r, b, TRUE) \subseteq Goal(b, FALSE)
  BY DEF Checked, Goal
<1>12. ~c => Q \subseteq Goal(b, FALSE)
  BY <1>2 DEF Goal
<1>13. Kind[b] = "pod" => N \subseteq R
  OBVIOUS
<1>14. Kind[b] # "pod" => Q \subseteq R
  OBVIOUS
<1>15. N = {v \in Q : KidsAre(r, b, v, TRUE)}
  OBVIOUS
<1>16. c \in BOOLEAN
  OBVIOUS
<1>17. /\ S("rebuild", b) \in Seq(StepsOf(b)) /\ S("update", Root[b]) \in Seq(StepsOf(b))
       /\ Nested(b) \in Seq(StepsOf(b)) /\ CheckLive(b) \in Seq(StepsOf(b))
  BY SingleSteps DEF OnTargets, CheckLive
<1>18. Rebuild(b, TRUE) = S("rebuild", b) \o S("update", Root[b]) \o rechecked \o Feature(b)
  BY DEF Rebuild, When
<1> HIDE DEF P, Q, R, N, c
<1>19. Leads(r, b, Checked(r, b, FALSE), S("rebuild", b), P)
  BY <1>1, <1>3, <1>5, LeadsOp
<1>20. Leads(r, b, P, S("update", Root[b]), Q)
  BY <1>1, <1>3, <1>6, LeadsOp
<1>21. When(Kind[b] = "pod", Nested(b)) \in Seq(StepsOf(b))
       /\ Leads(r, b, Q, When(Kind[b] = "pod", Nested(b)), R)
  <2>1. ASSUME Kind[b] = "pod" PROVE Leads(r, b, Q, Nested(b), R)
    <3>1. \A v \in Q : \A k \in ToSet(Children[b]) \cap InGuest : Kind[b] # "pod" => v.kids[k] = Made(r, TRUE)
      BY <2>1
    <3>2. Leads(r, b, Q, Nested(b), N)
      BY <1>1, <1>7, <1>8, <1>15, <2>1, <3>1, NestedLeads
    <3> QED BY <1>13, <2>1, <3>2, LeadsWeaker
  <2>2. (Kind[b] = "pod") \in BOOLEAN
    OBVIOUS
  <2>3. Leads(r, b, Q, When(Kind[b] = "pod", Nested(b)), R)
    BY <1>14, <2>1, <2>2, LeadsWhen
  <2> QED BY <1>17, <2>2, <2>3, WhenStays
<1>22. Leads(r, b, R, CheckLive(b), Checked(r, b, TRUE))
  BY <1>1, <1>9, <1>10, CheckLeads
<1>23. again \in Seq(StepsOf(b)) /\ Leads(r, b, Q, again, Checked(r, b, TRUE))
  BY <1>17, <1>21, <1>22, ConcatStays, LeadsThen
<1>24. Leads(r, b, Q, again, Goal(b, FALSE))
  BY <1>11, <1>23, LeadsWeaker
<1> HIDE DEF again
<1>25. rechecked \in Seq(StepsOf(b)) /\ Leads(r, b, Q, rechecked, Goal(b, FALSE))
  BY <1>12, <1>16, <1>23, <1>24, WhenStays, LeadsWhen
<1> HIDE DEF rechecked
<1>26. Feature(b) \in Seq(StepsOf(b)) /\ Leads(r, b, Goal(b, FALSE), Feature(b), Goal(b, FALSE))
  BY <1>1, FeatureLeads
<1>27. /\ S("rebuild", b) \o S("update", Root[b]) \in Seq(StepsOf(b))
       /\ Leads(r, b, Checked(r, b, FALSE), S("rebuild", b) \o S("update", Root[b]), Q)
  BY <1>17, <1>19, <1>20, ConcatStays, LeadsThen
<1>28. /\ S("rebuild", b) \o S("update", Root[b]) \o rechecked \in Seq(StepsOf(b))
       /\ Leads(r, b, Checked(r, b, FALSE), S("rebuild", b) \o S("update", Root[b]) \o rechecked, Goal(b, FALSE))
  BY <1>25, <1>27, ConcatStays, LeadsThen
<1>29. Leads(r, b, Checked(r, b, FALSE), S("rebuild", b) \o S("update", Root[b]) \o rechecked \o Feature(b),
             Goal(b, FALSE))
  BY <1>26, <1>28, LeadsThen
<1> QED BY <1>18, <1>29

LEMMA RebuildLeads ==
  ASSUME Regular, NEW r \in Runs, NEW b \in Beds
  PROVE  Leads(r, b, Checked(r, b, FALSE), Rebuild(b, TRUE), Goal(b, FALSE))
<1>1. CASE Kind[b] = "group"
  <2>1. Checked(r, b, TRUE) \subseteq Goal(b, FALSE)
    BY DEF Checked, Goal
  <2> QED BY <1>1, <2>1, RebuildGroup, LeadsWeaker
<1>2. CASE Kind[b] # "group"
  BY <1>2, RebuildRoot
<1> QED BY <1>1, <1>2

\* Taking the bed down does not change what was seen of it.
LEMMA CleanupLeads ==
  ASSUME NEW r \in Runs, NEW b \in Beds, NEW norebuild
  PROVE  /\ Cleanup(b) \in Seq(StepsOf(b))
         /\ Leads(r, b, Goal(b, norebuild), Cleanup(b), Goal(b, norebuild))
<1> DEFINE G == Goal(b, norebuild)
           Q == {v \in G : \A m \in ToSet(Members[b]) : v.up[m] = Down}
<1>1. G \in SUBSET States(b) /\ Q \subseteq G
  BY DEF Goal
<1>2. ASSUME NEW op \in {"clear", "cleanup"}, NEW y, NEW v \in G, NEW w \in States(b), Does(r, b, op, y, v, w)
      PROVE  w \in G
  <2>1. (w.whole <=> v.whole) /\ (w.again <=> v.again)
    BY <1>2 DEF Does
  <2> QED BY <2>1 DEF Goal
<1>3. [op |-> "cleanup", on |-> Root[b]] \in StepsOf(b)
  BY CheckBedAssumption, OwnTargets DEF StepsOf
<1>4. /\ S("cleanup", Root[b]) \in Seq(StepsOf(b)) /\ Each("clear", Members[b]) \in Seq(StepsOf(b))
  BY SingleSteps
<1>8. Q = {v \in G : \A m \in ToSet(Members[b]) : v.up[m] = Down}
  OBVIOUS
<1>9. Cleanup(b) = S("cleanup", Root[b]) \o Each("clear", Members[b])
  BY DEF Cleanup
<1> HIDE DEF G, Q
<1>5. Leads(r, b, G, S("cleanup", Root[b]), G)
  BY <1>1, <1>2, <1>3, LeadsOp
<1>6. Leads(r, b, G, Each("clear", Members[b]), Q)
  BY <1>1, <1>2, <1>8, ClearsLead
<1>7. Leads(r, b, G, Each("clear", Members[b]), G)
  BY <1>1, <1>6, LeadsWeaker
<1>10. /\ S("cleanup", Root[b]) \o Each("clear", Members[b]) \in Seq(StepsOf(b))
       /\ Leads(r, b, G, S("cleanup", Root[b]) \o Each("clear", Members[b]), G)
  BY <1>4, <1>5, <1>7, ConcatStays, LeadsThen
<1> QED BY <1>9, <1>10 DEF G

\* The whole sequence of a run with runtime acceptance, from whatever earlier runs have left.
LEMMA SequenceLeads ==
  ASSUME Regular, NEW r \in Runs, NEW b \in Beds, NEW o \in Options,
         CheckLevelReaches(o.level, "noagent")
  PROVE  Leads(r, b, Early(b), Sequence(b, o), Goal(b, o.norebuild))
<1> DEFINE built == Build(b, o.level)
           live == Peers(b) \o CheckLive(b)
           fresh == When(~o.norebuild, Rebuild(b, TRUE))
           cleaned == When(~o.keep, Cleanup(b))
           F == {v \in Deployed(r, b) : Fresh(b, v)}
           C == Checked(r, b, FALSE)
           G == Goal(b, o.norebuild)
<1>1. o.norebuild \in BOOLEAN /\ o.keep \in BOOLEAN
  BY CheckBedAssumption
<1>2. Sequence(b, o) = built \o Deploy(b) \o (live \o Feature(b)) \o fresh \o cleaned
  BY DEF Sequence, When
<1>3. Early(b) \in SUBSET States(b) /\ C \in SUBSET States(b)
  BY DEF Early, Checked
<1>4. built \in Seq(StepsOf(b)) /\ Leads(r, b, Early(b), built, Early(b))
  BY <1>3, BuildStays, BuildLeads
<1>5. Deploy(b) \in Seq(StepsOf(b)) /\ Leads(r, b, Early(b), Deploy(b), F)
  BY DeployStays, DeployLeads
<1>6. live \in Seq(StepsOf(b)) /\ Leads(r, b, F, live, C)
  BY FirstLeads
<1>7. Feature(b) \in Seq(StepsOf(b)) /\ Leads(r, b, C, Feature(b), C)
  BY <1>3, FeatureLeads
<1>8. fresh \in Seq(StepsOf(b)) /\ Leads(r, b, C, fresh, G)
  <2>1. ASSUME ~o.norebuild PROVE Leads(r, b, C, Rebuild(b, TRUE), G)
    <3>1. o.norebuild = FALSE
      BY <1>1, <2>1
    <3> QED BY <3>1, RebuildLeads
  <2>2. ASSUME o.norebuild PROVE C \subseteq G
    BY <2>2 DEF Checked, Goal
  <2>3. (~o.norebuild) \in BOOLEAN
    OBVIOUS
  <2> HIDE DEF C, G
  <2>4. Leads(r, b, C, fresh, G)
    BY <2>1, <2>2, <2>3, LeadsWhen
  <2> QED BY <2>3, <2>4, RebuildStays, WhenStays
<1>9. cleaned \in Seq(StepsOf(b)) /\ Leads(r, b, G, cleaned, G)
  <2>1. (~o.keep) \in BOOLEAN
    OBVIOUS
  <2>2. Cleanup(b) \in Seq(StepsOf(b)) /\ Leads(r, b, G, Cleanup(b), G)
    BY CleanupLeads
  <2> HIDE DEF G
  <2> QED BY <2>1, <2>2, LeadsWhen, WhenStays
<1> HIDE DEF built, live, fresh, cleaned, F, C, G
<1>10. built \o Deploy(b) \in Seq(StepsOf(b)) /\ Leads(r, b, Early(b), built \o Deploy(b), F)
  BY <1>4, <1>5, ConcatStays, LeadsThen
<1>11. live \o Feature(b) \in Seq(StepsOf(b)) /\ Leads(r, b, F, live \o Feature(b), C)
  BY <1>6, <1>7, ConcatStays, LeadsThen
<1>12. /\ built \o Deploy(b) \o (live \o Feature(b)) \in Seq(StepsOf(b))
       /\ Leads(r, b, Early(b), built \o Deploy(b) \o (live \o Feature(b)), C)
  BY <1>10, <1>11, ConcatStays, LeadsThen
<1>13. /\ built \o Deploy(b) \o (live \o Feature(b)) \o fresh \in Seq(StepsOf(b))
       /\ Leads(r, b, Early(b), built \o Deploy(b) \o (live \o Feature(b)) \o fresh, G)
  BY <1>8, <1>12, ConcatStays, LeadsThen
<1>14. Leads(r, b, Early(b), built \o Deploy(b) \o (live \o Feature(b)) \o fresh \o cleaned, G)
  BY <1>9, <1>13, LeadsThen
<1> QED BY <1>2, <1>14 DEF G

-----------------------------------------------------------------------------
(* What a run sees is changed by its own steps only, and as they say.       *)

View(r) ==
  LET b == run[r].bed
  IN  [up |-> [t \in Own(b) |-> up[t]], kids |-> [k \in ToSet(Children[b]) |-> kids[k]],
       rebuilt |-> run[r].rebuilt, whole |-> seen[r].whole, again |-> seen[r].rebuilt]

LEMMA ViewType ==
  ASSUME IInv, NEW r \in Runs, run[r] \in Started
  PROVE  View(r) \in States(run[r].bed)
<1>1. run[r].bed \in Beds /\ run[r].rebuilt \in BOOLEAN
  BY DEF Started
<1>2. Own(run[r].bed) \subseteq Targets /\ ToSet(Children[run[r].bed]) \subseteq Kids
  BY <1>1, OwnTargets
<1>3. /\ [t \in Own(run[r].bed) |-> up[t]] \in [Own(run[r].bed) -> Presence]
      /\ [k \in ToSet(Children[run[r].bed]) |-> kids[k]] \in [ToSet(Children[run[r].bed]) -> Presence]
      /\ seen[r].whole \in BOOLEAN /\ seen[r].rebuilt \in BOOLEAN
  BY <1>2 DEF IInv, TypeOK
<1> QED BY <1>1, <1>3 DEF View, States

LEMMA ViewIs ==
  ASSUME NEW r \in Runs
  PROVE  /\ \A t \in Own(run[r].bed) : View(r).up[t] = up[t]
         /\ \A k \in ToSet(Children[run[r].bed]) : View(r).kids[k] = kids[k]
         /\ View(r).rebuilt = run[r].rebuilt
         /\ View(r).whole = seen[r].whole
         /\ View(r).again = seen[r].rebuilt
BY DEF View

\* Two ends of the same step are the same.
LEMMA DoesOnce ==
  ASSUME NEW r \in Runs, NEW b \in Beds, NEW v, NEW w \in States(b), NEW u \in States(b), NEW op, NEW y,
         Does(r, b, op, y, v, w), Does(r, b, op, y, v, u)
  PROVE  w = u
<1>1. /\ u.up \in [Own(b) -> Presence] /\ u.kids \in [ToSet(Children[b]) -> Presence]
      /\ w.up \in [Own(b) -> Presence] /\ w.kids \in [ToSet(Children[b]) -> Presence]
  BY DEF States
<1>2. /\ u = [up |-> u.up, kids |-> u.kids, rebuilt |-> u.rebuilt, whole |-> u.whole, again |-> u.again]
      /\ w = [up |-> w.up, kids |-> w.kids, rebuilt |-> w.rebuilt, whole |-> w.whole, again |-> w.again]
  BY DEF States
<1>3. /\ u.rebuilt \in BOOLEAN /\ u.whole \in BOOLEAN /\ u.again \in BOOLEAN
      /\ w.rebuilt \in BOOLEAN /\ w.whole \in BOOLEAN /\ w.again \in BOOLEAN
  BY DEF States
<1>4. \A t \in Own(b) : w.up[t] = u.up[t]
  BY DEF Does
<1>5. w.up = u.up
  <2>1. PICK f \in [Own(b) -> Presence], g \in [Own(b) -> Presence] : f = w.up /\ g = u.up
    BY <1>1
  <2>2. f = [t \in Own(b) |-> f[t]] /\ g = [t \in Own(b) |-> g[t]]
    OBVIOUS
  <2>3. \A t \in Own(b) : f[t] = g[t]
    BY <2>1, <1>4
  <2>4. f = g
    BY <2>2, <2>3, Zenon
  <2> QED BY <2>1, <2>4
<1>6. \A k \in ToSet(Children[b]) : w.kids[k] = u.kids[k]
  BY DEF Does
<1>7. w.kids = u.kids
  <2>1. PICK f \in [ToSet(Children[b]) -> Presence], g \in [ToSet(Children[b]) -> Presence] :
          f = w.kids /\ g = u.kids
    BY <1>1
  <2>2. f = [k \in ToSet(Children[b]) |-> f[k]] /\ g = [k \in ToSet(Children[b]) |-> g[k]]
    OBVIOUS
  <2>3. \A k \in ToSet(Children[b]) : f[k] = g[k]
    BY <2>1, <1>6
  <2>4. f = g
    BY <2>2, <2>3, Zenon
  <2> QED BY <2>1, <2>4
<1>8. (w.rebuilt <=> u.rebuilt) /\ (w.whole <=> u.whole) /\ (w.again <=> u.again)
  BY Zenon DEF Does
<1>9. w.rebuilt = u.rebuilt /\ w.whole = u.whole /\ w.again = u.again
  BY <1>3, <1>8
<1> QED BY <1>2, <1>5, <1>7, <1>9, Zenon

\* The step op on y, in the variables.
Acts(r, op, y) ==
  LET b == run[r].bed
  IN  /\ \A t \in Own(b) : t # y => up'[t] = up[t]
      /\ \A t \in Own(b) : t = y => up'[t] =
           IF op \in {"clear", "cleanup"} THEN Down
           ELSE IF \/ op \in {"create", "peer create", "update"}
                   \/ op = "deploy" /\ (t \notin Vms \/ up[t] = Down)
                   \/ op = "peer" /\ up[t] = Down
                THEN Put(r) ELSE up[t]
      /\ \A k \in ToSet(Children[b]) : kids'[k] =
           IF (op = "child" /\ k = y) \/ (op = "deploy" /\ y = Root[b] /\ k \in InGuest)
           THEN Put(r)
           ELSE IF \/ op \in {"clear", "cleanup"} /\ y = Root[b]
                   \/ op = "update" /\ y = Root[b] /\ y \notin Vms
                THEN Down ELSE kids[k]
      /\ run'[r].rebuilt <=> run[r].rebuilt \/ op = "rebuild"
      /\ seen'[r].whole <=> IF op = "check live" THEN Whole(r) ELSE seen[r].whole
      /\ seen'[r].rebuilt <=> IF op = "check live" THEN run[r].rebuilt ELSE seen[r].rebuilt

LEMMA ActsDoes ==
  ASSUME IInv, NEW r \in Runs, run[r] \in Started, run'[r].bed = run[r].bed, NEW op, NEW y, Acts(r, op, y)
  PROVE  Does(r, run[r].bed, op, y, View(r), View(r)')
<1> DEFINE b == run[r].bed
           v == View(r)
           w == View(r)'
<1>1. /\ \A t \in Own(b) : v.up[t] = up[t]
      /\ \A k \in ToSet(Children[b]) : v.kids[k] = kids[k]
      /\ v.rebuilt = run[r].rebuilt
      /\ v.whole = seen[r].whole
      /\ v.again = seen[r].rebuilt
  BY ViewIs
<1>2. /\ \A t \in Own(b) : w.up[t] = up'[t]
      /\ \A k \in ToSet(Children[b]) : w.kids[k] = kids'[k]
      /\ w.rebuilt = run'[r].rebuilt
      /\ w.whole = seen'[r].whole
      /\ w.again = seen'[r].rebuilt
  BY DEF View
<1>3. Made(r, v.rebuilt) = Put(r)
  BY <1>1 DEF Made, Put
<1>4. AllThere(r, b, v) <=> Whole(r)
  <2>0. b \in Beds
    BY DEF Started
  <2>1. RootIs(r, b, v, v.rebuilt) <=> (Kind[b] # "group" => up[Root[b]] = Put(r))
    BY <1>1, <1>3, <2>0, OwnTargets DEF RootIs
  <2>2. PeersAre(r, b, v, Kind[b] = "group" /\ v.rebuilt) <=>
          \A m \in ToSet(Members[b]) : up[m] = [by |-> r, rebuilt |-> Kind[b] = "group" /\ run[r].rebuilt]
    <3>1. \A m \in ToSet(Members[b]) : v.up[m] = up[m]
      BY <1>1, <2>0, Listed
    <3>2. Made(r, Kind[b] = "group" /\ v.rebuilt) = [by |-> r, rebuilt |-> Kind[b] = "group" /\ run[r].rebuilt]
      BY <1>1 DEF Made
    <3> QED BY <3>1, <3>2 DEF PeersAre
  <2>3. KidsAre(r, b, v, Kind[b] = "pod" /\ v.rebuilt) <=>
          \A k \in ToSet(Children[b]) : kids[k] = [by |-> r, rebuilt |-> Kind[b] = "pod" /\ run[r].rebuilt]
    <3>1. \A k \in ToSet(Children[b]) : v.kids[k] = kids[k]
      BY <1>1
    <3>2. Made(r, Kind[b] = "pod" /\ v.rebuilt) = [by |-> r, rebuilt |-> Kind[b] = "pod" /\ run[r].rebuilt]
      BY <1>1 DEF Made
    <3> QED BY <3>1, <3>2 DEF KidsAre
  <2> HIDE DEF v
  <2> QED BY <2>1, <2>2, <2>3, Zenon DEF AllThere, Whole, b
<1> HIDE DEF v, w
<1>5. \A t \in Own(b) : t # y => w.up[t] = v.up[t]
  BY <1>1, <1>2 DEF Acts
<1>6. \A t \in Own(b) : t = y => w.up[t] =
       IF op \in {"clear", "cleanup"} THEN Down
       ELSE IF \/ op \in {"create", "peer create", "update"}
               \/ op = "deploy" /\ (t \notin Vms \/ v.up[t] = Down)
               \/ op = "peer" /\ v.up[t] = Down
            THEN Made(r, v.rebuilt) ELSE v.up[t]
  BY <1>1, <1>2, <1>3, ZenonT(60) DEF Acts
<1>7. \A k \in ToSet(Children[b]) : w.kids[k] =
       IF (op = "child" /\ k = y) \/ (op = "deploy" /\ y = Root[b] /\ k \in InGuest)
       THEN Made(r, v.rebuilt)
       ELSE IF \/ op \in {"clear", "cleanup"} /\ y = Root[b]
               \/ op = "update" /\ y = Root[b] /\ y \notin Vms
            THEN Down ELSE v.kids[k]
  BY <1>1, <1>2, <1>3 DEF Acts
<1>8. w.rebuilt <=> v.rebuilt \/ op = "rebuild"
  BY <1>1, <1>2, Zenon DEF Acts
<1>9. w.whole <=> IF op = "check live" THEN AllThere(r, b, v) ELSE v.whole
  BY <1>1, <1>2, <1>4, Zenon DEF Acts
<1>10. w.again <=> IF op = "check live" THEN v.rebuilt ELSE v.again
  BY <1>1, <1>2, Zenon DEF Acts
<1> HIDE DEF b
<1>11. Does(r, b, op, y, v, w)
  BY <1>5, <1>6, <1>7, <1>8, <1>9, <1>10, Zenon DEF Does
<1> QED BY <1>11 DEF b, v, w

\* So what the run sees afterwards is what the step leads to.
LEMMA ViewAfter ==
  ASSUME IInv, IInv', NEW r \in Runs, run[r] \in Started, run'[r] \in Started, run'[r].bed = run[r].bed,
         NEW x \in StepsOf(run[r].bed), Acts(r, x.op, x.on)
  PROVE  View(r)' = After(r, run[r].bed, x, View(r))
<1> DEFINE b == run[r].bed
<1>1. b \in Beds
  BY DEF Started
<1>2. View(r) \in States(b)
  BY ViewType
<1>3. View(r)' \in States(b)
  <2>1. run'[r].bed = b /\ run'[r].rebuilt \in BOOLEAN
    BY DEF Started
  <2>2. Own(b) \subseteq Targets /\ ToSet(Children[b]) \subseteq Kids
    BY <1>1, OwnTargets
  <2>3. /\ [t \in Own(b) |-> up'[t]] \in [Own(b) -> Presence]
        /\ [k \in ToSet(Children[b]) |-> kids'[k]] \in [ToSet(Children[b]) -> Presence]
        /\ seen'[r].whole \in BOOLEAN /\ seen'[r].rebuilt \in BOOLEAN
    BY <2>2 DEF IInv, TypeOK
  <2> HIDE DEF b
  <2> QED BY <2>1, <2>3 DEF View, States
<1>4. After(r, b, x, View(r)) \in States(b)
  BY <1>1, <1>2, AfterType
<1>5. Does(r, b, x.op, x.on, View(r), View(r)')
  BY ActsDoes
<1>6. Does(r, b, x.op, x.on, View(r), After(r, b, x, View(r)))
  BY Effect
<1> HIDE DEF b
<1> QED BY <1>1, <1>3, <1>4, <1>5, <1>6, DoesOnce DEF b

\* What a run that takes a step leaves of the others as it is.
Local(r) ==
  /\ \A q \in Runs \ {r} : run'[q] = run[q] /\ seen'[q] = seen[q]
  /\ \A t \in Targets : (run[r].pc = "steps" => t \notin Own(run[r].bed)) => up'[t] = up[t]
  /\ \A k \in Kids : (run[r].pc = "steps" => k \notin ToSet(Children[run[r].bed])) => kids'[k] = kids[k]

LEMMA ChildrenOf ==
  ASSUME Apart, NEW b \in Beds, NEW t \in Own(b)
  PROVE  ChildrenAt(t) = IF t = Root[b] THEN ToSet(Children[b]) ELSE {}
<1>1. \A c \in Beds : Root[c] = t => c = b
  BY DEF Apart, Own
<1> QED BY <1>1 DEF ChildrenAt

\* The step of a run that is no failure: it does what the next of its steps says.
Proceeds(r) ==
  /\ run[r].pc = "steps" /\ run[r].todo # <<>>
  /\ run'[r] \in Started
  /\ run'[r].bed = run[r].bed /\ run'[r].opts = run[r].opts /\ run'[r].pc = "steps"
  /\ run'[r].ok = run[r].ok /\ run'[r].left = run[r].left
  /\ run'[r].todo = Tail(run[r].todo)
  /\ Acts(r, Head(run[r].todo).op, Head(run[r].todo).on)
  /\ Local(r)

LEMMA Gets ==
  ASSUME IInv, NEW r \in Runs, NEW ops, At(r, ops), run' = [run EXCEPT ![r] = Gone(r)]
  PROVE  /\ run[r].pc = "steps" /\ run[r].todo # <<>> /\ run[r] \in Started /\ run[r].bed \in Beds
         /\ run'[r] \in Started
         /\ run'[r].bed = run[r].bed /\ run'[r].opts = run[r].opts /\ run'[r].pc = "steps"
         /\ run'[r].ok = run[r].ok /\ run'[r].left = run[r].left /\ run'[r].rebuilt = run[r].rebuilt
         /\ run'[r].todo = Tail(run[r].todo)
         /\ Head(run[r].todo).op \in ops
         /\ \A q \in Runs \ {r} : run'[q] = run[q]
<1>1. run[r] \in Started /\ run[r].pc = "steps" /\ Gone(r) \in Started
  BY Goes
<1>2. run'[r] = Gone(r) /\ \A q \in Runs \ {r} : run'[q] = run[q]
  BY DEF IInv, TypeOK
<1>3. /\ Gone(r).bed = run[r].bed /\ Gone(r).opts = run[r].opts /\ Gone(r).pc = run[r].pc
      /\ Gone(r).ok = run[r].ok /\ Gone(r).left = run[r].left /\ Gone(r).rebuilt = run[r].rebuilt
      /\ Gone(r).todo = Tail(run[r].todo)
  BY <1>1 DEF Gone, Started
<1>4. run[r].bed \in Beds
  BY <1>1 DEF Started
<1> QED BY <1>1, <1>2, <1>3, <1>4 DEF At

LEMMA PassesProceeds ==
  ASSUME IInv, NEW r \in Runs, Passes(r)
  PROVE  Proceeds(r)
<1> DEFINE x == Head(run[r].todo)
<1>1. /\ At(r, {"image", "check box", "feature run", "config", "start"})
      /\ run' = [run EXCEPT ![r] = Gone(r)] /\ UNCHANGED <<lock, up, kids, mine, seen>>
  BY DEF Passes, Go, Gone
<1>2. x.op \in {"image", "check box", "feature run", "config", "start"}
  BY <1>1, Gets
<1>3. run'[r].rebuilt = run[r].rebuilt
  BY <1>1, Gets
<1> HIDE DEF x
<1>4. Acts(r, x.op, x.on)
  BY <1>1, <1>2, <1>3 DEF Acts
<1>5. Local(r)
  <2>1. (\A q \in Runs \ {r} : run'[q] = run[q]) /\ up' = up /\ kids' = kids /\ seen' = seen
    BY <1>1, Gets
  <2> QED BY <2>1 DEF Local
<1> QED BY <1>1, <1>4, <1>5, Gets DEF Proceeds, x

LEMMA TakesDown ==
  ASSUME Apart, IInv, NEW r \in Runs, NEW ops \in SUBSET {"clear", "cleanup"}, At(r, ops),
         run' = [run EXCEPT ![r] = Gone(r)], On(r) \in Own(run[r].bed), TakeDown(r, On(r)), UNCHANGED seen
  PROVE  Proceeds(r)
<1> DEFINE x == Head(run[r].todo)
           b == run[r].bed
<1>1. x.op \in {"clear", "cleanup"} /\ run'[r].rebuilt = run[r].rebuilt /\ b \in Beds /\ x.on = On(r)
  BY Gets DEF On
<1>2. Own(b) \subseteq Targets /\ ToSet(Children[b]) \subseteq Kids
  BY <1>1, OwnTargets
<1>3. ChildrenAt(On(r)) = IF On(r) = Root[b] THEN ToSet(Children[b]) ELSE {}
  BY <1>1, ChildrenOf
<1>4. \A t \in Targets : up'[t] = IF t = On(r) THEN Down ELSE up[t]
  BY DEF TakeDown, IInv, TypeOK
<1>5. \A k \in Kids : kids'[k] = IF k \in ChildrenAt(On(r)) THEN Down ELSE kids[k]
  BY DEF TakeDown
<1> HIDE DEF x
<1>6. Acts(r, x.op, x.on)
  BY <1>1, <1>2, <1>3, <1>4, <1>5 DEF Acts
<1>7. run[r].pc = "steps"
  BY Gets
<1>8. Local(r)
  BY <1>2, <1>3, <1>4, <1>5, <1>7, Gets DEF Local
<1> QED BY <1>6, <1>8, Gets DEF Proceeds, x

LEMMA CreateProceeds ==
  ASSUME Apart, IInv, NEW r \in Runs, Create(r)
  PROVE  Proceeds(r)
<1> DEFINE x == Head(run[r].todo)
           b == run[r].bed
<1>0. /\ At(r, {"create", "peer create"})
      /\ run' = [run EXCEPT ![r] = Gone(r)] /\ UNCHANGED <<lock, kids, seen>>
  BY DEF Create, Go, Gone
<1>1. x.op \in {"create", "peer create"} /\ run'[r].rebuilt = run[r].rebuilt /\ b \in Beds /\ x.on = On(r)
  BY <1>0, Gets DEF On
<1>2. Own(b) \subseteq Targets /\ ToSet(Children[b]) \subseteq Kids /\ On(r) \in Own(b)
  BY <1>0, <1>1, OwnTargets, OnOwn DEF OnTargets
<1>4. \A t \in Targets : up'[t] = IF t = On(r) THEN Put(r) ELSE up[t]
  BY DEF Create, BringUp, IInv, TypeOK
<1> HIDE DEF x
<1>6. Acts(r, x.op, x.on)
  BY <1>0, <1>1, <1>2, <1>4 DEF Acts
<1>7. run[r].pc = "steps"
  BY <1>0, Gets
<1>8. Local(r)
  <2>1. (\A q \in Runs \ {r} : run'[q] = run[q]) /\ kids' = kids /\ seen' = seen
    BY <1>0, Gets
  <2> QED BY <1>2, <1>4, <1>7, <2>1 DEF Local
<1> QED BY <1>0, <1>6, <1>8, Gets DEF Proceeds, x

LEMMA DeployRootProceeds ==
  ASSUME Apart, IInv, NEW r \in Runs, DeployRoot(r)
  PROVE  Proceeds(r)
<1> DEFINE x == Head(run[r].todo)
           b == run[r].bed
<1>0. At(r, {"deploy"}) /\ run' = [run EXCEPT ![r] = Gone(r)] /\ UNCHANGED <<lock, seen>>
  BY DEF DeployRoot, Go, Gone
<1>1. x.op \in {"deploy"} /\ run'[r].rebuilt = run[r].rebuilt /\ b \in Beds /\ x.on = On(r)
  BY <1>0, Gets DEF On
<1>2. Own(b) \subseteq Targets /\ ToSet(Children[b]) \subseteq Kids /\ On(r) \in Own(b)
  BY <1>0, <1>1, OwnTargets, OnOwn DEF OnTargets
<1>3. ChildrenAt(On(r)) = IF On(r) = Root[b] THEN ToSet(Children[b]) ELSE {}
  BY <1>1, <1>2, ChildrenOf
<1>4. \A t \in Targets : up'[t] = IF t = On(r) /\ (t \notin Vms \/ up[t] = Down) THEN Put(r) ELSE up[t]
  <2>1. CASE On(r) \in Vms /\ up[On(r)] # Down
    BY <2>1 DEF DeployRoot
  <2>2. CASE ~(On(r) \in Vms /\ up[On(r)] # Down)
    <3>1. up' = [up EXCEPT ![On(r)] = Put(r)]
      BY <2>2 DEF DeployRoot, BringUp
    <3>2. \A t \in Targets : up'[t] = IF t = On(r) THEN Put(r) ELSE up[t]
      BY <3>1 DEF IInv, TypeOK
    <3> QED BY <2>2, <3>2
  <2> QED BY <2>1, <2>2
<1>5. \A k \in Kids : kids'[k] = IF k \in ChildrenAt(On(r)) \cap InGuest THEN Put(r) ELSE kids[k]
  BY DEF DeployRoot
<1> HIDE DEF x
<1>6. Acts(r, x.op, x.on)
  BY <1>0, <1>1, <1>2, <1>3, <1>4, <1>5 DEF Acts
<1>7. run[r].pc = "steps"
  BY <1>0, Gets
<1>8. Local(r)
  BY <1>0, <1>2, <1>3, <1>4, <1>5, <1>7, Gets DEF Local
<1> QED BY <1>0, <1>6, <1>8, Gets DEF Proceeds, x

LEMMA ChildProceeds ==
  ASSUME IInv, NEW r \in Runs, Child(r)
  PROVE  Proceeds(r)
<1> DEFINE x == Head(run[r].todo)
           b == run[r].bed
<1>0. At(r, {"child"}) /\ run' = [run EXCEPT ![r] = Gone(r)] /\ UNCHANGED <<lock, up, mine, seen>>
  BY DEF Child, Go, Gone
<1>1. x.op \in {"child"} /\ run'[r].rebuilt = run[r].rebuilt /\ b \in Beds /\ x.on = On(r)
  BY <1>0, Gets DEF On
<1>2. Own(b) \subseteq Targets /\ ToSet(Children[b]) \subseteq Kids
  BY <1>0, <1>1, OwnTargets
<1>3. x.on \in ToSet(Children[b])
  <2>1. x \in StepsOf(b)
    BY <1>0, Coming
  <2> QED BY <1>1, <2>1 DEF StepsOf, OnTargets
<1>5. \A k \in Kids : kids'[k] = IF k = On(r) THEN Put(r) ELSE kids[k]
  BY DEF Child, IInv, TypeOK
<1> HIDE DEF x
<1>6. Acts(r, x.op, x.on)
  BY <1>0, <1>1, <1>2, <1>5 DEF Acts
<1>7. run[r].pc = "steps"
  BY <1>0, Gets
<1>8. Local(r)
  BY <1>0, <1>1, <1>3, <1>5, <1>7, Gets DEF Local
<1> QED BY <1>0, <1>6, <1>8, Gets DEF Proceeds, x

LEMMA PeerProceeds ==
  ASSUME Apart, IInv, NEW r \in Runs, Peer(r)
  PROVE  Proceeds(r)
<1> DEFINE x == Head(run[r].todo)
           b == run[r].bed
<1>0. At(r, {"peer"}) /\ run' = [run EXCEPT ![r] = Gone(r)] /\ UNCHANGED <<lock, kids, seen>>
  BY DEF Peer, Go, Gone
<1>1. x.op \in {"peer"} /\ run'[r].rebuilt = run[r].rebuilt /\ b \in Beds /\ x.on = On(r)
  BY <1>0, Gets DEF On
<1>2. Own(b) \subseteq Targets /\ ToSet(Children[b]) \subseteq Kids /\ On(r) \in Own(b)
  BY <1>0, <1>1, OwnTargets, OnOwn DEF OnTargets
<1>4. \A t \in Targets : up'[t] = IF t = On(r) /\ up[t] = Down THEN Put(r) ELSE up[t]
  <2>1. CASE up[On(r)] # Down
    BY <2>1 DEF Peer
  <2>2. CASE up[On(r)] = Down
    <3>1. up' = [up EXCEPT ![On(r)] = Put(r)]
      BY <2>2 DEF Peer, BringUp
    <3> QED BY <2>2, <3>1 DEF IInv, TypeOK
  <2> QED BY <2>1, <2>2
<1> HIDE DEF x
<1>6. Acts(r, x.op, x.on)
  BY <1>0, <1>1, <1>2, <1>4 DEF Acts
<1>7. run[r].pc = "steps"
  BY <1>0, Gets
<1>8. Local(r)
  BY <1>0, <1>2, <1>4, <1>7, Gets DEF Local
<1> QED BY <1>0, <1>6, <1>8, Gets DEF Proceeds, x

LEMMA CheckPassesProceeds ==
  ASSUME IInv, NEW r \in Runs, CheckPasses(r)
  PROVE  Proceeds(r)
<1> DEFINE x == Head(run[r].todo)
<1>0. /\ At(r, {"check live"}) /\ run' = [run EXCEPT ![r] = Gone(r)] /\ UNCHANGED <<lock, up, kids, mine>>
      /\ seen' = [seen EXCEPT ![r] = [by |-> r, rebuilt |-> run[r].rebuilt, whole |-> Whole(r)]]
  BY DEF CheckPasses, Go, Gone
<1>1. x.op \in {"check live"} /\ run'[r].rebuilt = run[r].rebuilt
  BY <1>0, Gets
<1>2. /\ seen'[r].rebuilt = run[r].rebuilt /\ seen'[r].whole = Whole(r)
      /\ \A q \in Runs \ {r} : seen'[q] = seen[q]
  BY <1>0 DEF IInv, TypeOK
<1> HIDE DEF x
<1>6. Acts(r, x.op, x.on)
  BY <1>0, <1>1, <1>2 DEF Acts
<1>8. Local(r)
  <2>1. (\A q \in Runs \ {r} : run'[q] = run[q]) /\ up' = up /\ kids' = kids
    BY <1>0, Gets
  <2> QED BY <1>2, <2>1 DEF Local
<1> QED BY <1>0, <1>6, <1>8, Gets DEF Proceeds, x

LEMMA RebuildBeginsProceeds ==
  ASSUME IInv, NEW r \in Runs, RebuildBegins(r)
  PROVE  Proceeds(r)
<1> DEFINE x == Head(run[r].todo)
           j == [Gone(r) EXCEPT !.rebuilt = TRUE]
<1>0. /\ At(r, {"rebuild"}) /\ UNCHANGED <<lock, up, kids, mine, seen>>
      /\ run' = [run EXCEPT ![r] = j]
  BY DEF RebuildBegins, Gone
<1>1. run[r] \in Started /\ run[r].pc = "steps" /\ Gone(r) \in Started /\ x.op \in {"rebuild"} /\ run[r].todo # <<>>
  BY <1>0, Goes DEF At
<1>2. run'[r] = j /\ \A q \in Runs \ {r} : run'[q] = run[q]
  BY <1>0 DEF IInv, TypeOK
<1>3. /\ j \in Started /\ j.bed = run[r].bed /\ j.opts = run[r].opts /\ j.pc = "steps"
      /\ j.ok = run[r].ok /\ j.left = run[r].left /\ j.rebuilt = TRUE
      /\ j.todo = Tail(run[r].todo)
  BY <1>1 DEF Gone, Started
<1> HIDE DEF x, j
<1>6. Acts(r, x.op, x.on)
  BY <1>0, <1>1, <1>2, <1>3 DEF Acts
<1>8. Local(r)
  BY <1>0, <1>2 DEF Local
<1> QED BY <1>1, <1>2, <1>3, <1>6, <1>8 DEF Proceeds, x

LEMMA UpdateProceeds ==
  ASSUME Apart, IInv, NEW r \in Runs, Update(r)
  PROVE  Proceeds(r)
<1> DEFINE x == Head(run[r].todo)
           b == run[r].bed
<1>0. At(r, {"update"}) /\ run' = [run EXCEPT ![r] = Gone(r)] /\ UNCHANGED <<lock, seen>>
  BY DEF Update, Go, Gone
<1>1. x.op \in {"update"} /\ run'[r].rebuilt = run[r].rebuilt /\ b \in Beds /\ x.on = On(r)
  BY <1>0, Gets DEF On
<1>2. Own(b) \subseteq Targets /\ ToSet(Children[b]) \subseteq Kids /\ On(r) \in Own(b)
  BY <1>0, <1>1, OwnTargets, OnOwn DEF OnTargets
<1>3. ChildrenAt(On(r)) = IF On(r) = Root[b] THEN ToSet(Children[b]) ELSE {}
  BY <1>1, <1>2, ChildrenOf
<1>4. \A t \in Targets : up'[t] = IF t = On(r) THEN Put(r) ELSE up[t]
  BY DEF Update, BringUp, IInv, TypeOK
<1>5. \A k \in Kids : kids'[k] = IF k \in ChildrenAt(On(r)) /\ On(r) \notin Vms THEN Down ELSE kids[k]
  BY DEF Update
<1> HIDE DEF x
<1>6. Acts(r, x.op, x.on)
  BY <1>0, <1>1, <1>2, <1>3, <1>4, <1>5 DEF Acts
<1>7. run[r].pc = "steps"
  BY <1>0, Gets
<1>8. Local(r)
  BY <1>0, <1>2, <1>3, <1>4, <1>5, <1>7, Gets DEF Local
<1> QED BY <1>0, <1>6, <1>8, Gets DEF Proceeds, x

LEMMA ClearProceeds ==
  ASSUME Apart, IInv, NEW r \in Runs, Clear(r)
  PROVE  Proceeds(r) \/ (run' = [run EXCEPT ![r].todo = Tail(@), ![r].left = TRUE]
                         /\ UNCHANGED <<up, kids, seen>>)
<1>1. At(r, {"clear"}) /\ UNCHANGED <<lock, seen>>
  BY DEF Clear
<1>2. On(r) \in Own(run[r].bed)
  BY <1>1, OnOwn DEF OnTargets
<1>3. CASE Go(r) /\ TakeDown(r, On(r))
  <2>1. run' = [run EXCEPT ![r] = Gone(r)]
    BY <1>3 DEF Go, Gone
  <2> QED BY <1>1, <1>2, <1>3, <2>1, TakesDown
<1>4. CASE run' = [run EXCEPT ![r].todo = Tail(@), ![r].left = TRUE] /\ UNCHANGED <<up, kids, mine>>
  BY <1>1, <1>4
<1> QED BY <1>3, <1>4 DEF Clear

LEMMA CleanupProceeds ==
  ASSUME Apart, IInv, NEW r \in Runs, CleanupRoot(r)
  PROVE  Proceeds(r) \/ (run' = [run EXCEPT ![r].todo = Tail(@), ![r].ok = FALSE]
                         /\ UNCHANGED <<up, kids, seen>>)
<1>1. At(r, {"cleanup"}) /\ UNCHANGED <<lock, seen>>
  BY DEF CleanupRoot
<1>2. CASE Go(r) /\ On(r) # None /\ TakeDown(r, On(r))
  <2>1. run' = [run EXCEPT ![r] = Gone(r)]
    BY <1>2 DEF Go, Gone
  <2>2. On(r) \in Own(run[r].bed)
    <3>1. Head(run[r].todo) \in StepsOf(run[r].bed) /\ Head(run[r].todo).op \in {"cleanup"}
      BY <1>1, Coming
    <3> QED BY <1>2, <3>1 DEF On, StepsOf, OnTargets
  <2> QED BY <1>1, <1>2, <2>1, <2>2, TakesDown
<1>3. CASE Go(r) /\ On(r) = None /\ UNCHANGED <<up, kids, mine>>
  <2> DEFINE x == Head(run[r].todo)
             b == run[r].bed
  <2>0. run' = [run EXCEPT ![r] = Gone(r)]
    BY <1>3 DEF Go, Gone
  <2>1. /\ x.op \in {"cleanup"} /\ run'[r].rebuilt = run[r].rebuilt /\ b \in Beds /\ x.on = None
        /\ \A q \in Runs \ {r} : run'[q] = run[q]
    BY <1>1, <1>3, <2>0, Gets DEF On
  <2>2. None \notin Own(b) /\ (None = Root[b] => ToSet(Children[b]) = {})
    <3>1. None = Root[b] => Children[b] = <<>>
      BY <2>1, CheckBedAssumption
    <3> QED BY <3>1 DEF Own, ToSet
  <2> HIDE DEF x, b
  <2>3. Acts(r, x.op, x.on)
    BY <1>1, <1>3, <2>1, <2>2 DEF Acts, b
  <2>4. Local(r)
    <3>1. up' = up /\ kids' = kids /\ seen' = seen
      BY <1>1, <1>3
    <3> QED BY <2>1, <3>1 DEF Local
  <2> QED BY <1>1, <2>0, <2>3, <2>4, Gets DEF Proceeds, x
<1>4. CASE run' = [run EXCEPT ![r].todo = Tail(@), ![r].ok = FALSE] /\ UNCHANGED <<up, kids, mine>>
  BY <1>1, <1>4
<1> QED BY <1>2, <1>3, <1>4 DEF CleanupRoot

-----------------------------------------------------------------------------
(* A run that passes has tested its bed.                                    *)

Runtime(j) == CheckLevelReaches(j.opts.level, "noagent")

\* A run j that has not failed and left nothing uncleared is on its way to the goal.
Promised(r, j, s, v) ==
  /\ j.pc \in {"lock", "acquire"} => j.todo = Sequence(j.bed, j.opts) /\ ~j.rebuilt
  /\ j.pc = "steps" /\ j.ok /\ ~j.left /\ Runtime(j) =>
       Wins(r, j.bed, Goal(j.bed, j.opts.norebuild), j.todo, v)
  /\ j.pc \in {"pass", "passed"} /\ ~j.left /\ Runtime(j) =>
       /\ s.whole
       /\ ~j.opts.norebuild /\ (Kind[j.bed] = "group" \/ Children[j.bed] # <<>>) => s.rebuilt

Promise == \A r \in Runs : Promised(r, run[r], seen[r], View(r))

LEMMA ProceedsPromise ==
  ASSUME IInv, IInv', NEW r \in Runs, Proceeds(r), Promised(r, run[r], seen[r], View(r))
  PROVE  Promised(r, run'[r], seen'[r], View(r)')
<1> DEFINE b == run[r].bed
           x == Head(run[r].todo)
           G == Goal(b, run[r].opts.norebuild)
<1>1. /\ run[r].pc = "steps" /\ run[r].todo # <<>>
      /\ run'[r] \in Started
      /\ run'[r].bed = run[r].bed /\ run'[r].opts = run[r].opts /\ run'[r].pc = "steps"
      /\ run'[r].ok = run[r].ok /\ run'[r].left = run[r].left
      /\ run'[r].todo = Tail(run[r].todo)
      /\ Acts(r, x.op, x.on)
  BY DEF Proceeds
<1>2. run[r] \in Started /\ b \in Beds
  <2>1. run[r] \in Started
    BY <1>1, RunnerStarted DEF IInv, TypeOK
  <2> QED BY <2>1 DEF Started
<1>3. run[r].todo \in Seq(StepsOf(b)) /\ x \in StepsOf(b)
  <2>1. run[r].todo \in Seq(StepsOf(b))
    BY <1>1 DEF IInv, Ahead
  <2> QED BY <1>1, <2>1, HeadTailStay
<1>4. View(r)' = After(r, b, x, View(r))
  BY <1>1, <1>2, <1>3, ViewAfter
<1>5. View(r) \in States(b)
  BY <1>2, ViewType
<1>6. ASSUME run'[r].ok, ~run'[r].left, Runtime(run'[r])
      PROVE  Wins(r, run'[r].bed, Goal(run'[r].bed, run'[r].opts.norebuild), run'[r].todo, View(r)')
  <2>1. run[r].ok /\ ~run[r].left /\ Runtime(run[r])
    BY <1>1, <1>6 DEF Runtime
  <2>2. Wins(r, b, G, run[r].todo, View(r))
    BY <1>1, <2>1 DEF Promised
  <2> HIDE DEF b, G
  <2>3. Wins(r, b, G, Tail(run[r].todo), After(r, b, Head(run[r].todo), View(r)))
    BY <1>1, <1>3, <1>5, <2>2, WinsStep
  <2> QED BY <1>1, <1>4, <2>3 DEF b, G
<1>7. run'[r].pc = "steps"
  BY <1>1
<1> QED BY <1>6, <1>7 DEF Promised

\* The others see what they saw.
LEMMA LocalPromise ==
  ASSUME Apart, Regular, IInv, NEW r \in Runs, run[r].pc = "steps", Local(r),
         NEW q \in Runs \ {r}, Promised(q, run[q], seen[q], View(q))
  PROVE  Promised(q, run'[q], seen'[q], View(q)')
<1>1. run'[q] = run[q] /\ seen'[q] = seen[q]
  BY DEF Local
<1>2. CASE run[q].pc # "steps"
  BY <1>1, <1>2 DEF Promised
<1>3. CASE run[q].pc = "steps"
  <2> DEFINE b == run[q].bed
             c == run[r].bed
  <2>1. Own(c) \cap Own(b) = {}
    BY <1>3, Alone DEF Live
  <2>2. b \in Beds /\ c \in Beds /\ b # c
    <3>1. run[q] \in Started /\ run[r] \in Started
      BY <1>3, RunnerStarted DEF IInv, TypeOK
    <3>2. lock[run[q].bed] = q /\ lock[run[r].bed] = r
      BY <1>3 DEF IInv, Locked, Live
    <3> QED BY <3>1, <3>2 DEF Started
  <2>3. Own(b) \subseteq Targets /\ ToSet(Children[b]) \subseteq Kids
    BY <2>2, OwnTargets
  <2>4. ToSet(Children[b]) \cap ToSet(Children[c]) = {}
    BY <2>2 DEF Regular
  <2>5. \A t \in Own(b) : up'[t] = up[t]
    BY <2>1, <2>3 DEF Local
  <2>6. \A k \in ToSet(Children[b]) : kids'[k] = kids[k]
    BY <2>3, <2>4 DEF Local
  <2> HIDE DEF b
  <2>7. [t \in Own(b) |-> up'[t]] = [t \in Own(b) |-> up[t]]
    BY <2>5
  <2>8. [k \in ToSet(Children[b]) |-> kids'[k]] = [k \in ToSet(Children[b]) |-> kids[k]]
    BY <2>6
  <2>9. View(q)' = View(q)
    BY <1>1, <2>7, <2>8, Zenon DEF View, b
  <2> QED BY <1>1, <2>9
<1> QED BY <1>2, <1>3

LEMMA QuietPromise ==
  ASSUME IInv, Promise, NEW r \in Runs, NEW j, run' = [run EXCEPT ![r] = j], UNCHANGED <<up, kids, seen>>,
         Promised(r, j, seen[r], View(r)')
  PROVE  Promise'
<1>1. run'[r] = j /\ \A q \in Runs \ {r} : run'[q] = run[q]
  BY DEF IInv, TypeOK
<1>2. ASSUME NEW q \in Runs \ {r} PROVE Promised(q, run'[q], seen'[q], View(q)')
  <2>1. run'[q] = run[q] /\ Promised(q, run[q], seen[q], View(q))
    BY <1>1 DEF Promise
  <2>2. View(q)' = View(q)
    BY <2>1 DEF View
  <2> QED BY <2>1, <2>2
<1>3. Promised(r, run'[r], seen'[r], View(r)')
  BY <1>1
<1> QED BY <1>2, <1>3 DEF Promise

\* A run that ends, or goes on with a failure or with something uncleared, promises nothing.
LEMMA NoPromise ==
  ASSUME NEW r, NEW j, NEW s, NEW v,
         \/ j.pc \in {"release", "unlock", "error", "killed"}
         \/ j.pc = "steps" /\ (~j.ok \/ j.left)
  PROVE  Promised(r, j, s, v)
BY DEF Promised

LEMMA StartPromise ==
  ASSUME IInv, Promise, NEW r \in Runs, Start(r)
  PROVE  Promise'
<1>1. PICK b \in Beds, o \in Options :
        run' = [run EXCEPT ![r] = [bed |-> b, opts |-> o, pc |-> "lock", todo |-> Sequence(b, o),
                  ok |-> TRUE, lease |-> "none", rebuilt |-> FALSE, left |-> FALSE]]
  BY DEF Start
<1> DEFINE j == [bed |-> b, opts |-> o, pc |-> "lock", todo |-> Sequence(b, o),
                 ok |-> TRUE, lease |-> "none", rebuilt |-> FALSE, left |-> FALSE]
<1>2. j.pc = "lock" /\ j.todo = Sequence(j.bed, j.opts) /\ ~j.rebuilt
  OBVIOUS
<1>3. run' = [run EXCEPT ![r] = j]
  BY <1>1
<1> HIDE DEF j
<1>4. Promised(r, j, seen[r], View(r)')
  BY <1>2 DEF Promised
<1>5. UNCHANGED <<up, kids, seen>>
  BY DEF Start
<1> QED BY <1>3, <1>4, <1>5, QuietPromise

LEMMA LockPromise ==
  ASSUME IInv, Promise, NEW r \in Runs, Lock(r)
  PROVE  Promise'
<1>1. run[r] \in Started /\ run[r].pc = "lock" /\ UNCHANGED <<up, kids, seen>>
  BY RunnerStarted DEF IInv, TypeOK, Lock
<1>2. CASE run' = [run EXCEPT ![r].pc = "acquire"]
  <2> DEFINE j == [run[r] EXCEPT !.pc = "acquire"]
  <2>1. j.pc = "acquire" /\ j.todo = run[r].todo /\ j.bed = run[r].bed /\ j.opts = run[r].opts /\ j.rebuilt = run[r].rebuilt
    BY <1>1 DEF Started
  <2>2. run[r].todo = Sequence(run[r].bed, run[r].opts) /\ ~run[r].rebuilt
    BY <1>1 DEF Promise, Promised
  <2>3. run' = [run EXCEPT ![r] = j]
    BY <1>2
  <2> HIDE DEF j
  <2>4. Promised(r, j, seen[r], View(r)')
    BY <2>1, <2>2 DEF Promised
  <2> QED BY <1>1, <2>3, <2>4, QuietPromise
<1>3. CASE run' = [run EXCEPT ![r].pc = "error", ![r].ok = FALSE]
  <2> DEFINE j == [run[r] EXCEPT !.pc = "error", !.ok = FALSE]
  <2>1. j.pc = "error"
    BY <1>1 DEF Started
  <2>2. run' = [run EXCEPT ![r] = j]
    BY <1>3
  <2> HIDE DEF j
  <2> QED BY <1>1, <2>1, <2>2, NoPromise, QuietPromise
<1> QED BY <1>2, <1>3 DEF Lock

LEMMA AcquirePromise ==
  ASSUME Regular, IInv, Promise, NEW r \in Runs, Acquire(r)
  PROVE  Promise'
<1>1. run[r] \in Started /\ run[r].pc = "acquire" /\ UNCHANGED <<up, kids, seen>>
  BY RunnerStarted DEF IInv, TypeOK, Acquire
<1>2. CASE run' = [run EXCEPT ![r].pc = "steps", ![r].lease = "held"]
  <2> DEFINE j == [run[r] EXCEPT !.pc = "steps", !.lease = "held"]
             b == run[r].bed
             o == run[r].opts
             G == Goal(b, o.norebuild)
  <2>1. /\ j.pc = "steps" /\ j.todo = run[r].todo /\ j.bed = b /\ j.opts = o
        /\ j.rebuilt = run[r].rebuilt
    BY <1>1 DEF Started
  <2>2. run[r].todo = Sequence(b, o) /\ ~run[r].rebuilt
    BY <1>1 DEF Promise, Promised
  <2>3. run' = [run EXCEPT ![r] = j]
    BY <1>2
  <2>4. b \in Beds /\ o \in Options
    BY <1>1 DEF Started
  <2>5. View(r)' = View(r)
    <3>1. run'[r] = j
      BY <2>3 DEF IInv, TypeOK
    <3> HIDE DEF j, o, G
    <3>2. run'[r].bed = run[r].bed /\ run'[r].rebuilt = run[r].rebuilt
      BY <3>1, <2>1
    <3> QED BY <1>1, <3>2 DEF View
  <2>6. View(r) \in Early(b)
    <3>1. View(r) \in States(b)
      BY <1>1, ViewType
    <3>2. ~View(r).rebuilt
      BY <2>2, ViewIs
    <3> QED BY <3>1, <3>2 DEF Early
  <2>7. G \in SUBSET States(b)
    BY DEF Goal
  <2> HIDE DEF j, b, o, G
  <2>8. ASSUME Runtime(j) PROVE Wins(r, b, G, j.todo, View(r))
    <3>1. CheckLevelReaches(o.level, "noagent")
      BY <2>1, <2>8 DEF Runtime
    <3>2. Leads(r, b, Early(b), Sequence(b, o), G)
      BY <2>4, <3>1, SequenceLeads DEF G
    <3>3. Sequence(b, o) \in Seq(StepsOf(b))
      BY <2>4, StepsStay
    <3>4. <<>> \in Seq(StepsOf(b)) /\ Sequence(b, o) \o <<>> = Sequence(b, o)
      BY <3>3
    <3>5. \A v \in G : Wins(r, b, G, <<>>, v)
      <4>1. \A v \in G : v \in States(b)
        BY <2>7
      <4> QED BY <4>1, WinsEnd
    <3>6. Wins(r, b, G, Sequence(b, o) \o <<>>, View(r))
      BY <2>6, <2>7, <3>2, <3>4, <3>5, Zenon DEF Leads
    <3> QED BY <2>1, <2>2, <3>4, <3>6
  <2>9. Promised(r, j, seen[r], View(r)')
    BY <2>1, <2>5, <2>8 DEF Promised, G
  <2> QED BY <1>1, <2>3, <2>9, QuietPromise
<1>3. CASE run' = [run EXCEPT ![r].pc = "unlock", ![r].ok = FALSE]
  <2> DEFINE j == [run[r] EXCEPT !.pc = "unlock", !.ok = FALSE]
  <2>1. j.pc = "unlock"
    BY <1>1 DEF Started
  <2>2. run' = [run EXCEPT ![r] = j]
    BY <1>3
  <2> HIDE DEF j
  <2> QED BY <1>1, <2>1, <2>2, NoPromise, QuietPromise
<1> QED BY <1>2, <1>3 DEF Acquire

LEMMA FailsPromise ==
  ASSUME IInv, Promise, NEW r \in Runs, StepFails(r) \/ PeerFails(r) \/ Kill(r)
  PROVE  Promise'
<1>1. run[r] \in Started /\ UNCHANGED <<up, kids, seen>>
  BY RunnerStarted DEF IInv, TypeOK, StepFails, Fails, PeerFails, Kill, At
<1>2. CASE run' = [run EXCEPT ![r].pc = "release", ![r].ok = FALSE]
  <2> DEFINE j == [run[r] EXCEPT !.pc = "release", !.ok = FALSE]
  <2>1. j.pc = "release" /\ run' = [run EXCEPT ![r] = j]
    BY <1>1, <1>2 DEF Started
  <2> HIDE DEF j
  <2> QED BY <1>1, <2>1, NoPromise, QuietPromise
<1>3. CASE run' = [run EXCEPT ![r].pc = "release"]
  <2> DEFINE j == [run[r] EXCEPT !.pc = "release"]
  <2>1. j.pc = "release" /\ run' = [run EXCEPT ![r] = j]
    BY <1>1, <1>3 DEF Started
  <2> HIDE DEF j
  <2> QED BY <1>1, <2>1, NoPromise, QuietPromise
<1>4. CASE run' = [run EXCEPT ![r].pc = "killed", ![r].todo = <<>>]
  <2> DEFINE j == [run[r] EXCEPT !.pc = "killed", !.todo = <<>>]
  <2>1. j.pc = "killed" /\ run' = [run EXCEPT ![r] = j]
    BY <1>1, <1>4 DEF Started
  <2> HIDE DEF j
  <2> QED BY <1>1, <2>1, NoPromise, QuietPromise
<1> QED BY <1>2, <1>3, <1>4 DEF StepFails, Fails, PeerFails, Kill

LEMMA EffectPromise ==
  ASSUME Apart, Regular, IInv, IInv', Promise, NEW r \in Runs, Proceeds(r)
  PROVE  Promise'
<1>1. Promised(r, run'[r], seen'[r], View(r)')
  BY ProceedsPromise DEF Promise
<1>2. \A q \in Runs \ {r} : Promised(q, run'[q], seen'[q], View(q)')
  BY LocalPromise DEF Promise, Proceeds
<1> QED BY <1>1, <1>2 DEF Promise

LEMMA ClearPromise ==
  ASSUME Apart, Regular, IInv, IInv', Promise, NEW r \in Runs, Clear(r) \/ CleanupRoot(r)
  PROVE  Promise'
<1>1. run[r] \in Started /\ run[r].pc = "steps"
  BY RunnerStarted DEF IInv, TypeOK, Clear, CleanupRoot, At
<1>2. CASE Proceeds(r)
  BY <1>2, EffectPromise
<1>3. CASE run' = [run EXCEPT ![r].todo = Tail(@), ![r].left = TRUE] /\ UNCHANGED <<up, kids, seen>>
  <2> DEFINE j == [run[r] EXCEPT !.todo = Tail(@), !.left = TRUE]
  <2>1. j.pc = "steps" /\ j.left = TRUE /\ run' = [run EXCEPT ![r] = j]
    BY <1>1, <1>3 DEF Started
  <2> HIDE DEF j
  <2> QED BY <1>3, <2>1, NoPromise, QuietPromise
<1>4. CASE run' = [run EXCEPT ![r].todo = Tail(@), ![r].ok = FALSE] /\ UNCHANGED <<up, kids, seen>>
  <2> DEFINE j == [run[r] EXCEPT !.todo = Tail(@), !.ok = FALSE]
  <2>1. j.pc = "steps" /\ j.ok = FALSE /\ run' = [run EXCEPT ![r] = j]
    BY <1>1, <1>4 DEF Started
  <2> HIDE DEF j
  <2> QED BY <1>4, <2>1, NoPromise, QuietPromise
<1> QED BY <1>2, <1>3, <1>4, ClearProceeds, CleanupProceeds

\* The summary is of a run that has done all of its steps.
LEMMA SummaryPromise ==
  ASSUME IInv, Promise, NEW r \in Runs, Summary(r)
  PROVE  Promise'
<1>1. /\ run[r] \in Started /\ run[r].pc = "steps" /\ run[r].todo = <<>> /\ UNCHANGED <<up, kids, seen>>
      /\ run' = [run EXCEPT ![r].pc = IF run[r].ok THEN "pass" ELSE "release"]
  BY RunnerStarted DEF IInv, TypeOK, Summary
<1>2. CASE run[r].ok
  <2> DEFINE j == [run[r] EXCEPT !.pc = "pass"]
             b == run[r].bed
             G == Goal(b, run[r].opts.norebuild)
  <2>1. /\ j.pc = "pass" /\ j.bed = b /\ j.opts = run[r].opts /\ j.left = run[r].left
        /\ run' = [run EXCEPT ![r] = j]
    BY <1>1, <1>2 DEF Started
  <2>2. View(r) \in States(b)
    BY <1>1, ViewType
  <2> HIDE DEF j, b, G
  <2>3. ASSUME ~j.left, Runtime(j)
        PROVE  /\ seen[r].whole
               /\ ~j.opts.norebuild /\ (Kind[j.bed] = "group" \/ Children[j.bed] # <<>>) => seen[r].rebuilt
    <3>1. Runtime(run[r]) /\ ~run[r].left
      BY <2>1, <2>3 DEF Runtime
    <3>2. Wins(r, b, G, <<>>, View(r))
      BY <1>1, <1>2, <3>1 DEF Promise, Promised, b, G
    <3>3. View(r) \in G
      BY <2>2, <3>2, WinsEnd
    <3>4. View(r).whole /\ (~run[r].opts.norebuild /\ (Kind[b] = "group" \/ Children[b] # <<>>) => View(r).again)
      BY <3>3 DEF G, Goal
    <3>5. View(r).whole = seen[r].whole /\ View(r).again = seen[r].rebuilt
      BY ViewIs
    <3> QED BY <2>1, <3>4, <3>5
  <2>4. Promised(r, j, seen[r], View(r)')
    BY <2>1, <2>3 DEF Promised
  <2> QED BY <1>1, <2>1, <2>4, QuietPromise
<1>3. CASE ~run[r].ok
  <2> DEFINE j == [run[r] EXCEPT !.pc = "release"]
  <2>1. j.pc = "release" /\ run' = [run EXCEPT ![r] = j]
    BY <1>1, <1>3 DEF Started
  <2> HIDE DEF j
  <2> QED BY <1>1, <2>1, NoPromise, QuietPromise
<1> QED BY <1>2, <1>3

LEMMA EndPromise ==
  ASSUME IInv, Promise, NEW r \in Runs, Release(r) \/ Unlock(r)
  PROVE  Promise'
<1>1. /\ run[r] \in Started /\ run[r].pc \in {"release", "pass", "unlock"} /\ UNCHANGED <<up, kids, seen>>
  BY RunnerStarted DEF IInv, TypeOK, Release, Unlock
<1>2. PICK j :
        /\ run' = [run EXCEPT ![r] = j]
        /\ j.bed = run[r].bed /\ j.opts = run[r].opts /\ j.left = run[r].left
        /\ IF run[r].pc = "pass" THEN j.pc \in {"pass", "passed"} ELSE j.pc \in {"release", "unlock", "error"}
  <2>1. CASE Release(r)
    <3> DEFINE j == [run[r] EXCEPT !.lease = IF run[r].ok THEN "released" ELSE "failed"]
    <3>1. run' = [run EXCEPT ![r] = j]
      BY <2>1 DEF Release
    <3>2. j.bed = run[r].bed /\ j.opts = run[r].opts /\ j.left = run[r].left /\ j.pc = run[r].pc
      BY <1>1 DEF Started
    <3> HIDE DEF j
    <3> QED BY <1>1, <3>1, <3>2
  <2>2. CASE Unlock(r)
    <3> DEFINE j == [run[r] EXCEPT !.pc = IF run[r].pc = "pass" THEN "passed" ELSE "error"]
    <3>1. run' = [run EXCEPT ![r] = j]
      BY <2>2 DEF Unlock
    <3>2. /\ j.bed = run[r].bed /\ j.opts = run[r].opts /\ j.left = run[r].left
          /\ j.pc = IF run[r].pc = "pass" THEN "passed" ELSE "error"
      BY <1>1 DEF Started
    <3> HIDE DEF j
    <3> QED BY <1>1, <3>1, <3>2
  <2> QED BY <2>1, <2>2
<1>3. CASE run[r].pc = "pass"
  <2>1. j.pc \in {"pass", "passed"}
    BY <1>2, <1>3
  <2>2. ASSUME ~j.left, Runtime(j)
        PROVE  /\ seen[r].whole
               /\ ~j.opts.norebuild /\ (Kind[j.bed] = "group" \/ Children[j.bed] # <<>>) => seen[r].rebuilt
    <3>1. Runtime(run[r]) /\ ~run[r].left
      BY <1>2, <2>2 DEF Runtime
    <3> QED BY <1>2, <1>3, <3>1 DEF Promise, Promised
  <2>3. Promised(r, j, seen[r], View(r)')
    BY <2>1, <2>2 DEF Promised
  <2> QED BY <1>1, <1>2, <2>3, QuietPromise
<1>4. CASE run[r].pc # "pass"
  BY <1>1, <1>2, <1>4, NoPromise, QuietPromise
<1> QED BY <1>3, <1>4

LEMMA InitPromise == Init => Promise
BY DEF Init, Promise, Promised

LEMMA NextPromise == Apart /\ Regular /\ IInv /\ IInv' /\ Promise /\ [Next]_vars => Promise'
<1> SUFFICES ASSUME Apart, Regular, IInv, IInv', Promise, [Next]_vars PROVE Promise'
  OBVIOUS
<1>1. CASE UNCHANGED vars
  <2>1. \A r \in Runs : View(r)' = View(r)
    BY <1>1 DEF vars, View
  <2> QED BY <1>1, <2>1 DEF vars, Promise
<1>2. ASSUME NEW r \in Runs, Step(r) PROVE Promise'
  <2>1. CASE Start(r) \/ Lock(r) \/ Acquire(r)
    BY <2>1, StartPromise, LockPromise, AcquirePromise
  <2>2. CASE StepFails(r) \/ PeerFails(r)
    BY <2>2, FailsPromise
  <2>3. CASE Summary(r) \/ Release(r) \/ Unlock(r)
    BY <2>3, SummaryPromise, EndPromise
  <2>4. CASE \/ Passes(r) \/ CheckPasses(r) \/ RebuildBegins(r) \/ Create(r) \/ DeployRoot(r)
             \/ Child(r) \/ Peer(r) \/ Update(r)
    <3>1. Proceeds(r)
      BY <2>4, PassesProceeds, CheckPassesProceeds, RebuildBeginsProceeds, CreateProceeds,
         DeployRootProceeds, ChildProceeds, PeerProceeds, UpdateProceeds
    <3> QED BY <3>1, EffectPromise
  <2>5. CASE Clear(r) \/ CleanupRoot(r)
    BY <2>5, ClearPromise
  <2> QED BY <1>2, <2>1, <2>2, <2>3, <2>4, <2>5 DEF Step
<1> QED BY <1>1, <1>2, FailsPromise DEF Next, AllDone

\* A run of a bed that passed has checked all of it, and the rebuild where it has to be checked again,
\* for any beds and runs, whatever earlier runs, killed or failed, have left behind (runCheckBed,
\* bringUpMembers, checkLiveTree); if no two beds own the same, and the members of a domain's bed are
\* domains.
THEOREM PassesAreTested == Apart /\ Regular => (Spec => []PassIsTested)
<1> SUFFICES ASSUME Apart, Regular PROVE Spec => []PassIsTested
  OBVIOUS
<1>1. Promise => PassIsTested
  BY DEF Promise, Promised, PassIsTested, Passed, Runtime
<1>2. IInv /\ [Next]_vars => IInv'
  BY NextInv
<1>3. IInv /\ IInv' /\ Promise /\ [Next]_vars => Promise'
  BY NextPromise
<1> QED BY <1>1, <1>2, <1>3, InitInv, InitPromise, PTL DEF Spec

-----------------------------------------------------------------------------
(* Poll.  The builders of ResolvedReadiness make valid configurations only. *)

LEMMA PickPositive ==
  ASSUME NEW v \in Nat, NEW fb \in Nat \ {0}
  PROVE  Pick(v, fb) \in Nat \ {0}
BY DEF Pick

LEMMA BoundPositive ==
  ASSUME NEW rr \in Readiness, NEW b \in Bounds
  PROVE  Bound(rr, b) \in Nat \ {0}
<1>1. rr[b] \in Nat /\ Fallback[b] \in Nat \ {0}
  BY PollAssumption
<1> QED BY <1>1, PickPositive DEF Bound

\* "a misconfigured poll must error, never spin or hang": no builder hands out such a
\* configuration, whatever the readiness block sets or leaves out.
THEOREM ConfigsValid == \A c \in Configs : c \in PollConfig /\ Valid(c)
<1>1. ASSUME NEW rr \in Readiness, NEW np \in Nat, NEW cap \in Nat, np > 0 \/ cap > 0
      PROVE  Config(rr, np, cap) \in PollConfig /\ Valid(Config(rr, np, cap))
  <2>1. Bound(rr, "interval") \in Nat \ {0} /\ Bound(rr, "perAttempt") \in Nat \ {0}
    BY BoundPositive DEF Bounds
  <2> QED BY <1>1, <2>1 DEF Config, PollConfig, Valid
<1>2. ASSUME NEW rr \in Readiness
      PROVE  /\ Wait(rr) \in PollConfig /\ Valid(Wait(rr))
             /\ StopGate(rr) \in PollConfig /\ Valid(StopGate(rr))
  <2>1. /\ Bound(rr, "noProgress") \in Nat \ {0} /\ Bound(rr, "absoluteCap") \in Nat \ {0}
        /\ Bound(rr, "stopGrace") \in Nat \ {0}
    BY BoundPositive DEF Bounds
  <2> QED BY <1>1, <2>1 DEF Wait, StopGate
<1>3. ASSUME NEW rr \in Readiness, NEW d \in Deadlines
      PROVE  /\ WaitCapped(rr, d) \in PollConfig /\ Valid(WaitCapped(rr, d))
             /\ WatchProgress(rr, d) \in PollConfig /\ Valid(WatchProgress(rr, d))
  <2>1. Bound(rr, "noProgress") \in Nat \ {0} /\ Bound(rr, "absoluteCap") \in Nat \ {0}
    BY BoundPositive DEF Bounds
  <2>2. d \in Nat
    BY PollAssumption
  <2>3. Pick(d, Bound(rr, "noProgress")) \in Nat \ {0} /\ Pick(d, Bound(rr, "absoluteCap")) \in Nat \ {0}
    BY <2>1, <2>2, PickPositive
  <2> QED BY <1>1, <2>3 DEF WaitCapped, WatchProgress
<1> QED BY <1>2, <1>3 DEF Configs

-----------------------------------------------------------------------------
(* Types.                                                                  *)

LEMMA LaterType ==
  ASSUME PollTypeOK, NEW d \in Nat
  PROVE  Later(d) \in 0..Horizon /\ clock <= Later(d) /\ Later(d) <= clock + d
BY PollAssumption DEF PollTypeOK, Later

LEMMA CfgType ==
  ASSUME PollTypeOK
  PROVE  /\ cfg.interval \in Nat \ {0} /\ cfg.perAttempt \in Nat \ {0}
         /\ cfg.noProgress \in Nat /\ cfg.cap \in Nat
BY DEF PollTypeOK, PollConfig, Valid

LEMMA PollTypeInit == PollInit => PollTypeOK
<1> SUFFICES ASSUME PollInit PROVE PollTypeOK
  OBVIOUS
<1>1. cfg \in PollConfig /\ Valid(cfg)
  BY ConfigsValid DEF PollInit
<1>2. Horizon \in Nat
  BY PollAssumption
<1>3. obs \in Seq([time : Nat, score : Nat])
  BY DEF PollInit
<1>4. pc = "probe"
  BY <1>1, Zenon DEF PollInit
<1>5. clock \in 0..Horizon /\ last \in 0..clock
  BY <1>2 DEF PollInit
<1>7. cancelled \in BOOLEAN
  BY Zenon DEF PollInit
<1>6. best \in Nat \cup {NoBaseline}
  BY DEF PollInit
<1> QED BY <1>1, <1>3, <1>4, <1>5, <1>6, <1>7 DEF PollTypeOK

LEMMA PollTypeProbe == PollTypeOK /\ Probe => PollTypeOK'
<1> SUFFICES ASSUME PollTypeOK, Probe PROVE PollTypeOK'
  OBVIOUS
<1>1. PICK d \in 0..cfg.perAttempt : Probe!(d)
  BY DEF Probe
<1>2. d \in Nat
  BY CfgType
<1>3. /\ clock' = Later(d) /\ clock' \in 0..Horizon /\ clock <= clock'
      /\ cfg' = cfg /\ cancelled' = cancelled
  BY <1>1, <1>2, LaterType
<1>4. clock \in Nat /\ clock' \in Nat /\ last \in 0..clock
  BY <1>3, PollAssumption DEF PollTypeOK
<1>5. CASE UNCHANGED <<best, last, obs>> /\ pc' \in {"ready", "fatal", "check"}
  BY <1>3, <1>4, <1>5 DEF PollTypeOK, Results
<1>6. ASSUME NEW s \in Scores, pc' = "check", Observe(s, Later(d)),
             obs' = Append(obs, [time |-> Later(d), score |-> s])
      PROVE  PollTypeOK'
  <2>1. s \in Nat
    BY PollAssumption
  <2>2. obs' \in Seq([time : Nat, score : Nat])
    BY <1>3, <1>4, <1>6, <2>1 DEF PollTypeOK
  <2>3. best' \in Nat \cup {NoBaseline} /\ last' \in 0..clock'
    BY <1>3, <1>4, <1>6, <2>1 DEF Observe, PollTypeOK
  <2> QED BY <1>3, <1>6, <2>2, <2>3 DEF PollTypeOK
<1> QED BY <1>1, <1>5, <1>6

LEMMA PollTypeStep == PollTypeOK /\ [PollNext]_pollVars => PollTypeOK'
<1> SUFFICES ASSUME PollTypeOK, [PollNext]_pollVars PROVE PollTypeOK'
  OBVIOUS
<1>1. CASE Probe
  BY <1>1, PollTypeProbe
<1>2. CASE Check
  BY <1>2 DEF Check, PollTypeOK, Results
<1>3. CASE Pause
  <2>1. Later(cfg.interval) \in 0..Horizon /\ clock <= Later(cfg.interval)
    BY CfgType, LaterType
  <2>2. clock' \in 0..Horizon /\ clock <= clock'
    BY <1>3, <2>1, PollAssumption DEF Pause, PollTypeOK
  <2>3. last' \in 0..clock'
    BY <1>3, <2>2, PollAssumption DEF Pause, PollTypeOK
  <2> QED BY <1>3, <2>2, <2>3 DEF Pause, PollTypeOK, Results
<1>4. CASE Cancel
  BY <1>4 DEF Cancel, PollTypeOK
<1>5. CASE UNCHANGED pollVars
  BY <1>5 DEF pollVars, PollTypeOK
<1> QED BY <1>1, <1>2, <1>3, <1>4, <1>5 DEF PollNext, Ended

\* Every state has the types of Poll, and its configuration is valid.
THEOREM PollTypeCorrect == PollSpec => []PollTypeOK
BY PollTypeInit, PollTypeStep, PTL DEF PollSpec

-----------------------------------------------------------------------------
(* The cap.                                                                *)

\* How far the clock can be, place by place.
CapInv ==
  cfg.cap > 0 =>
    /\ pc = "pause" => clock < cfg.cap
    /\ pc = "probe" => clock < cfg.cap + cfg.interval
    /\ clock < cfg.cap + cfg.interval + cfg.perAttempt

LEMMA CapStep == PollTypeOK /\ CapInv /\ [PollNext]_pollVars => CapInv'
<1> SUFFICES ASSUME PollTypeOK, CapInv, [PollNext]_pollVars PROVE CapInv'
  OBVIOUS
<1>0. clock \in Nat
  BY PollAssumption DEF PollTypeOK
<1>1. CASE Probe
  <2>1. PICK d \in 0..cfg.perAttempt : Probe!(d)
    BY <1>1 DEF Probe
  <2>2. d \in Nat /\ d <= cfg.perAttempt
    BY CfgType
  <2>3. Later(d) \in 0..Horizon /\ Later(d) <= clock + d
    BY <2>2, LaterType
  <2>4. clock' = Later(d) /\ cfg' = cfg /\ pc = "probe" /\ pc' \in {"ready", "fatal", "check"}
    BY <2>1
  <2>5. clock' \in Nat
    BY <2>3, <2>4, PollAssumption
  <2> QED BY <1>0, <2>2, <2>3, <2>4, <2>5, CfgType DEF CapInv
<1>2. CASE Check
  BY <1>0, <1>2, CfgType DEF Check, CapInv, CapExceeded
<1>3. CASE Pause
  <2>1. Later(cfg.interval) \in 0..Horizon /\ Later(cfg.interval) <= clock + cfg.interval
    BY CfgType, LaterType
  <2>2. Later(cfg.interval) \in Nat
    BY <2>1, PollAssumption
  <2> QED BY <1>0, <1>3, <2>1, <2>2, CfgType DEF Pause, CapInv
<1>4. CASE Cancel
  BY <1>4 DEF Cancel, CapInv
<1>5. CASE UNCHANGED pollVars
  BY <1>5 DEF pollVars, CapInv
<1> QED BY <1>1, <1>2, <1>3, <1>4, <1>5 DEF PollNext, Ended

\* A poll with a cap ends at the latest one interval and one attempt after it, for all bounds.
THEOREM CapBounded == PollSpec => []CapBound
<1>1. PollInit => CapInv
  <2> SUFFICES ASSUME PollInit PROVE CapInv
    OBVIOUS
  <2>1. PollTypeOK /\ clock = 0
    BY PollTypeInit DEF PollInit
  <2> QED BY <2>1, CfgType DEF CapInv
<1>2. CapInv => CapBound
  BY DEF CapInv, CapBound
<1> QED BY <1>1, <1>2, PollTypeCorrect, CapStep, PTL DEF PollSpec

-----------------------------------------------------------------------------
(* The stall.  The code keeps a high-water mark and the time of its last   *)
(* advance; the properties speak of the whole history of observations.     *)

LEMMA AppendFacts ==
  ASSUME NEW D, NEW s \in Seq(D), NEW e \in D
  PROVE  /\ Len(Append(s, e)) = Len(s) + 1
         /\ \A i \in 1..Len(s) : Append(s, e)[i] = s[i]
         /\ Append(s, e)[Len(s) + 1] = e
OBVIOUS

LEMMA ElementFacts ==
  ASSUME NEW D, NEW s \in Seq(D)
  PROVE  Len(s) \in Nat /\ \A i \in 1..Len(s) : s[i] \in D
OBVIOUS

\* The mark is the highest score seen.
MarkInv ==
  /\ best = NoBaseline <=> obs = <<>>
  /\ \A i \in 1..Len(obs) : obs[i].score <= best
  /\ obs # <<>> => \E i \in 1..Len(obs) : obs[i].score = best

\* The idle time is that of the latest advance, or the start.
IdleInv ==
  /\ \A i \in Advances : obs[i].time <= last
  /\ last = 0 \/ \E i \in Advances : obs[i].time = last

StallInv ==
  /\ pc = "stalled" => cfg.noProgress > 0
  /\ cfg.noProgress > 0 =>
       /\ MarkInv
       /\ IdleInv
       /\ pc = "stalled" => clock - last >= cfg.noProgress
       /\ pc = "pause" => clock - last < cfg.noProgress

\* An observation that is no advance over all the earlier ones leaves the advances as they are,
\* one that is adds its own index.
LEMMA AdvancesAppend ==
  ASSUME PollTypeOK, MarkInv, NEW t \in Nat, NEW s \in Nat,
         obs' = Append(obs, [time |-> t, score |-> s])
  PROVE  /\ Advances' = IF obs # <<>> /\ s > best THEN Advances \cup {Len(obs) + 1} ELSE Advances
         /\ \A i \in Advances : obs'[i] = obs[i]
         /\ obs'[Len(obs) + 1] = [time |-> t, score |-> s]
         /\ Len(obs') = Len(obs) + 1
<1> DEFINE e == [time |-> t, score |-> s]
           n == Len(obs)
<1>1. /\ obs \in Seq([time : Nat, score : Nat]) /\ e \in [time : Nat, score : Nat] /\ n \in Nat
      /\ best \in Nat \cup {NoBaseline}
  BY DEF PollTypeOK
<1>2. /\ Len(obs') = n + 1 /\ obs'[n + 1] = e
      /\ \A i \in 1..n : obs'[i] = obs[i]
  BY <1>1, AppendFacts
<1>3. \A i \in 1..n : obs[i].score \in Nat
  <2>1. \A i \in 1..n : obs[i] \in [time : Nat, score : Nat]
    BY <1>1, ElementFacts
  <2> QED BY <2>1
<1>4. \A i \in 2..n : i \in Advances' <=> i \in Advances
  BY <1>1, <1>2, SMTT(30) DEF Advances
<1>5. n + 1 \in Advances' <=> n + 1 \in 2..(n + 1) /\ \A j \in 1..n : obs[j].score < s
  <2>1. n + 1 \in Advances' <=>
          n + 1 \in 2..Len(obs') /\ \A j \in 1..(n + 1 - 1) : obs'[j].score < obs'[n + 1].score
    BY DEF Advances
  <2>2. 1..(n + 1 - 1) = 1..n
    BY <1>1
  <2>3. \A j \in 1..n : obs'[j].score = obs[j].score
    BY <1>2
  <2>4. obs'[n + 1].score = s /\ Len(obs') = n + 1
    BY <1>2
  <2> QED BY <2>1, <2>2, <2>3, <2>4
<1>6. n + 1 \in Advances' <=> obs # <<>> /\ s > best
  <2>1. CASE obs = <<>>
    <3>1. n = 0
      BY <2>1
    <3> QED BY <1>5, <2>1, <3>1
  <2>2. CASE obs # <<>>
    <3>1. n + 1 \in 2..(n + 1)
      BY <1>1, <2>2
    <3>2. best \in Nat
      BY <1>1, <2>2 DEF MarkInv
    <3>3. (\A j \in 1..n : obs[j].score < s) <=> s > best
      <4>1. PICK j \in 1..n : obs[j].score = best
        BY <2>2 DEF MarkInv
      <4> QED BY <1>3, <3>2, <4>1 DEF MarkInv
    <3> QED BY <1>5, <2>2, <3>1, <3>3
  <2> QED BY <2>1, <2>2
<1>7. Advances \subseteq 2..n /\ Advances' \subseteq 2..(n + 1)
  BY <1>2 DEF Advances
<1>8. Advances' = IF obs # <<>> /\ s > best THEN Advances \cup {n + 1} ELSE Advances
  <2>1. \A i : i \in Advances' => i \in 2..n \/ i = n + 1
    BY <1>1, <1>7
  <2>2. \A i : i \in Advances => i \in 2..n
    BY <1>7
  <2>3. n + 1 \notin 2..n
    BY <1>1
  <2>4. \A i : i \in Advances' <=> i \in Advances \/ (i = n + 1 /\ n + 1 \in Advances')
    BY <1>4, <2>1, <2>2
  <2>5. CASE obs # <<>> /\ s > best
    <3>1. \A i : i \in Advances' <=> i \in Advances \cup {n + 1}
      BY <1>6, <2>4, <2>5
    <3> QED BY <2>5, <3>1
  <2>6. CASE ~(obs # <<>> /\ s > best)
    <3>1. \A i : i \in Advances' <=> i \in Advances
      BY <1>6, <2>4, <2>6
    <3> QED BY <2>6, <3>1
  <2> QED BY <2>5, <2>6
<1> QED BY <1>1, <1>2, <1>7, <1>8

\* A clean observation keeps the mark and the idle time what the history says they are.
LEMMA ObserveInv ==
  ASSUME PollTypeOK, cfg.noProgress > 0, MarkInv, IdleInv, NEW t \in Nat, clock <= t, NEW s \in Nat,
         Observe(s, t), obs' = Append(obs, [time |-> t, score |-> s])
  PROVE  MarkInv' /\ IdleInv'
<1> DEFINE n == Len(obs)
<1>1. /\ obs \in Seq([time : Nat, score : Nat]) /\ n \in Nat
      /\ best \in Nat \cup {NoBaseline} /\ last \in Nat /\ last <= t
  BY PollAssumption DEF PollTypeOK
<1>2. /\ Advances' = IF obs # <<>> /\ s > best THEN Advances \cup {n + 1} ELSE Advances
      /\ \A i \in Advances : obs'[i] = obs[i]
      /\ obs'[n + 1] = [time |-> t, score |-> s]
      /\ Len(obs') = n + 1
  BY AdvancesAppend
<1>3. \A i \in 1..n : obs'[i] = obs[i] /\ obs[i].score \in Nat /\ obs[i].time \in Nat
  <2>1. \A i \in 1..n : obs[i] \in [time : Nat, score : Nat]
    BY <1>1, ElementFacts
  <2>2. [time |-> t, score |-> s] \in [time : Nat, score : Nat]
    OBVIOUS
  <2>3. \A i \in 1..n : obs'[i] = obs[i]
    BY <1>1, <2>2, AppendFacts
  <2> QED BY <2>1, <2>3
<1>4. obs' # <<>>
  BY <1>1, <1>2
<1>5. CASE s > best
  <2>1. best' = s /\ last' = (IF obs = <<>> THEN last ELSE t)
    BY <1>5 DEF Observe, MarkInv
  <2>2. MarkInv'
    <3>1. best' # NoBaseline
      BY <2>1 DEF NoBaseline
    <3>2. \A i \in 1..Len(obs') : obs'[i].score <= best'
      BY <1>1, <1>2, <1>3, <1>5, <2>1, SMTT(30) DEF MarkInv, NoBaseline
    <3>3. n + 1 \in 1..Len(obs') /\ obs'[n + 1].score = best'
      BY <1>1, <1>2, <2>1
    <3> QED BY <1>4, <3>1, <3>2, <3>3 DEF MarkInv
  <2>3. CASE obs = <<>>
    <3>1. Advances' = Advances /\ last' = last
      BY <1>2, <2>1, <2>3
    <3> QED BY <1>2, <2>2, <3>1 DEF IdleInv
  <2>4. CASE obs # <<>>
    <3>1. Advances' = Advances \cup {n + 1} /\ last' = t
      BY <1>2, <1>5, <2>1, <2>4
    <3>2. \A i \in Advances : obs[i].time \in Nat
      <4>1. Advances \subseteq 1..n
        BY <1>1 DEF Advances
      <4> QED BY <1>3, <4>1
    <3>3. \A i \in Advances : obs'[i].time <= last'
      <4>1. last \in Nat /\ last <= t /\ last' = t
        BY <1>1, <3>1
      <4>2. ASSUME NEW i \in Advances PROVE obs'[i].time <= last'
        <5>1. obs[i].time <= last /\ obs[i].time \in Nat
          BY <3>2 DEF IdleInv
        <5>2. obs'[i].time = obs[i].time
          BY <1>2
        <5>3. obs[i].time <= last'
          BY <4>1, <5>1
        <5> QED BY <5>2, <5>3, Zenon
      <4> QED BY <4>2
    <3>4. obs'[n + 1].time = t
      BY <1>2
    <3>5. \A i \in Advances' : obs'[i].time <= last'
      <4>1. obs'[n + 1].time <= last'
        BY <3>1, <3>4
      <4> QED BY <3>1, <3>3, <4>1
    <3>6. n + 1 \in Advances' /\ obs'[n + 1].time = last'
      BY <3>1, <3>4
    <3> QED BY <2>2, <3>5, <3>6 DEF IdleInv
  <2> QED BY <2>3, <2>4
<1>6. CASE ~(s > best)
  <2>1. best' = best /\ last' = last /\ Advances' = Advances
    BY <1>2, <1>6 DEF Observe
  <2>2. best \in Nat /\ obs # <<>>
    BY <1>1, <1>6 DEF MarkInv, NoBaseline
  <2>3. MarkInv'
    <3>1. best' # NoBaseline
      BY <2>1, <2>2 DEF NoBaseline
    <3>2. \A i \in 1..Len(obs') : obs'[i].score <= best'
      <4>1. \A i \in 1..n : obs'[i].score <= best'
        BY <1>3, <2>1 DEF MarkInv
      <4>2. obs'[n + 1].score <= best'
        BY <1>2, <1>6, <2>1, <2>2
      <4> QED BY <1>1, <1>2, <4>1, <4>2
    <3>3. PICK i \in 1..n : obs[i].score = best
      BY <2>2 DEF MarkInv
    <3>4. i \in 1..Len(obs') /\ obs'[i].score = best'
      BY <1>1, <1>2, <1>3, <2>1, <3>3
    <3> QED BY <1>4, <3>1, <3>2, <3>4 DEF MarkInv
  <2> QED BY <1>2, <2>1, <2>3 DEF IdleInv
<1> QED BY <1>5, <1>6

LEMMA StallStep == PollTypeOK /\ StallInv /\ [PollNext]_pollVars => StallInv'
<1>c. [PollNext]_pollVars => cfg' = cfg
  BY DEF PollNext, Probe, Check, Pause, Cancel, Ended, pollVars
<1>s. PollTypeOK /\ StallInv /\ [PollNext]_pollVars => (pc' = "stalled" => cfg.noProgress > 0)
  BY CfgType DEF PollNext, Probe, Check, Pause, Cancel, Ended, pollVars, StallInv, Stalled
<1> SUFFICES ASSUME PollTypeOK, StallInv, [PollNext]_pollVars, cfg.noProgress > 0
             PROVE  /\ MarkInv' /\ IdleInv'
                    /\ pc' = "stalled" => clock' - last' >= cfg'.noProgress
                    /\ pc' = "pause" => clock' - last' < cfg'.noProgress
  BY <1>c, <1>s DEF StallInv
<1>0. cfg' = cfg /\ clock \in Nat /\ last \in Nat /\ cfg.noProgress \in Nat
  BY <1>c, CfgType, PollAssumption DEF PollTypeOK
<1>1. MarkInv /\ IdleInv
  BY <1>0 DEF StallInv
<1>2. ASSUME UNCHANGED <<best, last, obs>>
      PROVE  MarkInv' /\ IdleInv'
  BY <1>1, <1>2 DEF MarkInv, IdleInv, Advances
<1>3. CASE Probe
  <2>1. PICK d \in 0..cfg.perAttempt : Probe!(d)
    BY <1>3 DEF Probe
  <2>2. d \in Nat
    BY CfgType
  <2>3. Later(d) \in Nat /\ clock <= Later(d)
    BY <2>2, LaterType, PollAssumption
  <2>4. MarkInv' /\ IdleInv'
    <3>1. ASSUME NEW s \in Scores, Observe(s, Later(d)),
                 obs' = Append(obs, [time |-> Later(d), score |-> s])
          PROVE  MarkInv' /\ IdleInv'
      <4>1. s \in Nat /\ cfg.noProgress > 0
        BY <1>0, PollAssumption
      <4> QED BY <1>1, <2>3, <3>1, <4>1, ObserveInv
    <3> QED BY <1>2, <2>1, <3>1
  <2>5. pc' \in {"ready", "fatal", "check"}
    BY <2>1
  <2> QED BY <2>4, <2>5
<1>4. CASE Check
  <2>1. UNCHANGED <<best, last, obs, clock>> /\ (pc' = "stalled" => Stalled) /\ (pc' = "pause" => ~Stalled)
    BY <1>4 DEF Check
  <2> QED BY <1>0, <1>2, <2>1 DEF Stalled
<1>5. CASE Pause
  <2>1. UNCHANGED <<best, last, obs>> /\ pc' \in {"probe", "cancelled"}
    BY <1>5 DEF Pause
  <2> QED BY <1>2, <2>1
<1>6. CASE Cancel
  BY <1>0, <1>2, <1>6 DEF Cancel, StallInv
<1>7. CASE UNCHANGED pollVars \/ Ended
  BY <1>0, <1>2, <1>7 DEF pollVars, Ended, StallInv
<1> QED BY <1>3, <1>4, <1>5, <1>6, <1>7 DEF PollNext

LEMMA StallInit == PollInit => StallInv
<1> SUFFICES ASSUME PollInit PROVE StallInv
  OBVIOUS
<1>1. obs = <<>> /\ best = NoBaseline /\ last = 0 /\ Len(obs) = 0
  BY DEF PollInit
<1>2. pc = "probe"
  BY ConfigsValid, Zenon DEF PollInit
<1>3. Advances = {}
  BY <1>1 DEF Advances
<1> QED BY <1>1, <1>2, <1>3 DEF StallInv, MarkInv, IdleInv

LEMMA StallCorrect == PollSpec => []StallInv
BY PollTypeCorrect, StallInit, StallStep, PTL DEF PollSpec

LEMMA TimeType ==
  ASSUME PollTypeOK
  PROVE  clock \in Nat /\ last \in Nat /\ cfg.noProgress \in Nat
         /\ \A i \in Advances : obs[i].time \in Nat
<1>1. Advances \subseteq 1..Len(obs)
  BY DEF Advances, PollTypeOK
<1>2. obs \in Seq([time : Nat, score : Nat])
  BY DEF PollTypeOK
<1>3. \A i \in 1..Len(obs) : obs[i] \in [time : Nat, score : Nat]
  BY <1>2, ElementFacts
<1>4. \A i \in Advances : obs[i].time \in Nat
  BY <1>1, <1>3
<1> QED BY <1>4, CfgType, PollAssumption DEF PollTypeOK

\* A poll that advanced within the no-progress window is never ended for a stall.
THEOREM StallIsJust == PollSpec => []StallJust
<1>1. PollTypeOK /\ StallInv => StallJust
  <2> SUFFICES ASSUME PollTypeOK, StallInv, pc = "stalled", NEW i \in Advances
               PROVE  clock - obs[i].time >= cfg.noProgress
    BY DEF StallJust
  <2> QED BY TimeType DEF StallInv, IdleInv
<1> QED BY <1>1, StallCorrect, PollTypeCorrect, PTL

\* A poll that pauses once more is within the window of a real advance, or of its start.
THEOREM FlapsStall == PollSpec => []FlapStalls
<1>1. PollTypeOK /\ StallInv => FlapStalls
  BY TimeType DEF StallInv, IdleInv, FlapStalls
<1> QED BY <1>1, StallCorrect, PollTypeCorrect, PTL
=============================================================================
