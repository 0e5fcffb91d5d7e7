------------------------ MODULE InstallLedgerProofs ------------------------
(***************************************************************************)
(* Proofs about InstallLedger, for any processes, deployments and plans:   *)
(* when no `bundle add` overlaps another session on its record and every   *)
(* file belongs to one candy record, nothing is orphaned and a deployment  *)
(* keeps what it was recorded with.                                        *)
(***************************************************************************)
EXTENDS InstallLedger, TLAPS

-----------------------------------------------------------------------------
(* Sequences of reverse operations.                                        *)

LEMMA SeqParts ==
  ASSUME NEW E, NEW s \in Seq(E), s # <<>>
  PROVE  /\ Head(s) = s[1] /\ Head(s) \in E /\ Tail(s) \in Seq(E)
         /\ Len(Tail(s)) = Len(s) - 1 /\ Len(s) \in Nat /\ Len(s) >= 1
         /\ \A i \in 1..Len(s) - 1 : Tail(s)[i] = s[i + 1]
  OBVIOUS

LEMMA SeqJoin ==
  ASSUME NEW E, NEW s \in Seq(E), NEW t \in Seq(E)
  PROVE  /\ s \o t \in Seq(E) /\ Len(s \o t) = Len(s) + Len(t) /\ Len(s) \in Nat /\ Len(t) \in Nat
         /\ \A i \in 1..Len(s) : (s \o t)[i] = s[i]
         /\ \A i \in 1..Len(t) : (s \o t)[Len(s) + i] = t[i]
  OBVIOUS

LEMMA SeqBack ==
  ASSUME NEW E, NEW s \in Seq(E)
  PROVE  /\ Reverse(s) \in Seq(E) /\ Len(Reverse(s)) = Len(s) /\ Len(s) \in Nat
         /\ \A i \in 1..Len(s) : Reverse(s)[i] = s[Len(s) - i + 1]
<1>1. Len(s) \in Nat /\ \A i \in 1..Len(s) : s[i] \in E /\ Len(s) - i + 1 \in 1..Len(s)
  OBVIOUS
<1>2. Reverse(s) = [i \in 1..Len(s) |-> s[Len(s) - i + 1]]
  BY DEF Reverse
<1>3. Reverse(s) \in [1..Len(s) -> E]
  BY <1>1, <1>2
<1>4. Reverse(s) \in Seq(E)
  BY <1>1, <1>3
<1> QED BY <1>1, <1>2, <1>4

\* What the operations take off the venue.
LEMMA UndoesIn ==
  ASSUME NEW ops \in Seq(ReverseOp), NEW x
  PROVE  x \in Undoes(ops) <=> \E i \in 1..Len(ops) : ops[i].kind # "restore" /\ ops[i].of = x
<1>1. DOMAIN ops = 1..Len(ops)
  OBVIOUS
<1> QED BY <1>1 DEF Undoes

\* An operation that restores a unit stands behind one that disables it, ...
Listed(ops) ==
  \A i \in 1..Len(ops) : ops[i].kind = "restore" =>
     \E j \in 1..Len(ops) : j < i /\ ops[j].kind # "restore" /\ ops[j].of = ops[i].of

\* ... and before it when they are replayed backwards.
Backed(ops) ==
  \A i \in 1..Len(ops) : ops[i].kind = "restore" =>
     \E j \in 1..Len(ops) : j > i /\ ops[j].kind # "restore" /\ ops[j].of = ops[i].of

\* The operations are about what S has.
Within(ops, S) == \A i \in 1..Len(ops) : ops[i].of \in S

LEMMA UndoesTail ==
  ASSUME NEW ops \in Seq(ReverseOp), ops # <<>>
  PROVE  /\ Head(ops).kind = "restore" => Undoes(ops) = Undoes(Tail(ops))
         /\ Head(ops).kind # "restore" => Undoes(ops) = {Head(ops).of} \cup Undoes(Tail(ops))
<1>1. /\ Head(ops) = ops[1] /\ Tail(ops) \in Seq(ReverseOp) /\ Len(Tail(ops)) = Len(ops) - 1
      /\ Len(ops) \in Nat /\ Len(ops) >= 1
      /\ \A i \in 1..Len(ops) - 1 : Tail(ops)[i] = ops[i + 1]
  BY SeqParts
<1>2. ASSUME NEW x PROVE x \in Undoes(Tail(ops)) => x \in Undoes(ops)
  <2> SUFFICES ASSUME x \in Undoes(Tail(ops)) PROVE x \in Undoes(ops)
    OBVIOUS
  <2>1. PICK i \in 1..Len(ops) - 1 : Tail(ops)[i].kind # "restore" /\ Tail(ops)[i].of = x
    <3>1. \E i \in 1..Len(Tail(ops)) : Tail(ops)[i].kind # "restore" /\ Tail(ops)[i].of = x
      BY <1>1, UndoesIn
    <3> QED BY <1>1, <3>1
  <2>2. i + 1 \in 1..Len(ops) /\ ops[i + 1].kind # "restore" /\ ops[i + 1].of = x
    BY <1>1, <2>1
  <2> QED BY <2>2, UndoesIn
<1>3. ASSUME NEW x, x \in Undoes(ops), ~(Head(ops).kind # "restore" /\ Head(ops).of = x)
      PROVE  x \in Undoes(Tail(ops))
  <2>1. PICK i \in 1..Len(ops) : ops[i].kind # "restore" /\ ops[i].of = x
    BY <1>3, UndoesIn
  <2>2. i # 1
    BY <1>1, <1>3, <2>1
  <2>3. i - 1 \in 1..Len(ops) - 1 /\ Tail(ops)[i - 1] = ops[i]
    BY <1>1, <2>1, <2>2
  <2> QED BY <1>1, <2>1, <2>3, UndoesIn, ZenonT(60)
<1>4. Head(ops).kind # "restore" => Head(ops).of \in Undoes(ops)
  <2>1. 1 \in 1..Len(ops)
    BY <1>1
  <2> QED BY <1>1, <2>1, UndoesIn
<1> QED BY <1>2, <1>3, <1>4

LEMMA BackedTail ==
  ASSUME NEW ops \in Seq(ReverseOp), ops # <<>>, Backed(ops), NEW S, Within(ops, S)
  PROVE  /\ Backed(Tail(ops)) /\ Within(Tail(ops), S) /\ Head(ops).of \in S
         /\ Head(ops).kind = "restore" => Head(ops).of \in Undoes(Tail(ops))
<1>1. /\ Head(ops) = ops[1] /\ Tail(ops) \in Seq(ReverseOp) /\ Len(Tail(ops)) = Len(ops) - 1
      /\ Len(ops) \in Nat /\ Len(ops) >= 1
      /\ \A i \in 1..Len(ops) - 1 : Tail(ops)[i] = ops[i + 1]
  BY SeqParts
<1>2. Backed(Tail(ops))
  <2> SUFFICES ASSUME NEW i \in 1..Len(ops) - 1, Tail(ops)[i].kind = "restore"
               PROVE  \E j \in 1..Len(ops) - 1 : j > i /\ Tail(ops)[j].kind # "restore" /\ Tail(ops)[j].of = Tail(ops)[i].of
    BY <1>1 DEF Backed
  <2>1. i + 1 \in 1..Len(ops) /\ ops[i + 1] = Tail(ops)[i]
    BY <1>1
  <2>2. PICK j \in 1..Len(ops) : j > i + 1 /\ ops[j].kind # "restore" /\ ops[j].of = ops[i + 1].of
    BY <2>1 DEF Backed
  <2>3. j - 1 \in 1..Len(ops) - 1 /\ Tail(ops)[j - 1] = ops[j] /\ j - 1 > i
    BY <1>1, <2>1, <2>2
  <2> QED BY <2>1, <2>2, <2>3
<1>3. Within(Tail(ops), S) /\ Head(ops).of \in S
  BY <1>1 DEF Within
<1>4. ASSUME Head(ops).kind = "restore" PROVE Head(ops).of \in Undoes(Tail(ops))
  <2>1. 1 \in 1..Len(ops) /\ ops[1].kind = "restore"
    BY <1>1, <1>4
  <2>2. PICK j \in 1..Len(ops) : j > 1 /\ ops[j].kind # "restore" /\ ops[j].of = ops[1].of
    BY <2>1 DEF Backed
  <2>3. j - 1 \in 1..Len(ops) - 1 /\ Tail(ops)[j - 1] = ops[j]
    BY <1>1, <2>2
  <2>4. \E i \in 1..Len(Tail(ops)) : Tail(ops)[i].kind # "restore" /\ Tail(ops)[i].of = Head(ops).of
    BY <1>1, <2>2, <2>3
  <2> QED BY <1>1, <2>4, UndoesIn
<1> QED BY <1>2, <1>3, <1>4

LEMMA ReplayBacked ==
  ASSUME NEW ops \in Seq(ReverseOp), Listed(ops)
  PROVE  /\ Replay(ops) \in Seq(ReverseOp) /\ Undoes(Replay(ops)) = Undoes(ops)
         /\ Backed(Replay(ops)) /\ Within(Replay(ops), Undoes(ops))
<1> DEFINE n == Len(ops)
           r == Replay(ops)
<1>1. r \in Seq(ReverseOp) /\ Len(r) = n /\ n \in Nat /\ \A i \in 1..n : r[i] = ops[n - i + 1]
  BY SeqBack DEF Replay
<1> HIDE DEF r
<1>2. \A i \in 1..n : n - i + 1 \in 1..n /\ ops[i] = r[n - i + 1]
  <2> TAKE i \in 1..n
  <2>1. n - i + 1 \in 1..n /\ n - (n - i + 1) + 1 = i
    BY <1>1
  <2> QED BY <1>1, <2>1
<1>3. Undoes(r) = Undoes(ops)
  <2>1. ASSUME NEW x, x \in Undoes(ops) PROVE x \in Undoes(r)
    <3>1. PICK i \in 1..n : ops[i].kind # "restore" /\ ops[i].of = x
      BY <2>1, UndoesIn
    <3>2. n - i + 1 \in 1..n /\ r[n - i + 1] = ops[i]
      BY <1>2
    <3> QED BY <1>1, <3>1, <3>2, UndoesIn
  <2>2. ASSUME NEW x, x \in Undoes(r) PROVE x \in Undoes(ops)
    <3>1. PICK i \in 1..n : r[i].kind # "restore" /\ r[i].of = x
      BY <1>1, <2>2, UndoesIn
    <3> QED BY <1>1, <1>2, <3>1, UndoesIn, SMTT(30)
  <2> QED BY <2>1, <2>2
<1>4. Backed(r)
  <2> SUFFICES ASSUME NEW i \in 1..n, r[i].kind = "restore"
               PROVE  \E j \in 1..n : j > i /\ r[j].kind # "restore" /\ r[j].of = r[i].of
    BY <1>1 DEF Backed
  <2>1. n - i + 1 \in 1..n /\ ops[n - i + 1] = r[i]
    BY <1>1, <1>2
  <2>2. PICK j \in 1..n : j < n - i + 1 /\ ops[j].kind # "restore" /\ ops[j].of = r[i].of
    BY <2>1 DEF Listed
  <2>3. n - j + 1 \in 1..n /\ n - j + 1 > i /\ r[n - j + 1] = ops[j]
    BY <1>1, <1>2, <2>2
  <2> QED BY <2>2, <2>3
<1>5. Within(r, Undoes(ops))
  <2> SUFFICES ASSUME NEW i \in 1..n PROVE r[i].of \in Undoes(ops)
    BY <1>1 DEF Within
  <2>1. n - i + 1 \in 1..n /\ ops[n - i + 1] = r[i]
    BY <1>1, <1>2
  <2>2. CASE r[i].kind = "restore"
    BY <2>1, <2>2, UndoesIn DEF Listed
  <2>3. CASE r[i].kind # "restore"
    BY <2>1, <2>3, UndoesIn
  <2> QED BY <2>2, <2>3
<1> QED BY <1>1, <1>3, <1>4, <1>5 DEF r

LEMMA SeqSame ==
  ASSUME NEW E, NEW s \in Seq(E), NEW t \in Seq(E), Len(s) = Len(t), \A i \in 1..Len(s) : s[i] = t[i]
  PROVE  s = t
<1>1. s = [i \in 1..Len(s) |-> s[i]] /\ t = [i \in 1..Len(t) |-> t[i]]
  OBVIOUS
<1> QED BY <1>1

LEMMA Joins ==
  ASSUME NEW E, NEW a \in E, NEW b \in E, NEW c \in E
  PROVE  /\ <<a>> \o <<>> = <<a>> /\ <<a>> \o <<b>> = <<a, b>>
         /\ <<a, b>> \o <<>> = <<a, b>> /\ <<a, b>> \o <<c>> = <<a, b, c>>
<1>1. \A s \in Seq(E) : s \o <<>> = s
  OBVIOUS
<1>2. <<a>> \in Seq(E) /\ <<b>> \in Seq(E) /\ <<c>> \in Seq(E) /\ <<a, b>> \in Seq(E) /\ <<a, b, c>> \in Seq(E)
  OBVIOUS
<1>3. <<a>> \o <<b>> = <<a, b>>
  <2> DEFINE s == <<a>> \o <<b>>
             t == <<a, b>>
  <2>1. s \in Seq(E) /\ Len(s) = 2 /\ s[1] = a /\ s[2] = b
    BY <1>2
  <2>2. t \in Seq(E) /\ Len(t) = 2 /\ t[1] = a /\ t[2] = b
    OBVIOUS
  <2> HIDE DEF s, t
  <2>3. \A i \in 1..2 : s[i] = t[i]
    BY <2>1, <2>2
  <2>4. s = t
    BY <2>1, <2>2, <2>3, SeqSame
  <2> QED BY <2>4 DEF s, t
<1>4. <<a, b>> \o <<c>> = <<a, b, c>>
  <2> DEFINE s == <<a, b>> \o <<c>>
             t == <<a, b, c>>
  <2>1. s \in Seq(E) /\ Len(s) = 3 /\ s[1] = a /\ s[2] = b /\ s[3] = c
    BY <1>2
  <2>2. t \in Seq(E) /\ Len(t) = 3 /\ t[1] = a /\ t[2] = b /\ t[3] = c
    OBVIOUS
  <2> HIDE DEF s, t
  <2>3. \A i \in 1..3 : s[i] = t[i]
    BY <2>1, <2>2
  <2>4. s = t
    BY <2>1, <2>2, <2>3, SeqSame
  <2> QED BY <2>4 DEF s, t
<1> QED BY <1>1, <1>2, <1>3, <1>4

\* What the operations collected for a step add.
LEMMA StepReverse ==
  ASSUME NEW step \in Step, NEW prior \in SUBSET Units
  PROVE  /\ ReverseOps(step, prior) \in Seq(ReverseOp) /\ Undoes(ReverseOps(step, prior)) = Effect(step)
         /\ Listed(ReverseOps(step, prior)) /\ Effect(step) \subseteq Files \cup Units
<1> DEFINE r == ReverseOps(step, prior)
           rm == [kind |-> "rm", of |-> step.at]
           dis == [kind |-> "disable", of |-> step.at]
           res == [kind |-> "restore", of |-> step.at]
           drp == [kind |-> "dropin", of |-> step.dropin]
<1>1. CASE step.kind = "File"
  <2>1. step.at \in Files
    BY <1>1 DEF Step
  <2>2. rm \in ReverseOp /\ rm.kind = "rm" /\ rm.of = step.at
    BY <2>1 DEF ReverseOp
  <2>3. r = <<rm>>
    BY <1>1 DEF ReverseOps
  <2> HIDE DEF r, rm
  <2>4. r \in Seq(ReverseOp) /\ Len(r) = 1 /\ r[1] = rm
    BY <2>2, <2>3
  <2>5. Undoes(r) = {step.at}
    BY <2>2, <2>4, UndoesIn
  <2>6. Listed(r)
    BY <2>2, <2>4 DEF Listed
  <2> QED BY <1>1, <2>1, <2>4, <2>5, <2>6 DEF Effect, r
<1>2. CASE step.kind # "File"
  <2>1. step.at \in Units /\ step.dropin \in Files \cup {None} /\ step.kind = "ServicePackaged"
    BY <1>2 DEF Step
  <2>2. /\ dis \in ReverseOp /\ dis.kind = "disable" /\ dis.of = step.at
        /\ res \in ReverseOp /\ res.kind = "restore" /\ res.of = step.at
        /\ step.dropin # None => drp \in ReverseOp /\ drp.kind = "dropin" /\ drp.of = step.dropin
    BY <2>1 DEF ReverseOp
  <2>3. r = <<dis>> \o (IF step.at \in prior THEN <<res>> ELSE <<>>) \o (IF step.dropin # None THEN <<drp>> ELSE <<>>)
    BY <1>2 DEF ReverseOps
  <2>4. Effect(step) = {step.at, step.dropin} \ {None} /\ step.at # None
    BY <1>2, <2>1, LedgerAssumption DEF Effect
  <2> HIDE DEF r, dis, res, drp
  <2>5. \/ r = <<dis>> /\ step.dropin = None
        \/ r = <<dis, res>> /\ step.dropin = None
        \/ r = <<dis, drp>> /\ step.dropin # None
        \/ r = <<dis, res, drp>> /\ step.dropin # None
    <3>1. \A E : \A a, b, c \in E : /\ <<a>> \o <<>> = <<a>> /\ <<a>> \o <<b>> = <<a, b>>
                                  /\ <<a, b>> \o <<>> = <<a, b>> /\ <<a, b>> \o <<c>> = <<a, b, c>>
      BY Joins, ZenonT(60)
    <3> DEFINE E == {dis, res, drp}
    <3>2. dis \in E /\ res \in E /\ drp \in E
      OBVIOUS
    <3> HIDE DEF E
    <3>3. /\ <<dis>> \o <<>> = <<dis>> /\ <<dis>> \o <<res>> = <<dis, res>> /\ <<dis>> \o <<drp>> = <<dis, drp>>
          /\ <<dis, res>> \o <<>> = <<dis, res>> /\ <<dis, res>> \o <<drp>> = <<dis, res, drp>>
      BY <3>1, <3>2
    <3> QED BY <2>3, <3>3
  <2>6. CASE r = <<dis>> /\ step.dropin = None
    <3>1. r \in Seq(ReverseOp) /\ Len(r) = 1 /\ r[1] = dis
      BY <2>2, <2>6
    <3>2. Undoes(r) = {step.at}
      BY <2>2, <3>1, UndoesIn
    <3> QED BY <2>1, <2>2, <2>4, <2>6, <3>1, <3>2 DEF Listed, r
  <2>7. CASE r = <<dis, res>> /\ step.dropin = None
    <3>1. r \in Seq(ReverseOp) /\ Len(r) = 2 /\ r[1] = dis /\ r[2] = res
      BY <2>2, <2>7
    <3>2. Undoes(r) = {step.at}
      BY <2>2, <3>1, UndoesIn
    <3> QED BY <2>1, <2>2, <2>4, <2>7, <3>1, <3>2 DEF Listed, r
  <2>8. CASE r = <<dis, drp>> /\ step.dropin # None
    <3>1. r \in Seq(ReverseOp) /\ Len(r) = 2 /\ r[1] = dis /\ r[2] = drp
      BY <2>2, <2>8
    <3>2. Undoes(r) = {step.at, step.dropin}
      <4>1. \A x : x \in Undoes(r) <=> \E i \in 1..2 : r[i].kind # "restore" /\ r[i].of = x
        BY <3>1, UndoesIn
      <4>2. \A x : x \in Undoes(r) <=> x = dis.of \/ x = drp.of
        BY <2>2, <2>8, <3>1, <4>1
      <4> QED BY <2>2, <2>8, <4>2
    <3> QED BY <2>1, <2>2, <2>4, <2>8, <3>1, <3>2 DEF Listed, r
  <2>9. CASE r = <<dis, res, drp>> /\ step.dropin # None
    <3>1. r \in Seq(ReverseOp) /\ Len(r) = 3 /\ r[1] = dis /\ r[2] = res /\ r[3] = drp
      BY <2>2, <2>9
    <3>2. Undoes(r) = {step.at, step.dropin}
      <4>1. \A x : x \in Undoes(r) <=> \E i \in 1..3 : r[i].kind # "restore" /\ r[i].of = x
        BY <3>1, UndoesIn
      <4>2. \A x : x \in Undoes(r) <=> x = dis.of \/ x = drp.of
        BY <2>2, <2>9, <3>1, <4>1
      <4> QED BY <2>2, <2>9, <4>2
    <3> QED BY <2>1, <2>2, <2>4, <2>9, <3>1, <3>2 DEF Listed, r
  <2> QED BY <2>5, <2>6, <2>7, <2>8, <2>9
<1> QED BY <1>1, <1>2

LEMMA JoinListed ==
  ASSUME NEW ops \in Seq(ReverseOp), NEW more \in Seq(ReverseOp), Listed(ops), Listed(more)
  PROVE  /\ ops \o more \in Seq(ReverseOp) /\ Listed(ops \o more)
         /\ Undoes(ops \o more) = Undoes(ops) \cup Undoes(more)
<1> DEFINE r == ops \o more
           n == Len(ops)
           m == Len(more)
<1>1. /\ r \in Seq(ReverseOp) /\ Len(r) = n + m /\ n \in Nat /\ m \in Nat
      /\ \A i \in 1..n : r[i] = ops[i]
      /\ \A i \in 1..m : r[n + i] = more[i]
  BY SeqJoin
<1> HIDE DEF r
<1>2. \A i \in 1..n + m : (i \in 1..n /\ r[i] = ops[i]) \/ (i - n \in 1..m /\ r[i] = more[i - n])
  <2> TAKE i \in 1..n + m
  <2>1. CASE i <= n
    BY <1>1, <2>1
  <2>2. CASE i > n
    <3>1. i - n \in 1..m /\ n + (i - n) = i
      BY <1>1, <2>2
    <3> QED BY <1>1, <3>1
  <2> QED BY <1>1, <2>1, <2>2
<1>3. Listed(r)
  <2> SUFFICES ASSUME NEW i \in 1..n + m, r[i].kind = "restore"
               PROVE  \E j \in 1..n + m : j < i /\ r[j].kind # "restore" /\ r[j].of = r[i].of
    BY <1>1 DEF Listed
  <2>1. CASE i \in 1..n /\ r[i] = ops[i]
    <3>1. PICK j \in 1..n : j < i /\ ops[j].kind # "restore" /\ ops[j].of = ops[i].of
      BY <2>1 DEF Listed
    <3>2. j \in 1..n + m /\ r[j] = ops[j]
      BY <1>1
    <3> QED BY <2>1, <3>1, <3>2
  <2>2. CASE i - n \in 1..m /\ r[i] = more[i - n]
    <3>1. PICK j \in 1..m : j < i - n /\ more[j].kind # "restore" /\ more[j].of = more[i - n].of
      BY <2>2 DEF Listed
    <3>2. n + j \in 1..n + m /\ r[n + j] = more[j] /\ n + j < i
      BY <1>1, <3>1
    <3> QED BY <2>2, <3>1, <3>2
  <2> QED BY <1>2, <2>1, <2>2
<1>4. ASSUME NEW x, x \in Undoes(r) PROVE x \in Undoes(ops) \cup Undoes(more)
  <2>1. PICK i \in 1..n + m : r[i].kind # "restore" /\ r[i].of = x
    BY <1>1, <1>4, UndoesIn
  <2> QED BY <1>2, <2>1, UndoesIn
<1>5. ASSUME NEW x, x \in Undoes(ops) PROVE x \in Undoes(r)
  <2>1. PICK i \in 1..n : ops[i].kind # "restore" /\ ops[i].of = x
    BY <1>5, UndoesIn
  <2>2. i \in 1..Len(r) /\ r[i] = ops[i]
    BY <1>1
  <2> QED BY <1>1, <2>1, <2>2, UndoesIn
<1>6. ASSUME NEW x, x \in Undoes(more) PROVE x \in Undoes(r)
  <2>1. PICK i \in 1..m : more[i].kind # "restore" /\ more[i].of = x
    BY <1>6, UndoesIn
  <2>2. n + i \in 1..Len(r) /\ r[n + i] = more[i]
    BY <1>1
  <2> QED BY <1>1, <2>1, <2>2, UndoesIn, ZenonT(60)
<1> QED BY <1>1, <1>3, <1>4, <1>5, <1>6 DEF r

\* What the steps of a plan leave.
Leaves(plan) == UNION {Effect(plan[i]) : i \in 1..Len(plan)}

LEMMA LeavesTail ==
  ASSUME NEW plan \in Seq(Step), plan # <<>>
  PROVE  Leaves(plan) = Effect(Head(plan)) \cup Leaves(Tail(plan))
<1> DEFINE n == Len(plan)
           t == Tail(plan)
<1>1. /\ Head(plan) = plan[1] /\ Len(t) = n - 1 /\ n \in Nat /\ n >= 1
      /\ \A i \in 1..n - 1 : t[i] = plan[i + 1]
  BY SeqParts
<1> HIDE DEF t
<1>2. \A i \in 1..n : i = 1 \/ (i - 1 \in 1..Len(t) /\ t[i - 1] = plan[i])
  <2> TAKE i \in 1..n
  <2>1. i = 1 \/ (i - 1 \in 1..n - 1 /\ (i - 1) + 1 = i)
    BY <1>1
  <2> QED BY <1>1, <2>1
<1>3. \A i \in 1..Len(t) : i + 1 \in 1..n /\ t[i] = plan[i + 1]
  BY <1>1
<1>4. 1 \in 1..n
  BY <1>1
<1> QED BY <1>1, <1>2, <1>3, <1>4, ZenonT(60) DEF Leaves, t

-----------------------------------------------------------------------------
(* Types.                                                                  *)

Places == {"new", "done"} \cup AddPCs \cup DelPCs

\* Past the lock a teardown has it, and the deployment it works on is recorded: only a
\* teardown takes a deploy record away.
Held ==
  /\ \A p \in AllProcs : pc[p] \in DelPCs \ {"lock"} => lock = p
  /\ \A p \in AllProcs : Active(p) => job[p].who \in Deploys
  /\ \A p \in AllProcs : pc[p] \in {"candy", "undo", "drop"} => deploys[job[p].who] # None

Typed == TypeOK /\ Held

\* p goes to l with the local state j.
Moves(p, l, j) == pc' = [pc EXCEPT ![p] = l] /\ job' = [job EXCEPT ![p] = j]

\* What is shared keeps its type.
SharedTyped ==
  /\ host \subseteq Things /\ stray \subseteq Things
  /\ candy \in [Candies -> CandyRecord \cup {None}]
  /\ deploys \in [Deploys -> Candies \cup {None}]
  /\ whole \in [Deploys -> SUBSET Things]
  /\ crashes \in 0..MaxCrashes

\* The lock is taken, given back or left alone by p.
Locks(p) == lock' = lock \/ (lock = None /\ lock' = p) \/ (lock = p /\ lock' = None)

LEMMA TypedStep ==
  ASSUME Typed, SharedTyped', NEW p \in AllProcs, NEW l \in Places, NEW j \in Job,
         Moves(p, l, j), Locks(p), l \in DelPCs \ {"lock"} => lock' = p,
         l \in AddPCs \cup DelPCs => j.who \in Deploys,
         l \in {"candy", "undo", "drop"} => deploys'[j.who] # None,
         \A d \in Deploys : deploys[d] # None => deploys'[d] # None \/ lock = p
  PROVE  Typed'
<1>1. pc \in [AllProcs -> Places] /\ job \in [AllProcs -> Job] /\ lock \in AllProcs \cup {None}
  BY DEF Typed, TypeOK, Places
<1>2. pc'[p] = l /\ job'[p] = j /\ \A q \in AllProcs : q # p => pc'[q] = pc[q] /\ job'[q] = job[q]
  BY <1>1 DEF Moves
<1>3. TypeOK'
  <2>1. pc' \in [AllProcs -> Places] /\ job' \in [AllProcs -> Job] /\ lock' \in AllProcs \cup {None}
    BY <1>1 DEF Moves, Locks
  <2> QED BY <2>1 DEF TypeOK, SharedTyped, Places
<1>4. ASSUME NEW q \in AllProcs, q # p
      PROVE  /\ pc'[q] \in DelPCs \ {"lock"} => lock' = q
             /\ pc'[q] \in AddPCs \cup DelPCs => job'[q].who \in Deploys
             /\ pc'[q] \in {"candy", "undo", "drop"} => deploys'[job'[q].who] # None
  <2>1. pc[q] \in DelPCs \ {"lock"} => lock = q
    BY DEF Typed, Held
  <2>2. pc[q] \in AddPCs \cup DelPCs => job[q].who \in Deploys
    BY DEF Typed, Held, Active
  <2>3. pc[q] \in {"candy", "undo", "drop"} => deploys[job[q].who] # None
    BY DEF Typed, Held
  <2>4. q # None
    BY LedgerAssumption
  <2>5. pc[q] \in {"candy", "undo", "drop"} => pc[q] \in DelPCs \ {"lock"}
    BY DEF DelPCs
  <2> QED BY <1>2, <1>4, <2>1, <2>2, <2>3, <2>4, <2>5 DEF Locks
<1> QED BY <1>2, <1>3, <1>4 DEF Typed, Held, Active

LEMMA IdleJob == Idle \in Job /\ Idle.who = None /\ Idle.ops = <<>> /\ Idle.plan = <<>> /\ Idle.todo = {}
BY DEF Idle, Job

\* A session that ends keeps the types.
LEMMA TypedFinish ==
  ASSUME Typed, SharedTyped', NEW p \in AllProcs, Finish(p),
         \A d \in Deploys : deploys[d] # None => deploys'[d] # None \/ lock = p
  PROVE  Typed'
<1>1. Moves(p, "done", Idle) /\ Locks(p)
  BY DEF Finish, Moves, Locks
<1>2. "done" \in Places /\ "done" \notin AddPCs \cup DelPCs /\ "done" \notin {"candy", "undo", "drop"}
  BY DEF Places, AddPCs, DelPCs
<1> QED BY <1>1, <1>2, IdleJob, TypedStep

\* What a session would put next is a thing.
LEMMA InHandThings ==
  ASSUME Typed, NEW p \in AllProcs
  PROVE  /\ InHand(p) \subseteq Things /\ InHand(p) \subseteq Lifecycle \cup Files \cup Units
         /\ pc[p] \notin {"prepare", "walk"} => InHand(p) = {}
<1>1. job[p].plan \in Seq(Step)
  BY DEF Typed, TypeOK, Job
<1>2. ASSUME job[p].plan # <<>> PROVE Effect(Head(job[p].plan)) \subseteq Files \cup Units
  <2>1. Head(job[p].plan) \in Step
    BY <1>1, <1>2
  <2>2. {} \in SUBSET Units
    OBVIOUS
  <2> QED BY <2>1, <2>2, StepReverse
<1> QED BY <1>2 DEF InHand, Things

LEMMA PutTyped ==
  ASSUME Typed, NEW p \in AllProcs, NEW S \in SUBSET InHand(p), Put(S), ledger' = ledger, whole' = whole,
         crashes' \in 0..MaxCrashes
  PROVE  SharedTyped'
BY InHandThings DEF Put, Typed, TypeOK, SharedTyped, ledger

LEMMA TypedAdd ==
  ASSUME Typed, NEW p \in AllProcs, StartAdd(p) \/ AddStep(p)
  PROVE  Typed'
<1>0. /\ pc \in [AllProcs -> Places] /\ job \in [AllProcs -> Job] /\ SharedTyped
      /\ lock \in AllProcs \cup {None}
  BY DEF Typed, TypeOK, Places, SharedTyped
<1>w. Active(p) => job[p].who \in Deploys
  BY DEF Typed, Held
<1>a. {"prepare", "walk", "write", "deploy"} = AddPCs /\ AddPCs \subseteq Places
      /\ AddPCs \cap DelPCs = {} /\ AddPCs \cap {"candy", "undo", "drop"} = {}
  BY DEF AddPCs, DelPCs, Places
<1>1. CASE StartAdd(p)
  <2>0. PICK d \in Deploys : \E plan \in Plans[d] :
          /\ Go(p, "prepare", [Idle EXCEPT !.who = d, !.plan = plan])
          /\ UNCHANGED <<host, ledger, lock, stray, whole, crashes>>
    BY <1>1 DEF StartAdd
  <2>1. PICK plan \in Plans[d] :
          /\ Go(p, "prepare", [Idle EXCEPT !.who = d, !.plan = plan])
          /\ UNCHANGED <<host, ledger, lock, stray, whole, crashes>>
    BY <2>0
  <2> DEFINE j == [Idle EXCEPT !.who = d, !.plan = plan]
  <2>2. plan \in Seq(Step)
    BY LedgerAssumption
  <2>3. j \in Job /\ j.who = d
    BY <2>2, IdleJob DEF Job
  <2>4. Moves(p, "prepare", j)
    BY <2>1 DEF Moves, Go
  <2> HIDE DEF j
  <2> QED BY <1>0, <1>a, <2>1, <2>3, <2>4, TypedStep DEF Locks, SharedTyped, ledger
<1>2. CASE Prepare(p)
  <2> DEFINE j == [job[p] EXCEPT !.prior = PriorEnabled(host')]
  <2>1. j \in Job /\ j.who = job[p].who
    BY <1>0 DEF Job, PriorEnabled
  <2>2. Moves(p, "walk", j)
    BY <1>2 DEF Prepare, Moves, Go
  <2>3. SharedTyped'
    BY <1>0, <1>2, PutTyped DEF Prepare, SharedTyped
  <2>4. job[p].who \in Deploys
    BY <1>2, <1>a, <1>w DEF Prepare, Active
  <2>5. deploys' = deploys /\ lock' = lock
    BY <1>2 DEF Prepare, ledger
  <2> HIDE DEF j
  <2> QED BY <1>a, <2>1, <2>2, <2>3, <2>4, <2>5, TypedStep DEF Locks
<1>3. CASE Walk(p)
  <2> DEFINE step == Head(job[p].plan)
             j == [job[p] EXCEPT !.plan = Tail(@), !.ops = @ \o ReverseOps(step, job[p].prior)]
  <2>1. /\ job[p].plan \in Seq(Step) /\ job[p].plan # <<>> /\ job[p].ops \in Seq(ReverseOp)
        /\ job[p].prior \in SUBSET Units
    BY <1>0, <1>3 DEF Job, Walk
  <2>2. step \in Step /\ Tail(job[p].plan) \in Seq(Step)
    BY <2>1
  <2>3. ReverseOps(step, job[p].prior) \in Seq(ReverseOp)
    BY <2>1, <2>2, StepReverse
  <2>4. job[p].ops \o ReverseOps(step, job[p].prior) \in Seq(ReverseOp)
    BY <2>1, <2>3
  <2>5. Moves(p, "walk", j)
    BY <1>3 DEF Walk, Moves, Go
  <2> HIDE DEF step
  <2>6. j \in Job /\ j.who = job[p].who
    BY <1>0, <2>2, <2>4 DEF Job
  <2>7. SharedTyped'
    BY <1>0, <1>3, PutTyped DEF Walk, SharedTyped
  <2>8. job[p].who \in Deploys
    BY <1>3, <1>a, <1>w DEF Walk, Active
  <2>9. deploys' = deploys /\ lock' = lock
    BY <1>3 DEF Walk, ledger
  <2> HIDE DEF j
  <2> QED BY <1>a, <2>5, <2>6, <2>7, <2>8, <2>9, TypedStep DEF Locks
<1>4. CASE AddFails(p)
  <2>1. PICK S \in SUBSET InHand(p) : Put(S)
    BY <1>4 DEF AddFails, BreakOff
  <2>2. SharedTyped'
    BY <1>0, <1>4, <2>1, PutTyped DEF AddFails, BreakOff, SharedTyped
  <2> QED BY <1>4, <2>2, TypedFinish DEF AddFails, BreakOff, ledger
<1>5. CASE RecordRead(p)
  <2> DEFINE j == [job[p] EXCEPT !.mem = candy[CandyOf[job[p].who]], !.prior = {}]
  <2>1. job[p].who \in Deploys
    BY <1>5, <1>a, <1>w DEF RecordRead, Active
  <2>2. candy[CandyOf[job[p].who]] \in CandyRecord \cup {None}
    BY <1>0, <2>1, LedgerAssumption DEF SharedTyped
  <2>3. j \in Job /\ j.who = job[p].who
    BY <1>0, <2>2 DEF Job
  <2>4. Moves(p, "write", j)
    BY <1>5 DEF RecordRead, Moves, Go
  <2>5. SharedTyped' /\ deploys' = deploys /\ lock' = lock
    BY <1>0, <1>5 DEF RecordRead, ledger, SharedTyped
  <2> HIDE DEF j
  <2> QED BY <1>a, <2>1, <2>3, <2>4, <2>5, TypedStep DEF Locks
<1>6. CASE RecordWrite(p)
  <2> DEFINE j == [job[p] EXCEPT !.mem = None]
             mem == job[p].mem
             rec == [deployedBy |-> (IF mem = None THEN {} ELSE mem.deployedBy) \cup {job[p].who},
                     ops |-> job[p].ops]
  <2>1. job[p].who \in Deploys
    BY <1>6, <1>a, <1>w DEF RecordWrite, Active
  <2>2. j \in Job /\ j.who = job[p].who
    BY <1>0 DEF Job
  <2>3. rec \in CandyRecord
    BY <1>0, <2>1 DEF Job, CandyRecord
  <2>4. Moves(p, "deploy", j)
    BY <1>6 DEF RecordWrite, Moves, Go
  <2>5. candy' = [candy EXCEPT ![CandyOf[job[p].who]] = rec]
    BY <1>6 DEF RecordWrite
  <2> HIDE DEF j, rec
  <2>6. SharedTyped' /\ deploys' = deploys /\ lock' = lock
    BY <1>0, <1>6, <2>3, <2>5 DEF RecordWrite, SharedTyped
  <2> QED BY <1>a, <2>1, <2>2, <2>4, <2>6, TypedStep DEF Locks
<1>7. CASE RecordDeploy(p)
  <2> DEFINE d == job[p].who
  <2>1. d \in Deploys
    BY <1>7, <1>a, <1>w DEF RecordDeploy, Active
  <2>2. CandyOf[d] \in Candies /\ CandyOf[d] # None
    BY <2>1, LedgerAssumption
  <2>3. deploys' = [deploys EXCEPT ![d] = CandyOf[d]]
    BY <1>7 DEF RecordDeploy
  <2>4. Undoes(job[p].ops) \cup ({d} \cap Lifecycle) \subseteq Things
    <3>1. job[p].ops \in Seq(ReverseOp)
      BY <1>0 DEF Job
    <3>2. \A i \in 1..Len(job[p].ops) : job[p].ops[i].of \in Files \cup Units
      <4>1. \A op \in ReverseOp : op.of \in Files \cup Units
        BY DEF ReverseOp
      <4>2. \A i \in 1..Len(job[p].ops) : job[p].ops[i] \in ReverseOp
        BY <3>1
      <4> QED BY <4>1, <4>2
    <3>3. \A x : x \in Undoes(job[p].ops) => x \in Files \cup Units
      BY <3>1, <3>2, UndoesIn
    <3> QED BY <3>3 DEF Things
  <2>5. whole' = [whole EXCEPT ![d] = Undoes(job[p].ops) \cup ({d} \cap Lifecycle)]
    BY <1>7 DEF RecordDeploy
  <2>6. SharedTyped'
    BY <1>0, <1>7, <2>1, <2>2, <2>3, <2>4, <2>5 DEF RecordDeploy, SharedTyped
  <2>7. \A e \in Deploys : deploys[e] # None => deploys'[e] # None
    BY <1>0, <2>2, <2>3 DEF SharedTyped
  <2> QED BY <1>7, <2>6, <2>7, TypedFinish DEF RecordDeploy
<1> QED BY <1>1, <1>2, <1>3, <1>4, <1>5, <1>6, <1>7 DEF AddStep

LEMMA TypedSpawn ==
  ASSUME Typed, NEW p \in AllProcs, SpawnDel(p)
  PROVE  Typed'
<1>0. /\ pc \in [AllProcs -> Places] /\ job \in [AllProcs -> Job] /\ SharedTyped
      /\ lock \in AllProcs \cup {None}
  BY DEF Typed, TypeOK, Places, SharedTyped
<1>1. PICK m \in job[p].todo, q \in Children :
        /\ pc[p] = "members" /\ pc[q] = "new"
        /\ pc' = [pc EXCEPT ![p] = "wait", ![q] = "lock"]
        /\ job' = [job EXCEPT ![p].todo = @ \ {m}, ![p].child = q,
                              ![q] = [Idle EXCEPT !.who = m, !.todo = Members[m]]]
        /\ UNCHANGED <<host, ledger, lock, stray, whole, crashes>>
  BY DEF SpawnDel
<1> DEFINE jp == [job[p] EXCEPT !.todo = @ \ {m}, !.child = q]
           jq == [Idle EXCEPT !.who = m, !.todo = Members[m]]
<1>2. q \in AllProcs /\ q # p /\ m \in Deploys /\ Members[m] \in SUBSET Deploys
  BY <1>0, <1>1, LedgerAssumption DEF AllProcs, Job
<1>3. jp \in Job /\ jp.who = job[p].who
  BY <1>0, <1>2, ZenonT(60) DEF Job
<1>4. jq \in Job /\ jq.who = m
  BY <1>2, IdleJob DEF Job
<1>5. job' = [job EXCEPT ![p] = jp, ![q] = jq]
  BY <1>0, <1>1, <1>2
<1> HIDE DEF jp, jq
<1>6. /\ pc'[p] = "wait" /\ pc'[q] = "lock" /\ job'[p] = jp /\ job'[q] = jq
      /\ \A r \in AllProcs : r # p /\ r # q => pc'[r] = pc[r] /\ job'[r] = job[r]
  BY <1>0, <1>1, <1>2, <1>5
<1>7. TypeOK'
  <2>1. "wait" \in Places /\ "lock" \in Places
    BY DEF Places, DelPCs
  <2>2. pc' \in [AllProcs -> Places] /\ job' \in [AllProcs -> Job]
    BY <1>0, <1>1, <1>2, <1>3, <1>4, <1>5, <2>1, SMTT(30)
  <2> QED BY <1>0, <1>1, <2>2 DEF TypeOK, Places, SharedTyped, ledger
<1>8. lock = p /\ job[p].who \in Deploys
  BY <1>1 DEF Typed, Held, Active, DelPCs
<1>9. lock' = lock /\ deploys' = deploys
  BY <1>1 DEF ledger
<1>10. Held'
  <2>1. ASSUME NEW r \in AllProcs
        PROVE  /\ pc'[r] \in DelPCs \ {"lock"} => lock' = r
               /\ pc'[r] \in AddPCs \cup DelPCs => job'[r].who \in Deploys
               /\ pc'[r] \in {"candy", "undo", "drop"} => deploys'[job'[r].who] # None
    BY <1>2, <1>3, <1>4, <1>6, <1>8, <1>9, <2>1 DEF Typed, Held, Active
  <2> QED BY <2>1 DEF Held, Active
<1> QED BY <1>7, <1>10 DEF Typed

LEMMA TypedDel ==
  ASSUME Typed, NEW p \in AllProcs, StartDel(p) \/ DelStep(p)
  PROVE  Typed'
<1>0. /\ pc \in [AllProcs -> Places] /\ job \in [AllProcs -> Job] /\ SharedTyped
      /\ lock \in AllProcs \cup {None}
  BY DEF Typed, TypeOK, Places, SharedTyped
<1>w. Active(p) => job[p].who \in Deploys
  BY DEF Typed, Held
<1>a. DelPCs = {"lock", "members", "wait", "candy", "undo", "drop", "post"} /\ DelPCs \subseteq Places
      /\ AddPCs \cap DelPCs = {}
  BY DEF AddPCs, DelPCs, Places
<1>l. pc[p] \in DelPCs \ {"lock"} => lock = p
  BY DEF Typed, Held
<1>r. pc[p] \in {"candy", "undo", "drop"} => deploys[job[p].who] # None
  BY DEF Typed, Held
<1>1. CASE StartDel(p)
  <2>1. PICK d \in Deploys, keep \in BOOLEAN :
          /\ Go(p, "lock", [Idle EXCEPT !.who = d, !.keep = keep, !.todo = Members[d]])
          /\ UNCHANGED <<host, ledger, lock, stray, whole, crashes>>
    BY <1>1 DEF StartDel
  <2> DEFINE j == [Idle EXCEPT !.who = d, !.keep = keep, !.todo = Members[d]]
  <2>2. Members[d] \in SUBSET Deploys
    BY LedgerAssumption
  <2>3. j \in Job /\ j.who = d
    BY <2>2, IdleJob DEF Job
  <2>4. Moves(p, "lock", j)
    BY <2>1 DEF Moves, Go
  <2>5. SharedTyped' /\ deploys' = deploys /\ lock' = lock
    BY <1>0, <2>1 DEF SharedTyped, ledger
  <2> HIDE DEF j
  <2> QED BY <1>a, <2>3, <2>4, <2>5, TypedStep DEF Locks
<1>2. CASE LedgerLock(p)
  <2>1. Moves(p, "members", job[p]) /\ lock' = p /\ lock = None /\ pc[p] = "lock"
    BY <1>2 DEF LedgerLock, Moves, Go
  <2>2. SharedTyped' /\ deploys' = deploys
    BY <1>0, <1>2 DEF LedgerLock, SharedTyped, ledger
  <2>3. job[p] \in Job /\ job[p].who \in Deploys
    BY <1>0, <1>a, <1>w, <2>1 DEF Active
  <2> QED BY <1>a, <2>1, <2>2, <2>3, TypedStep DEF Locks
<1>3. CASE SpawnDel(p)
  BY <1>3, TypedSpawn
<1>4. CASE ReapDel(p)
  <2> DEFINE j == [job[p] EXCEPT !.child = None]
  <2>1. Moves(p, "members", j) /\ pc[p] = "wait"
    BY <1>4 DEF ReapDel, Moves, Go
  <2>2. SharedTyped' /\ deploys' = deploys /\ lock' = lock
    BY <1>0, <1>4 DEF ReapDel, SharedTyped, ledger
  <2>3. j \in Job /\ j.who = job[p].who
    BY <1>0 DEF Job
  <2>4. job[p].who \in Deploys /\ lock = p
    BY <1>a, <1>w, <1>l, <2>1 DEF Active
  <2> HIDE DEF j
  <2> QED BY <1>a, <2>1, <2>2, <2>3, <2>4, TypedStep DEF Locks
<1>5. CASE ReadDeploy(p)
  <2>1. SharedTyped' /\ deploys' = deploys
    BY <1>0, <1>5 DEF ReadDeploy, SharedTyped, ledger
  <2>2. pc[p] = "members"
    BY <1>5 DEF ReadDeploy
  <2>3. job[p] \in Job /\ job[p].who \in Deploys /\ lock = p
    BY <1>0, <1>a, <1>w, <1>l, <2>2 DEF Active
  <2>4. CASE Finish(p)
    BY <2>1, <2>4, TypedFinish
  <2>5. CASE deploys[job[p].who] # None /\ Go(p, "candy", job[p]) /\ UNCHANGED lock
    <3>1. Moves(p, "candy", job[p])
      BY <2>5 DEF Moves, Go
    <3> QED BY <1>a, <2>1, <2>3, <2>5, <3>1, TypedStep DEF Locks
  <2> QED BY <1>5, <2>4, <2>5 DEF ReadDeploy
<1>6. CASE DropRef(p)
  <2> DEFINE d == job[p].who
             c == deploys[d]
             rec == candy[c]
  <2>1. pc[p] = "candy"
    BY <1>6 DEF DropRef
  <2>2. d \in Deploys /\ lock = p /\ c \in Candies /\ rec \in CandyRecord \cup {None} /\ job[p] \in Job
    BY <1>0, <1>a, <1>w, <1>l, <1>r, <2>1 DEF Active, SharedTyped
  <2>3. deploys' = deploys /\ lock' = lock /\ host' = host /\ stray' = stray /\ crashes' = crashes
        /\ whole' = [whole EXCEPT ![d] = {}]
    BY <1>6, SMTT(30) DEF DropRef
  <2>4. candy' \in [Candies -> CandyRecord \cup {None}]
    <3>1. CASE candy' = candy
      BY <1>0, <3>1 DEF SharedTyped
    <3>2. CASE rec # None /\ candy' = [candy EXCEPT ![c].deployedBy = @ \ {d}]
      <4>1. [rec EXCEPT !.deployedBy = @ \ {d}] \in CandyRecord
        BY <2>2, <3>2 DEF CandyRecord
      <4>2. candy' = [candy EXCEPT ![c] = [rec EXCEPT !.deployedBy = @ \ {d}]]
        BY <1>0, <3>2 DEF SharedTyped
      <4> QED BY <1>0, <4>1, <4>2 DEF SharedTyped
    <3> QED BY <1>6, <3>1, <3>2 DEF DropRef
  <2>5. SharedTyped'
    BY <1>0, <2>3, <2>4 DEF SharedTyped
  <2>6. CASE Go(p, "drop", job[p])
    <3>1. Moves(p, "drop", job[p])
      BY <2>6 DEF Moves, Go
    <3> QED BY <1>a, <1>r, <2>1, <2>2, <2>3, <2>5, <3>1, TypedStep DEF Locks
  <2>7. CASE rec # None /\ Go(p, "undo", [job[p] EXCEPT !.ops = Replay(rec.ops)])
    <3> DEFINE j == [job[p] EXCEPT !.ops = Replay(rec.ops)]
    <3>1. rec.ops \in Seq(ReverseOp)
      BY <2>2, <2>7 DEF CandyRecord
    <3>2. Replay(rec.ops) \in Seq(ReverseOp)
      BY <3>1, SeqBack DEF Replay
    <3>3. j \in Job /\ j.who = d
      BY <2>2, <3>2 DEF Job
    <3>4. Moves(p, "undo", j)
      BY <2>7 DEF Moves, Go
    <3> HIDE DEF j
    <3> QED BY <1>a, <1>r, <2>1, <2>2, <2>3, <2>5, <3>3, <3>4, TypedStep DEF Locks
  <2> QED BY <1>6, <2>6, <2>7 DEF DropRef
<1>7. CASE UndoOp(p)
  <2> DEFINE op == Head(job[p].ops)
             j == [job[p] EXCEPT !.ops = Tail(@)]
  <2>1. /\ pc[p] = "undo" /\ job[p].ops # <<>> /\ Moves(p, "undo", j)
        /\ deploys' = deploys /\ lock' = lock /\ candy' = candy /\ whole' = whole /\ crashes' = crashes
    BY <1>7 DEF UndoOp, Moves, Go, ledger
  <2>2. /\ job[p].who \in Deploys /\ lock = p /\ deploys[job[p].who] # None
        /\ job[p] \in Job /\ job[p].ops \in Seq(ReverseOp)
    BY <1>0, <1>a, <1>w, <1>l, <1>r, <2>1 DEF Active, Job
  <2>3. Tail(job[p].ops) \in Seq(ReverseOp) /\ op \in ReverseOp
    BY <2>1, <2>2
  <2>4. j \in Job /\ j.who = job[p].who
    BY <2>2, <2>3 DEF Job
  <2>5. op.of \in Things
    BY <2>3 DEF ReverseOp, Things
  <2>6. \/ host' = Undo1(op, host) /\ stray' = stray \ {op.of}
        \/ host' = host /\ stray' = stray \cup {op.of}
    BY <1>7 DEF UndoOp
  <2> HIDE DEF op, j
  <2>7. SharedTyped'
    BY <1>0, <2>1, <2>5, <2>6 DEF SharedTyped, Undo1
  <2> QED BY <1>a, <2>1, <2>2, <2>4, <2>7, TypedStep DEF Locks
<1>8. CASE ForgetCandy(p)
  <2>1. /\ pc[p] = "undo" /\ Moves(p, "drop", job[p]) /\ deploys' = deploys /\ lock' = lock
        /\ host' = host \ {Envd[deploys[job[p].who]]} /\ candy' = [candy EXCEPT ![deploys[job[p].who]] = None]
        /\ stray' = stray /\ whole' = whole /\ crashes' = crashes
    BY <1>8 DEF ForgetCandy, Moves, Go
  <2>2. job[p].who \in Deploys /\ lock = p /\ deploys[job[p].who] # None /\ job[p] \in Job
    BY <1>0, <1>a, <1>w, <1>l, <1>r, <2>1 DEF Active
  <2>3. SharedTyped'
    BY <1>0, <2>1 DEF SharedTyped
  <2> QED BY <1>a, <2>1, <2>2, <2>3, TypedStep DEF Locks
<1>9. CASE ForgetDeploy(p)
  <2> DEFINE d == job[p].who
  <2>1. /\ pc[p] = "drop" /\ deploys' = [deploys EXCEPT ![d] = None] /\ stray' = stray \cup ({d} \cap Lifecycle)
        /\ host' = host /\ candy' = candy /\ whole' = whole /\ crashes' = crashes
    BY <1>9 DEF ForgetDeploy
  <2>2. d \in Deploys /\ lock = p /\ job[p] \in Job
    BY <1>0, <1>a, <1>w, <1>l, <2>1 DEF Active
  <2>3. SharedTyped'
    BY <1>0, <2>1 DEF SharedTyped, Things
  <2>4. CASE Finish(p)
    BY <2>2, <2>3, <2>4, TypedFinish
  <2>5. CASE Go(p, "post", job[p]) /\ UNCHANGED lock
    <3>1. Moves(p, "post", job[p])
      BY <2>5 DEF Moves, Go
    <3> QED BY <1>a, <2>2, <2>3, <2>5, <3>1, TypedStep DEF Locks
  <2> QED BY <1>9, <2>4, <2>5 DEF ForgetDeploy
<1>10. CASE PostTeardown(p)
  <2>1. SharedTyped' /\ deploys' = deploys /\ Finish(p)
    BY <1>0, <1>10 DEF PostTeardown, SharedTyped, ledger
  <2> QED BY <2>1, TypedFinish
<1> QED BY <1>1, <1>2, <1>3, <1>4, <1>5, <1>6, <1>7, <1>8, <1>9, <1>10 DEF DelStep

LEMMA TypedCrash ==
  ASSUME Typed, NEW p \in AllProcs, Crash(p)
  PROVE  Typed'
<1>1. PICK S \in SUBSET InHand(p) : Put(S)
  BY DEF Crash, BreakOff
<1>2. ledger' = ledger /\ whole' = whole /\ Finish(p) /\ deploys' = deploys
  BY DEF Crash, BreakOff, ledger
<1>3. crashes' \in 0..MaxCrashes
  BY LedgerAssumption DEF Crash, Typed, TypeOK
<1> QED BY <1>1, <1>2, <1>3, PutTyped, TypedFinish

LEMMA InitTyped == Init => Typed
<1> SUFFICES ASSUME Init PROVE Typed
  OBVIOUS
<1>1. "new" \notin AddPCs \cup DelPCs
  BY DEF AddPCs, DelPCs
<1>2. TypeOK
  BY IdleJob, LedgerAssumption DEF Init, TypeOK, Things
<1>3. Held
  <2>1. \A p \in AllProcs : pc[p] = "new"
    BY DEF Init
  <2> QED BY <1>1, <2>1 DEF Held, Active, DelPCs
<1> QED BY <1>2, <1>3 DEF Typed

LEMMA StutterTyped == Typed /\ UNCHANGED vars => Typed'
BY DEF Typed, TypeOK, Held, Active, vars, Things

LEMMA NextTyped == Typed /\ [Next]_vars => Typed'
<1>1. \A p \in Procs : p \in AllProcs
  BY DEF AllProcs
<1> QED BY <1>1, StutterTyped, TypedAdd, TypedDel, TypedCrash DEF Next

\* The records, the sessions and the venue have the types they are declared with.
THEOREM TypeCorrect == Spec => []TypeOK
<1>1. Typed => TypeOK
  BY DEF Typed
<1> QED BY <1>1, InitTyped, NextTyped, PTL DEF Spec

-----------------------------------------------------------------------------
(* The invariant.                                                          *)

\* What the plans behind a candy record leave on a venue.
Owned(c) ==
  {x \in Files \cup Units :
     \E d \in Deploys : CandyOf[d] = c /\ \E plan \in Plans[d] : x \in Leaves(plan)}

\* Every file belongs to one candy record: all plans behind it leave the same, no other
\* record has any of it, and members have no members.
Uniform ==
  /\ \A d \in Deploys : \A plan \in Plans[d] : Leaves(plan) = Owned(CandyOf[d])
  /\ \A c, e \in Candies : c # e => Owned(c) \cap Owned(e) = {}
  /\ \A c \in Candies : Envd[c] \in Owned(c) \cup {None}
  /\ \A d \in Deploys : \A m \in Members[d] : Members[m] = {}

\* No session works on the record of a `bundle add` that is under way.
Apart ==
  \A p, q \in AllProcs :
    p # q /\ pc[p] \in AddPCs /\ Active(q) => Touches(job[p].who) \cap Touches(job[q].who) = {}

\* A candy record undoes all that is its own, for deployments of its own.
RecordSound(c) ==
  candy[c] # None =>
    /\ Undoes(candy[c].ops) = Owned(c) /\ Listed(candy[c].ops)
    /\ candy[c].deployedBy # {} /\ \A d \in candy[c].deployedBy : CandyOf[d] = c

\* A deployment that was recorded is whole and named by its candy record.
DeploySound(d) ==
  /\ deploys[d] # None => deploys[d] = CandyOf[d]
  /\ whole[d] # {} => candy[CandyOf[d]] # None /\ d \in candy[CandyOf[d]].deployedBy
  /\ whole[d] \subseteq host \cap (Owned(CandyOf[d]) \cup ({d} \cap Lifecycle))

\* What an add has collected undoes what it has done, what is left of its plan the rest,
\* and the record it read is still the one on disk.
Adding(p) ==
  /\ Undoes(job[p].ops) \cup Leaves(job[p].plan) = Owned(CandyOf[job[p].who])
  /\ Listed(job[p].ops) /\ Undoes(job[p].ops) \subseteq host
  /\ pc[p] # "prepare" => {job[p].who} \cap Lifecycle \subseteq host
  /\ pc[p] = "write" => job[p].plan = <<>> /\ job[p].mem = candy[CandyOf[job[p].who]]
  /\ pc[p] = "deploy" => /\ candy[CandyOf[job[p].who]] # None
                         /\ job[p].who \in candy[CandyOf[job[p].who]].deployedBy

\* While a teardown runs the operations, no deployment counts on the record any more, and
\* what is left of its things is still to be undone or was reported.
Removing(p) ==
  /\ job[p].todo \subseteq Members[job[p].who]
  /\ pc[p] \in {"undo", "drop", "post"} => whole[job[p].who] = {}
  /\ pc[p] = "undo" =>
       /\ candy[CandyOf[job[p].who]] # None
       /\ Backed(job[p].ops) /\ Within(job[p].ops, Owned(CandyOf[job[p].who]))
       /\ \A d \in Deploys : CandyOf[d] = CandyOf[job[p].who] => whole[d] = {}
       /\ host \cap Owned(CandyOf[job[p].who]) \subseteq stray \cup Undoes(job[p].ops)

SessionSound(p) == (pc[p] \in AddPCs => Adding(p)) /\ (pc[p] \in DelPCs => Removing(p))

\* A record leads to x, or nobody promised to undo it.
Found(x) ==
  \/ x \in Base \cup stray
  \/ \E c \in Candies : x \in Owned(c) /\ candy[c] # None
  \/ x \in Lifecycle /\ deploys[x] # None

Safe ==
  /\ Typed /\ Apart
  /\ \A c \in Candies : RecordSound(c)
  /\ \A d \in Deploys : DeploySound(d)
  /\ \A p \in AllProcs : SessionSound(p)
  /\ \A x \in host : Found(x)

-----------------------------------------------------------------------------
(* What a step cannot disturb.                                             *)

\* Only the record c, the deployment d and what belongs to them change.
Local(d, c) ==
  /\ \A e \in Candies : e # c => candy'[e] = candy[e]
  /\ \A e \in Deploys : e # d => deploys'[e] = deploys[e] /\ whole'[e] = whole[e]
  /\ \A x : x \notin Owned(c) \cup {d} => (x \in host' <=> x \in host) /\ (x \in stray' <=> x \in stray)

Quiet == host' = host /\ candy' = candy /\ deploys' = deploys /\ stray' = stray /\ whole' = whole

LEMMA OwnedApart ==
  /\ \A c, d : d \in Deploys => d \notin Owned(c)
  /\ \A c : None \notin Owned(c)
BY LedgerAssumption DEF Owned

LEMMA QuietSession ==
  ASSUME NEW q \in AllProcs, SessionSound(q), Quiet, pc'[q] = pc[q], job'[q] = job[q]
  PROVE  SessionSound(q)'
BY DEF SessionSound, Adding, Removing, Quiet

LEMMA QuietRest ==
  ASSUME Safe, Quiet
  PROVE  /\ \A c \in Candies : RecordSound(c)'
         /\ \A d \in Deploys : DeploySound(d)'
         /\ \A x \in host' : Found(x)'
BY DEF Safe, Quiet, RecordSound, DeploySound, Found

\* A session that is at work on another record.
LEMMA ApartSession ==
  ASSUME Uniform, Safe, NEW d \in Deploys, NEW q \in AllProcs, Active(q),
         job[q].who # d, CandyOf[job[q].who] # CandyOf[d], Local(d, CandyOf[d]),
         pc'[q] = pc[q], job'[q] = job[q]
  PROVE  SessionSound(q)'
<1> DEFINE w == job[q].who
           c == CandyOf[w]
<1>1. w \in Deploys /\ c \in Candies /\ CandyOf[d] \in Candies
  BY LedgerAssumption DEF Safe, Typed, Held
<1>2. candy'[c] = candy[c]
  BY <1>1 DEF Local
<1>3. \A x : x \in Owned(c) \cup {w} => (x \in host' <=> x \in host) /\ (x \in stray' <=> x \in stray)
  <2> SUFFICES ASSUME NEW x, x \in Owned(c) \cup {w} PROVE x \notin Owned(CandyOf[d]) \cup {d}
    BY DEF Local
  <2> QED BY <1>1, OwnedApart DEF Uniform
<1>4. \A e \in Deploys : e = w \/ CandyOf[e] = c => whole'[e] = whole[e]
  BY DEF Local
<1>5. SessionSound(q)
  BY DEF Safe
<1>6. pc[q] \in AddPCs => Adding(q)'
  <2> SUFFICES ASSUME Adding(q) PROVE Adding(q)'
    BY <1>5 DEF SessionSound
  <2>1. Undoes(job[q].ops) \subseteq Owned(c)
    BY DEF Adding
  <2>2. Undoes(job[q].ops) \subseteq host' /\ (pc[q] # "prepare" => {w} \cap Lifecycle \subseteq host')
    BY <1>3, <2>1 DEF Adding
  <2> QED BY <1>2, <2>2 DEF Adding
<1>7. pc[q] \in DelPCs => Removing(q)'
  <2> SUFFICES ASSUME Removing(q) PROVE Removing(q)'
    BY <1>5 DEF SessionSound
  <2>1. pc[q] = "undo" => host' \cap Owned(c) \subseteq stray' \cup Undoes(job[q].ops)
    BY <1>3 DEF Removing
  <2>2. pc[q] = "undo" => \A e \in Deploys : CandyOf[e] = c => whole'[e] = {}
    BY <1>4 DEF Removing
  <2>3. pc[q] \in {"undo", "drop", "post"} => whole'[w] = {}
    BY <1>1, <1>4 DEF Removing
  <2> QED BY <1>2, <2>1, <2>2, <2>3 DEF Removing
<1> QED BY <1>6, <1>7 DEF SessionSound

\* The sessions that do not take the step: an add is apart from all, and past the lock
\* there is only one teardown.
LEMMA OtherSession ==
  ASSUME Uniform, Safe, NEW p \in AllProcs, NEW q \in AllProcs, q # p, Active(p),
         Local(job[p].who, CandyOf[job[p].who]), pc[p] \in AddPCs \/ lock = p \/ Quiet,
         pc'[q] = pc[q], job'[q] = job[q]
  PROVE  SessionSound(q)'
<1>1. CASE Quiet
  BY <1>1, QuietSession DEF Safe
<1>2. CASE ~Active(q)
  BY <1>2 DEF SessionSound, Active
<1>3. CASE Active(q) /\ (pc[p] \in AddPCs \/ pc[q] \in AddPCs)
  <2>1. job[p].who \in Deploys /\ job[q].who \in Deploys
    BY <1>3 DEF Safe, Typed, Held
  <2>2. Touches(job[p].who) \cap Touches(job[q].who) = {}
    BY <1>3 DEF Safe, Apart
  <2>3. CandyOf[job[p].who] \in Touches(job[p].who) /\ CandyOf[job[q].who] \in Touches(job[q].who)
    BY DEF Touches
  <2>4. CandyOf[job[q].who] # CandyOf[job[p].who] /\ job[q].who # job[p].who
    BY <2>2, <2>3
  <2> QED BY <1>3, <2>1, <2>4, ApartSession
<1>4. CASE lock = p /\ pc[q] \in DelPCs
  <2>1. pc[q] = "lock"
    BY <1>4 DEF Safe, Typed, Held
  <2>2. Removing(q) /\ "lock" \notin {"undo", "drop", "post"}
    BY <1>4 DEF Safe, SessionSound
  <2>3. Removing(q)'
    BY <2>1, <2>2 DEF Removing
  <2>4. "lock" \notin AddPCs
    BY DEF AddPCs
  <2> QED BY <2>1, <2>3, <2>4 DEF SessionSound
<1> QED BY <1>1, <1>2, <1>3, <1>4 DEF Active

\* What is left to show of a step of p that goes on with its session or ends it.
LEMMA StepSafe ==
  ASSUME Uniform, Safe, Typed', NEW p \in AllProcs, Active(p),
         NEW d, d = job[p].who, NEW c, c = CandyOf[d], Local(d, c),
         pc[p] \in AddPCs \/ lock = p \/ Quiet,
         NEW l, NEW j, Moves(p, l, j),
         l \in AddPCs => pc[p] \in AddPCs, l \in AddPCs \cup DelPCs => j.who = d,
         SessionSound(p)', RecordSound(c)',
         \A e \in Deploys : CandyOf[e] = c => DeploySound(e)',
         \A x \in host' : x \in Owned(c) \cup {d} => Found(x)'
  PROVE  Safe'
<1>0. pc \in [AllProcs -> Places] /\ job \in [AllProcs -> Job]
  BY DEF Safe, Typed, TypeOK, Places
<1>1. pc'[p] = l /\ job'[p] = j /\ \A q \in AllProcs : q # p => pc'[q] = pc[q] /\ job'[q] = job[q]
  BY <1>0 DEF Moves
<1>2. d \in Deploys /\ c \in Candies
  BY LedgerAssumption DEF Safe, Typed, Held
<1>3. Apart'
  <2> SUFFICES ASSUME NEW a \in AllProcs, NEW b \in AllProcs, a # b, pc'[a] \in AddPCs, pc'[b] \in AddPCs \cup DelPCs
               PROVE  Touches(job'[a].who) \cap Touches(job'[b].who) = {}
    BY DEF Apart, Active, Touches
  <2>1. pc[a] \in AddPCs /\ job'[a].who = job[a].who
    BY <1>1
  <2>2. Active(b) /\ job'[b].who = job[b].who
    BY <1>1 DEF Active
  <2> QED BY <2>1, <2>2 DEF Safe, Apart
<1>4. \A q \in AllProcs : SessionSound(q)'
  <2> SUFFICES ASSUME NEW q \in AllProcs, q # p PROVE SessionSound(q)'
    OBVIOUS
  <2> QED BY <1>1, OtherSession
<1>5. ASSUME NEW e \in Candies, e # c PROVE RecordSound(e)'
  BY <1>5 DEF Local, RecordSound, Safe
<1>6. ASSUME NEW e \in Deploys, CandyOf[e] # c PROVE DeploySound(e)'
  <2>1. e # d /\ CandyOf[e] \in Candies /\ DeploySound(e)
    BY <1>6, LedgerAssumption DEF Safe
  <2>2. deploys'[e] = deploys[e] /\ whole'[e] = whole[e] /\ candy'[CandyOf[e]] = candy[CandyOf[e]]
    BY <1>6, <2>1 DEF Local
  <2>3. \A x \in whole[e] : x \in host'
    <3> TAKE x \in whole[e]
    <3>1. x \in host /\ (x \in Owned(CandyOf[e]) \/ x = e)
      BY <2>1 DEF DeploySound
    <3>2. x \notin Owned(c) \cup {d}
      BY <1>2, <1>6, <2>1, <3>1, OwnedApart DEF Uniform
    <3> QED BY <3>1, <3>2 DEF Local
  <2> QED BY <2>1, <2>2, <2>3 DEF DeploySound
<1>7. ASSUME NEW x \in host', x \notin Owned(c) \cup {d} PROVE Found(x)'
  <2>1. x \in host /\ (x \in stray' <=> x \in stray)
    BY <1>7 DEF Local
  <2>2. Found(x)
    BY <2>1 DEF Safe
  <2>3. ASSUME NEW e \in Candies, x \in Owned(e), candy[e] # None PROVE candy'[e] # None
    BY <1>7, <2>3 DEF Local
  <2>4. ASSUME x \in Lifecycle, deploys[x] # None PROVE deploys'[x] # None
    BY <1>7, <2>4, LedgerAssumption DEF Local
  <2> QED BY <2>1, <2>2, <2>3, <2>4 DEF Found
<1> QED BY <1>3, <1>4, <1>5, <1>6, <1>7 DEF Safe

-----------------------------------------------------------------------------
(* The steps of a session.                                                 *)

LEMMA SessionFacts ==
  ASSUME Safe, NEW p \in AllProcs, Active(p)
  PROVE  /\ job[p].who \in Deploys /\ CandyOf[job[p].who] \in Candies /\ CandyOf[job[p].who] # None
         /\ job[p] \in Job /\ job[p].ops \in Seq(ReverseOp) /\ job[p].plan \in Seq(Step)
         /\ job[p].prior \in SUBSET Units
         /\ pc[p] \in AddPCs => Adding(p)
         /\ pc[p] \in DelPCs => Removing(p)
         /\ pc[p] \in DelPCs \ {"lock"} => lock = p
         /\ None \notin host
         /\ RecordSound(CandyOf[job[p].who])
<1>1. job[p] \in Job /\ job[p].who \in Deploys /\ host \subseteq Things
  BY DEF Safe, Typed, TypeOK, Held
<1>2. None \notin Things
  BY LedgerAssumption DEF Things
<1> QED BY <1>1, <1>2, LedgerAssumption DEF Job, Safe, SessionSound, Typed, Held

\* What comes to the venue with the next step belongs to the session.
LEMMA PutSafe ==
  ASSUME Uniform, Safe, NEW p \in AllProcs, Active(p), NEW S \in SUBSET InHand(p), Put(S),
         ledger' = ledger, whole' = whole
  PROVE  /\ Local(job[p].who, CandyOf[job[p].who]) /\ (pc[p] \in AddPCs \/ Quiet)
         /\ \A c \in Candies : RecordSound(c)'
         /\ \A d \in Deploys : DeploySound(d)'
         /\ \A x \in host' : Found(x)'
<1> DEFINE d == job[p].who
           c == CandyOf[d]
<1>1. d \in Deploys /\ c \in Candies /\ job[p].plan \in Seq(Step) /\ (pc[p] \in AddPCs => Adding(p))
  BY SessionFacts
<1>2. InHand(p) \subseteq Owned(c) \cup ({d} \cap Lifecycle)
  <2>1. ASSUME pc[p] = "walk", job[p].plan # <<>> PROVE Effect(Head(job[p].plan)) \subseteq Owned(c)
    <3>1. Leaves(job[p].plan) \subseteq Owned(c)
      BY <1>1, <2>1 DEF Adding, AddPCs
    <3> QED BY <1>1, <2>1, <3>1, LeavesTail
  <2> QED BY <2>1 DEF InHand
<1>3. host' = host \cup S /\ stray' = stray \cup {x \in S : ~Covered(x)} /\ candy' = candy /\ deploys' = deploys
  BY DEF Put, ledger
<1>4. Local(d, c)
  BY <1>2, <1>3 DEF Local
<1>5. pc[p] \in AddPCs \/ Quiet
  <2> SUFFICES ASSUME pc[p] \notin AddPCs PROVE Quiet
    OBVIOUS
  <2>1. S = {}
    BY InHandThings DEF AddPCs, Safe
  <2> QED BY <1>3, <2>1 DEF Quiet
<1>6. \A e \in Candies : RecordSound(e)'
  BY <1>3 DEF Safe, RecordSound
<1>7. \A e \in Deploys : DeploySound(e)'
  BY <1>3 DEF Safe, DeploySound
<1>8. ASSUME NEW x \in host' PROVE Found(x)'
  <2>1. CASE x \in host
    <3>1. Found(x)
      BY <2>1 DEF Safe
    <3> QED BY <1>3, <3>1 DEF Found
  <2>2. CASE x \in S /\ ~Covered(x)
    BY <1>3, <2>2 DEF Found
  <2>3. CASE x \in S /\ Covered(x)
    <3>1. PICK e \in Deploys : deploys[e] # None /\
            (x = e \/ (candy[deploys[e]] # None /\ x \in Undoes(candy[deploys[e]].ops)))
      BY <2>3 DEF Covered
    <3>2. deploys[e] \in Candies
      BY <3>1, LedgerAssumption DEF Safe, Typed, TypeOK
    <3>3. CASE x = e
      <4>1. x \in Lifecycle
        BY <1>2, <2>3, <3>3, OwnedApart
      <4> QED BY <1>3, <3>1, <3>3, <4>1 DEF Found
    <3>4. CASE candy[deploys[e]] # None /\ x \in Undoes(candy[deploys[e]].ops)
      BY <1>3, <3>2, <3>4 DEF Found, Safe, RecordSound
    <3> QED BY <3>1, <3>3, <3>4
  <2> QED BY <1>3, <2>1, <2>2, <2>3
<1> QED BY <1>4, <1>5, <1>6, <1>7, <1>8

\* A session that breaks off.
LEMMA BreakOffSafe ==
  ASSUME Uniform, Safe, Typed', NEW p \in AllProcs, Active(p), BreakOff(p)
  PROVE  Safe'
<1>1. PICK S \in SUBSET InHand(p) : Put(S)
  BY DEF BreakOff
<1>2. ledger' = ledger /\ whole' = whole /\ Moves(p, "done", Idle)
  BY DEF BreakOff, Finish, Moves
<1>3. /\ Local(job[p].who, CandyOf[job[p].who]) /\ (pc[p] \in AddPCs \/ Quiet)
      /\ \A c \in Candies : RecordSound(c)'
      /\ \A d \in Deploys : DeploySound(d)'
      /\ \A x \in host' : Found(x)'
  BY <1>1, <1>2, PutSafe
<1>4. "done" \notin AddPCs \cup DelPCs
  BY DEF AddPCs, DelPCs
<1>5. SessionSound(p)'
  <2>1. pc' = [pc EXCEPT ![p] = "done"] /\ pc \in [AllProcs -> Places]
    BY <1>2 DEF Moves, Safe, Typed, TypeOK, Places
  <2>2. pc'[p] = "done"
    BY <2>1
  <2> QED BY <1>4, <2>2 DEF SessionSound
<1>6. CandyOf[job[p].who] \in Candies
  BY SessionFacts
<1> QED BY <1>2, <1>3, <1>4, <1>5, <1>6, StepSafe

LEMMA PrepareSafe ==
  ASSUME Uniform, Safe, Typed', NEW p \in AllProcs, Prepare(p)
  PROVE  Safe'
<1> DEFINE d == job[p].who
           c == CandyOf[d]
           j == [job[p] EXCEPT !.prior = PriorEnabled(host')]
<1>1. pc[p] = "prepare" /\ Active(p) /\ "walk" \in AddPCs /\ "walk" \notin DelPCs
  BY DEF Prepare, Active, AddPCs, DelPCs
<1>2. d \in Deploys /\ c \in Candies /\ job[p] \in Job /\ Adding(p)
  BY <1>1, SessionFacts DEF AddPCs
<1>3. /\ Local(d, c)
      /\ \A e \in Candies : RecordSound(e)'
      /\ \A e \in Deploys : DeploySound(e)'
      /\ \A x \in host' : Found(x)'
  BY <1>1, PutSafe DEF Prepare
<1>4. Moves(p, "walk", j)
  BY DEF Prepare, Moves, Go
<1>5. pc'[p] = "walk" /\ job'[p] = j
  BY <1>4 DEF Moves, Safe, Typed, TypeOK
<1>6. j.who = d /\ j.ops = job[p].ops /\ j.plan = job[p].plan
  BY <1>2 DEF Job
<1>7. host' = host \cup ({d} \cap Lifecycle)
  BY <1>1 DEF Prepare, Put, InHand
<1> HIDE DEF j
<1>8. Adding(p)'
  BY <1>2, <1>5, <1>6, <1>7 DEF Adding
<1>9. SessionSound(p)'
  BY <1>1, <1>5, <1>8 DEF SessionSound
<1>10. pc[p] \in AddPCs
  BY <1>1 DEF AddPCs
<1> QED BY <1>1, <1>2, <1>3, <1>4, <1>6, <1>9, <1>10, StepSafe

LEMMA WalkSafe ==
  ASSUME Uniform, Safe, Typed', NEW p \in AllProcs, Walk(p)
  PROVE  Safe'
<1> DEFINE d == job[p].who
           c == CandyOf[d]
           step == Head(job[p].plan)
           more == ReverseOps(step, job[p].prior)
           j == [job[p] EXCEPT !.plan = Tail(@), !.ops = @ \o more]
<1>1. /\ pc[p] = "walk" /\ Active(p) /\ job[p].plan # <<>> /\ pc[p] \in AddPCs
      /\ "walk" \in AddPCs /\ "walk" \notin DelPCs
  BY DEF Walk, Active, AddPCs, DelPCs
<1>2. /\ d \in Deploys /\ c \in Candies /\ job[p] \in Job /\ Adding(p)
      /\ job[p].ops \in Seq(ReverseOp) /\ job[p].plan \in Seq(Step) /\ job[p].prior \in SUBSET Units
  BY <1>1, SessionFacts
<1>3. /\ Local(d, c)
      /\ \A e \in Candies : RecordSound(e)'
      /\ \A e \in Deploys : DeploySound(e)'
      /\ \A x \in host' : Found(x)'
  BY <1>1, PutSafe DEF Walk
<1>4. Moves(p, "walk", j)
  BY DEF Walk, Moves, Go
<1>5. pc'[p] = "walk" /\ job'[p] = j
  BY <1>4 DEF Moves, Safe, Typed, TypeOK
<1>6. j.who = d /\ j.ops = job[p].ops \o more /\ j.plan = Tail(job[p].plan)
  BY <1>2 DEF Job
<1>7. host' = host \cup Effect(step) /\ candy' = candy
  BY <1>1 DEF Walk, Put, InHand, ledger
<1>8. step \in Step
  BY <1>1, <1>2
<1>9. more \in Seq(ReverseOp) /\ Undoes(more) = Effect(step) /\ Listed(more)
  BY <1>2, <1>8, StepReverse
<1>10. Leaves(job[p].plan) = Effect(step) \cup Leaves(Tail(job[p].plan))
  BY <1>1, <1>2, LeavesTail
<1> HIDE DEF j, more, step
<1>11. Listed(job[p].ops \o more) /\ Undoes(job[p].ops \o more) = Undoes(job[p].ops) \cup Effect(step)
  BY <1>2, <1>9, JoinListed DEF Adding
<1>12. Adding(p)'
  <2>1. Undoes(j.ops) \cup Leaves(j.plan) = Owned(c)
    BY <1>2, <1>6, <1>10, <1>11 DEF Adding
  <2>2. Listed(j.ops) /\ Undoes(j.ops) \subseteq host'
    BY <1>2, <1>6, <1>7, <1>11 DEF Adding
  <2>3. {d} \cap Lifecycle \subseteq host'
    BY <1>1, <1>2, <1>7 DEF Adding
  <2> QED BY <1>5, <1>6, <2>1, <2>2, <2>3 DEF Adding
<1>13. SessionSound(p)'
  BY <1>1, <1>5, <1>12 DEF SessionSound
<1> QED BY <1>1, <1>2, <1>3, <1>4, <1>6, <1>13, StepSafe

LEMMA RecordReadSafe ==
  ASSUME Uniform, Safe, Typed', NEW p \in AllProcs, RecordRead(p)
  PROVE  Safe'
<1> DEFINE d == job[p].who
           c == CandyOf[d]
           j == [job[p] EXCEPT !.mem = candy[c], !.prior = {}]
<1>1. /\ pc[p] = "walk" /\ Active(p) /\ job[p].plan = <<>> /\ pc[p] \in AddPCs
      /\ "write" \in AddPCs /\ "write" \notin DelPCs
  BY DEF RecordRead, Active, AddPCs, DelPCs
<1>2. d \in Deploys /\ c \in Candies /\ job[p] \in Job /\ Adding(p)
  BY <1>1, SessionFacts
<1>3. Moves(p, "write", j) /\ Quiet
  BY DEF RecordRead, Moves, Go, Quiet, ledger
<1>4. pc'[p] = "write" /\ job'[p] = j
  BY <1>3 DEF Moves, Safe, Typed, TypeOK
<1>5. j.who = d /\ j.ops = job[p].ops /\ j.plan = <<>> /\ j.mem = candy[c]
  BY <1>1, <1>2 DEF Job
<1> HIDE DEF j
<1>6. Adding(p)'
  BY <1>1, <1>2, <1>3, <1>4, <1>5 DEF Adding, Quiet
<1>7. SessionSound(p)'
  BY <1>1, <1>4, <1>6 DEF SessionSound
<1>8. Local(d, c)
  BY <1>3 DEF Local, Quiet
<1> QED BY <1>1, <1>2, <1>3, <1>5, <1>7, <1>8, QuietRest, StepSafe

LEMMA RecordWriteSafe ==
  ASSUME Uniform, Safe, Typed', NEW p \in AllProcs, RecordWrite(p)
  PROVE  Safe'
<1> DEFINE d == job[p].who
           c == CandyOf[d]
           j == [job[p] EXCEPT !.mem = None]
           old == IF candy[c] = None THEN {} ELSE candy[c].deployedBy
           rec == [deployedBy |-> old \cup {d}, ops |-> job[p].ops]
<1>1. /\ pc[p] = "write" /\ Active(p) /\ pc[p] \in AddPCs
      /\ "deploy" \in AddPCs /\ "deploy" \notin DelPCs
  BY DEF RecordWrite, Active, AddPCs, DelPCs
<1>2. d \in Deploys /\ c \in Candies /\ job[p] \in Job /\ Adding(p) /\ job[p].ops \in Seq(ReverseOp)
      /\ RecordSound(c)
  BY <1>1, SessionFacts
<1>3. Moves(p, "deploy", j) /\ host' = host /\ deploys' = deploys /\ stray' = stray /\ whole' = whole
  BY DEF RecordWrite, Moves, Go
<1>4. pc'[p] = "deploy" /\ job'[p] = j
  BY <1>3 DEF Moves, Safe, Typed, TypeOK
<1>5. j.who = d /\ j.ops = job[p].ops /\ j.plan = job[p].plan
  BY <1>2 DEF Job
<1>6. job[p].mem = candy[c] /\ job[p].plan = <<>>
  BY <1>1, <1>2 DEF Adding
<1>7. candy' = [candy EXCEPT ![c] = rec]
  BY <1>6 DEF RecordWrite
<1>8. Undoes(job[p].ops) = Owned(c)
  <2>1. Leaves(<<>>) = {}
    BY DEF Leaves
  <2> QED BY <1>2, <1>6, <2>1 DEF Adding
<1>9. rec.deployedBy = old \cup {d} /\ rec.ops = job[p].ops /\ rec # None
  <2>1. rec \in CandyRecord
    <3>1. candy[c] \in CandyRecord \cup {None}
      BY <1>2 DEF Safe, Typed, TypeOK
    <3> QED BY <1>2, <3>1 DEF CandyRecord
  <2> QED BY <2>1, LedgerAssumption
<1> HIDE DEF j, rec
<1>10. candy'[c] = rec /\ \A e \in Candies : e # c => candy'[e] = candy[e]
  BY <1>2, <1>7 DEF Safe, Typed, TypeOK
<1>11. Adding(p)'
  BY <1>1, <1>2, <1>3, <1>4, <1>5, <1>9, <1>10 DEF Adding
<1>12. SessionSound(p)'
  BY <1>1, <1>4, <1>11 DEF SessionSound
<1>13. Local(d, c)
  BY <1>3, <1>10 DEF Local
<1>14. ASSUME NEW e \in Candies, e = c PROVE RecordSound(e)'
  BY <1>14, <1>2, <1>8, <1>9, <1>10 DEF Adding, RecordSound
<1>15. ASSUME NEW e \in Deploys, CandyOf[e] = c PROVE DeploySound(e)'
  <2>1. DeploySound(e)
    BY DEF Safe
  <2>2. whole[e] # {} => e \in rec.deployedBy
    BY <1>9, <1>15, <2>1 DEF DeploySound
  <2> QED BY <1>3, <1>9, <1>10, <1>15, <2>1, <2>2 DEF DeploySound
<1>16. ASSUME NEW x \in host' PROVE Found(x)'
  <2>1. Found(x)
    BY <1>3 DEF Safe
  <2> QED BY <1>3, <1>9, <1>10, <2>1 DEF Found
<1> QED BY <1>1, <1>2, <1>3, <1>5, <1>12, <1>13, <1>14, <1>15, <1>16, StepSafe

LEMMA RecordDeploySafe ==
  ASSUME Uniform, Safe, Typed', NEW p \in AllProcs, RecordDeploy(p)
  PROVE  Safe'
<1> DEFINE d == job[p].who
           c == CandyOf[d]
           mine == Undoes(job[p].ops) \cup ({d} \cap Lifecycle)
<1>1. /\ pc[p] = "deploy" /\ Active(p) /\ pc[p] \in AddPCs
      /\ "done" \notin AddPCs \cup DelPCs
  BY DEF RecordDeploy, Active, AddPCs, DelPCs
<1>2. d \in Deploys /\ c \in Candies /\ c # None /\ Adding(p) /\ RecordSound(c)
  BY <1>1, SessionFacts
<1>3. Moves(p, "done", Idle)
  BY DEF RecordDeploy, Finish, Moves
<1>4. /\ host' = host /\ candy' = candy /\ deploys' = [deploys EXCEPT ![d] = c]
      /\ stray' = stray \ (Undoes(job[p].ops) \cup {d}) /\ whole' = [whole EXCEPT ![d] = mine]
  BY DEF RecordDeploy
<1>5. /\ deploys'[d] = c /\ \A e \in Deploys : e # d => deploys'[e] = deploys[e]
      /\ whole'[d] = mine /\ \A e \in Deploys : e # d => whole'[e] = whole[e]
  BY <1>2, <1>4 DEF Safe, Typed, TypeOK
<1>6. Undoes(job[p].ops) \subseteq Owned(c) /\ mine \subseteq host /\ candy[c] # None /\ d \in candy[c].deployedBy
  BY <1>1, <1>2 DEF Adding
<1>7. pc'[p] = "done"
  BY <1>3 DEF Moves, Safe, Typed, TypeOK
<1>8. SessionSound(p)'
  BY <1>1, <1>7 DEF SessionSound
<1>9. Local(d, c)
  BY <1>4, <1>5, <1>6 DEF Local
<1>10. ASSUME NEW e \in Candies, e = c PROVE RecordSound(e)'
  BY <1>10, <1>2, <1>4 DEF RecordSound
<1>11. ASSUME NEW e \in Deploys, CandyOf[e] = c PROVE DeploySound(e)'
  <2>1. CASE e = d
    BY <1>4, <1>5, <1>6, <2>1 DEF DeploySound
  <2>2. CASE e # d
    <3>1. DeploySound(e)
      BY DEF Safe
    <3> QED BY <1>4, <1>5, <2>2, <3>1 DEF DeploySound
  <2> QED BY <2>1, <2>2
<1>12. ASSUME NEW x \in host', x \in Owned(c) \cup {d} PROVE Found(x)'
  <2>1. CASE x \in Owned(c)
    BY <1>2, <1>4, <1>6, <2>1 DEF Found
  <2>2. CASE x = d
    <3>1. x \in Lifecycle
      BY <1>2, <1>4, <2>2, LedgerAssumption DEF Safe, Typed, TypeOK, Things
    <3> QED BY <1>2, <1>5, <2>2, <3>1 DEF Found
  <2> QED BY <1>12, <2>1, <2>2
<1> QED BY <1>1, <1>2, <1>3, <1>8, <1>9, <1>10, <1>11, <1>12, StepSafe

\* The places of a teardown, from the lock on.
LEMMA DelPlaces ==
  /\ DelPCs = {"lock", "members", "wait", "candy", "undo", "drop", "post"}
  /\ DelPCs \cap AddPCs = {} /\ "done" \notin AddPCs \cup DelPCs
BY DEF AddPCs, DelPCs

\* A teardown that goes on and leaves records and venue alone.
LEMMA QuietDel ==
  ASSUME Uniform, Safe, Typed', NEW p \in AllProcs, pc[p] \in DelPCs, Quiet,
         NEW l \in {"members", "candy", "done"}, NEW j, Moves(p, l, j),
         l \in DelPCs => j.who = job[p].who /\ j.todo = job[p].todo
  PROVE  Safe'
<1> DEFINE d == job[p].who
           c == CandyOf[d]
<1>1. Active(p) /\ l \notin AddPCs
  BY DelPlaces DEF Active
<1>2. d \in Deploys /\ c \in Candies /\ Removing(p)
  BY <1>1, SessionFacts
<1>3. pc'[p] = l /\ job'[p] = j
  BY DEF Moves, Safe, Typed, TypeOK
<1>4. l \in DelPCs => Removing(p)'
  BY <1>2, <1>3 DEF Removing
<1>5. SessionSound(p)'
  BY <1>1, <1>3, <1>4 DEF SessionSound
<1>6. Local(d, c)
  BY DEF Local, Quiet
<1> QED BY <1>1, <1>2, <1>5, <1>6, QuietRest, StepSafe

LEMMA WaitSafe ==
  ASSUME Uniform, Safe, Typed', NEW p \in AllProcs, LedgerLock(p) \/ ReapDel(p) \/ ReadDeploy(p)
  PROVE  Safe'
<1>0. job[p] \in Job
  BY DEF Safe, Typed, TypeOK
<1>1. CASE LedgerLock(p)
  <2>1. pc[p] \in DelPCs /\ Quiet /\ Moves(p, "members", job[p])
    BY <1>1 DEF LedgerLock, DelPCs, Quiet, Moves, Go, ledger
  <2> QED BY <2>1, QuietDel
<1>2. CASE ReapDel(p)
  <2> DEFINE j == [job[p] EXCEPT !.child = None]
  <2>1. pc[p] \in DelPCs /\ Quiet /\ Moves(p, "members", j)
    BY <1>2 DEF ReapDel, DelPCs, Quiet, Moves, Go, ledger
  <2>2. j.who = job[p].who /\ j.todo = job[p].todo
    BY <1>0 DEF Job
  <2> HIDE DEF j
  <2> QED BY <2>1, <2>2, QuietDel
<1>3. CASE ReadDeploy(p)
  <2>1. pc[p] \in DelPCs /\ Quiet
    BY <1>3 DEF ReadDeploy, DelPCs, Quiet, ledger
  <2>2. CASE Finish(p)
    <3>1. Moves(p, "done", Idle)
      BY <2>2 DEF Finish, Moves
    <3> QED BY <2>1, <3>1, DelPlaces, QuietDel
  <2>3. CASE Go(p, "candy", job[p])
    <3>1. Moves(p, "candy", job[p])
      BY <2>3 DEF Go, Moves
    <3> QED BY <2>1, <3>1, QuietDel
  <2> QED BY <1>3, <2>2, <2>3 DEF ReadDeploy
<1> QED BY <1>1, <1>2, <1>3

\* A teardown that works on its records names its candy by the deploy record.
LEMMA NamedCandy ==
  ASSUME Safe, NEW p \in AllProcs, pc[p] \in {"candy", "undo", "drop", "post"}
  PROVE  /\ Active(p) /\ pc[p] \in DelPCs /\ lock = p /\ Removing(p)
         /\ pc[p] # "post" => deploys[job[p].who] = CandyOf[job[p].who]
<1>1. Active(p) /\ pc[p] \in DelPCs \ {"lock"}
  BY DEF Active, DelPCs
<1>2. pc[p] # "post" => deploys[job[p].who] # None
  BY DEF Safe, Typed, Held
<1>3. job[p].who \in Deploys /\ lock = p /\ Removing(p)
  BY <1>1, SessionFacts, SMTT(30)
<1> QED BY <1>1, <1>2, <1>3 DEF Safe, DeploySound

LEMMA DropRefSafe ==
  ASSUME Uniform, Safe, Typed', NEW p \in AllProcs, DropRef(p)
  PROVE  Safe'
<1> DEFINE d == job[p].who
           c == CandyOf[d]
           rec == candy[c]
<1>1. pc[p] = "candy"
  BY DEF DropRef
<1>2. /\ Active(p) /\ pc[p] \in DelPCs /\ lock = p /\ Removing(p) /\ deploys[d] = c
      /\ d \in Deploys /\ c \in Candies /\ RecordSound(c) /\ job[p] \in Job
  BY <1>1, NamedCandy, SessionFacts
<1>3. host' = host /\ deploys' = deploys /\ stray' = stray /\ whole' = [whole EXCEPT ![d] = {}]
  BY DEF DropRef
<1>4. whole'[d] = {} /\ \A e \in Deploys : e # d => whole'[e] = whole[e]
  BY <1>2, <1>3 DEF Safe, Typed, TypeOK
<1>5. rec = None \/ (rec \in CandyRecord /\ rec # None)
  BY <1>2, SMTT(30) DEF Safe, Typed, TypeOK
<1>6. PICK l \in {"drop", "undo"}, j \in Job :
        /\ Moves(p, l, j) /\ j.who = d /\ j.todo = job[p].todo
        /\ l = "drop" => candy' = candy \/
             (rec # None /\ rec.deployedBy \ {d} # {} /\ candy' = [candy EXCEPT ![c].deployedBy = @ \ {d}])
        /\ l = "undo" => candy' = candy /\ rec # None /\ rec.deployedBy \ {d} = {} /\ j.ops = Replay(rec.ops)
  <2>1. CASE rec = None /\ Go(p, "drop", job[p]) /\ UNCHANGED candy
    BY <1>2, <2>1 DEF Moves, Go
  <2>2. CASE rec # None /\ OthersUse(p) /\ candy' = [candy EXCEPT ![c].deployedBy = @ \ {d}] /\ Go(p, "drop", job[p])
    BY <1>2, <2>2 DEF Moves, Go, OthersUse
  <2>3. CASE rec # None /\ ~OthersUse(p) /\ Go(p, "undo", [job[p] EXCEPT !.ops = Replay(rec.ops)]) /\ UNCHANGED candy
    <3> DEFINE k == [job[p] EXCEPT !.ops = Replay(rec.ops)]
    <3>1. rec.ops \in Seq(ReverseOp) /\ Listed(rec.ops)
      BY <1>2, <1>5, <2>3 DEF CandyRecord, RecordSound
    <3>2. Replay(rec.ops) \in Seq(ReverseOp)
      BY <3>1, ReplayBacked
    <3>3. k \in Job /\ k.who = d /\ k.todo = job[p].todo /\ k.ops = Replay(rec.ops)
      BY <1>2, <3>2 DEF Job
    <3>4. Moves(p, "undo", k)
      BY <2>3 DEF Moves, Go
    <3> HIDE DEF k
    <3> QED BY <1>2, <2>3, <3>3, <3>4 DEF OthersUse
  <2> QED BY <1>2, <2>1, <2>2, <2>3 DEF DropRef
<1>7. pc'[p] = l /\ job'[p] = j /\ l \in DelPCs /\ l \notin AddPCs
  BY <1>6 DEF Moves, Safe, Typed, TypeOK, DelPCs, AddPCs
<1>8. /\ \A e \in Candies : e # c => candy'[e] = candy[e]
      /\ candy'[c] = rec \/ (/\ rec # None /\ rec.deployedBy \ {d} # {} /\ candy'[c].ops = rec.ops
                             /\ candy'[c] \in CandyRecord /\ candy'[c].deployedBy = rec.deployedBy \ {d})
  <2>1. CASE candy' = candy
    BY <2>1, SMTT(30)
  <2>2. CASE rec # None /\ rec.deployedBy \ {d} # {} /\ candy' = [candy EXCEPT ![c].deployedBy = @ \ {d}]
    <3>1. candy' = [candy EXCEPT ![c] = [rec EXCEPT !.deployedBy = @ \ {d}]]
      BY <1>2, <2>2 DEF Safe, Typed, TypeOK
    <3> DEFINE new == [rec EXCEPT !.deployedBy = @ \ {d}]
    <3>2. new \in CandyRecord /\ new.ops = rec.ops /\ new.deployedBy = rec.deployedBy \ {d}
      BY <1>5, <2>2, SMTT(30) DEF CandyRecord
    <3> HIDE DEF new
    <3>3. candy'[c] = new /\ \A e \in Candies : e # c => candy'[e] = candy[e]
      BY <1>2, <3>1 DEF Safe, Typed, TypeOK, new
    <3> QED BY <2>2, <3>2, <3>3, SMTT(30)
  <2> QED BY <1>6, <2>1, <2>2
<1>9. RecordSound(c) => \A e \in Candies : e = c => RecordSound(e)'
  BY <1>8, LedgerAssumption DEF RecordSound
<1>10. ASSUME NEW e \in Deploys, CandyOf[e] = c PROVE DeploySound(e)'
  <2>1. DeploySound(e)
    BY DEF Safe
  <2>2. CASE e = d
    BY <1>3, <1>4, <2>1, <2>2 DEF DeploySound
  <2>3. CASE e # d
    <3>1. whole[e] # {} => candy'[c] # None /\ e \in candy'[c].deployedBy
      BY <1>8, <1>10, <2>1, <2>3, LedgerAssumption, SMTT(30) DEF DeploySound
    <3> QED BY <1>3, <1>4, <1>10, <2>1, <2>3, <3>1, SMTT(30) DEF DeploySound
  <2> QED BY <2>2, <2>3
<1>11. ASSUME NEW x \in host' PROVE Found(x)'
  <2>1. Found(x)
    BY <1>3, SMTT(30) DEF Safe
  <2> QED BY <1>3, <1>8, <2>1, LedgerAssumption DEF Found
<1>12. Local(d, c)
  BY <1>3, <1>4, <1>8 DEF Local
<1>13. Removing(p)'
  <2>1. CASE l = "drop"
    BY <1>2, <1>4, <1>6, <1>7, <2>1 DEF Removing
  <2>2. CASE l = "undo"
    <3>1. rec.ops \in Seq(ReverseOp) /\ Listed(rec.ops) /\ Undoes(rec.ops) = Owned(c)
      BY <1>2, <1>5, <1>6, <2>2 DEF CandyRecord, RecordSound
    <3>2. Backed(j.ops) /\ Within(j.ops, Owned(c)) /\ Undoes(j.ops) = Owned(c)
      BY <1>6, <2>2, <3>1, ReplayBacked
    <3>3. \A e \in Deploys : CandyOf[e] = c => whole'[e] = {}
      <4> TAKE e \in Deploys
      <4>1. e # d /\ CandyOf[e] = c => whole[e] = {}
        BY <1>6, <2>2 DEF Safe, DeploySound
      <4> QED BY <1>4, <4>1
    <3> QED BY <1>2, <1>4, <1>6, <1>7, <2>2, <3>2, <3>3, SMTT(30) DEF Removing
  <2> QED BY <2>1, <2>2, SMTT(30)
<1>14. SessionSound(p)'
  BY <1>7, <1>13 DEF SessionSound
<1> QED BY <1>2, <1>6, <1>7, <1>9, <1>10, <1>11, <1>12, <1>14, StepSafe, SMTT(30)

LEMMA UndoOpSafe ==
  ASSUME Uniform, Safe, Typed', NEW p \in AllProcs, UndoOp(p)
  PROVE  Safe'
<1> DEFINE d == job[p].who
           c == CandyOf[d]
           ops == job[p].ops
           op == Head(ops)
           j == [job[p] EXCEPT !.ops = Tail(@)]
<1>1. pc[p] = "undo" /\ ops # <<>> /\ "undo" \in DelPCs /\ "undo" \notin AddPCs
  BY DEF UndoOp, DelPCs, AddPCs
<1>2. /\ Active(p) /\ pc[p] \in DelPCs /\ lock = p /\ Removing(p)
      /\ d \in Deploys /\ c \in Candies /\ RecordSound(c) /\ job[p] \in Job /\ ops \in Seq(ReverseOp)
  BY <1>1, NamedCandy, SessionFacts
<1>3. Moves(p, "undo", j) /\ candy' = candy /\ deploys' = deploys /\ whole' = whole
  BY DEF UndoOp, Moves, Go, ledger
<1>4. \/ host' = Undo1(op, host) /\ stray' = stray \ {op.of}
      \/ host' = host /\ stray' = stray \cup {op.of}
  BY DEF UndoOp
<1>5. pc'[p] = "undo" /\ job'[p] = j
  BY <1>3 DEF Moves, Safe, Typed, TypeOK
<1>6. j.who = d /\ j.ops = Tail(ops) /\ j.todo = job[p].todo
  BY <1>2 DEF Job
<1>7. /\ candy[c] # None /\ Backed(ops) /\ Within(ops, Owned(c)) /\ whole[d] = {}
      /\ \A e \in Deploys : CandyOf[e] = c => whole[e] = {}
      /\ host \cap Owned(c) \subseteq stray \cup Undoes(ops)
  BY <1>1, <1>2 DEF Removing
<1>8. /\ Backed(Tail(ops)) /\ Within(Tail(ops), Owned(c)) /\ op.of \in Owned(c)
      /\ op.kind = "restore" => op.of \in Undoes(Tail(ops))
  BY <1>1, <1>2, <1>7, BackedTail
<1>9. /\ op.kind = "restore" => Undoes(ops) = Undoes(Tail(ops))
      /\ op.kind # "restore" => Undoes(ops) = {op.of} \cup Undoes(Tail(ops))
  BY <1>1, <1>2, UndoesTail
<1> HIDE DEF ops, op, j
<1>10. host' \cap Owned(c) \subseteq stray' \cup Undoes(Tail(ops))
  BY <1>4, <1>7, <1>8, <1>9 DEF Undo1
<1>11. Removing(p)'
  BY <1>2, <1>3, <1>5, <1>6, <1>7, <1>8, <1>10 DEF Removing
<1>12. SessionSound(p)'
  BY <1>1, <1>5, <1>11 DEF SessionSound
<1>13. Local(d, c)
  BY <1>3, <1>4, <1>8 DEF Local, Undo1
<1>14. ASSUME NEW e \in Candies, e = c PROVE RecordSound(e)'
  BY <1>2, <1>3, <1>14 DEF RecordSound
<1>15. ASSUME NEW e \in Deploys, CandyOf[e] = c PROVE DeploySound(e)'
  <2>1. DeploySound(e) /\ whole[e] = {}
    BY <1>7, <1>15 DEF Safe
  <2> QED BY <1>3, <2>1 DEF DeploySound
<1>16. ASSUME NEW x \in host', x \in Owned(c) \cup {d} PROVE Found(x)'
  <2>1. CASE x \in Owned(c)
    BY <1>2, <1>3, <1>7, <2>1 DEF Found
  <2>2. CASE x \notin Owned(c)
    <3>1. x \in host /\ (x \in stray' <=> x \in stray)
      BY <1>4, <1>8, <2>2 DEF Undo1
    <3>2. Found(x)
      BY <3>1 DEF Safe
    <3> QED BY <1>3, <3>1, <3>2 DEF Found
  <2> QED BY <2>1, <2>2
<1> QED BY <1>1, <1>2, <1>3, <1>6, <1>12, <1>13, <1>14, <1>15, <1>16, StepSafe

LEMMA ForgetCandySafe ==
  ASSUME Uniform, Safe, Typed', NEW p \in AllProcs, ForgetCandy(p)
  PROVE  Safe'
<1> DEFINE d == job[p].who
           c == CandyOf[d]
<1>1. pc[p] = "undo" /\ job[p].ops = <<>> /\ "drop" \in DelPCs /\ "drop" \notin AddPCs
  BY DEF ForgetCandy, DelPCs, AddPCs
<1>2. /\ Active(p) /\ pc[p] \in DelPCs /\ lock = p /\ Removing(p) /\ deploys[d] = c
      /\ d \in Deploys /\ c \in Candies /\ RecordSound(c) /\ None \notin host
  BY <1>1, NamedCandy, SessionFacts
<1>3. /\ Moves(p, "drop", job[p]) /\ deploys' = deploys /\ whole' = whole /\ stray' = stray
      /\ host' = host \ {Envd[c]} /\ candy' = [candy EXCEPT ![c] = None]
  BY <1>2 DEF ForgetCandy, Moves, Go
<1>4. pc'[p] = "drop" /\ job'[p] = job[p] /\ candy'[c] = None /\ \A e \in Candies : e # c => candy'[e] = candy[e]
  BY <1>2, <1>3 DEF Moves, Safe, Typed, TypeOK
<1>5. /\ \A e \in Deploys : CandyOf[e] = c => whole[e] = {}
      /\ host \cap Owned(c) \subseteq stray
  <2>1. Undoes(<<>>) = {}
    BY DEF Undoes
  <2> QED BY <1>1, <1>2, <2>1 DEF Removing
<1>6. Envd[c] \in Owned(c) \cup {None}
  BY <1>2 DEF Uniform
<1>7. Removing(p)'
  BY <1>1, <1>2, <1>3, <1>4 DEF Removing
<1>8. SessionSound(p)'
  BY <1>1, <1>4, <1>7 DEF SessionSound
<1>9. Local(d, c)
  BY <1>2, <1>3, <1>4, <1>6 DEF Local
<1>10. ASSUME NEW e \in Candies, e = c PROVE RecordSound(e)'
  BY <1>4, <1>10 DEF RecordSound
<1>11. ASSUME NEW e \in Deploys, CandyOf[e] = c PROVE DeploySound(e)'
  <2>1. DeploySound(e) /\ whole[e] = {}
    BY <1>5, <1>11 DEF Safe
  <2> QED BY <1>3, <2>1 DEF DeploySound
<1>12. ASSUME NEW x \in host', x \in Owned(c) \cup {d} PROVE Found(x)'
  <2>1. CASE x \in Owned(c)
    BY <1>3, <1>5, <2>1 DEF Found
  <2>2. CASE x = d
    <3>1. Found(x) /\ \A e \in Candies : x \notin Owned(e)
      BY <1>2, <1>3, <2>2, OwnedApart DEF Safe
    <3> QED BY <1>3, <3>1 DEF Found
  <2> QED BY <1>12, <2>1, <2>2
<1> QED BY <1>1, <1>2, <1>3, <1>8, <1>9, <1>10, <1>11, <1>12, StepSafe

LEMMA ForgetDeploySafe ==
  ASSUME Uniform, Safe, Typed', NEW p \in AllProcs, ForgetDeploy(p)
  PROVE  Safe'
<1> DEFINE d == job[p].who
           c == CandyOf[d]
<1>1. pc[p] = "drop"
  BY DEF ForgetDeploy
<1>2. /\ Active(p) /\ pc[p] \in DelPCs /\ lock = p /\ Removing(p)
      /\ d \in Deploys /\ c \in Candies /\ RecordSound(c) /\ job[p] \in Job
  BY <1>1, NamedCandy, SessionFacts
<1>3. /\ host' = host /\ candy' = candy /\ whole' = whole
      /\ stray' = stray \cup ({d} \cap Lifecycle) /\ deploys' = [deploys EXCEPT ![d] = None]
  BY DEF ForgetDeploy
<1>4. PICK l \in {"post", "done"}, j \in Job : Moves(p, l, j) /\ (l = "post" => j = job[p])
  BY <1>2, IdleJob DEF ForgetDeploy, Finish, Go, Moves
<1>5. pc'[p] = l /\ job'[p] = j /\ l \notin AddPCs /\ "done" \notin DelPCs
  BY <1>4 DEF Moves, Safe, Typed, TypeOK, AddPCs, DelPCs
<1>6. deploys'[d] = None /\ \A e \in Deploys : e # d => deploys'[e] = deploys[e]
  BY <1>2, <1>3 DEF Safe, Typed, TypeOK
<1>7. whole[d] = {}
  BY <1>1, <1>2 DEF Removing
<1>8. l = "post" => Removing(p)'
  BY <1>2, <1>3, <1>4, <1>5, <1>7 DEF Removing
<1>9. SessionSound(p)'
  BY <1>4, <1>5, <1>8 DEF SessionSound
<1>10. Local(d, c)
  BY <1>3, <1>6 DEF Local
<1>11. ASSUME NEW e \in Candies, e = c PROVE RecordSound(e)'
  BY <1>2, <1>3, <1>11 DEF RecordSound
<1>12. ASSUME NEW e \in Deploys, CandyOf[e] = c PROVE DeploySound(e)'
  <2>1. DeploySound(e)
    BY DEF Safe
  <2> QED BY <1>3, <1>6, <2>1 DEF DeploySound
<1>13. ASSUME NEW x \in host' PROVE Found(x)'
  <2>1. Found(x)
    BY <1>3 DEF Safe
  <2>2. x \in Lifecycle => x \in Deploys
    BY LedgerAssumption
  <2> QED BY <1>3, <1>6, <2>1, <2>2 DEF Found
<1>14. l \in AddPCs \cup DelPCs => j.who = d
  BY <1>4, <1>5
<1> QED BY <1>2, <1>4, <1>5, <1>9, <1>10, <1>11, <1>12, <1>13, <1>14, StepSafe

LEMMA PostTeardownSafe ==
  ASSUME Uniform, Safe, Typed', NEW p \in AllProcs, PostTeardown(p)
  PROVE  Safe'
<1> DEFINE d == job[p].who
           c == CandyOf[d]
<1>1. pc[p] = "post" /\ "done" \notin AddPCs \cup DelPCs
  BY DEF PostTeardown, AddPCs, DelPCs
<1>2. /\ Active(p) /\ lock = p /\ Removing(p)
      /\ d \in Deploys /\ c \in Candies /\ RecordSound(c)
  BY <1>1, NamedCandy, SessionFacts
<1>3. /\ Moves(p, "done", Idle) /\ candy' = candy /\ deploys' = deploys /\ whole' = whole
      /\ \/ host' = host \ {d} /\ stray' = stray \ {d}
         \/ host' = host /\ stray' = stray
  BY DEF PostTeardown, Finish, Moves, ledger
<1>4. pc'[p] = "done"
  BY <1>3 DEF Moves, Safe, Typed, TypeOK
<1>5. whole[d] = {}
  BY <1>1, <1>2 DEF Removing
<1>6. SessionSound(p)'
  BY <1>1, <1>4 DEF SessionSound
<1>7. Local(d, c)
  BY <1>3 DEF Local
<1>8. ASSUME NEW e \in Candies, e = c PROVE RecordSound(e)'
  BY <1>2, <1>3, <1>8 DEF RecordSound
<1>9. ASSUME NEW e \in Deploys, CandyOf[e] = c PROVE DeploySound(e)'
  <2>1. DeploySound(e)
    BY DEF Safe
  <2>2. d \notin whole[e]
    BY <1>2, <1>5, <2>1, OwnedApart DEF DeploySound
  <2> QED BY <1>3, <2>1, <2>2 DEF DeploySound
<1>10. ASSUME NEW x \in host' PROVE Found(x)'
  <2>1. Found(x) /\ (x \in stray' <=> x \in stray)
    BY <1>3 DEF Safe
  <2> QED BY <1>3, <2>1 DEF Found
<1> QED BY <1>1, <1>2, <1>3, <1>6, <1>7, <1>8, <1>9, <1>10, StepSafe

-----------------------------------------------------------------------------
(* Sessions that begin.                                                    *)

\* A session may begin beside another one when not both are adds, or work apart.
Beside(l, d, q) ==
  /\ l \in AddPCs /\ Active(q) => Touches(d) \cap Touches(job[q].who) = {}
  /\ pc[q] \in AddPCs => Touches(d) \cap Touches(job[q].who) = {}

LEMMA StartApart ==
  ASSUME Safe, NEW p \in AllProcs, pc[p] = "new", NEW d, NEW l, NEW j, Moves(p, l, j), j.who = d,
         \A q \in AllProcs : q # p => Beside(l, d, q)
  PROVE  Apart'
<1>1. pc'[p] = l /\ job'[p] = j /\ \A q \in AllProcs : q # p => pc'[q] = pc[q] /\ job'[q] = job[q]
  BY DEF Moves, Safe, Typed, TypeOK
<1> SUFFICES ASSUME NEW a \in AllProcs, NEW b \in AllProcs, a # b, pc'[a] \in AddPCs, pc'[b] \in AddPCs \cup DelPCs
             PROVE  Touches(job'[a].who) \cap Touches(job'[b].who) = {}
  BY DEF Apart, Active, Touches
<1>2. CASE a = p
  <2>1. Beside(l, d, b) /\ Active(b) /\ job'[b] = job[b]
    BY <1>1, <1>2 DEF Active
  <2> QED BY <1>1, <1>2, <2>1 DEF Beside
<1>3. CASE b = p
  <2>1. Beside(l, d, a) /\ pc[a] \in AddPCs /\ job'[a] = job[a]
    BY <1>1, <1>3
  <2> QED BY <1>1, <1>3, <2>1 DEF Beside
<1>4. CASE a # p /\ b # p
  <2>1. pc[a] \in AddPCs /\ Active(b) /\ job'[a] = job[a] /\ job'[b] = job[b]
    BY <1>1, <1>4 DEF Active
  <2> QED BY <2>1 DEF Safe, Apart
<1> QED BY <1>2, <1>3, <1>4

LEMMA StartAddSafe ==
  ASSUME ~Overlapping, Uniform, Safe, Typed', NEW p \in AllProcs, StartAdd(p)
  PROVE  Safe'
<1>1. PICK d \in Deploys : \E plan \in Plans[d] :
        /\ pc[p] = "new" /\ ~Working(Touches(d), AddPCs \cup DelPCs)
        /\ Go(p, "prepare", [Idle EXCEPT !.who = d, !.plan = plan])
        /\ UNCHANGED <<host, ledger, lock, stray, whole, crashes>>
  BY DEF StartAdd
<1>2. PICK plan \in Plans[d] :
        /\ pc[p] = "new" /\ ~Working(Touches(d), AddPCs \cup DelPCs)
        /\ Go(p, "prepare", [Idle EXCEPT !.who = d, !.plan = plan])
        /\ UNCHANGED <<host, ledger, lock, stray, whole, crashes>>
  BY <1>1
<1> DEFINE j == [Idle EXCEPT !.who = d, !.plan = plan]
<1>3. Quiet /\ Moves(p, "prepare", j)
  BY <1>2 DEF Quiet, ledger, Moves, Go
<1>4. j.who = d /\ j.plan = plan /\ j.ops = <<>>
  BY IdleJob DEF Job
<1>5. "prepare" \in AddPCs /\ "prepare" \notin DelPCs
  BY DEF AddPCs, DelPCs
<1> HIDE DEF j
<1>6. pc'[p] = "prepare" /\ job'[p] = j /\ \A q \in AllProcs : q # p => pc'[q] = pc[q] /\ job'[q] = job[q]
  BY <1>3 DEF Moves, Safe, Typed, TypeOK
<1>7. ASSUME NEW q \in AllProcs PROVE Beside("prepare", d, q)
  <2>1. Active(q) => Touches(job[q].who) \cap Touches(d) = {}
    BY <1>2 DEF Working, Active
  <2> QED BY <2>1 DEF Beside, Active
<1>8. Apart'
  BY <1>2, <1>3, <1>4, <1>7, StartApart
<1>9. Adding(p)'
  <2>1. Leaves(plan) = Owned(CandyOf[d])
    BY DEF Uniform
  <2>2. Undoes(<<>>) = {} /\ Listed(<<>>)
    BY DEF Undoes, Listed
  <2> QED BY <1>4, <1>6, <2>1, <2>2 DEF Adding
<1>10. \A q \in AllProcs : SessionSound(q)'
  <2> TAKE q \in AllProcs
  <2>1. CASE q = p
    BY <1>5, <1>6, <1>9, <2>1 DEF SessionSound
  <2>2. CASE q # p
    BY <1>3, <1>6, <2>2, QuietSession DEF Safe
  <2> QED BY <2>1, <2>2
<1> QED BY <1>3, <1>8, <1>10, QuietRest DEF Safe

LEMMA StartDelSafe ==
  ASSUME ~Overlapping, Uniform, Safe, Typed', NEW p \in AllProcs, StartDel(p)
  PROVE  Safe'
<1>1. PICK d \in Deploys, keep \in BOOLEAN :
        /\ pc[p] = "new" /\ ~Working(Touches(d), AddPCs)
        /\ Go(p, "lock", [Idle EXCEPT !.who = d, !.keep = keep, !.todo = Members[d]])
        /\ UNCHANGED <<host, ledger, lock, stray, whole, crashes>>
  BY DEF StartDel
<1> DEFINE j == [Idle EXCEPT !.who = d, !.keep = keep, !.todo = Members[d]]
<1>2. Quiet /\ Moves(p, "lock", j)
  BY <1>1 DEF Quiet, ledger, Moves, Go
<1>3. j.who = d /\ j.todo = Members[d]
  BY IdleJob DEF Job
<1>4. "lock" \in DelPCs /\ "lock" \notin AddPCs
  BY DEF AddPCs, DelPCs
<1> HIDE DEF j
<1>5. pc'[p] = "lock" /\ job'[p] = j /\ \A q \in AllProcs : q # p => pc'[q] = pc[q] /\ job'[q] = job[q]
  BY <1>2 DEF Moves, Safe, Typed, TypeOK
<1>6. ASSUME NEW q \in AllProcs PROVE Beside("lock", d, q)
  <2>1. pc[q] \in AddPCs => Touches(job[q].who) \cap Touches(d) = {}
    BY <1>1 DEF Working
  <2> QED BY <1>4, <2>1 DEF Beside
<1>7. Apart'
  BY <1>1, <1>2, <1>3, <1>6, StartApart
<1>8. Removing(p)'
  BY <1>3, <1>5 DEF Removing
<1>9. \A q \in AllProcs : SessionSound(q)'
  <2> TAKE q \in AllProcs
  <2>1. CASE q = p
    BY <1>4, <1>5, <1>8, <2>1 DEF SessionSound
  <2>2. CASE q # p
    BY <1>2, <1>5, <2>2, QuietSession DEF Safe
  <2> QED BY <2>1, <2>2
<1> QED BY <1>2, <1>7, <1>9, QuietRest DEF Safe

\* The teardown of a member works on a record its parent works on.
LEMMA SpawnDelSafe ==
  ASSUME Uniform, Safe, Typed', NEW p \in AllProcs, SpawnDel(p)
  PROVE  Safe'
<1>0. pc \in [AllProcs -> Places] /\ job \in [AllProcs -> Job]
  BY DEF Safe, Typed, TypeOK, Places
<1>1. PICK m \in job[p].todo, q \in Children :
        /\ pc[p] = "members" /\ pc[q] = "new"
        /\ pc' = [pc EXCEPT ![p] = "wait", ![q] = "lock"]
        /\ job' = [job EXCEPT ![p].todo = @ \ {m}, ![p].child = q,
                              ![q] = [Idle EXCEPT !.who = m, !.todo = Members[m]]]
        /\ UNCHANGED <<host, ledger, lock, stray, whole, crashes>>
  BY DEF SpawnDel
<1> DEFINE jp == [job[p] EXCEPT !.todo = @ \ {m}, !.child = q]
           jq == [Idle EXCEPT !.who = m, !.todo = Members[m]]
           d == job[p].who
<1>2. /\ Active(p) /\ pc[p] \in DelPCs /\ "wait" \in DelPCs /\ "lock" \in DelPCs
      /\ "wait" \notin AddPCs /\ "lock" \notin AddPCs /\ pc[p] \notin AddPCs
  BY <1>1 DEF Active, DelPCs, AddPCs
<1>3. d \in Deploys /\ Removing(p)
  BY <1>2, SessionFacts
<1>4. m \in Members[d] /\ Members[m] = {}
  BY <1>3 DEF Removing, Uniform
<1>5. q \in AllProcs /\ q # p /\ m \in Deploys
  BY <1>1, <1>3, <1>4, LedgerAssumption DEF AllProcs
<1>6. jp.who = d /\ jp.todo \subseteq Members[d]
  BY <1>0, <1>3 DEF Job, Removing
<1>7. jq.who = m /\ jq.todo = Members[m]
  BY IdleJob DEF Job
<1>8. job' = [job EXCEPT ![p] = jp, ![q] = jq]
  BY <1>0, <1>1, <1>5
<1> HIDE DEF jp, jq
<1>9. /\ pc'[p] = "wait" /\ pc'[q] = "lock" /\ job'[p] = jp /\ job'[q] = jq
      /\ \A r \in AllProcs : r # p /\ r # q => pc'[r] = pc[r] /\ job'[r] = job[r]
  BY <1>0, <1>1, <1>5, <1>8
<1>10. Quiet
  BY <1>1 DEF Quiet, ledger
<1>11. Touches(m) \subseteq Touches(d)
  BY <1>4 DEF Touches
<1>12. Apart'
  <2> SUFFICES ASSUME NEW a \in AllProcs, NEW b \in AllProcs, a # b, pc'[a] \in AddPCs, pc'[b] \in AddPCs \cup DelPCs
               PROVE  Touches(job'[a].who) \cap Touches(job'[b].who) = {}
    BY DEF Apart, Active, Touches
  <2>1. a # p /\ a # q /\ pc[a] \in AddPCs /\ job'[a] = job[a]
    BY <1>2, <1>9
  <2>2. Touches(job[a].who) \cap Touches(d) = {}
    BY <1>2, <2>1 DEF Safe, Apart
  <2>3. CASE b = p
    BY <1>6, <1>9, <2>1, <2>2, <2>3
  <2>4. CASE b = q
    BY <1>7, <1>9, <1>11, <2>1, <2>2, <2>4
  <2>5. CASE b # p /\ b # q
    <3>1. Active(b) /\ job'[b] = job[b]
      BY <1>9, <2>5 DEF Active
    <3> QED BY <2>1, <3>1 DEF Safe, Apart
  <2> QED BY <2>3, <2>4, <2>5
<1>13. Removing(p)' /\ Removing(q)'
  BY <1>6, <1>7, <1>9 DEF Removing
<1>14. \A r \in AllProcs : SessionSound(r)'
  <2> TAKE r \in AllProcs
  <2>1. CASE r = p \/ r = q
    BY <1>2, <1>9, <1>13, <2>1 DEF SessionSound
  <2>2. CASE r # p /\ r # q
    BY <1>9, <1>10, <2>2, QuietSession DEF Safe
  <2> QED BY <2>1, <2>2
<1> QED BY <1>10, <1>12, <1>14, QuietRest DEF Safe

-----------------------------------------------------------------------------
(* The theorems.                                                           *)

LEMMA InitSafe == Init => Safe
<1> SUFFICES ASSUME Init PROVE Safe
  OBVIOUS
<1>1. \A p \in AllProcs : pc[p] = "new"
  BY DEF Init
<1>2. "new" \notin AddPCs \cup DelPCs
  BY DEF AddPCs, DelPCs
<1>3. Apart /\ \A p \in AllProcs : SessionSound(p)
  BY <1>1, <1>2 DEF Apart, SessionSound
<1>4. \A c \in Candies : RecordSound(c)
  BY DEF Init, RecordSound
<1>5. \A d \in Deploys : DeploySound(d)
  BY DEF Init, DeploySound
<1>6. \A x \in host : Found(x)
  BY DEF Init, Found
<1> QED BY <1>3, <1>4, <1>5, <1>6, InitTyped DEF Safe

LEMMA StutterSafe ==
  ASSUME Safe, Typed', UNCHANGED vars
  PROVE  Safe'
<1>1. Quiet /\ pc' = pc /\ job' = job
  BY DEF vars, Quiet
<1>2. Apart'
  BY <1>1 DEF Safe, Apart, Active
<1>3. \A p \in AllProcs : SessionSound(p)'
  BY <1>1, QuietSession DEF Safe
<1> QED BY <1>1, <1>2, <1>3, QuietRest DEF Safe

LEMMA NextSafe ==
  ASSUME ~Overlapping, Uniform, Safe, [Next]_vars
  PROVE  Safe'
<1>1. Typed'
  BY NextTyped DEF Safe
<1>2. ASSUME NEW p \in AllProcs, AddStep(p) PROVE Safe'
  <2>1. CASE AddFails(p)
    <3>1. Active(p) /\ BreakOff(p)
      BY <2>1 DEF AddFails, Active, AddPCs
    <3> QED BY <1>1, <3>1, BreakOffSafe
  <2> QED BY <1>1, <1>2, <2>1, PrepareSafe, WalkSafe, RecordReadSafe, RecordWriteSafe, RecordDeploySafe DEF AddStep
<1>3. ASSUME NEW p \in AllProcs, DelStep(p) PROVE Safe'
  BY <1>1, <1>3, WaitSafe, SpawnDelSafe, DropRefSafe, UndoOpSafe, ForgetCandySafe, ForgetDeploySafe, PostTeardownSafe
     DEF DelStep
<1>4. ASSUME NEW p \in AllProcs, Crash(p) PROVE Safe'
  BY <1>1, <1>4, BreakOffSafe DEF Crash
<1>5. ASSUME NEW p \in AllProcs, StartAdd(p) \/ StartDel(p) PROVE Safe'
  BY <1>1, <1>5, StartAddSafe, StartDelSafe
<1>6. \A p \in Procs : p \in AllProcs
  BY DEF AllProcs
<1> QED BY <1>1, <1>2, <1>3, <1>4, <1>5, <1>6, StutterSafe DEF Next

LEMMA SafeNoOrphan == Safe => NoOrphan
<1> SUFFICES ASSUME Safe, NEW x \in host, x \notin Base \cup stray
             PROVE  x \in Things /\ (Covered(x) \/ HalfRecorded(x))
  BY DEF NoOrphan
<1>1. Found(x) /\ x \in Things
  BY DEF Safe, Typed, TypeOK
<1>2. CASE \E c \in Candies : x \in Owned(c) /\ candy[c] # None
  <2>1. PICK c \in Candies : x \in Owned(c) /\ candy[c] # None
    BY <1>2
  <2>2. RecordSound(c) /\ candy[c] \in CandyRecord
    BY <2>1 DEF Safe, Typed, TypeOK
  <2>3. PICK d \in candy[c].deployedBy : CandyOf[d] = c
    BY <2>1, <2>2 DEF RecordSound
  <2>4. d \in Deploys /\ x \in Undoes(candy[c].ops)
    BY <2>1, <2>2, <2>3 DEF RecordSound, CandyRecord
  <2>5. CASE deploys[d] = None
    BY <1>1, <2>1, <2>3, <2>4, <2>5 DEF HalfRecorded
  <2>6. CASE deploys[d] # None
    <3>1. deploys[d] = c
      BY <2>3, <2>4, <2>6 DEF Safe, DeploySound
    <3> QED BY <1>1, <2>1, <2>4, <2>6, <3>1 DEF Covered
  <2> QED BY <2>5, <2>6
<1>3. CASE x \in Lifecycle /\ deploys[x] # None
  BY <1>1, <1>3, LedgerAssumption DEF Covered
<1> QED BY <1>1, <1>2, <1>3 DEF Found

\* Nothing charly put on a venue is orphaned, whatever is killed or fails, when no
\* `bundle add` overlaps another session on its record and every file has one record.
THEOREM NothingOrphaned ==
  ASSUME ~Overlapping, Uniform
  PROVE  Spec => []NoOrphan
<1>1. Safe /\ [Next]_vars => Safe'
  BY NextSafe
<1> QED BY <1>1, InitSafe, SafeNoOrphan, PTL DEF Spec

\* Under the same conditions a deployment keeps all it was recorded with until its own
\* teardown, whatever other teardowns of its record do.
THEOREM DeployStaysWhole ==
  ASSUME ~Overlapping, Uniform
  PROVE  Spec => []StaysWhole
<1>1. Safe /\ [Next]_vars => Safe'
  BY NextSafe
<1>2. Safe => StaysWhole
  BY DEF Safe, DeploySound, StaysWhole
<1> QED BY <1>1, <1>2, InitSafe, PTL DEF Spec
=============================================================================
