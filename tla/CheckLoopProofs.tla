--------------------------- MODULE CheckLoopProofs ---------------------------
(***************************************************************************)
(* Proofs about CheckLoop, for any steps and dependencies, any plateau and *)
(* timeout, and any agent.                                                 *)
(***************************************************************************)
EXTENDS CheckLoop, FiniteSetTheorems, TLAPS

-----------------------------------------------------------------------------
(* Scores and sequences of scores.                                         *)

LEMMA CountSteps ==
  ASSUME NEW T \in SUBSET Steps
  PROVE  Cardinality(T) \in 0..Cardinality(Steps)
<1>1. IsFiniteSet(Steps)
  BY CheckLoopAssumption
<1>2. Cardinality(Steps) \in Nat
  BY <1>1, FS_CardinalityType
<1>3. IsFiniteSet(T) /\ Cardinality(T) <= Cardinality(Steps)
  BY <1>1, FS_Subset
<1>4. Cardinality(T) \in Nat
  BY <1>3, FS_CardinalityType
<1> QED BY <1>2, <1>3, <1>4

LEMMA ClassifyType ==
  ASSUME NEW g \in SUBSET Steps
  PROVE  Classify(g) \in [Steps -> Verdicts]
BY DEF Classify, Verdicts

-----------------------------------------------------------------------------
(* Types.                                                                  *)

LEMMA TypeInit == Init => TypeOK
<1> SUFFICES ASSUME Init PROVE TypeOK
  OBVIOUS
<1>1. Cardinality(Steps) \in Nat
  BY CheckLoopAssumption, FS_CardinalityType
<1>2. Plateau \in Nat
  BY CheckLoopAssumption
<1>3. verdict \in [Steps -> Verdicts]
  BY DEF Init, NoVerdict, Verdicts
<1>4. /\ score \in 0..Cardinality(Steps)
      /\ best \in [score : 0..Cardinality(Steps), iteration : Nat]
      /\ plateau \in 0..Plateau
      /\ ticks \in Nat /\ wbest \in Nat /\ improved \in 0..ticks
      /\ scores \in Seq(0..Cardinality(Steps))
  <2>1. /\ score = 0 /\ best = [score |-> 0, iteration |-> 0] /\ plateau = 0
        /\ ticks = 0 /\ wbest = 0 /\ improved = 0 /\ scores = <<>>
    BY Zenon DEF Init
  <2> HIDE DEF Init
  <2>2. 0 \in 0..Cardinality(Steps) /\ 0 \in 0..Plateau /\ 0 \in Nat /\ 0 \in 0..0
    BY <1>1, <1>2
  <2>3. [score |-> 0, iteration |-> 0] \in [score : 0..Cardinality(Steps), iteration : Nat]
    BY <2>2
  <2>4. <<>> \in Seq(0..Cardinality(Steps))
    OBVIOUS
  <2> QED BY <2>1, <2>2, <2>3, <2>4, Zenon
<1>5. /\ cancelled \in BOOLEAN /\ agent \in BOOLEAN
      /\ children \in BOOLEAN /\ stream \in BOOLEAN
  BY Zenon DEF Init
<1>6. /\ mode \in Modes /\ good \subseteq Steps /\ pc = "top"
      /\ exit \in Exits /\ wd = "off"
  BY DEF Init, Exits, Modes
<1> QED BY <1>3, <1>4, <1>5, <1>6 DEF TypeOK

\* The counter has not reached the plateau while the loop runs, and the clock of the watchdog
\* stops at the horizon.
Going ==
  /\ pc # "done" => plateau < Plateau
  /\ ticks <= Horizon

LEMMA GoingStep == TypeOK /\ Going /\ [Next]_vars => Going' /\ plateau' \in 0..Plateau
<1> SUFFICES ASSUME TypeOK, Going, [Next]_vars PROVE Going' /\ plateau' \in 0..Plateau
  OBVIOUS
<1>0. Plateau \in Nat \ {0} /\ plateau \in 0..Plateau
  BY CheckLoopAssumption DEF TypeOK
<1>2a. Horizon \in Nat /\ ticks \in Nat /\ ticks <= Horizon
  BY CheckLoopAssumption DEF TypeOK, Going
<1>2b. ticks' <= Horizon
  <2>1. CASE WatchdogSees
    <3>1. ticks' \in {ticks + 1, Horizon} /\ (ticks' = ticks + 1 => ticks < Horizon \/ ticks' = Horizon)
      BY <1>2a, <2>1 DEF WatchdogSees
    <3> QED BY <1>2a, <3>1
  <2>2. CASE WatchdogStops
    BY <1>2a, <2>2 DEF WatchdogStops
  <2>3. CASE ~WatchdogSees /\ ~WatchdogStops
    <3>1. ticks' = ticks
      BY <2>3 DEF Next, Harness, Watchdog, Top, Dispatch, RunnerReturns, Join, Score, Book,
              WatchdogProbes, WatchdogErrs, WatchdogLate, Work, AgentExits,
              AgentKilled, AgentTimeout, Ended, vars, watch
    <3> QED BY <1>2a, <3>1
  <2> QED BY <2>1, <2>2, <2>3
<1>1. CASE Book
  <2>1. pc = "book" /\ plateau < Plateau
    BY <1>1 DEF Book, Going
  <2>2. CASE mode = "dry"
    BY <1>0, <1>1, <1>2b, <2>1, <2>2 DEF Book, Going
  <2>3. CASE mode # "dry"
    <3>1. plateau' = 0 \/ plateau' = plateau + 1
      BY <1>1, <2>3 DEF Book
    <3>2. plateau' \in 0..Plateau
      BY <1>0, <2>1, <3>1
    <3>3. plateau' >= Plateau => pc' = "done"
      BY <1>1, <2>3 DEF Book, AtPlateau
    <3> QED BY <1>0, <1>2b, <3>2, <3>3 DEF Going
  <2> QED BY <2>2, <2>3
<1>2. CASE ~Book
  <2>1. plateau' = plateau /\ (pc = "done" => pc' = "done")
    BY <1>2 DEF Next, Harness, Watchdog, Top, Dispatch, RunnerReturns, Join, Score, WatchdogProbes,
            WatchdogSees, WatchdogErrs, WatchdogLate, WatchdogStops, Work, AgentExits, AgentKilled, AgentTimeout,
            Ended, vars, kind, watch, book
  <2> QED BY <1>0, <1>2b, <2>1 DEF Going
<1> QED BY <1>1, <1>2

LEMMA TypeStep == TypeOK /\ Going /\ [Next]_vars => TypeOK'
<1> SUFFICES ASSUME TypeOK, Going, [Next]_vars PROVE TypeOK'
  OBVIOUS
<1> USE DEF watch, book, kind
<1>1. CASE Top
  BY <1>1 DEF Top, TypeOK, Exits
<1>2. CASE Dispatch
  <2>1. cancelled' \in BOOLEAN /\ agent' \in BOOLEAN
    BY <1>2, Zenon DEF Dispatch
  <2>2. wd' \in {"off", "idle", "probe"} /\ pc' = "runner"
    BY <1>2 DEF Dispatch
  <2>4. UNCHANGED <<mode, stream, good, verdict, score, best, plateau, exit, scores, children,
                    ticks, wbest, improved>>
    BY <1>2 DEF Dispatch
  <2> QED BY <2>1, <2>2, <2>4 DEF TypeOK
<1>3. CASE RunnerReturns
  BY <1>3 DEF RunnerReturns, TypeOK
<1>4. CASE Join
  BY <1>4 DEF Join, TypeOK
<1>5. CASE Score
  <2>1. verdict' \in [Steps -> Verdicts]
    <3>1. CASE verdict' = Classify(good)
      BY <3>1, ClassifyType DEF TypeOK
    <3>2. ASSUME NEW t \in SUBSET Steps,
                 verdict' = [s \in Steps |-> IF s \in t THEN "tampered" ELSE Classify(good)[s]]
          PROVE  verdict' \in [Steps -> Verdicts]
      <4>1. Classify(good) \in [Steps -> Verdicts]
        BY ClassifyType DEF TypeOK
      <4> QED BY <3>2, <4>1 DEF Verdicts
    <3>3. CASE verdict' = verdict
      BY <3>3 DEF TypeOK
    <3> QED BY <1>5, <3>1, <3>2, <3>3 DEF Score
  <2>2. score' \in 0..Cardinality(Steps)
    <3>1. score' = Cardinality(Solved(verdict'))
      BY <1>5 DEF Score
    <3>2. Solved(verdict') \in SUBSET Steps
      BY DEF Solved
    <3> QED BY <3>1, <3>2, CountSteps
  <2>3. pc' = "book" /\ UNCHANGED <<mode, stream, good, best, plateau, exit, scores, cancelled,
                                   agent, wd, ticks, wbest, improved>>
    BY <1>5 DEF Score
  <2>4. children' \in BOOLEAN
    BY <1>5 DEF Score, TypeOK
  <2> QED BY <2>1, <2>2, <2>3, <2>4 DEF TypeOK
<1>6. CASE Book
  <2>1. Cardinality(Steps) \in Nat
    BY CheckLoopAssumption, FS_CardinalityType
  <2>2. scores' \in Seq(0..Cardinality(Steps)) /\ Len(scores) \in Nat
    BY <1>6 DEF Book, TypeOK
  <2>3. best' \in [score : 0..Cardinality(Steps), iteration : Nat]
    <3>1. best' = best \/ best' = [score |-> score, iteration |-> Len(scores) + 1]
      BY <1>6 DEF Book
    <3> QED BY <2>2, <3>1 DEF TypeOK
  <2>4. plateau' \in 0..Plateau
    BY GoingStep
  <2>5. pc' \in {"top", "done"} /\ exit' \in Exits
    BY <1>6 DEF Book, TypeOK, Exits
  <2>6. UNCHANGED <<mode, stream, good, verdict, score, cancelled, agent, children, wd,
                  ticks, wbest, improved>>
    BY <1>6 DEF Book
  <2> QED BY <2>2, <2>3, <2>4, <2>5, <2>6 DEF TypeOK
<1>7. CASE Work
  BY <1>7 DEF Work, TypeOK
<1>8. CASE AgentExits \/ AgentKilled
  <2>1. agent' \in BOOLEAN
    BY <1>8, Zenon DEF AgentExits, AgentKilled
  <2> QED BY <1>8, <2>1 DEF AgentExits, AgentKilled, TypeOK
<1>9. CASE AgentTimeout
  BY <1>9 DEF AgentTimeout, TypeOK
<1>10. CASE WatchdogStops \/ WatchdogProbes \/ WatchdogErrs \/ WatchdogLate
  <2>1. CASE WatchdogStops
    BY <2>1 DEF WatchdogStops, TypeOK
  <2>2. CASE ~WatchdogStops
    BY <1>10, <2>2, SMTT(30) DEF WatchdogProbes, WatchdogErrs, WatchdogLate, TypeOK
  <2> QED BY <2>1, <2>2
<1>11. CASE WatchdogSees
  <2>1. Cardinality(Passing(good)) \in Nat
    <3>1. Passing(good) \in SUBSET Steps
      BY DEF Passing, TypeOK
    <3>2. IsFiniteSet(Passing(good))
      BY <3>1, CheckLoopAssumption, FS_Subset
    <3> QED BY <3>2, FS_CardinalityType
  <2>2. Horizon \in Nat /\ ticks \in Nat /\ wbest \in Nat /\ improved \in 0..ticks
        /\ ticks <= Horizon
    BY CheckLoopAssumption DEF TypeOK, Going
  <2>3. ticks' \in Nat /\ wbest' \in Nat
    BY <1>11, <2>1, <2>2 DEF WatchdogSees
  <2>4. ticks' \in {ticks + 1, Horizon} /\ improved' \in {improved, ticks'}
    BY <1>11 DEF WatchdogSees
  <2>5. ticks <= ticks'
    BY <1>11, <2>2 DEF WatchdogSees
  <2>6. improved' \in 0..ticks'
    BY <2>2, <2>3, <2>4, <2>5
  <2>7. cancelled' \in BOOLEAN
    <3> DEFINE t == IF ticks < Horizon THEN ticks + 1 ELSE Horizon
               i == IF wbest # 0 /\ Cardinality(Passing(good)) + 1 > wbest THEN t ELSE improved
               late == Idle(t, i) >= NoImprovement
    <3>1. cancelled' = late
      BY <1>11, Zenon DEF WatchdogSees
    <3>2. late \in BOOLEAN
      OBVIOUS
    <3> QED BY <3>1, <3>2
  <2>8. wd' = "idle" /\ UNCHANGED <<mode, stream, pc, good, verdict, score, best, plateau, exit, scores,
                                   agent, children>>
    BY <1>11 DEF WatchdogSees
  <2> QED BY <2>3, <2>6, <2>7, <2>8 DEF TypeOK
<1>12. CASE Ended \/ UNCHANGED vars
  BY <1>12 DEF Ended, vars, TypeOK
<1> QED BY <1>1, <1>2, <1>3, <1>4, <1>5, <1>6, <1>7, <1>8, <1>9, <1>10, <1>11, <1>12
        DEF Next, Harness, Watchdog

-----------------------------------------------------------------------------
(* The invariants.                                                         *)

\* What runs while: the agent ends before its runner returns, the watchdog before the scoring.
Quiet ==
  /\ pc # "runner" => agent = FALSE
  /\ pc \notin {"runner", "join"} => wd = "off"

\* A dry run books one iteration, with nothing solved.
Dry ==
  mode = "dry" =>
    /\ score = 0 /\ best.score = 0 /\ best.iteration = 0 /\ plateau = 0
    /\ pc \in {"top", "book", "done"}
    /\ pc # "done" => scores = <<>>
    /\ Len(scores) <= 1
    /\ \A j \in 1..Len(scores) : scores[j] = 0
    /\ exit # "plateau"

\* The counter counts the iterations since the best one, and each score that was the best
\* before cost less than Plateau of them.
Booked ==
  mode # "dry" =>
    /\ best.iteration + plateau = Len(scores)
    /\ Len(scores) <= Plateau * best.score + plateau

\* The best score is the greatest, and that of the iteration it names.
Marks ==
  /\ \A j \in 1..Len(scores) : scores[j] <= best.score
  /\ best.iteration > 0 => /\ best.iteration <= Len(scores)
                           /\ scores[best.iteration] = best.score

\* The exit is written once, at the end.
Exited == exit = "plateau" => pc = "done" /\ plateau = Plateau /\ mode # "dry"

IInv == TypeOK /\ Going /\ Quiet /\ Dry /\ Booked /\ Marks /\ Exited

LEMMA InitInv == Init => IInv
<1> SUFFICES ASSUME Init PROVE IInv
  OBVIOUS
<1>1. TypeOK
  BY TypeInit
<1>2. /\ pc = "top" /\ score = 0 /\ plateau = 0
      /\ exit # "plateau" /\ wd = "off" /\ ticks = 0
  BY Zenon DEF Init
<1>2a. best.score = 0 /\ best.iteration = 0
  <2>1. best = [score |-> 0, iteration |-> 0]
    BY Zenon DEF Init
  <2> QED BY <2>1
<1>2b. scores = <<>>
  BY Zenon DEF Init
<1>3. agent = FALSE
  BY Zenon DEF Init
<1>4. Plateau \in Nat \ {0} /\ Horizon \in Nat
  BY CheckLoopAssumption
<1>4a. Len(scores) = 0
  BY <1>2b
<1>5. Going
  BY <1>2, <1>4 DEF Going
<1>6. Quiet
  BY <1>2, <1>3 DEF Quiet
<1>7. Dry
  BY <1>2, <1>2a, <1>2b, <1>4a DEF Dry
<1>8. Booked
  <2>1. Plateau * 0 = 0
    BY <1>4
  <2> QED BY <1>2, <1>2a, <1>4a, <2>1 DEF Booked
<1>9. Marks /\ Exited
  BY <1>2, <1>2a, <1>4a DEF Marks, Exited
<1> QED BY <1>1, <1>5, <1>6, <1>7, <1>8, <1>9 DEF IInv

LEMMA QuietStep == Quiet /\ [Next]_vars => Quiet'
<1> SUFFICES ASSUME Quiet, [Next]_vars PROVE Quiet'
  OBVIOUS
<1> USE DEF watch, book, kind, Quiet
<1>1. CASE Top \/ Book
  BY <1>1 DEF Top, Book
<1>2. CASE Score \/ Join
  BY <1>2 DEF Score, Join
<1>3. CASE Dispatch
  BY <1>3 DEF Dispatch
<1>4. CASE RunnerReturns
  BY <1>4 DEF RunnerReturns, RunReturns
<1>5. CASE Work \/ AgentTimeout
  BY <1>5 DEF Work, AgentTimeout
<1>6. CASE AgentExits \/ AgentKilled
  BY <1>6, Zenon DEF AgentExits, AgentKilled
<1>7. CASE WatchdogProbes \/ WatchdogErrs \/ WatchdogLate \/ WatchdogStops
  BY <1>7 DEF WatchdogProbes, WatchdogErrs, WatchdogLate, WatchdogStops
<1>8. CASE WatchdogSees
  BY <1>8 DEF WatchdogSees
<1>9. CASE Ended \/ UNCHANGED vars
  BY <1>9 DEF Ended, vars
<1> QED BY <1>1, <1>2, <1>3, <1>4, <1>5, <1>6, <1>7, <1>8, <1>9 DEF Next, Harness, Watchdog

\* Only the end of an iteration changes the books.
Books == <<best, plateau, scores>>

LEMMA BooksFrame ==
  ASSUME [Next]_vars, ~Book, ~Top, ~Score
  PROVE  /\ UNCHANGED <<mode, book>>
         /\ pc' \in {"runner", "join", "score"} \/ pc' = pc
         /\ pc \notin {"top", "book", "done"} \/ pc' = pc
BY DEF Next, Harness, Watchdog, Dispatch, RunnerReturns, Join, WatchdogProbes, WatchdogSees,
       WatchdogErrs, WatchdogLate, WatchdogStops, Work, AgentExits, AgentKilled,
       AgentTimeout, Ended, vars, kind, watch, book

LEMMA Multiples ==
  ASSUME NEW b \in Nat, NEW s \in Nat, NEW P \in Nat, b < s
  PROVE  P * b + P <= P * s
<1> DEFINE d == s - b - 1
<1>1. d \in Nat /\ s = b + 1 + d
  OBVIOUS
<1>2. P * s = P * b + P + P * d
  BY <1>1
<1>3. P * d \in Nat /\ P * b \in Nat
  BY <1>1
<1> QED BY <1>2, <1>3

LEMMA OneMore ==
  ASSUME NEW m \in Nat, NEW i \in Nat, NEW p \in Nat, NEW k \in Nat, i + p = k, k <= m + p
  PROVE  i + (p + 1) = k + 1 /\ k + 1 <= m + (p + 1)
OBVIOUS

LEMMA BookStep ==
  ASSUME IInv, Book, TypeOK', mode # "dry"
  PROVE  Booked' /\ Marks' /\ Exited' /\ Dry'
<1>1. /\ Plateau \in Nat \ {0} /\ plateau \in 0..Plateau /\ plateau < Plateau
      /\ pc = "book"
  BY CheckLoopAssumption DEF IInv, TypeOK, Going, Book
<1>2. /\ Cardinality(Steps) \in Nat
      /\ score \in 0..Cardinality(Steps) /\ scores \in Seq(0..Cardinality(Steps))
      /\ best \in [score : 0..Cardinality(Steps), iteration : Nat]
  BY CheckLoopAssumption, FS_CardinalityType DEF IInv, TypeOK
<1> DEFINE n == Len(scores)
<1>3. /\ n \in Nat
      /\ scores' = Append(scores, score)
      /\ Len(scores') = n + 1
      /\ scores'[n + 1] = score
      /\ \A j \in 1..n : scores'[j] = scores[j]
  BY <1>2 DEF Book
<1>4. /\ best.score \in Nat /\ best.iteration \in Nat /\ score \in Nat
      /\ \A j \in 1..n : scores[j] \in Nat
  BY <1>2, <1>3
<1>5. /\ best.iteration + plateau = n /\ n <= Plateau * best.score + plateau
      /\ \A j \in 1..n : scores[j] <= best.score
      /\ best.iteration > 0 => best.iteration <= n /\ scores[best.iteration] = best.score
      /\ exit # "plateau"
  BY <1>1 DEF IInv, Booked, Marks, Exited
<1>6. mode' = mode
  BY DEF Book, kind
<1>7. plateau' >= Plateau \/ exit' = exit
  BY <1>1 DEF Book, AtPlateau
<1>8. plateau' >= Plateau => pc' = "done"
  BY <1>1 DEF Book, AtPlateau
<1> HIDE DEF n
<1>9. CASE Improves
  <2>1. best' = [score |-> score, iteration |-> n + 1] /\ plateau' = 0
    BY <1>9 DEF Book, n
  <2>2. best'.score = score /\ best'.iteration = n + 1 /\ best.score < score
    BY <1>9, <1>4, <2>1 DEF Improves
  <2>3. Plateau * best.score + Plateau <= Plateau * score
    BY <1>1, <1>4, <2>2, Multiples
  <2>4. n + 1 <= Plateau * score
    <3>1. Plateau * best.score \in Nat /\ Plateau * score \in Nat
      BY <1>1, <1>4
    <3> QED BY <1>1, <1>3, <1>5, <2>3, <3>1
  <2>5. Booked'
    BY <1>3, <1>1, <1>4, <2>1, <2>2, <2>4 DEF Booked
  <2>6. \A j \in 1..(n + 1) : scores'[j] <= score
    <3> TAKE j \in 1..(n + 1)
    <3>1. CASE j = n + 1
      BY <1>3, <1>4, <3>1
    <3>2. CASE j # n + 1
      <4>1. j \in 1..n
        BY <1>3, <3>2
      <4> QED BY <1>3, <1>4, <1>5, <2>2, <4>1
    <3> QED BY <3>1, <3>2
  <2>7. Marks'
    BY <1>3, <2>2, <2>6 DEF Marks
  <2>8. Exited'
    BY <1>1, <1>5, <1>7, <2>1 DEF Exited
  <2> QED BY <1>6, <2>5, <2>7, <2>8 DEF Dry
<1>10. CASE ~Improves
  <2>1. best' = best /\ plateau' = plateau + 1
    BY <1>10 DEF Book
  <2>2. score <= best.score
    BY <1>10, <1>4 DEF Improves
  <2>3. Booked'
    <3>1. Plateau * best.score \in Nat
      BY <1>1, <1>4
    <3>2. best.iteration + (plateau + 1) = n + 1 /\ n + 1 <= Plateau * best.score + (plateau + 1)
      BY <1>1, <1>3, <1>4, <1>5, <3>1, OneMore, SMTT(30)
    <3> QED BY <1>3, <2>1, <3>2 DEF Booked
  <2>4. \A j \in 1..(n + 1) : scores'[j] <= best.score
    <3> TAKE j \in 1..(n + 1)
    <3>1. CASE j = n + 1
      BY <1>3, <2>2, <3>1
    <3>2. CASE j # n + 1
      <4>1. j \in 1..n
        BY <1>3, <3>2
      <4> QED BY <1>3, <1>5, <4>1
    <3> QED BY <3>1, <3>2
  <2>5. best.iteration > 0 => best.iteration <= n + 1 /\ scores'[best.iteration] = best.score
    BY <1>3, <1>4, <1>5
  <2>6. Marks'
    BY <1>3, <2>1, <2>4, <2>5 DEF Marks
  <2>7. Exited'
    BY <1>1, <1>5, <1>6, <1>7, <1>8, <2>1 DEF Exited
  <2> QED BY <1>6, <2>3, <2>6, <2>7 DEF Dry
<1> QED BY <1>9, <1>10

LEMMA DryBook ==
  ASSUME IInv, Book, mode = "dry"
  PROVE  Booked' /\ Marks' /\ Exited' /\ Dry'
<1>1. /\ score = 0 /\ best.score = 0 /\ best.iteration = 0 /\ plateau = 0 /\ scores = <<>>
      /\ pc = "book"
  BY DEF IInv, Dry, Book
<1>2. /\ scores' = Append(<<>>, 0) /\ best' = best /\ plateau' = plateau /\ score' = score
      /\ mode' = mode /\ exit' = "dry-run" /\ pc' = "done"
  BY <1>1 DEF Book, kind
<1>3. Len(scores') = 1 /\ \A j \in 1..1 : scores'[j] = 0
  BY <1>2
<1> QED BY <1>1, <1>2, <1>3 DEF Booked, Marks, Exited, Dry

LEMMA NextInv == IInv /\ [Next]_vars => IInv'
<1> SUFFICES ASSUME IInv, [Next]_vars PROVE IInv'
  OBVIOUS
<1>1. TypeOK' /\ Going'
  BY TypeStep, GoingStep DEF IInv
<1>2. Quiet'
  BY QuietStep DEF IInv
<1>3. Booked' /\ Marks' /\ Exited' /\ Dry'
  <2>1. CASE Book
    BY <1>1, <2>1, BookStep, DryBook
  <2>2. CASE Top
    <3>1. UNCHANGED <<mode, score, best, plateau, scores>> /\ pc = "top" /\ exit' # "plateau"
      BY <2>2 DEF Top, IInv, Exited, kind
    <3>2. mode = "dry" => pc' = "book"
      BY <2>2, <3>1 DEF Top, IInv, Dry
    <3> QED BY <3>1, <3>2 DEF IInv, Booked, Marks, Exited, Dry
  <2>3. CASE Score
    <3>1. UNCHANGED <<mode, best, plateau, scores, exit>> /\ pc = "score"
      BY <2>3 DEF Score, kind
    <3>2. mode # "dry"
      BY <3>1 DEF IInv, Dry
    <3> QED BY <3>1, <3>2 DEF IInv, Booked, Marks, Exited, Dry
  <2>4. CASE ~Book /\ ~Top /\ ~Score
    <3>1. /\ UNCHANGED <<mode, book>>
          /\ pc' \in {"runner", "join", "score"} \/ pc' = pc
          /\ pc \notin {"top", "book", "done"} \/ pc' = pc
      BY <2>4, BooksFrame
    <3>2. mode = "dry" => pc' = pc
      BY <3>1 DEF IInv, Dry
    <3>3. exit = "plateau" => pc' = pc
      BY <3>1 DEF IInv, Exited
    <3> QED BY <3>1, <3>2, <3>3 DEF IInv, Booked, Marks, Exited, Dry, book
  <2> QED BY <2>1, <2>2, <2>3, <2>4
<1> QED BY <1>1, <1>2, <1>3 DEF IInv

LEMMA Invariant == Spec => []IInv
<1>1. Init => IInv
  BY InitInv
<1>2. IInv /\ [Next]_vars => IInv'
  BY NextInv
<1> QED BY <1>1, <1>2, PTL DEF Spec

-----------------------------------------------------------------------------
(* The theorems.                                                           *)

\* Every reachable state of the loop has its type; the plateau counter of RunHarness never
\* passes its limit.
THEOREM TypeCorrect == Spec => []TypeOK
<1>1. IInv => TypeOK
  BY DEF IInv
<1> QED BY <1>1, Invariant, PTL

\* RunHarness scores only when the agent itself has ended and the watchdog was awaited, so two
\* scorings never provision the same deployments at a time.
THEOREM ScoredAlone == Spec => []OneScoring
<1>1. IInv => OneScoring
  BY Zenon DEF IInv, Quiet, OneScoring
<1> QED BY <1>1, Invariant, PTL

\* The number of iterations of RunHarness is bounded by the plateau and the best score,
\* whatever the agent does.
THEOREM Bounded == Spec => []IterationsBounded
<1>1. IInv => IterationsBounded
  <2> SUFFICES ASSUME IInv PROVE Len(scores) <= Plateau * (best.score + 1)
    BY DEF IterationsBounded
  <2>1. /\ Plateau \in Nat \ {0} /\ plateau \in 0..Plateau /\ best.score \in Nat
        /\ Len(scores) \in Nat
    <3>1. Cardinality(Steps) \in Nat
      BY CheckLoopAssumption, FS_CardinalityType
    <3>2. best.score \in 0..Cardinality(Steps)
      BY DEF IInv, TypeOK
    <3>3. best.score \in Nat
      BY <3>1, <3>2
    <3> QED BY <3>3, CheckLoopAssumption DEF IInv, TypeOK
  <2>2. Plateau * best.score \in Nat /\ Plateau * (best.score + 1) = Plateau * best.score + Plateau
    BY <2>1
  <2>3. CASE mode = "dry"
    <3>1. Len(scores) <= 1
      BY <2>3 DEF IInv, Dry
    <3> QED BY <2>1, <2>2, <3>1
  <2>4. CASE mode # "dry"
    <3>1. Len(scores) <= Plateau * best.score + plateau
      BY <2>4 DEF IInv, Booked
    <3> QED BY <2>1, <2>2, <3>1
  <2> QED BY <2>3, <2>4
<1> QED BY <1>1, Invariant, PTL

\* The best score that RunHarness reports is the greatest and belongs to the iteration it
\* names, and an exit "plateau" is taken exactly Plateau iterations after it.
THEOREM BestIsBest == Spec => []BestReported
<1>1. IInv => BestReported
  BY DEF IInv, Booked, Marks, Exited, BestReported
<1> QED BY <1>1, Invariant, PTL
=============================================================================
