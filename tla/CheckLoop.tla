------------------------------ MODULE CheckLoop ------------------------------
(***************************************************************************)
(* The AI iteration loop of `charly check run <entity>`:                   *)
(* charly/check_loop.go (RunHarness), charly/check_watchdog.go and the     *)
(* scoring of charly/check_runner_live.go and charly/check_score.go.       *)
(*                                                                         *)
(* Every iteration starts the agent and, when the plan is scored live, a   *)
(* goroutine that probes the score while the agent works and cancels it    *)
(* when the score does not rise any more.  Then the iteration is scored,   *)
(* and the loop goes on until all steps are solved or the best score has   *)
(* not risen for a number of iterations.                                   *)
(***************************************************************************)
EXTENDS Naturals, FiniteSets, Sequences

CONSTANTS
  Steps,         \* the scored steps of the plan
  Needs,         \* [Steps -> SUBSET Steps]  depends_on, closed under itself
  Plateau,       \* plateau_iteration
  NoImprovement, \* the watchdog's timeout, in ticks of its probe
  Timeout,       \* is there a timeout for the agent as well?
  Horizon        \* bound: the watchdog counts no further, beyond what it ever gets to

ASSUME CheckLoopAssumption ==
  /\ IsFiniteSet(Steps) /\ Steps # {}
  /\ Needs \in [Steps -> SUBSET Steps]
  /\ \A s \in Steps : \A t \in Needs[s] : Needs[t] \subseteq Needs[s]
  /\ Plateau \in Nat \ {0}
  /\ NoImprovement \in Nat \ {0}
  /\ Timeout \in BOOLEAN
  /\ Horizon \in Nat

VARIABLES
  mode,      \* "live": the plan is scored on the running deployments; "refused": it would be,
             \* but RunCheckLive refuses it; "image": after a build of the image; "dry": no
             \* agent is started
  stream,    \* is the agent's output a stream that is parsed, and not a file?
  pc,        \* where RunHarness is
  good,      \* the steps whose own check would succeed now
  verdict,   \* the verdicts of the last iteration
  score,     \* its score
  best,      \* bestScore and bestIteration
  plateau,   \* plateauCounter
  exit,      \* ExitReason, "" while the loop runs
  cancelled, \* runnerCtx is done
  agent,     \* does the process of the agent run?
  children,  \* do processes it has started run, which hold its output open?
  wd,        \* the watchdog: "off", "idle" or "probe"
  ticks,     \* its probes that have ended, before the agent was cancelled
  wbest,     \* bestScore of the watchdog plus one, 0 before its first probe
  improved,  \* the tick of lastImprovedAt, 0 before the first
  scores     \* history: the score of every iteration

kind  == <<mode, stream>>
watch == <<wd, ticks, wbest, improved>>
book  == <<score, best, plateau, exit, scores>>
vars  == <<kind, pc, good, verdict, book, cancelled, agent, children, watch>>

Modes    == {"live", "refused", "image", "dry"}
Verdicts == {"solved", "unchanged", "skipped", "tampered"}

NoVerdict == [s \in Steps |-> "unchanged"]

Init ==
  /\ mode \in Modes
  /\ stream \in BOOLEAN
  /\ pc = "top"
  /\ good \in SUBSET Steps
  /\ verdict = NoVerdict
  /\ score = 0
  /\ best = [score |-> 0, iteration |-> 0]
  /\ plateau = 0
  /\ exit = ""
  /\ cancelled = FALSE
  /\ agent = FALSE /\ children = FALSE
  /\ wd = "off" /\ ticks = 0 /\ wbest = 0 /\ improved = 0
  /\ scores = <<>>

-----------------------------------------------------------------------------
(* Scoring.                                                                *)

\* Steps on a dependency cycle, and those behind one, are never run.
Cyclic == {s \in Steps : \E t \in Needs[s] \cup {s} : t \in Needs[t]}

\* RunCheckLive: a step passes if its check does and all that it depends on passed.
Passing(g) == {s \in g \ Cyclic : Needs[s] \subseteq g}

\* Classify, against a baseline where every step fails: a step that did not run because of
\* one it depends on is skipped.
Classify(g) ==
  [s \in Steps |-> CASE s \in Passing(g) -> "solved"
                     [] s \notin Cyclic /\ ~(Needs[s] \subseteq Passing(g)) -> "skipped"
                     [] OTHER -> "unchanged"]

Solved(v) == {s \in Steps : v[s] = "solved"}

\* stillUnsolved: a tampered step is not in play any more.
StillUnsolved(v) == {s \in Steps : v[s] \notin {"solved", "tampered"}}

-----------------------------------------------------------------------------
(* RunHarness.                                                             *)

\* An iteration begins, unless nothing is left to solve.
Top ==
  /\ pc = "top"
  /\ IF scores # <<>> /\ StillUnsolved(verdict) = {}
     THEN exit' = "solved-all" /\ pc' = "done"
     ELSE pc' = (IF mode = "dry" THEN "book" ELSE "dispatch") /\ UNCHANGED exit
  /\ UNCHANGED <<kind, good, verdict, score, best, plateau, scores, cancelled, agent, children, watch>>

\* The agent and the watchdog start.
Dispatch ==
  /\ pc = "dispatch"
  /\ agent' = TRUE
  /\ cancelled' = FALSE
  /\ wd' = (IF mode \in {"live", "refused"} THEN "idle" ELSE "off")
  /\ pc' = "runner"
  /\ UNCHANGED <<kind, good, verdict, book, children, ticks, wbest, improved>>

\* The agent, and what it has started, make checks succeed and fail; these may outlive it.
Work ==
  /\ \/ agent /\ ~cancelled /\ children' \in BOOLEAN
     \/ children /\ children' \in BOOLEAN
  /\ good' \in SUBSET Steps
  /\ UNCHANGED <<kind, pc, verdict, book, cancelled, agent, watch>>

\* It ends on its own ...
AgentExits ==
  /\ agent /\ ~cancelled
  /\ agent' = FALSE
  /\ UNCHANGED <<kind, pc, good, verdict, book, cancelled, children, watch>>

\* ... or is killed when its context is done, at the latest after the opt-in timeout.
AgentKilled ==
  /\ agent /\ cancelled
  /\ agent' = FALSE
  /\ UNCHANGED <<kind, pc, good, verdict, book, cancelled, children, watch>>

AgentTimeout ==
  /\ Timeout /\ agent /\ ~cancelled
  /\ cancelled' = TRUE
  /\ UNCHANGED <<kind, pc, good, verdict, book, agent, children, watch>>

\* cmd.Run returns when the agent has ended; one that reads a stream, when nobody holds the
\* other end any more.
RunReturns == ~agent /\ (stream => ~children)

\* runRunnerFn returned: the context is cancelled, and the watchdog awaited.
RunnerReturns_bug ==
  /\ pc = "runner" /\ RunReturns
  /\ cancelled' = TRUE
  /\ pc' = "score"
  /\ UNCHANGED <<kind, good, verdict, book, agent, children, watch>>

RunnerReturns ==
  /\ pc = "runner" /\ RunReturns
  /\ cancelled' = TRUE
  /\ pc' = "join"
  /\ UNCHANGED <<kind, good, verdict, book, agent, children, watch>>

Join ==
  /\ pc = "join" /\ wd = "off"
  /\ pc' = "score"
  /\ UNCHANGED <<kind, good, verdict, book, cancelled, agent, children, watch>>

\* The plan is scored live; or on a fresh image, whose build or test may fail: then, as with
\* a plan that is refused, the score and the verdicts of the iteration before count again.
\* On the image a step may also turn out to have been changed.  The commit that follows kills
\* what the agent left running, when it is in a pod and looks like a loop that waits.
Score ==
  /\ pc = "score"
  /\ \/ /\ mode = "live"
        /\ verdict' = Classify(good)
     \/ /\ mode = "refused"
        /\ UNCHANGED verdict
     \/ /\ mode = "image"
        /\ \/ \E t \in SUBSET Steps :
                verdict' = [s \in Steps |-> IF s \in t THEN "tampered" ELSE Classify(good)[s]]
           \/ UNCHANGED verdict
  /\ score' = Cardinality(Solved(verdict'))
  /\ children' \in {children, FALSE}
  /\ pc' = "book"
  /\ UNCHANGED <<kind, good, best, plateau, exit, scores, cancelled, agent, watch>>

Improves_other == score # best.score

Improves_equal == score >= best.score

Improves == score > best.score

AtPlateau(n) == n >= Plateau

\* Plateau bookkeeping, and the exits that are checked after an iteration.
Book ==
  /\ pc = "book"
  /\ scores' = Append(scores, score)
  /\ IF mode = "dry"
     THEN /\ exit' = "dry-run" /\ pc' = "done"
          /\ UNCHANGED <<best, plateau>>
     ELSE /\ best' = IF Improves THEN [score |-> score, iteration |-> Len(scores) + 1] ELSE best
          /\ plateau' = IF Improves THEN 0 ELSE plateau + 1
          /\ IF AtPlateau(plateau')
             THEN exit' = "plateau" /\ pc' = "done"
             ELSE pc' = "top" /\ UNCHANGED exit
  /\ UNCHANGED <<kind, good, verdict, score, cancelled, agent, children, watch>>

-----------------------------------------------------------------------------
(* ProgressWatchdog.Run.                                                   *)

\* The context is done, and all that the watchdog knew is gone ...
WatchdogStops ==
  /\ wd = "idle" /\ cancelled
  /\ wd' = "off" /\ ticks' = 0 /\ wbest' = 0 /\ improved' = 0
  /\ UNCHANGED <<kind, pc, good, verdict, book, cancelled, agent, children>>

\* ... or a tick is due; both may be, and then either is taken.
WatchdogProbes ==
  /\ wd = "idle"
  /\ wd' = "probe"
  /\ UNCHANGED <<kind, pc, good, verdict, book, cancelled, agent, children, ticks, wbest, improved>>

Idle_bug(t, i) == 0

\* Ticks since the last improvement, or since the start.
Idle(t, i) == t - i

\* The probe has a score: the first is the baseline; without an improvement for too long
\* the agent is cancelled.
WatchdogSees ==
  LET n == Cardinality(Passing(good))
      t == IF ticks < Horizon THEN ticks + 1 ELSE Horizon
      i == IF wbest # 0 /\ n + 1 > wbest THEN t ELSE improved
  IN  /\ wd = "probe" /\ ~cancelled /\ mode # "refused"
      /\ ticks' = t
      /\ improved' = i
      /\ wbest' = IF n + 1 > wbest THEN n + 1 ELSE wbest
      /\ cancelled' = (Idle(t, i) >= NoImprovement)
      /\ wd' = "idle"
      /\ UNCHANGED <<kind, pc, good, verdict, book, agent, children>>

\* A probe that fails is no tick: RunCheckLive fails for a plan that it refuses, always.
WatchdogErrs ==
  /\ wd = "probe" /\ ~cancelled /\ mode = "refused"
  /\ wd' = "idle"
  /\ UNCHANGED <<kind, pc, good, verdict, book, cancelled, agent, children, ticks, wbest, improved>>

\* A probe that the end of the context cut short; its score changes nothing any more.
WatchdogLate ==
  /\ wd = "probe" /\ cancelled
  /\ wd' = "idle"
  /\ UNCHANGED <<kind, pc, good, verdict, book, cancelled, agent, children, ticks, wbest, improved>>

Ended == pc = "done" /\ UNCHANGED vars

Harness  == Top \/ Dispatch \/ RunnerReturns \/ Join \/ Score \/ Book
Watchdog == WatchdogProbes \/ WatchdogSees \/ WatchdogErrs \/ WatchdogLate

Next == \/ Harness \/ Watchdog \/ WatchdogStops
        \/ Work \/ AgentExits \/ AgentKilled \/ AgentTimeout \/ Ended

Spec == Init /\ [][Next]_vars

\* The harness and the watchdog go on, a killed process dies, and a select that could see
\* the end of the context again and again sees it; the agent and its children owe nothing.
FairSpec == /\ Spec
            /\ WF_vars(Harness) /\ WF_vars(Watchdog)
            /\ SF_vars(WatchdogStops) /\ WF_vars(AgentKilled)

-----------------------------------------------------------------------------
(* Properties.                                                             *)

Exits == {"", "solved-all", "plateau", "dry-run"}

TypeOK ==
  /\ mode \in Modes /\ stream \in BOOLEAN
  /\ pc \in {"top", "dispatch", "runner", "join", "score", "book", "done"}
  /\ good \subseteq Steps
  /\ verdict \in [Steps -> Verdicts]
  /\ score \in 0..Cardinality(Steps)
  /\ best \in [score : 0..Cardinality(Steps), iteration : Nat]
  /\ plateau \in 0..Plateau
  /\ exit \in Exits
  /\ cancelled \in BOOLEAN /\ agent \in BOOLEAN /\ children \in BOOLEAN
  /\ wd \in {"off", "idle", "probe"}
  /\ ticks \in Nat /\ wbest \in Nat /\ improved \in 0..ticks
  /\ scores \in Seq(0..Cardinality(Steps))

\* Only one scoring at a time touches the deployments, and none while the agent itself still
\* works on them: every scoring runs the steps of the plan, provisioning included.  What the
\* agent has left running is not awaited.
OneScoring == pc = "score" => ~agent /\ wd = "off"

\* The loop has no other bound than the plateau: whatever the agent does to the score, up
\* and down, the number of iterations stays below Plateau for each score that can be best.
IterationsBounded == Len(scores) <= Plateau * (best.score + 1)

\* The report names the best iteration, and a plateau is one: none of the last Plateau
\* iterations was better than the best before them.
BestReported ==
  /\ \A i \in 1..Len(scores) : scores[i] <= best.score
  /\ best.iteration > 0 => scores[best.iteration] = best.score
  /\ exit = "plateau" => best.iteration + Plateau = Len(scores)

\* "both bound the run": a live run whose agent writes to a file ends, even with an agent that
\* never ends by itself and leaves processes behind that do not end either.
LiveEnds == mode = "live" /\ ~stream ~> pc = "done"

\* The same for every run that has a watchdog.
WatchedEnds == mode \in {"live", "refused"} ~> pc = "done"
=============================================================================
