-------------------------------- MODULE Poll --------------------------------
(***************************************************************************)
(* The readiness poll of charly/vmshared/poll.go: pollUntil probes a       *)
(* condition, pauses and probes again until the condition holds, fails for *)
(* good, makes no progress for too long, or the time is up.  Its four      *)
(* configurations come from the builders of ResolvedReadiness.             *)
(*                                                                         *)
(* Time is counted in ticks from the start of the poll; it passes in the   *)
(* probe, which the per-attempt context bounds, and in the pause.          *)
(***************************************************************************)
EXTENDS Integers, Sequences

CONSTANTS
  Readiness, \* the resolved bounds that may be configured, 0 for an unset one
  Fallback,  \* the compiled-in bounds
  Deadlines, \* the caps a caller of WaitCapped may ask for, 0 for none
  Scores,    \* what a probe may report as progress
  Horizon    \* bound: the clock stops there, beyond every deadline

Bounds == {"interval", "perAttempt", "noProgress", "absoluteCap", "stopGrace"}

ASSUME PollAssumption ==
  /\ Readiness \subseteq [Bounds -> Nat]
  /\ Fallback \in [Bounds -> Nat \ {0}]
  /\ Deadlines \subseteq Nat
  /\ Scores \subseteq Nat
  /\ Horizon \in Nat

VARIABLES
  cfg,       \* the PollConfig
  pc,        \* "probe", "check", "pause" or how the poll ended
  clock,     \* ticks since the start
  best,      \* the high-water mark, NoBaseline before the first clean observation
  last,      \* when it last advanced; the start, if it never did
  cancelled, \* the caller's context is cancelled
  obs        \* history: the clean observations

pollVars == <<cfg, pc, clock, best, last, cancelled, obs>>

NoBaseline == -1

-----------------------------------------------------------------------------
(* The configurations.                                                     *)

PollConfig == [interval : Nat, perAttempt : Nat, noProgress : Nat, cap : Nat]

\* The first bound that is set.
Pick(v, fb) == IF v > 0 THEN v ELSE fb

Bound(rr, b) == Pick(rr[b], Fallback[b])

Config(rr, noProgress, cap) ==
  [interval |-> Bound(rr, "interval"), perAttempt |-> Bound(rr, "perAttempt"),
   noProgress |-> noProgress, cap |-> cap]

Wait(rr)             == Config(rr, Bound(rr, "noProgress"), Bound(rr, "absoluteCap"))
WaitCapped(rr, d)    == Config(rr, 0, Pick(d, Bound(rr, "absoluteCap")))
WatchProgress(rr, d) == Config(rr, Pick(d, Bound(rr, "noProgress")), 0)
StopGate(rr)         == Config(rr, 0, Bound(rr, "stopGrace"))

Configs ==
  UNION {{Wait(rr), StopGate(rr)} \cup {WaitCapped(rr, d) : d \in Deadlines}
                                  \cup {WatchProgress(rr, d) : d \in Deadlines} : rr \in Readiness}

Valid(c) == c.interval > 0 /\ c.perAttempt > 0 /\ (c.noProgress > 0 \/ c.cap > 0)

-----------------------------------------------------------------------------
(* pollUntil.                                                              *)

Results == {"ready", "fatal", "stalled", "cap", "cancelled", "config"}

PollInit ==
  /\ cfg \in Configs
  /\ pc = IF Valid(cfg) THEN "probe" ELSE "config"
  /\ clock = 0
  /\ best = NoBaseline
  /\ last = 0
  /\ cancelled = FALSE
  /\ obs = <<>>

Later(d) == IF clock + d < Horizon THEN clock + d ELSE Horizon

\* The score becomes the new high-water mark; the first one is the baseline, no advance.
Observe_bug(score, t) ==
  /\ best' = score
  /\ last' = IF best # NoBaseline /\ score > best THEN t ELSE last

Observe(score, t) ==
  IF cfg.noProgress > 0 /\ score > best
  THEN /\ best' = score
       /\ last' = IF best = NoBaseline THEN last ELSE t
  ELSE UNCHANGED <<best, last>>

\* The probe ends the poll, fails for now, or reports a score.
Probe ==
  \E d \in 0..cfg.perAttempt :
    /\ pc = "probe"
    /\ clock' = Later(d)
    /\ \/ /\ pc' \in {"ready", "fatal"}
          /\ UNCHANGED <<best, last, obs>>
       \/ /\ pc' = "check"
          /\ UNCHANGED <<best, last, obs>>
       \/ \E s \in Scores :
            /\ pc' = "check"
            /\ Observe(s, Later(d))
            /\ obs' = Append(obs, [time |-> Later(d), score |-> s])
    /\ UNCHANGED <<cfg, cancelled>>

Stalled_bug == cfg.noProgress > 0 /\ clock >= cfg.noProgress

\* Idle since the last advance, or since the start.
Stalled == cfg.noProgress > 0 /\ clock - last >= cfg.noProgress

CapExceeded_bug == cfg.cap > 0 /\ clock - last >= cfg.cap

CapExceeded == cfg.cap > 0 /\ clock >= cfg.cap

\* A tick without a clean observation is skipped, as ProgressWatchdog does.
Check_bug ==
  /\ pc = "check"
  /\ pc' = CASE obs = <<>> -> "pause"
             [] obs # <<>> /\ Stalled -> "stalled"
             [] obs # <<>> /\ ~Stalled /\ CapExceeded -> "cap"
             [] OTHER -> "pause"
  /\ UNCHANGED <<cfg, clock, best, last, cancelled, obs>>

\* The bounds, after every probe that did not end the poll.
Check ==
  /\ pc = "check"
  /\ pc' = CASE Stalled -> "stalled"
             [] ~Stalled /\ CapExceeded -> "cap"
             [] ~Stalled /\ ~CapExceeded -> "pause"
  /\ UNCHANGED <<cfg, clock, best, last, cancelled, obs>>

\* A pause of one interval, cut short when the context is cancelled.
Pause ==
  /\ pc = "pause"
  /\ \/ /\ ~cancelled
        /\ clock' = Later(cfg.interval)
        /\ pc' = "probe"
     \/ /\ cancelled
        /\ pc' = "cancelled"
        /\ UNCHANGED clock
  /\ UNCHANGED <<cfg, best, last, cancelled, obs>>

\* The caller gives up.
Cancel ==
  /\ pc \in {"probe", "check", "pause"} /\ ~cancelled
  /\ cancelled' = TRUE
  /\ UNCHANGED <<cfg, pc, clock, best, last, obs>>

Ended == pc \in Results /\ UNCHANGED pollVars

PollNext == Probe \/ Check \/ Pause \/ Cancel \/ Ended

PollSpec == PollInit /\ [][PollNext]_pollVars

\* The probe returns by its deadline, the timer of the pause runs off.
PollFairSpec == PollSpec /\ WF_pollVars(Probe \/ Check \/ Pause)

-----------------------------------------------------------------------------
(* Properties.                                                             *)

PollTypeOK ==
  /\ cfg \in PollConfig
  /\ Valid(cfg)
  /\ pc \in {"probe", "check", "pause"} \cup Results
  /\ clock \in 0..Horizon
  /\ best \in Nat \cup {NoBaseline}
  /\ last \in 0..clock
  /\ cancelled \in BOOLEAN
  /\ obs \in Seq([time : Nat, score : Nat])

\* The observations that went above every earlier one: the definition of progress that the
\* code keeps no history for.
Advances == {i \in 2..Len(obs) : \A j \in 1..(i - 1) : obs[j].score < obs[i].score}

\* A poll that makes progress is never ended for a stall: "load-robust", a slow start under
\* load is waited for.
StallJust == pc = "stalled" => \A i \in Advances : clock - obs[i].time >= cfg.noProgress

\* A service that flaps below its high-water mark is not taken for one that makes progress:
\* the poll pauses only within the no-progress window of a real advance, or of the start.
FlapStalls ==
  pc = "pause" /\ cfg.noProgress > 0 =>
    \/ clock < cfg.noProgress
    \/ \E i \in Advances : clock - obs[i].time < cfg.noProgress

\* A poll with a cap ends at the latest one interval and one attempt after it, however much
\* progress it makes.
CapBound == cfg.cap > 0 => clock < cfg.cap + cfg.interval + cfg.perAttempt

\* "a misconfigured poll must error, never spin or hang": every poll ends, the one without a
\* cap too, since the score cannot rise for ever.
Ends == <>(pc \in Results)
=============================================================================
