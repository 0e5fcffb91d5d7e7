------------------------------- MODULE MCPoll -------------------------------
(* Instances of Poll for TLC.                                               *)
EXTENDS Poll

\* An unset configuration and one with a cap below the no-progress window.
MCReadiness ==
  {[b \in Bounds |-> 0],
   [b \in Bounds |-> CASE b = "absoluteCap" -> 2 [] b = "noProgress" -> 3 [] OTHER -> 1]}

MCFallback ==
  [b \in Bounds |-> CASE b = "interval" -> 1 [] b = "perAttempt" -> 2 [] b = "noProgress" -> 2
                      [] b = "absoluteCap" -> 4 [] b = "stopGrace" -> 3]
=============================================================================
