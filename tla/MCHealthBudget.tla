--------------------------- MODULE MCHealthBudget ---------------------------
(* HealthBudget with few processes and two calls in flight. *)
EXTENDS HealthBudget

\* Late probes and a memory limit; a server that is well or sick; probes that take no time.
MCWorlds ==
    {[http |-> TRUE,  rss |-> TRUE,  late |-> TRUE,  sick |-> FALSE],
     [http |-> TRUE,  rss |-> FALSE, late |-> TRUE,  sick |-> TRUE],
     [http |-> TRUE,  rss |-> FALSE, late |-> FALSE, sick |-> FALSE],
     [http |-> FALSE, rss |-> FALSE, late |-> FALSE, sick |-> FALSE]}
=============================================================================
