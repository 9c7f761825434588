------------------------------- MODULE MCProxy -------------------------------
EXTENDS Proxy

Quiet == [capped |-> TRUE, orphan |-> FALSE, lossy |-> FALSE, supervised |-> FALSE, reverts |-> FALSE,
          slow |-> FALSE, calls |-> MaxCalls, engines |-> MaxNannies]

\* An engine on privileged ports whose nanny may be killed, with a user who reverts; answers
\* that come too late; ports that can be traced, with one route to a server of the panel; and
\* syncs that overlap one another and a call of the API, over one engine.
MCWorlds ==
    {[Quiet EXCEPT !.orphan = TRUE, !.reverts = TRUE],
     [Quiet EXCEPT !.lossy = TRUE, !.calls = 1],
     [Quiet EXCEPT !.capped = FALSE, !.supervised = TRUE],
     [Quiet EXCEPT !.slow = TRUE, !.calls = 1, !.engines = 1]}
=============================================================================
