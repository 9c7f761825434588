------------------------------- MODULE MCNanny -------------------------------
(* Nanny with small sets of worlds. *)
EXTENDS Nanny

Common == [trapped |-> TRUE, killGroup |-> TRUE, slow |-> FALSE, denied |-> FALSE, hard |-> FALSE,
           autostart |-> TRUE, resumes |-> TRUE]

\* The defaults; a stop of the nanny's pid alone, of a patient and of an impatient kind; a
\* stubborn server; a nanny that may not be signalled; SIGKILL; a nanny killed alone; --no-autostart.
MCWorlds ==
    {Common, [Common EXCEPT !.slow = TRUE, !.autostart = FALSE],
     [Common EXCEPT !.killGroup = FALSE], [Common EXCEPT !.killGroup = FALSE, !.trapped = FALSE],
     [Common EXCEPT !.killGroup = FALSE, !.slow = TRUE],
     [Common EXCEPT !.denied = TRUE], [Common EXCEPT !.hard = TRUE],
     [Common EXCEPT !.resumes = FALSE]}
=============================================================================
