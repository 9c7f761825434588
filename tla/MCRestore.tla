----------------------------- MODULE MCRestore -----------------------------
(***************************************************************************)
(* Two restores of one entry, over hosts that differ in what they had of   *)
(* it and in what may go wrong.                                            *)
(***************************************************************************)
EXTENDS Restore

\* The entry as it was and where it starts, with a well-behaved command line; then the
\* hosts where a panel may be started beside it, or a holder is outwaited or dies early.
MCWorlds ==
    {w \in World :
        /\ w.fresh => w.old = "none"
        /\ \/ ~w.meet /\ ~w.slow /\ ~w.torn
           \/ w.old = "hooked" /\ w.autostart /\ w.meet /\ ~w.slow /\ ~w.torn
           \/ w.old = "none" /\ ~w.fresh /\ ~w.autostart /\ w.slow /\ ~w.meet}
=============================================================================
