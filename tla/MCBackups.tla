------------------------------- MODULE MCBackups ------------------------------
(* Model-checking instances of Backups. *)
EXTENDS Backups, TLC

CONSTANTS a1, a2, a3, b1, b2

KeepOne == [k \in {"auto", "manual"} |-> 1]

\* Captures one at a time and never cut short; and captures that overlap and die.
WorldsTried == {[overlap |-> FALSE, dies |-> FALSE, reuse |-> FALSE],
                [overlap |-> TRUE, dies |-> TRUE, reuse |-> TRUE]}
=============================================================================
