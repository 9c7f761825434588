------------------------------ MODULE Exclusive ------------------------------
(***************************************************************************)
(* What a set of processes that must not work at the same time promise:    *)
(* at most one of them owns the work, and it is free before another takes  *)
(* it.                                                                     *)
(***************************************************************************)
CONSTANTS Members, Nobody

VARIABLE owner

Init == owner = Nobody

Takes(m) == owner = Nobody /\ owner' = m
Leaves   == owner # Nobody /\ owner' = Nobody

Next == Leaves \/ \E m \in Members : Takes(m)

Spec == Init /\ [][Next]_owner
=============================================================================
