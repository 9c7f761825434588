----------------------------- MODULE EntryHandle -----------------------------
(***************************************************************************)
(* What the supervisor owes the owner of an entry, with every detail of    *)
(* how left out: while the entry is configured at most one process of it   *)
(* runs, and a running process is always the one on record, so whoever     *)
(* reads the record (the next panel, `down`) can reach it.  An edit that   *)
(* drops the entry leaves its process behind, and with it the right to be  *)
(* alone: an id listed again is a new entry, with nothing running and      *)
(* nothing on record.  Lifecycle implements this specification.            *)
(***************************************************************************)
CONSTANTS Pids, NoPid

VARIABLES
    live,   \* the running processes of the entry
    record, \* the pid in the entry's state file, or NoPid
    owned   \* the entry is configured

vars == <<live, record, owned>>

Init == live = {} /\ record = NoPid /\ owned = TRUE

\* A process is started only when none runs, and is on record in the same step.
Launch(p) ==
    /\ owned /\ live = {}
    /\ live' = {p} /\ record' = p
    /\ UNCHANGED owned

End(p) ==
    /\ p \in live
    /\ live' = live \ {p}
    /\ UNCHANGED <<record, owned>>

\* The record is dropped only once what it names is gone.
Forget ==
    /\ live = {}
    /\ record' = NoPid
    /\ UNCHANGED <<live, owned>>

\* The entry leaves the configuration, and its record and its process are no longer its own.
Abandon ==
    /\ owned' = FALSE
    /\ live' = {} /\ record' = NoPid

\* The id is listed again.
Relist ==
    /\ ~owned /\ owned' = TRUE
    /\ UNCHANGED <<live, record>>

Next == (\E p \in Pids : Launch(p) \/ End(p)) \/ Forget \/ Abandon \/ Relist

Spec == Init /\ [][Next]_vars

\* At most one process, on record, and none of an entry that is not configured.
OneOnRecord ==
    /\ \A p, q \in live : p = q
    /\ live \subseteq {record}
    /\ ~owned => live = {} /\ record = NoPid
=============================================================================
