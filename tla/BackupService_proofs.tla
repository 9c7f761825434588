------------------------- MODULE BackupService_proofs -------------------------
(***************************************************************************)
(* Proofs about src/services/backups.ts: restoring, for any number of      *)
(* restores, hosts and panel restarts, and capturing, for any number of    *)
(* captures, budgets, overlaps and deaths.                                 *)
(*                                                                         *)
(* Restore: until a holder dies or is outwaited one restore writes at a    *)
(* time, no lock is left behind by one that ended, no staged dump is       *)
(* loaded twice, and none is lost from disk before its hook begins.        *)
(* Backups: no sweep takes a live capture's staging tree, and retention    *)
(* and failures cost no good archive its budget keeps.                     *)
(***************************************************************************)
EXTENDS Restore, Backups, TLAPS, FiniteSetTheorems, WellFoundedInduction

-----------------------------------------------------------------------------
(* Restore: the lock *)

LockType == lock \in Lock /\ job \in [Jobs -> Job]

\* Until the lock is broken, what the file says and what the jobs hold agree.
HolderHasLock ==
    \A j \in Jobs : Holding(j) => lock.at = "held" /\ lock.by = j
CreatorHasLock ==
    \A j \in Jobs : job[j].at = "created" => lock.at = "empty" /\ lock.by = j
LockHasHolder ==
    /\ lock.at = "held"  => lock.by \in Jobs /\ Holding(lock.by) /\ ~lock.aged
    /\ lock.at = "empty" => lock.by \in Jobs /\ job[lock.by].at = "created"
NobodySawStale ==
    \A j \in Jobs : job[j].at = "looked" => job[j].saw = "nothing"

Agrees == HolderHasLock /\ CreatorHasLock /\ LockHasHolder /\ NobodySawStale

\* A lock on the disk has an owner; this one holds broken or not.
LockOwned == lock.at # "absent" => lock.by \in Jobs

IInv == LockType /\ LockOwned /\ LockIsAccounted /\ (unbroken => Agrees)

-----------------------------------------------------------------------------
(* Types *)

LEMMA GoType ==
  ASSUME LockType, NEW j \in Jobs, NEW p, Go(j, p),
         p \in {"idle", "looked", "created", "reading", "written", "staged", "release",
                "removes", "refused", "done", "dead"}
  PROVE  /\ job' \in [Jobs -> Job]
         /\ job'[j].at = p /\ job'[j].saw = job[j].saw /\ job'[j].via = job[j].via
         /\ \A k \in Jobs \ {j} : job'[k] = job[k]
  BY DEF LockType, Go, Job

LEMMA NoLockType == NoLock \in Lock
  BY DEF Lock, NoLock, Dump

LEMMA HeldLock ==
  ASSUME NEW j \in Jobs
  PROVE  /\ [at |-> "held", by |-> j, aged |-> FALSE] \in Lock
         /\ [at |-> "empty", by |-> j, aged |-> FALSE] \in Lock
  BY DEF Lock, Dump

\* What the jobs and the lock of a state say, said again of a state that differs in neither.
LEMMA Untouched ==
  ASSUME IInv, UNCHANGED <<lock, job, unbroken>>
  PROVE  IInv'
  BY DEF IInv, LockType, LockOwned, LockIsAccounted, Agrees, HolderHasLock, CreatorHasLock,
     LockHasHolder, NobodySawStale, Holding, AtWork

\* A job at work that goes on holding the lock.
LEMMA GoesOn ==
  ASSUME IInv, NEW j \in Jobs, NEW p, Holding(j), Go(j, p), UNCHANGED <<lock, unbroken>>,
         p \in {"written", "staged", "release", "removes"}
  PROVE  IInv'
  <1>1. /\ job' \in [Jobs -> Job] /\ job'[j].at = p /\ \A k \in Jobs \ {j} : job'[k] = job[k]
    BY GoType DEF IInv
  <1>2. Holding(j)' /\ \A k \in Jobs : Holding(k)' <=> Holding(k)
    BY <1>1 DEF Holding, AtWork
  <1>3. LockType' /\ LockOwned' /\ LockIsAccounted'
    BY <1>1 DEF IInv, LockType, LockOwned, LockIsAccounted
  <1>4. ASSUME unbroken' PROVE Agrees'
    BY <1>1, <1>2, <1>4 DEF IInv, LockType, Agrees, HolderHasLock, CreatorHasLock,
       LockHasHolder, NobodySawStale, Holding, AtWork
  <1> QED BY <1>3, <1>4 DEF IInv

-----------------------------------------------------------------------------
(* The steps *)

LEMMA BeginsStep == ASSUME IInv, NEW j \in Jobs, Begins(j) PROVE IInv'
  <1> DEFINE seen == IF lock.at = "held" THEN "stale" ELSE "nothing"
  <1>1. /\ job' \in [Jobs -> Job] /\ job[j].at = "idle" /\ job'[j].at = "looked"
        /\ job'[j].saw = seen
        /\ \A k \in Jobs \ {j} : job'[k] = job[k]
        /\ UNCHANGED <<lock, unbroken>>
    BY DEF IInv, LockType, Begins, Job
  <1>2. \A k \in Jobs : Holding(k)' <=> Holding(k)
    BY <1>1 DEF Holding, AtWork
  <1>3. LockType' /\ LockOwned' /\ LockIsAccounted'
    BY <1>1 DEF IInv, LockType, LockOwned, LockIsAccounted
  <1>4. ASSUME unbroken' PROVE Agrees'
    <2>1. Agrees
      BY <1>1, <1>4 DEF IInv
    <2>2. lock.at # "held"
      BY <2>1 DEF Begins, Agrees, LockHasHolder, Alive, Holding, AtWork
    <2> QED BY <1>1, <1>2, <2>1, <2>2 DEF Agrees, HolderHasLock, CreatorHasLock, LockHasHolder,
         NobodySawStale
  <1> QED BY <1>3, <1>4 DEF IInv

LEMMA RefusedStep ==
  ASSUME IInv, NEW j \in Jobs, Go(j, "refused"), UNCHANGED <<lock, unbroken>>,
         job[j].at \in {"idle", "looked"}
  PROVE  IInv'
  <1>1. /\ job' \in [Jobs -> Job] /\ job'[j].at = "refused"
        /\ \A k \in Jobs \ {j} : job'[k] = job[k]
    BY GoType DEF IInv
  <1>2. \A k \in Jobs : Holding(k)' <=> Holding(k)
    BY <1>1 DEF Holding, AtWork
  <1>3. LockType' /\ LockOwned' /\ LockIsAccounted'
    BY <1>1 DEF IInv, LockType, LockOwned, LockIsAccounted
  <1>4. ASSUME unbroken' PROVE Agrees'
    BY <1>1, <1>2, <1>4 DEF IInv, Agrees, HolderHasLock, CreatorHasLock, LockHasHolder,
       NobodySawStale
  <1> QED BY <1>3, <1>4 DEF IInv

LEMMA TakesOverStep == ASSUME IInv, NEW j \in Jobs, TakesOver(j) PROVE IInv'
  <1>1. /\ job' \in [Jobs -> Job] /\ job'[j].at = "reading"
        /\ \A k \in Jobs \ {j} : job'[k] = job[k]
    BY GoType DEF IInv, TakesOver
  <1>2. LockType' /\ LockOwned' /\ LockIsAccounted'
    BY <1>1, HeldLock DEF IInv, LockType, LockOwned, LockIsAccounted, TakesOver
  <1>3. ~unbroken'
    BY DEF IInv, TakesOver, Agrees, NobodySawStale
  <1> QED BY <1>2, <1>3 DEF IInv

LEMMA CreatesStep == ASSUME IInv, NEW j \in Jobs, Creates(j) PROVE IInv'
  <1>1. CASE lock.at # "absent"
    BY <1>1, RefusedStep DEF Creates
  <1>2. CASE lock.at = "absent"
    <2>1. /\ job' \in [Jobs -> Job] /\ job'[j].at = "created" /\ job[j].at = "looked"
          /\ lock' = [at |-> "empty", by |-> j, aged |-> FALSE]
          /\ \A k \in Jobs \ {j} : job'[k] = job[k]
          /\ UNCHANGED unbroken
      BY <1>2, GoType DEF IInv, Creates
    <2>2. LockType' /\ LockOwned' /\ LockIsAccounted'
      BY <2>1, HeldLock DEF IInv, LockType, LockOwned, LockIsAccounted
    <2>3. ASSUME unbroken' PROVE Agrees'
      <3>1. \A k \in Jobs : ~Holding(k) /\ job[k].at # "created"
        BY <1>2, <2>1, <2>3 DEF IInv, Agrees, HolderHasLock, CreatorHasLock
      <3>2. \A k \in Jobs : ~Holding(k)'
        BY <3>1, <2>1 DEF Holding, AtWork
      <3> QED BY <2>1, <2>3, <3>1, <3>2 DEF IInv, Agrees, HolderHasLock, CreatorHasLock,
           LockHasHolder, NobodySawStale
    <2> QED BY <2>2, <2>3 DEF IInv
  <1> QED BY <1>1, <1>2

LEMMA WritesStep == ASSUME IInv, NEW j \in Jobs, Writes(j) PROVE IInv'
  <1>1. /\ job' \in [Jobs -> Job] /\ job'[j].at = "reading" /\ job[j].at = "created"
        /\ \A k \in Jobs \ {j} : job'[k] = job[k]
        /\ UNCHANGED unbroken
    BY GoType DEF IInv, Writes
  <1>2. /\ lock' \in Lock /\ lock'.by = lock.by
        /\ lock.at = "empty" /\ lock.by = j => lock'.at = "held" /\ lock'.aged = FALSE
        /\ lock'.at # "absent" => lock.at # "absent"
    BY HeldLock DEF IInv, LockType, Writes
  <1>3. LockType' /\ LockOwned' /\ LockIsAccounted'
    BY <1>1, <1>2 DEF IInv, LockType, LockOwned, LockIsAccounted
  <1>4. ASSUME unbroken' PROVE Agrees'
    <2>1. Agrees /\ lock.at = "empty" /\ lock.by = j
      BY <1>1, <1>4 DEF IInv, Agrees, CreatorHasLock
    <2>2. \A k \in Jobs \ {j} : ~Holding(k) /\ job[k].at # "created"
      BY <2>1 DEF Agrees, HolderHasLock, CreatorHasLock
    <2>3. Holding(j)' /\ \A k \in Jobs \ {j} : ~Holding(k)'
      BY <1>1, <2>2 DEF Holding, AtWork
    <2> QED BY <1>1, <1>2, <2>1, <2>2, <2>3 DEF Agrees, HolderHasLock, CreatorHasLock,
         LockHasHolder, NobodySawStale
  <1> QED BY <1>3, <1>4 DEF IInv

LEMMA ReleasesStep == ASSUME IInv, NEW j \in Jobs, Releases(j) PROVE IInv'
  <1>1. CASE lock.at = "held" /\ lock.by # j
    <2>1. /\ job' \in [Jobs -> Job] /\ job'[j].at = "done" /\ job[j].at = "release"
          /\ \A k \in Jobs \ {j} : job'[k] = job[k]
          /\ UNCHANGED <<lock, unbroken>>
      BY <1>1, GoType DEF IInv, Releases
    <2>2. LockType' /\ LockOwned' /\ LockIsAccounted'
      BY <1>1, <2>1 DEF IInv, LockType, LockOwned, LockIsAccounted
    <2>3. ~unbroken
      BY <1>1, <2>1 DEF IInv, Agrees, HolderHasLock, Holding
    <2> QED BY <2>1, <2>2, <2>3 DEF IInv
  <1>2. CASE ~(lock.at = "held" /\ lock.by # j)
    BY <1>2, GoesOn DEF Releases, Holding
  <1> QED BY <1>1, <1>2

LEMMA RemovesStep == ASSUME IInv, NEW j \in Jobs, RemovesLock(j) PROVE IInv'
  <1>1. /\ job' \in [Jobs -> Job] /\ job'[j].at = "done" /\ job[j].at = "removes"
        /\ lock' = [at |-> "absent", by |-> NoJob, aged |-> FALSE]
        /\ \A k \in Jobs \ {j} : job'[k] = job[k]
        /\ UNCHANGED unbroken
    BY GoType DEF IInv, RemovesLock, NoLock
  <1>2. LockType' /\ LockOwned' /\ LockIsAccounted'
    BY <1>1, NoLockType DEF IInv, LockType, LockOwned, LockIsAccounted, NoLock
  <1>3. ASSUME unbroken' PROVE Agrees'
    <2>1. Agrees /\ lock.at = "held" /\ lock.by = j
      BY <1>1, <1>3 DEF IInv, Agrees, HolderHasLock, Holding
    <2>2. \A k \in Jobs \ {j} : ~Holding(k) /\ job[k].at # "created"
      BY <2>1 DEF Agrees, HolderHasLock, CreatorHasLock
    <2>3. \A k \in Jobs : ~Holding(k)'
      BY <1>1, <2>2 DEF Holding, AtWork
    <2> QED BY <1>1, <2>1, <2>2, <2>3 DEF Agrees, HolderHasLock, CreatorHasLock,
         LockHasHolder, NobodySawStale
  <1> QED BY <1>2, <1>3 DEF IInv

LEMMA AgesStep == ASSUME IInv, Ages PROVE IInv'
  <1>1. /\ lock' \in Lock /\ lock'.at = lock.at /\ lock'.by = lock.by
        /\ ~unbroken' /\ UNCHANGED job
    BY DEF IInv, LockType, Lock, Ages
  <1> QED BY <1>1 DEF IInv, LockType, LockOwned, LockIsAccounted

LEMMA DiesStep ==
  ASSUME IInv, NEW dead \in SUBSET Jobs, Dies(dead), UNCHANGED lock
  PROVE  IInv'
  <1>1. \A j \in Jobs : job'[j] = IF j \in dead THEN [job[j] EXCEPT !.at = "dead"] ELSE job[j]
    BY DEF Dies
  <1>2. job' \in [Jobs -> Job] /\ \A j \in dead : job'[j].at = "dead"
    BY <1>1 DEF Dies, IInv, LockType, Job
  <1>3. \A j \in Jobs \ dead : job'[j] = job[j]
    BY <1>1
  <1>4. \A j \in Jobs : job'[j].at = job[j].at \/ job'[j].at = "dead"
    BY <1>2, <1>3
  <1>5. LockType' /\ LockOwned' /\ LockIsAccounted'
    BY <1>2, <1>4 DEF IInv, LockType, LockOwned, LockIsAccounted
  <1>6. ASSUME unbroken' PROVE Agrees'
    <2>1. unbroken /\ Agrees /\ \A j \in dead : ~Holding(j) /\ job[j].at # "created"
      BY <1>6 DEF Dies, IInv
    <2>2. \A j \in Jobs \ dead : Holding(j)' <=> Holding(j)
      BY <1>3 DEF Holding, AtWork
    <2>3. \A j \in dead : ~Holding(j)' /\ job'[j].at \notin {"created", "looked"}
      BY <1>2 DEF Holding, AtWork
    <2>4. HolderHasLock' /\ CreatorHasLock' /\ NobodySawStale'
      BY <1>3, <2>1, <2>2, <2>3 DEF Agrees, HolderHasLock, CreatorHasLock, NobodySawStale
    <2>5. LockHasHolder'
      BY <1>3, <2>1, <2>2, <2>3 DEF Agrees, LockHasHolder
    <2> QED BY <2>4, <2>5 DEF Agrees
  <1> QED BY <1>5, <1>6 DEF IInv

\* The entry's steps, and the panel's start, touch neither the lock nor a restore.
LEMMA EntryStep ==
  ASSUME IInv, \/ UserStart \/ Spawns \/ Ready \/ UserStop \/ Exits \/ Boots
               \/ \E n \in 1..2 : LoadStep(n)
  PROVE  IInv'
  <1>1. UNCHANGED <<lock, job, unbroken>>
    BY DEF UserStart, Spawns, Ready, UserStop, Exits, Boots, LoadStep, LoadProceeds, LoadEnds
  <1> QED BY <1>1, Untouched

-----------------------------------------------------------------------------

LEMMA InitInv == Init => IInv
  <1> SUFFICES ASSUME Init PROVE IInv
    OBVIOUS
  <1>0. [at |-> "idle", via |-> "files", saw |-> "nothing"] \in Job
    BY DEF Job
  <1>1. LockType
    BY <1>0, NoLockType DEF Init, LockType
  <1> QED BY <1>1 DEF Init, IInv, LockOwned, LockIsAccounted, Agrees, HolderHasLock,
       CreatorHasLock, LockHasHolder, NobodySawStale, Holding, AtWork, NoLock

LEMMA StepInv == IInv /\ [Next]_vars => IInv'
  <1> SUFFICES ASSUME IInv, [Next]_vars PROVE IInv'
    OBVIOUS
  <1>1. CASE UNCHANGED vars
    BY <1>1, Untouched DEF vars
  <1>2. ASSUME NEW j \in Jobs,
               \/ Begins(j) \/ Refused(j) \/ TakesOver(j) \/ Creates(j) \/ Writes(j)
               \/ Releases(j) \/ RemovesLock(j)
        PROVE  IInv'
    BY <1>2, BeginsStep, RefusedStep, TakesOverStep, CreatesStep, WritesStep, ReleasesStep,
       RemovesStep DEF Refused
  <1>3. ASSUME NEW j \in Jobs,
               PanelApplies(j) \/ FilesWritten(j) \/ DumpCopied(j) \/ Fails(j) \/ LoadStaged(j)
        PROVE  IInv'
    <2>1. Holding(j) /\ UNCHANGED <<lock, unbroken>>
      BY <1>3 DEF PanelApplies, FilesWritten, DumpCopied, Fails, LoadStaged, Holding, AtWork,
         panelVars, diskVars, pastVars
    <2>2. PICK p \in {"written", "staged", "release"} : Go(j, p)
      BY <1>3 DEF PanelApplies, FilesWritten, DumpCopied, Fails, LoadStaged
    <2> QED BY <2>1, <2>2, GoesOn
  <1>4. ASSUME NEW j \in Jobs, JobDies(j) PROVE IInv'
    BY <1>4, DiesStep DEF JobDies
  <1>5. CASE PanelDies
    BY <1>5, DiesStep DEF PanelDies
  <1>6. CASE Ages
    BY <1>6, AgesStep
  <1>7. CASE \/ UserStart \/ Spawns \/ Ready \/ UserStop \/ Exits \/ Boots
             \/ \E n \in 1..2 : LoadStep(n)
    BY <1>7, EntryStep
  <1> QED BY <1>1, <1>2, <1>3, <1>4, <1>5, <1>6, <1>7 DEF Next

\* The lock file and the restores agree as long as the lock is unbroken, and whatever
\* happens a lock on the disk has an owner that has not ended (acquireRestoreLock, release).
THEOREM LockInductive == Spec => []IInv
  <1>1. Init => IInv
    BY InitInv
  <1>2. IInv /\ [Next]_vars => IInv'
    BY StepInv
  <1> QED BY <1>1, <1>2, PTL DEF Spec

\* Until a holder dies or is outwaited, no two restores write the host together, whether
\* by the panel or by the command line (acquireRestoreLock's exclusive create).
THEOREM Exclusive == Spec => []OneRestore
  <1>1. IInv => OneRestore
    BY DEF IInv, Agrees, HolderHasLock, OneRestore, Holding
  <1> QED BY <1>1, LockInductive, PTL

\* No restore that ended or was refused leaves its lock behind, whoever died or was taken
\* over meanwhile (release compares the record before it removes the file).
THEOREM NoneLeftBehind == Spec => []LockIsAccounted
  <1>1. IInv => LockIsAccounted
    BY DEF IInv
  <1> QED BY <1>1, LockInductive, PTL

-----------------------------------------------------------------------------
(* The staged dump *)

DataOK ==
    /\ conf \in Conf /\ pendingOnDisk \in Dump /\ owed \in Dump
    /\ entry \in Entry /\ runs \in [1..2 -> Run] /\ ran \in [Jobs -> 0..2]

Past == {"release", "removes", "done", "dead"}

\* At most one call of runPendingLoad is on its way, `loadingPending` tells of it, and
\* while it waits the dump it came for is still there.
OneRun ==
    /\ \A n \in 1..2 : runs[n].at # "none" => entry.loading /\ entry.conf = "hooked"
    /\ \A n \in 1..2 : runs[n].at = "wait" => entry.pending # NoJob
    /\ \A m, n \in 1..2 : runs[m].at # "none" /\ runs[n].at # "none" => m = n

\* A dump on record, in memory or on disk, was staged and its hook has not begun.
PendingIsNew ==
    /\ \A d \in Jobs : entry.pending = d \/ pendingOnDisk = d => ran[d] = 0 /\ job[d].at \in Past
    /\ \A d \in Jobs : job[d].at \notin Past => ran[d] = 0
    /\ LoadedOnce

DumpInv == LockType /\ DataOK /\ OneRun /\ PendingIsNew

LEMMA EntryFields ==
  ASSUME NEW e \in Entry
  PROVE  /\ e.conf \in Conf /\ e.pending \in Dump /\ e.loading \in BOOLEAN
         /\ \A d \in Dump : [e EXCEPT !.pending = d] \in Entry
                             /\ [e EXCEPT !.pending = d].pending = d
                             /\ [e EXCEPT !.pending = d].conf = e.conf
                             /\ [e EXCEPT !.pending = d].status = e.status
                             /\ [e EXCEPT !.pending = d].loading = e.loading
         /\ \A x \in BOOLEAN : [e EXCEPT !.loading = x] \in Entry
                             /\ [e EXCEPT !.loading = x].loading = x
                             /\ [e EXCEPT !.loading = x].conf = e.conf
                             /\ [e EXCEPT !.loading = x].status = e.status
                             /\ [e EXCEPT !.loading = x].pending = e.pending
         /\ \A x \in {"stopped", "starting", "spawned", "running", "stopping"} :
                [e EXCEPT !.status = x] \in Entry
                /\ [e EXCEPT !.status = x].status = x
                /\ [e EXCEPT !.status = x].conf = e.conf
                /\ [e EXCEPT !.status = x].pending = e.pending
                /\ [e EXCEPT !.status = x].loading = e.loading
         /\ \A c \in Conf : [e EXCEPT !.conf = c] \in Entry
                             /\ [e EXCEPT !.conf = c].conf = c
                             /\ [e EXCEPT !.conf = c].status = e.status
                             /\ [e EXCEPT !.conf = c].pending = e.pending
                             /\ [e EXCEPT !.conf = c].loading = e.loading
  BY DEF Entry

\* What one turn of runPendingLoad does, in the terms of the invariants.
LEMMA LoadTurnEffect ==
  ASSUME NEW e \in Entry, runs \in [1..2 -> Run], LoadTurn(e)
  PROVE  /\ entry' \in Entry /\ pendingOnDisk' = entry'.pending
         /\ entry'.conf = e.conf /\ entry'.pending \in {e.pending, NoJob}
         /\ e.conf = "hooked" => entry'.pending = e.pending
         /\ \/ runs' = runs /\ entry'.loading = e.loading
            \/ /\ e.conf = "hooked" /\ ~e.loading /\ entry'.loading
               /\ \E n \in 1..2 : runs' = [runs EXCEPT ![n] = [at |-> "wait", dump |-> e.pending]]
  <1>0. NoJob \in Dump
    BY DEF Dump
  <1>1. CASE e.conf # "hooked"
    BY <1>0, <1>1 DEF LoadTurn, Entry
  <1>2. CASE e.conf = "hooked" /\ e.loading
    BY <1>2 DEF LoadTurn, Entry
  <1>3. CASE e.conf = "hooked" /\ ~e.loading
    <2>1. entry' = [e EXCEPT !.loading = TRUE] /\ pendingOnDisk' = e.pending
      BY <1>3 DEF LoadTurn
    <2>2. \E n \in 1..2 : runs' = [runs EXCEPT ![n] = [at |-> "wait", dump |-> e.pending]]
      BY <1>3 DEF LoadTurn, Free
    <2>3. /\ entry' \in Entry /\ entry'.conf = e.conf /\ entry'.pending = e.pending
          /\ entry'.loading
      BY <2>1 DEF Entry
    <2> QED BY <1>3, <2>1, <2>2, <2>3
  <1> QED BY <1>1, <1>2, <1>3

LEMMA LoadTurnInv ==
  ASSUME DumpInv, NEW e \in Entry, LoadTurn(e),
         e.conf = entry.conf, e.loading = entry.loading, e.pending # NoJob
  PROVE  runs' \in [1..2 -> Run] /\ OneRun'
  <1>1. runs \in [1..2 -> Run] /\ entry \in Entry
    BY DEF DumpInv, DataOK
  <1>2. CASE runs' = runs /\ entry'.loading = e.loading
    <2>1. e.conf = "hooked" => entry'.pending = e.pending
      BY <1>1, LoadTurnEffect
    <2>2. entry'.conf = e.conf
      BY <1>1, LoadTurnEffect
    <2> QED BY <1>1, <1>2, <2>1, <2>2 DEF DumpInv, OneRun
  <1>3. CASE /\ e.conf = "hooked" /\ ~e.loading /\ entry'.loading
             /\ \E n \in 1..2 : runs' = [runs EXCEPT ![n] = [at |-> "wait", dump |-> e.pending]]
    <2>1. PICK n \in 1..2 : runs' = [runs EXCEPT ![n] = [at |-> "wait", dump |-> e.pending]]
      BY <1>3
    <2>2. [at |-> "wait", dump |-> e.pending] \in Run
      BY EntryFields DEF Run
    <2>3. \A m \in 1..2 : runs[m].at = "none"
      BY <1>3 DEF DumpInv, OneRun
    <2>4. /\ runs' \in [1..2 -> Run] /\ runs'[n].at = "wait"
          /\ \A m \in 1..2 \ {n} : runs'[m].at = "none"
      BY <1>1, <2>1, <2>2, <2>3
    <2>5. entry'.conf = "hooked" /\ entry'.pending = e.pending
      BY <1>1, <1>3, LoadTurnEffect
    <2> QED BY <1>3, <2>4, <2>5 DEF OneRun
  <1> QED BY <1>1, <1>2, <1>3, LoadTurnEffect

LEMMA JobsGoOn ==
  ASSUME DumpInv, LockType', UNCHANGED <<pendingOnDisk, entry, runs, ran, owed>>, conf' \in Conf,
         \A d \in Jobs : job[d].at \in Past => job'[d].at \in Past
  PROVE  DumpInv'
  BY DEF DumpInv, DataOK, OneRun, PendingIsNew, LoadedOnce

\* The entry changes and no job does; what it had pending it has, or nothing.
LEMMA PendingStays ==
  ASSUME DumpInv, UNCHANGED <<job, ran>>,
         entry'.pending \in {entry.pending, NoJob}, pendingOnDisk' \in {entry.pending, pendingOnDisk, NoJob}
  PROVE  PendingIsNew'
  BY RestoreAssumption DEF DumpInv, PendingIsNew, LoadedOnce

LEMMA LoadProceedsDump == ASSUME DumpInv, NEW n \in 1..2, LoadProceeds(n) PROVE DumpInv'
  <1> DEFINE d == entry.pending
  <1>1. d \in Jobs /\ entry.loading /\ entry.conf = "hooked" /\ \A m \in 1..2 \ {n} : runs[m].at = "none"
    <2>1. runs[n].at = "wait"
      BY DEF LoadProceeds
    <2>2. OneRun /\ entry \in Entry
      BY DEF DumpInv, DataOK
    <2>3. d # NoJob /\ entry.loading /\ entry.conf = "hooked" /\ \A m \in 1..2 \ {n} : runs[m].at = "none"
      BY <2>1, <2>2 DEF OneRun
    <2>4. d \in Dump
      BY <2>2 DEF Entry
    <2> QED BY <2>3, <2>4 DEF Dump
  <1>2. ran[d] = 0 /\ job[d].at \in Past
    BY <1>1 DEF DumpInv, PendingIsNew
  <1>3. ran' = [ran EXCEPT ![d] = 1]
    <2>1. d # NoJob
      BY <1>1, RestoreAssumption
    <2>2. ran' = [ran EXCEPT ![d] = IF ran[d] < 2 THEN ran[d] + 1 ELSE ran[d]]
      BY <2>1 DEF LoadProceeds, Credit
    <2> QED BY <1>2, <2>2
  <1>4. /\ entry' \in Entry /\ entry'.pending = NoJob /\ entry'.loading /\ entry'.conf = "hooked"
    BY <1>1 DEF DumpInv, DataOK, LoadProceeds, Entry, Dump
  <1>5. /\ runs' \in [1..2 -> Run] /\ runs'[n].at = "hook"
        /\ \A m \in 1..2 \ {n} : runs'[m].at = "none"
    BY <1>1 DEF DumpInv, DataOK, LoadProceeds, Run
  <1>6. DataOK'
    BY <1>1, <1>3, <1>4, <1>5 DEF DumpInv, DataOK, LoadProceeds, Dump
  <1>7. OneRun'
    BY <1>4, <1>5 DEF OneRun
  <1>8. pendingOnDisk' = NoJob /\ UNCHANGED job
    BY DEF LoadProceeds
  <1>9. PendingIsNew'
    BY <1>1, <1>2, <1>3, <1>4, <1>8, RestoreAssumption DEF DumpInv, DataOK, PendingIsNew, LoadedOnce
  <1>10. LockType'
    BY DEF DumpInv, LockType, LoadProceeds
  <1> QED BY <1>6, <1>7, <1>9, <1>10 DEF DumpInv

LEMMA LoadEndsDump == ASSUME DumpInv, NEW n \in 1..2, LoadEnds(n) PROVE DumpInv'
  <1>1. \A m \in 1..2 \ {n} : runs[m].at = "none"
    BY DEF DumpInv, OneRun, LoadEnds
  <1>2. runs' \in [1..2 -> Run] /\ \A m \in 1..2 : runs'[m].at = "none"
    BY <1>1 DEF DumpInv, DataOK, LoadEnds, Run, NoRun, Dump
  <1>3. entry' \in Entry /\ entry'.pending = entry.pending
    BY DEF DumpInv, DataOK, LoadEnds, Entry
  <1>4. UNCHANGED <<job, lock, ran, owed, conf, pendingOnDisk>>
    BY DEF LoadEnds, diskVars, pastVars
  <1>5. OneRun'
    BY <1>2 DEF OneRun
  <1> QED BY <1>2, <1>3, <1>4, <1>5, PendingStays DEF DumpInv, DataOK, LockType

\* A step that only sets the entry's status, and may save its state.
LEMMA StatusDump ==
  ASSUME DumpInv, NEW x \in {"stopped", "starting", "spawned", "running", "stopping"},
         entry' = [entry EXCEPT !.status = x], pendingOnDisk' \in {entry.pending, pendingOnDisk},
         UNCHANGED <<conf, lock, job, runs, ran, owed>>
  PROVE  DumpInv'
  <1>1. /\ entry' \in Entry /\ entry'.pending = entry.pending /\ entry'.conf = entry.conf
        /\ entry'.loading = entry.loading /\ entry.pending \in Dump
    BY DEF DumpInv, DataOK, Entry
  <1>2. OneRun'
    BY <1>1 DEF DumpInv, OneRun
  <1> QED BY <1>1, <1>2, PendingStays DEF DumpInv, DataOK, LockType

\* A step that sees to a waiting dump, of an entry whose status it may have set.
LEMMA LoadDump ==
  ASSUME DumpInv, NEW e \in Entry, LoadTurn(e), e.pending # NoJob,
         e.pending = entry.pending, e.conf = entry.conf, e.loading = entry.loading,
         UNCHANGED <<conf, lock, job, ran, owed>>
  PROVE  DumpInv'
  <1>0. runs \in [1..2 -> Run]
    BY DEF DumpInv, DataOK
  <1>1. /\ entry' \in Entry /\ pendingOnDisk' = entry'.pending
        /\ entry'.pending \in {entry.pending, NoJob} /\ entry'.pending \in Dump
    <2>1. entry' \in Entry /\ pendingOnDisk' = entry'.pending /\ entry'.pending \in {e.pending, NoJob}
      BY <1>0, LoadTurnEffect
    <2>2. entry'.pending \in Dump
      BY <2>1 DEF Entry
    <2> QED BY <2>1, <2>2
  <1>2. runs' \in [1..2 -> Run] /\ OneRun'
    BY LoadTurnInv
  <1>3. PendingIsNew'
    BY <1>1, PendingStays
  <1> QED BY <1>1, <1>2, <1>3 DEF DumpInv, DataOK, LockType

LEMMA UserStartDump == ASSUME DumpInv, UserStart PROVE DumpInv'
  <1>1. UNCHANGED <<conf, lock, job, ran, owed>>
    BY DEF UserStart, pastVars
  <1>2. CASE entry.status = "stopped"
    <2>1. entry' = [entry EXCEPT !.status = "starting"] /\ pendingOnDisk' = entry.pending
          /\ UNCHANGED runs
      BY <1>2 DEF UserStart
    <2> QED BY <1>1, <2>1, StatusDump
  <1>3. CASE UNCHANGED <<entry, pendingOnDisk, runs>>
    BY <1>1, <1>3, JobsGoOn DEF DumpInv, DataOK, LockType
  <1>4. CASE entry.pending # NoJob /\ LoadTurn(entry)
    BY <1>1, <1>4, LoadDump DEF DumpInv, DataOK
  <1> QED BY <1>2, <1>3, <1>4 DEF UserStart

LEMMA SpawnsDump == ASSUME DumpInv, Spawns PROVE DumpInv'
  <1> DEFINE e == [entry EXCEPT !.status = "spawned"]
  <1>1. UNCHANGED <<conf, lock, job, ran, owed>>
    BY DEF Spawns, pastVars
  <1>2. /\ e \in Entry /\ e.pending = entry.pending /\ e.conf = entry.conf
        /\ e.loading = entry.loading
    BY DEF DumpInv, DataOK, Entry
  <1>3. CASE entry' = [entry EXCEPT !.status = "running"] /\ UNCHANGED <<pendingOnDisk, runs>>
    BY <1>1, <1>3, StatusDump
  <1>4. CASE entry' = e /\ pendingOnDisk' = e.pending /\ UNCHANGED runs
    BY <1>1, <1>2, <1>4, StatusDump
  <1>5. CASE e.pending # NoJob /\ LoadTurn(e)
    BY <1>1, <1>2, <1>5, LoadDump
  <1> QED BY <1>3, <1>4, <1>5 DEF Spawns, LoadIfPending

LEMMA StatusStepsDump == ASSUME DumpInv, Ready \/ UserStop \/ Exits PROVE DumpInv'
  <1>1. CASE Ready
    BY <1>1, StatusDump DEF Ready, diskVars, pastVars
  <1>2. CASE UserStop
    BY <1>2, StatusDump DEF UserStop, diskVars, pastVars
  <1>3. CASE Exits
    BY <1>3, StatusDump DEF Exits, pastVars
  <1> QED BY <1>1, <1>2, <1>3

\* With no panel no call is on its way.
DownIsIdle == ~up => ~entry.loading

LEMMA CreatedEntry ==
  ASSUME NEW c \in Conf, NEW d \in Dump
  PROVE  /\ Created(c, d) \in Entry /\ Created(c, d).pending = d /\ Created(c, d).conf = c
         /\ ~Created(c, d).loading /\ Created(c, d).status \in {"starting", "stopped"}
  BY DEF Created, Entry

LEMMA GoneEntry == Gone \in Entry /\ Gone.pending = NoJob /\ ~Gone.loading
  BY DEF Gone, Entry, Conf, Dump

\* The restore that stages its dump moves on.
LEMMA StagingIsNew ==
  ASSUME DumpInv, NEW j \in Jobs, AtWork(j), Go(j, "release"), UNCHANGED ran,
         entry'.pending \in {entry.pending, j, NoJob},
         pendingOnDisk' \in {entry.pending, pendingOnDisk, j, NoJob}
  PROVE  PendingIsNew' /\ job' \in [Jobs -> Job]
  <1>1. /\ job' \in [Jobs -> Job] /\ job'[j].at = "release"
        /\ \A k \in Jobs \ {j} : job'[k] = job[k]
    BY GoType DEF DumpInv
  <1>2. job[j].at \notin Past
    BY DEF AtWork, Past
  <1>3. ran[j] = 0
    BY <1>2 DEF DumpInv, PendingIsNew
  <1>4. \A d \in Jobs : entry'.pending = d \/ pendingOnDisk' = d =>
              d = j \/ entry.pending = d \/ pendingOnDisk = d
    BY RestoreAssumption
  <1>5. "release" \in Past
    BY DEF Past
  <1> QED BY <1>1, <1>3, <1>4, <1>5 DEF DumpInv, PendingIsNew, LoadedOnce

LEMMA PanelAppliesDump == ASSUME DumpInv, NEW j \in Jobs, PanelApplies(j) PROVE DumpInv'
  <1> DEFINE mine == [entry EXCEPT !.pending = j]
  <1>1. /\ AtWork(j) /\ Go(j, "release") /\ UNCHANGED <<lock, ran>> /\ owed' = j
        /\ conf' = "hooked"
    BY DEF PanelApplies, AtWork
  <1>2. /\ entry \in Entry /\ runs \in [1..2 -> Run] /\ j \in Dump /\ NoJob \in Dump
        /\ "hooked" \in Conf /\ j # NoJob
    BY RestoreAssumption DEF DumpInv, DataOK, Dump, Conf
  <1>3. /\ mine \in Entry /\ mine.pending = j /\ mine.conf = entry.conf
        /\ mine.loading = entry.loading /\ mine.status = entry.status
    BY <1>2 DEF Entry
  <1>4. entry.conf # "hooked" => \A n \in 1..2 : runs[n].at = "none"
    BY DEF DumpInv, OneRun
  <1> DEFINE Claim == /\ entry' \in Entry /\ runs' \in [1..2 -> Run] /\ OneRun'
                      /\ entry'.pending \in {j, NoJob} /\ pendingOnDisk' \in {j, NoJob}
  <1>5. ASSUME entry.conf = "none", entry' = Created("hooked", j), pendingOnDisk' = j,
               UNCHANGED runs
        PROVE  Claim
    <2>1. OneRun'
      BY <1>4, <1>5 DEF OneRun
    <2>2. entry' \in Entry /\ entry'.pending = j
      BY <1>2, <1>5, CreatedEntry
    <2> QED BY <1>2, <1>5, <2>1, <2>2
  <1>6. ASSUME entry' = [mine EXCEPT !.pending = NoJob, !.conf = "hooked"], entry.conf = "plain",
               pendingOnDisk' = NoJob, UNCHANGED runs
        PROVE  Claim
    <2>1. OneRun'
      BY <1>4, <1>6 DEF OneRun
    <2>2. entry' \in Entry /\ entry'.pending = NoJob
      BY <1>2, <1>3, <1>6 DEF Entry
    <2> QED BY <1>2, <1>6, <2>1, <2>2
  <1>7. ASSUME mine.conf = "hooked", LoadTurn(mine) PROVE Claim
    <2>1. runs' \in [1..2 -> Run] /\ OneRun'
      BY <1>2, <1>3, <1>7, LoadTurnInv
    <2>2. entry' \in Entry /\ pendingOnDisk' = entry'.pending /\ entry'.pending = j
      BY <1>2, <1>3, <1>7, LoadTurnEffect
    <2> QED BY <2>1, <2>2
  <1>8. ASSUME entry' = [mine EXCEPT !.conf = "hooked"], pendingOnDisk' = j, UNCHANGED runs
        PROVE  Claim
    <2>1. /\ entry' \in Entry /\ entry'.pending = j /\ entry'.conf = "hooked"
          /\ entry'.loading = entry.loading
      BY <1>2, <1>3, <1>8 DEF Entry
    <2>2. OneRun'
      BY <1>2, <1>8, <2>1 DEF DumpInv, OneRun
    <2> QED BY <1>2, <1>8, <2>1, <2>2
  <1>9. Claim
    <2> DEFINE known == IF entry.conf = "none" /\ world.fresh THEN Created("hooked", j) ELSE mine
    <2>1. CASE entry.conf = "none" /\ world.fresh
      <3>1. /\ known = Created("hooked", j) /\ known.conf = "hooked" /\ known.status # "running"
            /\ known \in Entry
        BY <1>2, <2>1, CreatedEntry
      <3>2. entry' = [known EXCEPT !.conf = "hooked"] /\ pendingOnDisk' = j /\ UNCHANGED runs
        BY <2>1, <3>1 DEF PanelApplies
      <3>3. [known EXCEPT !.conf = "hooked"] = known
        BY <3>1 DEF Entry
      <3> QED BY <1>5, <2>1, <3>1, <3>2, <3>3
    <2>2. CASE ~(entry.conf = "none" /\ world.fresh)
      <3>1. known = mine
        BY <2>2
      <3>2. \/ /\ entry.conf = "none" /\ entry' = Created("hooked", j) /\ pendingOnDisk' = j
               /\ UNCHANGED runs
            \/ /\ entry.conf = "plain"
               /\ entry' = [mine EXCEPT !.pending = NoJob, !.conf = "hooked"]
               /\ pendingOnDisk' = NoJob /\ UNCHANGED runs
            \/ mine.conf = "hooked" /\ LoadTurn(mine)
            \/ entry' = [mine EXCEPT !.conf = "hooked"] /\ pendingOnDisk' = j /\ UNCHANGED runs
        BY <1>3, <2>2, <3>1 DEF PanelApplies
      <3> QED BY <1>5, <1>6, <1>7, <1>8, <3>2
    <2> QED BY <2>1, <2>2
  <1>10. PendingIsNew' /\ job' \in [Jobs -> Job]
    BY <1>1, <1>9, StagingIsNew
  <1>11. DataOK'
    BY <1>1, <1>2, <1>9 DEF DumpInv, DataOK
  <1> QED BY <1>1, <1>9, <1>10, <1>11 DEF DumpInv, LockType

LEMMA LoadStagedDump == ASSUME DumpInv, NEW j \in Jobs, LoadStaged(j) PROVE DumpInv'
  <1>1. /\ AtWork(j) /\ Go(j, "release") /\ UNCHANGED <<lock, ran, entry, runs, conf>>
        /\ pendingOnDisk' = j /\ owed' = j
    BY DEF LoadStaged, AtWork, panelVars
  <1>2. PendingIsNew' /\ job' \in [Jobs -> Job]
    BY <1>1, StagingIsNew
  <1> QED BY <1>1, <1>2 DEF DumpInv, DataOK, OneRun, LockType, Dump

LEMMA BootsDump == ASSUME DumpInv, DownIsIdle, Boots PROVE DumpInv'
  <1>1. UNCHANGED <<conf, pendingOnDisk, lock, runs, job, ran, owed>> /\ ~up
    BY DEF Boots, diskVars, pastVars
  <1>2. \A n \in 1..2 : runs[n].at = "none"
    BY <1>1 DEF DumpInv, OneRun, DownIsIdle
  <1>3. OneRun'
    BY <1>1, <1>2 DEF OneRun
  <1>4. entry' \in Entry /\ entry'.pending \in {pendingOnDisk, NoJob}
    BY CreatedEntry, GoneEntry DEF Boots, DumpInv, DataOK
  <1>5. PendingIsNew'
    BY <1>1, <1>4, RestoreAssumption DEF DumpInv, PendingIsNew, LoadedOnce
  <1> QED BY <1>1, <1>3, <1>4, <1>5 DEF DumpInv, DataOK, LockType

LEMMA PanelDiesDump == ASSUME DumpInv, LockType', PanelDies PROVE DumpInv'
  <1>1. /\ UNCHANGED <<conf, pendingOnDisk, ran, owed>> /\ entry' = Gone
        /\ runs' = [n \in 1..2 |-> NoRun]
    BY DEF PanelDies, diskVars, pastVars
  <1>2. runs' \in [1..2 -> Run] /\ \A n \in 1..2 : runs'[n].at = "none"
    BY <1>1 DEF NoRun, Run, Dump
  <1>3. OneRun'
    BY <1>2 DEF OneRun
  <1>4. \A d \in Jobs : job'[d] = job[d] \/ job'[d].at = "dead"
    BY DEF PanelDies, Dies, DumpInv, LockType, Job
  <1>5. \A d \in Jobs : /\ job[d].at \in Past => job'[d].at \in Past
                        /\ job'[d].at \notin Past => job[d].at \notin Past
    BY <1>4 DEF Past
  <1>6. PendingIsNew'
    BY <1>1, <1>5, GoneEntry, RestoreAssumption DEF DumpInv, PendingIsNew, LoadedOnce
  <1> QED BY <1>1, <1>2, <1>3, <1>6, GoneEntry DEF DumpInv, DataOK

\* The steps of a restore that touch no dump.
LEMMA JobStepsDump ==
  ASSUME DumpInv, LockType', NEW j \in Jobs,
         \/ Begins(j) \/ Refused(j) \/ TakesOver(j) \/ Creates(j) \/ Writes(j)
         \/ Releases(j) \/ RemovesLock(j) \/ FilesWritten(j) \/ DumpCopied(j) \/ Fails(j) \/ JobDies(j)
  PROVE  DumpInv'
  <1>1. UNCHANGED <<pendingOnDisk, entry, runs, ran, owed>> /\ conf' \in Conf
    BY DEF Begins, Refused, TakesOver, Creates, Writes, Releases, RemovesLock, FilesWritten,
       DumpCopied, Fails, JobDies, diskVars, panelVars, pastVars, DumpInv, DataOK, Conf
  <1>2. CASE Begins(j)
    <2>1. job[j].at = "idle" /\ \A k \in Jobs \ {j} : job'[k] = job[k]
      BY <1>2 DEF Begins, DumpInv, LockType, Job
    <2>2. \A d \in Jobs : job[d].at \in Past => job'[d].at \in Past
      BY <2>1 DEF Past
    <2> QED BY <1>1, <2>2, JobsGoOn
  <1>3. CASE JobDies(j)
    <2>1. \A d \in Jobs : job'[d] = job[d] \/ job'[d].at = "dead"
      BY <1>3 DEF JobDies, Dies, DumpInv, LockType, Job
    <2>2. \A d \in Jobs : job[d].at \in Past => job'[d].at \in Past
      BY <2>1 DEF Past
    <2> QED BY <1>1, <2>2, JobsGoOn
  <1>4. CASE \/ Refused(j) \/ TakesOver(j) \/ Creates(j) \/ Writes(j) \/ Releases(j)
             \/ RemovesLock(j) \/ FilesWritten(j) \/ DumpCopied(j) \/ Fails(j)
    <2>1. PICK p \in {"reading", "created", "written", "staged", "release", "removes",
                    "refused", "done"} :
              Go(j, p) /\ (p \in Past \/ job[j].at \notin Past)
      BY <1>4 DEF Refused, TakesOver, Creates, Writes, Releases, RemovesLock, FilesWritten,
         DumpCopied, Fails, Past
    <2>2. job'[j].at = p /\ \A k \in Jobs \ {j} : job'[k] = job[k]
      BY <2>1, GoType DEF DumpInv
    <2>3. \A d \in Jobs : job[d].at \in Past => job'[d].at \in Past
      BY <2>1, <2>2
    <2> QED BY <1>1, <2>3, JobsGoOn
  <1> QED BY <1>2, <1>3, <1>4

LEMMA DownStep == DataOK /\ DownIsIdle /\ [Next]_vars => DownIsIdle'
  <1> SUFFICES ASSUME DataOK, DownIsIdle, [Next]_vars, ~up' PROVE ~entry'.loading
    BY DEF DownIsIdle
  <1>1. CASE PanelDies
    BY <1>1, GoneEntry DEF PanelDies
  <1>2. CASE ~PanelDies
    <2>1. ASSUME NEW j \in Jobs,
                 \/ Begins(j) \/ Refused(j) \/ TakesOver(j) \/ Creates(j) \/ Writes(j)
                 \/ Releases(j) \/ RemovesLock(j) \/ PanelApplies(j) \/ FilesWritten(j)
                 \/ DumpCopied(j) \/ Fails(j) \/ LoadStaged(j) \/ JobDies(j)
          PROVE  UNCHANGED <<up, entry>>
      <3>1. CASE PanelApplies(j)
        BY <3>1 DEF PanelApplies, Turn
      <3>2. CASE ~PanelApplies(j)
        BY <2>1, <3>2 DEF Begins, Refused, TakesOver, Creates, Writes, Releases, RemovesLock,
           FilesWritten, DumpCopied, Fails, LoadStaged, JobDies, panelVars
      <3> QED BY <3>1, <3>2
    <2>2. ASSUME NEW n \in 1..2, LoadStep(n) PROVE FALSE
      BY <2>2 DEF LoadStep, LoadProceeds, LoadEnds, Turn
    <2>3. ASSUME UserStart \/ Spawns \/ Ready \/ UserStop \/ Exits \/ Boots PROVE FALSE
      BY <2>3 DEF UserStart, Spawns, Ready, UserStop, Exits, Boots, Turn
    <2>4. ASSUME Ages \/ UNCHANGED vars PROVE UNCHANGED <<up, entry>>
      BY <2>4 DEF Ages, vars, panelVars
    <2>5. UNCHANGED <<up, entry>>
      BY <1>2, <2>1, <2>2, <2>3, <2>4 DEF Next
    <2> QED BY <2>5 DEF DownIsIdle
  <1> QED BY <1>1, <1>2

LEMMA DumpStep == LockType' /\ DumpInv /\ DownIsIdle /\ [Next]_vars => DumpInv'
  <1> SUFFICES ASSUME LockType', DumpInv, DownIsIdle, [Next]_vars PROVE DumpInv'
    OBVIOUS
  <1>1. CASE UNCHANGED vars
    BY <1>1, JobsGoOn DEF vars, diskVars, panelVars, pastVars, DumpInv, DataOK
  <1>2. ASSUME NEW j \in Jobs, \/ Begins(j) \/ Refused(j) \/ TakesOver(j) \/ Creates(j)
               \/ Writes(j) \/ Releases(j) \/ RemovesLock(j) \/ FilesWritten(j)
               \/ DumpCopied(j) \/ Fails(j) \/ JobDies(j)
        PROVE  DumpInv'
    BY <1>2, JobStepsDump
  <1>3. ASSUME NEW j \in Jobs, PanelApplies(j) \/ LoadStaged(j) PROVE DumpInv'
    BY <1>3, PanelAppliesDump, LoadStagedDump
  <1>4. ASSUME NEW n \in 1..2, LoadStep(n) PROVE DumpInv'
    BY <1>4, LoadProceedsDump, LoadEndsDump DEF LoadStep
  <1>5. CASE Ages
    BY <1>5, JobsGoOn DEF Ages, diskVars, panelVars, pastVars, DumpInv, DataOK
  <1>6. CASE UserStart \/ Spawns \/ Ready \/ UserStop \/ Exits
    BY <1>6, UserStartDump, SpawnsDump, StatusStepsDump
  <1>7. CASE Boots
    BY <1>7, BootsDump
  <1>8. CASE PanelDies
    BY <1>8, PanelDiesDump
  <1> QED BY <1>1, <1>2, <1>3, <1>4, <1>5, <1>6, <1>7, <1>8 DEF Next

LEMMA InitDump == Init => DumpInv /\ DownIsIdle
  <1> SUFFICES ASSUME Init PROVE DumpInv /\ DownIsIdle
    OBVIOUS
  <1>1. LockType
    BY InitInv DEF IInv
  <1>2. conf \in Conf
    BY RestoreAssumption DEF Init, World, Conf
  <1>3. entry \in Entry /\ entry.pending = NoJob /\ ~entry.loading
    BY <1>2, CreatedEntry, GoneEntry DEF Init, Dump
  <1>4. runs \in [1..2 -> Run] /\ \A n \in 1..2 : runs[n].at = "none"
    BY DEF Init, NoRun, Run, Dump
  <1>5. OneRun
    BY <1>4 DEF OneRun
  <1>6. PendingIsNew
    BY <1>3, RestoreAssumption DEF Init, PendingIsNew, LoadedOnce
  <1> QED BY <1>1, <1>2, <1>3, <1>4, <1>5, <1>6 DEF Init, DumpInv, DataOK, DownIsIdle, Dump

\* No dump is loaded twice, for any number of restores: neither by starts that overlap,
\* nor by a panel that died with the hook begun (runPendingLoad forgets the dump, on disk
\* too, before the hook runs).
THEOREM NeverTwice == Spec => []LoadedOnce
  <1> DEFINE Both == IInv /\ DumpInv /\ DownIsIdle
  <1>1. Init => Both
    BY InitInv, InitDump
  <1>2. Both /\ [Next]_vars => Both'
    <2> SUFFICES ASSUME Both, [Next]_vars PROVE Both'
      OBVIOUS
    <2>1. IInv'
      BY StepInv
    <2>2. LockType'
      BY <2>1 DEF IInv
    <2>3. DumpInv'
      BY <2>2, DumpStep
    <2>4. DownIsIdle'
      BY DownStep DEF DumpInv
    <2> QED BY <2>1, <2>3, <2>4
  <1>3. Both => LoadedOnce
    BY DEF DumpInv, PendingIsNew
  <1> QED BY <1>1, <1>2, <1>3, PTL DEF Spec

-----------------------------------------------------------------------------
(* The dump on disk *)

\* While no panel meets a restore of the command line: what the panel has of the entry is
\* what the files have, and a dump that is owed has a configuration with a hook.
PanelIsFiles == up => entry.conf = conf /\ entry.pending = pendingOnDisk
FilesAlone ==
    /\ up => \A j \in Jobs : Alive(j) => job[j].via = "panel"
    /\ \A j \in Jobs : job[j].at \in {"written", "staged"} =>
           job[j].via = "files" /\ conf = "hooked"
HookOwed ==
    /\ conf = "none" => pendingOnDisk = NoJob
    /\ world.old # "plain" => conf # "plain"
    /\ owed # NoJob => conf = "hooked"
OwedOnDisk == owed # NoJob /\ world.old # "plain" => pendingOnDisk = owed

Kept    == PanelIsFiles /\ FilesAlone /\ HookOwed /\ OwedOnDisk
KeptInv == ~world.meet => Kept

\* A turn of the panel that leaves the restores alone and keeps the dump, forgets one
\* nothing can load, or begins its hook.
LEMMA TurnKeeps ==
  ASSUME Kept, up, up', UNCHANGED <<world, conf, job>>,
         entry'.conf = entry.conf, entry'.pending = pendingOnDisk',
         \/ owed' = owed /\ pendingOnDisk' = pendingOnDisk
         \/ owed' = owed /\ pendingOnDisk' = NoJob /\ entry.conf # "hooked"
         \/ owed' = NoJob /\ pendingOnDisk' = NoJob
  PROVE  Kept'
  <1>1. PanelIsFiles' /\ HookOwed' /\ OwedOnDisk'
    BY DEF Kept, PanelIsFiles, HookOwed, OwedOnDisk
  <1>2. FilesAlone'
    BY DEF Kept, FilesAlone, Alive
  <1> QED BY <1>1, <1>2 DEF Kept

LEMMA StatusKeeps ==
  ASSUME Kept, entry \in Entry, Turn, UNCHANGED <<world, conf, job, up, owed>>,
         NEW x \in {"stopped", "starting", "spawned", "running", "stopping"},
         entry' = [entry EXCEPT !.status = x], pendingOnDisk' \in {entry.pending, pendingOnDisk}
  PROVE  Kept'
  <1>1. entry'.conf = entry.conf /\ entry'.pending = entry.pending
    BY DEF Entry
  <1>2. up /\ up' /\ pendingOnDisk' = pendingOnDisk /\ entry'.pending = pendingOnDisk
    BY <1>1 DEF Turn, Kept, PanelIsFiles
  <1> QED BY <1>1, <1>2, TurnKeeps

LEMMA LoadKeeps ==
  ASSUME Kept, runs \in [1..2 -> Run], Turn, UNCHANGED <<world, conf, job, up, owed>>,
         NEW e \in Entry, LoadTurn(e), e.conf = entry.conf, e.pending = entry.pending
  PROVE  Kept'
  <1>1. /\ pendingOnDisk' = entry'.pending /\ entry'.conf = entry.conf
        /\ entry'.pending \in {entry.pending, NoJob}
        /\ entry.conf = "hooked" => entry'.pending = entry.pending
    BY LoadTurnEffect
  <1>2. up /\ up' /\ entry.pending = pendingOnDisk
    BY DEF Turn, Kept, PanelIsFiles
  <1> QED BY <1>1, <1>2, TurnKeeps

LEMMA EntryStepsKeep ==
  ASSUME Kept, DumpInv, \/ UserStart \/ Spawns \/ Ready \/ UserStop \/ Exits
                        \/ \E n \in 1..2 : LoadStep(n)
  PROVE  Kept'
  <1> DEFINE e == [entry EXCEPT !.status = "spawned"]
  <1>1. entry \in Entry /\ runs \in [1..2 -> Run]
    BY DEF DumpInv, DataOK
  <1>2. /\ e \in Entry /\ e.pending = entry.pending /\ e.conf = entry.conf
    BY <1>1 DEF Entry
  <1>3. CASE UserStart
    <2>1. Turn /\ UNCHANGED <<world, conf, job, up, owed>>
      BY <1>3 DEF UserStart, pastVars
    <2>2. CASE entry.status = "stopped"
      BY <1>1, <1>3, <2>1, <2>2, StatusKeeps DEF UserStart
    <2>3. CASE UNCHANGED <<entry, pendingOnDisk, runs>>
      BY <2>1, <2>3, TurnKeeps DEF Turn, Kept, PanelIsFiles
    <2>4. CASE LoadTurn(entry)
      BY <1>1, <2>1, <2>4, LoadKeeps
    <2> QED BY <1>3, <2>2, <2>3, <2>4 DEF UserStart
  <1>4. CASE Spawns
    <2>1. Turn /\ UNCHANGED <<world, conf, job, up, owed>>
      BY <1>4 DEF Spawns, pastVars
    <2>2. CASE entry' = [entry EXCEPT !.status = "running"] /\ UNCHANGED pendingOnDisk
      BY <1>1, <2>1, <2>2, StatusKeeps
    <2>3. CASE entry' = e /\ pendingOnDisk' = e.pending
      BY <1>1, <1>2, <2>1, <2>3, StatusKeeps
    <2>4. CASE LoadTurn(e)
      BY <1>1, <1>2, <2>1, <2>4, LoadKeeps
    <2> QED BY <1>4, <2>2, <2>3, <2>4 DEF Spawns, LoadIfPending
  <1>5. CASE Ready \/ UserStop \/ Exits
    <2>1. Turn /\ UNCHANGED <<world, conf, job, up, owed>>
      BY <1>5 DEF Ready, UserStop, Exits, diskVars, pastVars
    <2>2. PICK x \in {"stopped", "stopping", "running"} : entry' = [entry EXCEPT !.status = x]
      BY <1>5 DEF Ready, UserStop, Exits
    <2>3. pendingOnDisk' \in {entry.pending, pendingOnDisk}
      BY <1>5 DEF Ready, UserStop, Exits, diskVars
    <2> QED BY <1>1, <2>1, <2>2, <2>3, StatusKeeps
  <1>6. ASSUME NEW n \in 1..2, LoadProceeds(n) PROVE Kept'
    <2>1. entry'.conf = entry.conf /\ entry'.pending = NoJob
      BY <1>1, <1>6 DEF LoadProceeds, Entry
    <2> QED BY <1>6, <2>1, TurnKeeps DEF LoadProceeds, Turn
  <1>7. ASSUME NEW n \in 1..2, LoadEnds(n) PROVE Kept'
    <2>1. entry'.conf = entry.conf /\ entry'.pending = entry.pending
      BY <1>1, <1>7 DEF LoadEnds, Entry
    <2> QED BY <1>7, <2>1, TurnKeeps DEF LoadEnds, Turn, diskVars, pastVars, Kept, PanelIsFiles
  <1> QED BY <1>3, <1>4, <1>5, <1>6, <1>7 DEF LoadStep

\* A restore moves on, or dies, and touches neither the dump nor the configuration.
LEMMA RestKeeps ==
  ASSUME Kept, UNCHANGED <<world, conf, pendingOnDisk, owed>>,
         (up /\ UNCHANGED <<up, entry>>) \/ ~up', FilesAlone'
  PROVE  Kept'
  BY DEF Kept, PanelIsFiles, HookOwed, OwedOnDisk

LEMMA GoKeepsAlone ==
  ASSUME Kept, job \in [Jobs -> Job], NEW j \in Jobs, NEW p, Go(j, p), Alive(j), UNCHANGED up,
         p \in {"created", "reading", "written", "staged", "release", "removes", "refused", "done"},
         p \in {"written", "staged"} => job[j].via = "files" /\ conf' = "hooked",
         conf' \in {conf, "hooked"}
  PROVE  FilesAlone'
  <1>1. /\ job'[j].at = p /\ job'[j].via = job[j].via /\ \A k \in Jobs \ {j} : job'[k] = job[k]
    BY DEF Go, Job
  <1>2. \A k \in Jobs : job'[k].via = job[k].via /\ (Alive(k)' => Alive(k))
    BY <1>1 DEF Alive
  <1> QED BY <1>1, <1>2 DEF Kept, FilesAlone

LEMMA LockStepsKeep ==
  ASSUME Kept, job \in [Jobs -> Job], NEW j \in Jobs,
         \/ Begins(j) \/ Refused(j) \/ TakesOver(j) \/ Creates(j) \/ Writes(j)
         \/ Releases(j) \/ RemovesLock(j) \/ DumpCopied(j) \/ Fails(j)
  PROVE  Kept'
  <1>1. UNCHANGED <<world, conf, pendingOnDisk, owed, up, entry>>
    BY DEF Begins, Refused, TakesOver, Creates, Writes, Releases, RemovesLock, DumpCopied, Fails,
       diskVars, panelVars, pastVars
  <1>2. CASE Begins(j)
    <2>1. /\ job'[j].at = "looked" /\ up => job'[j].via = "panel"
          /\ \A k \in Jobs \ {j} : job'[k] = job[k]
      BY <1>2 DEF Begins, Job
    <2>2. FilesAlone'
      BY <1>1, <2>1, <1>2 DEF Kept, FilesAlone, Alive, Begins
    <2> QED BY <1>1, <2>2, RestKeeps
  <1>3. CASE Refused(j)
    <2>1. /\ job'[j].at = "refused" /\ \A k \in Jobs \ {j} : job'[k] = job[k]
      BY <1>3 DEF Refused, Go, Job
    <2>2. FilesAlone'
      BY <1>1, <2>1 DEF Kept, FilesAlone, Alive
    <2> QED BY <1>1, <2>2, RestKeeps
  <1>4. CASE DumpCopied(j)
    <2>1. job[j].via = "files" /\ conf = "hooked" /\ Alive(j) /\ Go(j, "staged")
      BY <1>4 DEF DumpCopied, Kept, FilesAlone, Alive
    <2>2. FilesAlone'
      BY <1>1, <2>1, GoKeepsAlone
    <2> QED BY <1>1, <2>2, RestKeeps
  <1>5. CASE \/ TakesOver(j) \/ Creates(j) \/ Writes(j) \/ Releases(j) \/ RemovesLock(j)
             \/ Fails(j)
    <2>1. Alive(j)
      BY <1>5 DEF TakesOver, Creates, Writes, Releases, RemovesLock, Fails, AtWork, Alive
    <2>2. PICK p \in {"created", "reading", "release", "removes", "refused", "done"} : Go(j, p)
      BY <1>5 DEF TakesOver, Creates, Writes, Releases, RemovesLock, Fails
    <2>3. FilesAlone'
      BY <1>1, <2>1, <2>2, GoKeepsAlone
    <2> QED BY <1>1, <2>3, RestKeeps
  <1> QED BY <1>2, <1>3, <1>4, <1>5

LEMMA FilesStepsKeep ==
  ASSUME Kept, job \in [Jobs -> Job], NEW j \in Jobs, FilesWritten(j) \/ LoadStaged(j)
  PROVE  Kept'
  <1>1. Alive(j) /\ job[j].via = "files" /\ UNCHANGED <<world, up, entry>>
    BY DEF FilesWritten, LoadStaged, Kept, FilesAlone, Alive, panelVars
  <1>2. ~up /\ ~up'
    BY <1>1 DEF Kept, FilesAlone
  <1>3. conf' = "hooked"
    BY DEF FilesWritten, LoadStaged, Kept, FilesAlone
  <1>4. PICK p \in {"written", "release"} : Go(j, p)
    BY DEF FilesWritten, LoadStaged
  <1>5. FilesAlone'
    BY <1>1, <1>3, <1>4, GoKeepsAlone
  <1>6. PanelIsFiles' /\ HookOwed'
    BY <1>2, <1>3 DEF PanelIsFiles, HookOwed
  <1>7. OwedOnDisk'
    BY <1>1 DEF FilesWritten, LoadStaged, pastVars, Kept, OwedOnDisk
  <1> QED BY <1>5, <1>6, <1>7 DEF Kept

LEMMA PanelAppliesKeeps ==
  ASSUME Kept, DumpInv, NEW j \in Jobs, PanelApplies(j)
  PROVE  Kept'
  <1> DEFINE mine == [entry EXCEPT !.pending = j]
  <1>1. /\ up /\ up' /\ Go(j, "release") /\ Alive(j) /\ conf' = "hooked" /\ owed' = j
        /\ UNCHANGED world /\ job \in [Jobs -> Job]
    BY DEF PanelApplies, Turn, Alive, DumpInv, LockType
  <1>2. entry \in Entry /\ runs \in [1..2 -> Run] /\ j \in Dump /\ "hooked" \in Conf
    BY DEF DumpInv, DataOK, Dump, Conf
  <1>3. mine \in Entry /\ mine.pending = j /\ mine.conf = entry.conf
    BY <1>2 DEF Entry
  <1>4. entry.conf = conf
    BY <1>1 DEF Kept, PanelIsFiles
  <1> DEFINE Claim == /\ entry'.conf = "hooked" /\ entry'.pending = pendingOnDisk'
                      /\ conf # "plain" => pendingOnDisk' = j
  <1>5. Claim
    <2> DEFINE known == IF entry.conf = "none" /\ world.fresh THEN Created("hooked", j) ELSE mine
    <2>1. known \in Entry /\ known.pending = j /\ known.conf \in {"hooked", entry.conf}
      BY <1>2, <1>3, CreatedEntry
    <2>2. CASE entry' = Created("hooked", j) /\ pendingOnDisk' = j
      BY <1>2, <2>2, CreatedEntry
    <2>3. CASE /\ known.conf = "plain" /\ pendingOnDisk' = NoJob
               /\ entry' = [known EXCEPT !.pending = NoJob, !.conf = "hooked"]
      BY <1>4, <2>1, <2>3 DEF Entry
    <2>4. CASE known.conf = "hooked" /\ LoadTurn(known)
      <3> HIDE DEF known
      <3>1. /\ entry'.conf = known.conf /\ pendingOnDisk' = entry'.pending
            /\ entry'.pending = known.pending
        BY <1>2, <2>1, <2>4, LoadTurnEffect
      <3> QED BY <2>1, <2>4, <3>1
    <2>5. CASE entry' = [known EXCEPT !.conf = "hooked"] /\ pendingOnDisk' = j
      BY <2>1, <2>5 DEF Entry
    <2> QED BY <2>2, <2>3, <2>4, <2>5 DEF PanelApplies
  <1>6. FilesAlone'
    BY <1>1, GoKeepsAlone
  <1>7. PanelIsFiles' /\ HookOwed'
    BY <1>1, <1>5 DEF PanelIsFiles, HookOwed
  <1>8. OwedOnDisk'
    BY <1>1, <1>5 DEF OwedOnDisk, Kept, HookOwed
  <1> QED BY <1>6, <1>7, <1>8 DEF Kept

LEMMA PanelStepsKeep ==
  ASSUME Kept, DumpInv, ~world.meet, Boots \/ PanelDies \/ \E j \in Jobs : JobDies(j)
  PROVE  Kept'
  <1>0. job \in [Jobs -> Job] /\ conf \in Conf /\ pendingOnDisk \in Dump
    BY DEF DumpInv, LockType, DataOK
  <1>1. CASE Boots
    <2>1. /\ UNCHANGED <<world, conf, pendingOnDisk, job, owed>> /\ ~Offline
      BY <1>1 DEF Boots, diskVars, pastVars
    <2>2. entry'.conf = conf /\ entry'.pending = pendingOnDisk
      <3>1. CASE conf = "none"
        BY <1>1, <3>1 DEF Boots, Gone, Kept, HookOwed
      <3>2. CASE conf # "none"
        BY <1>0, <1>1, <3>2, CreatedEntry DEF Boots
      <3> QED BY <3>1, <3>2
    <2>3. \A j \in Jobs : Alive(j) => job[j].via = "panel"
      BY <1>0, <2>1 DEF Offline, Job
    <2>4. FilesAlone'
      BY <2>1, <2>3 DEF Kept, FilesAlone, Alive
    <2> QED BY <2>1, <2>2, <2>4 DEF Kept, PanelIsFiles, HookOwed, OwedOnDisk
  <1>2. CASE PanelDies \/ \E j \in Jobs : JobDies(j)
    <2>1. PICK dead \in SUBSET Jobs : Dies(dead)
      BY <1>2 DEF PanelDies, JobDies
    <2>2. \A k \in Jobs : job'[k] = job[k] \/ job'[k].at = "dead"
      BY <1>0, <2>1 DEF Dies, Job
    <2>3. /\ UNCHANGED <<world, conf, pendingOnDisk, owed>>
          /\ ~up' \/ (up' = up /\ entry' = entry)
      BY <1>2 DEF PanelDies, JobDies, diskVars, panelVars, pastVars
    <2>4. FilesAlone'
      BY <2>2, <2>3 DEF Kept, FilesAlone, Alive
    <2> QED BY <2>3, <2>4, RestKeeps
  <1> QED BY <1>1, <1>2

LEMMA KeptStep == DumpInv /\ KeptInv /\ [Next]_vars => KeptInv'
  <1> SUFFICES ASSUME DumpInv, KeptInv, [Next]_vars, ~world'.meet PROVE Kept'
    BY DEF KeptInv
  <1>0. job \in [Jobs -> Job]
    BY DEF DumpInv, LockType
  <1>1. UNCHANGED world
    BY DEF Next, vars, LoadStep, LoadProceeds, LoadEnds, Ages, UserStart, Spawns, Ready, UserStop,
       Exits, Boots, PanelDies, Begins, Refused, TakesOver, Creates, Writes, Releases,
       RemovesLock, PanelApplies, FilesWritten, DumpCopied, Fails, LoadStaged, JobDies
  <1>2. Kept /\ ~world.meet
    BY <1>1 DEF KeptInv
  <1>3. ASSUME NEW j \in Jobs, \/ Begins(j) \/ Refused(j) \/ TakesOver(j) \/ Creates(j)
               \/ Writes(j) \/ Releases(j) \/ RemovesLock(j) \/ DumpCopied(j) \/ Fails(j)
        PROVE  Kept'
    BY <1>0, <1>2, <1>3, LockStepsKeep
  <1>4. ASSUME NEW j \in Jobs, FilesWritten(j) \/ LoadStaged(j) PROVE Kept'
    BY <1>0, <1>2, <1>4, FilesStepsKeep
  <1>5. ASSUME NEW j \in Jobs, PanelApplies(j) PROVE Kept'
    BY <1>2, <1>5, PanelAppliesKeeps
  <1>6. CASE Boots \/ PanelDies \/ \E j \in Jobs : JobDies(j)
    BY <1>2, <1>6, PanelStepsKeep
  <1>7. CASE \/ UserStart \/ Spawns \/ Ready \/ UserStop \/ Exits
             \/ \E n \in 1..2 : LoadStep(n)
    BY <1>2, <1>7, EntryStepsKeep
  <1>8. CASE Ages \/ UNCHANGED vars
    BY <1>2, <1>8 DEF Ages, vars, diskVars, panelVars, pastVars, Kept, PanelIsFiles, FilesAlone,
       Alive, HookOwed, OwedOnDisk
  <1> QED BY <1>3, <1>4, <1>5, <1>6, <1>7, <1>8 DEF Next

LEMMA InitKept == Init => KeptInv
  <1> SUFFICES ASSUME Init PROVE Kept
    BY DEF KeptInv
  <1>1. conf \in Conf
    BY InitDump DEF DumpInv, DataOK
  <1>2. up => entry.conf = conf /\ entry.pending = pendingOnDisk
    BY <1>1, CreatedEntry DEF Init, Gone, Dump
  <1> QED BY <1>2 DEF Init, Kept, PanelIsFiles, FilesAlone, Alive, HookOwed, OwedOnDisk

\* A dump a restore has staged stays on disk until its hook begins, for any number of
\* restores, restarts and starts (saveState writes what the entry has pending).
THEOREM StagedStays == Spec => []StagedIsKept
  <1> DEFINE All == IInv /\ DumpInv /\ DownIsIdle /\ KeptInv
  <1>1. Init => All
    BY InitInv, InitDump, InitKept
  <1>2. All /\ [Next]_vars => All'
    <2> SUFFICES ASSUME All, [Next]_vars PROVE All'
      OBVIOUS
    <2>1. IInv'
      BY StepInv
    <2>2. DumpInv'
      BY <2>1, DumpStep DEF IInv
    <2>3. DownIsIdle'
      BY DownStep DEF DumpInv
    <2>4. KeptInv'
      BY KeptStep
    <2> QED BY <2>1, <2>2, <2>3, <2>4
  <1>3. All => StagedIsKept
    BY DEF KeptInv, Kept, OwedOnDisk, StagedIsKept
  <1> QED BY <1>1, <1>2, <1>3, PTL DEF Spec

-----------------------------------------------------------------------------
(* Types *)

RestType == /\ world \in Worlds /\ up \in BOOLEAN /\ server \in BOOLEAN
            /\ unbroken \in BOOLEAN /\ calls \in 0..MaxCalls

LEMMA CalledType == ASSUME RestType, Called PROVE calls' \in 0..MaxCalls
  BY RestoreAssumption DEF RestType, Called

LEMMA RestStep == RestType /\ [Next]_vars => RestType'
  <1> SUFFICES ASSUME RestType, [Next]_vars PROVE RestType'
    OBVIOUS
  <1>1. ASSUME NEW j \in Jobs, \/ Begins(j) \/ Refused(j) \/ TakesOver(j) \/ Creates(j)
               \/ Writes(j) \/ Releases(j) \/ RemovesLock(j) \/ FilesWritten(j)
               \/ DumpCopied(j) \/ Fails(j) \/ LoadStaged(j) \/ PanelApplies(j)
        PROVE  RestType'
    <2>1. UNCHANGED <<world, up, server, unbroken, calls>>
      BY <1>1 DEF Begins, Refused, TakesOver, Creates, Writes, Releases, RemovesLock,
         FilesWritten, DumpCopied, Fails, LoadStaged, PanelApplies, panelVars
    <2> QED BY <2>1 DEF RestType
  <1>2. ASSUME NEW n \in 1..2, LoadStep(n) PROVE RestType'
    BY <1>2 DEF LoadStep, LoadProceeds, LoadEnds, RestType
  <1>3. CASE UserStart \/ UserStop \/ Ready
    BY <1>3, CalledType DEF UserStart, UserStop, Ready, RestType
  <1>4. CASE Spawns \/ Exits
    BY <1>4, CalledType DEF Spawns, Exits, RestType
  <1>5. CASE Boots
    BY <1>5, CalledType DEF Boots, RestType
  <1>6. CASE PanelDies \/ \E j \in Jobs : JobDies(j)
    BY <1>6, CalledType DEF PanelDies, JobDies, Dies, panelVars, RestType
  <1>7. CASE Ages \/ UNCHANGED vars
    BY <1>7 DEF Ages, vars, panelVars, RestType
  <1> QED BY <1>1, <1>2, <1>3, <1>4, <1>5, <1>6, <1>7 DEF Next

\* Every variable keeps its type, for any number of restores and calls.
THEOREM TypeCorrect == Spec => []TypeOK
  <1> DEFINE All == IInv /\ DumpInv /\ DownIsIdle /\ RestType
  <1>0. Init => RestType
    <2> SUFFICES ASSUME Init PROVE RestType
      OBVIOUS
    <2>1. calls \in 0..MaxCalls
      BY RestoreAssumption DEF Init
    <2>2. server \in BOOLEAN /\ unbroken \in BOOLEAN
      BY DEF Init
    <2> QED BY <2>1, <2>2 DEF Init, RestType
  <1>1. Init => All
    BY <1>0, InitInv, InitDump
  <1>2. All /\ [Next]_vars => All'
    <2> SUFFICES ASSUME All, [Next]_vars PROVE All'
      OBVIOUS
    <2>1. IInv'
      BY StepInv
    <2>2. DumpInv'
      BY <2>1, DumpStep DEF IInv
    <2>3. DownIsIdle'
      BY DownStep DEF DumpInv
    <2>4. RestType'
      BY RestStep
    <2> QED BY <2>1, <2>2, <2>3, <2>4
  <1>3. All => TypeOK
    BY DEF TypeOK, RestType, DumpInv, DataOK, LockType
  <1> QED BY <1>1, <1>2, <1>3, PTL DEF Spec

-----------------------------------------------------------------------------
(* Backups: the staging trees *)

\* What the trees and their owners are, which the directory's contents do not touch.
TreesTyped ==
    /\ task \in [Captures -> Stages]
    /\ by \in [Captures -> Processes \cup {"none"}]
    /\ tree \in [Captures -> Processes \cup {"none", "dead"}]

\* A capture under way has a process that lives, and its tree is in that process's name.
Owned == \A c \in Captures : task[c] # "idle" => by[c] \in Processes /\ tree[c] = by[c]

TreesInv == TreesTyped /\ Owned

\* The three functions stay as they are: every step of the clock, of the directory alone or of
\* the panel.
LEMMA TreesUntouched == TreesInv /\ UNCHANGED <<task, by, tree>> => TreesInv'
  BY DEF TreesInv, TreesTyped, Owned

\* A capture that begins takes a tree nobody has.
LEMMA Beginning ==
    ASSUME TreesInv, NEW c \in Captures, NEW process \in Processes, BeginsCapture(c, process)
    PROVE  TreesInv'
  <1>1. TreesTyped'
    BY DEF TreesInv, TreesTyped, BeginsCapture, Stages
  <1>2. Owned'
    BY DEF TreesInv, TreesTyped, Owned, BeginsCapture, Processes
  <1> QED
    BY <1>1, <1>2 DEF TreesInv

\* The steps of a capture that keep its tree.
LEMMA GoingOn ==
    ASSUME TreesInv, NEW c \in Captures, ZipBegins(c) \/ ZipCloses(c)
    PROVE  TreesInv'
  <1>1. /\ task[c] # "idle" /\ UNCHANGED <<by, tree>>
        /\ \E s \in {"zip", "written"} : task' = [task EXCEPT ![c] = s]
    BY DEF ZipBegins, ZipCloses
  <1> QED
    BY <1>1 DEF TreesInv, TreesTyped, Owned, Stages

\* A capture that leaves takes its own tree with it, and those of dead processes at most: a tree
\* in a live process's name is not among them.
LEMMA Leaving ==
    ASSUME TreesInv, NEW c \in Captures, Leaves(c), NEW D \in SUBSET Captures,
           \A d \in D : tree[d] = "dead",
           tree' = [d \in Captures |-> IF d = c \/ d \in D THEN "none" ELSE tree[d]]
    PROVE  TreesInv'
  <1>1. TreesTyped'
    BY DEF TreesInv, TreesTyped, Leaves, Stages
  <1>2. Owned'
    BY DEF TreesInv, TreesTyped, Owned, Leaves, Processes
  <1> QED
    BY <1>1, <1>2 DEF TreesInv

\* A process that ends takes its captures with it and leaves their trees behind.
LEMMA Ending ==
    ASSUME TreesInv, NEW process \in Processes, Killed(process)
    PROVE  TreesInv'
  <1>1. TreesTyped'
    BY DEF TreesInv, TreesTyped, Killed, Stages, Busy
  <1>2. Owned'
    BY DEF TreesInv, TreesTyped, Owned, Killed, Busy
  <1> QED
    BY <1>1, <1>2 DEF TreesInv

\* Each end of a capture.
LEMMA Done ==
    ASSUME TreesInv, NEW c \in Captures, CaptureRefused(c) \/ ZipFails(c) \/ Ends(c)
    PROVE  TreesInv'
  <1>1. CASE CaptureRefused(c) \/ ZipFails(c)
    <2>1. tree' = [d \in Captures |-> IF d = c \/ d \in {} THEN "none" ELSE tree[d]]
      BY <1>1 DEF CaptureRefused, ZipFails, TreesInv, TreesTyped
    <2>2. Leaves(c)
      BY <1>1 DEF CaptureRefused, ZipFails
    <2>3. {} \in SUBSET Captures /\ \A d \in {} : tree[d] = "dead"
      OBVIOUS
    <2> QED
      BY <2>1, <2>2, <2>3, Leaving
  <1>2. CASE Ends(c)
    <2>1. PICK spared : tree' = [d \in Captures |->
                                 IF d = c \/ d \in Swept(c, spared) THEN "none" ELSE tree[d]]
      BY <1>2 DEF Ends
    <2>2. Swept(c, spared) \in SUBSET Captures /\ \A d \in Swept(c, spared) : tree[d] = "dead"
      BY DEF Swept
    <2>3. Leaves(c)
      BY <1>2 DEF Ends
    <2> QED
      BY <2>1, <2>2, <2>3, Leaving
  <1> QED
    BY <1>1, <1>2

\* TreesInv is inductive: it holds when nothing has begun, and every step keeps it.
THEOREM TreesInvariance == BackupSpec => []TreesInv
  <1>1. BackupInit => TreesInv
    BY DEF BackupInit, TreesInv, TreesTyped, Owned, Stages, Processes
  <1>2. TreesInv /\ [BackupNext]_backupVars => TreesInv'
    <2> SUFFICES ASSUME TreesInv, [BackupNext]_backupVars
                 PROVE  TreesInv'
      OBVIOUS
    <2>1. CASE Tick \/ \E c \in Manual : Request(c) \/ Command(c)
      <3>1. \E c \in Captures, process \in Processes : BeginsCapture(c, process)
        BY <2>1 DEF Tick, Request, Command, Captures, Processes
      <3> QED
        BY <3>1, Beginning
    <2>2. CASE Hour \/ PanelStarts
      BY <2>2, TreesUntouched DEF Hour, PanelStarts
    <2>3. CASE PanelEnds \/ CommandEnds
      BY <2>3, Ending DEF PanelEnds, CommandEnds, Processes
    <2>4. CASE \E c \in Captures : Step(c) \/ ZipGrows(c) \/ RemoveArchive(c)
      <3>1. PICK c \in Captures : Step(c) \/ ZipGrows(c) \/ RemoveArchive(c)
        BY <2>4
      <3>2. CASE ZipGrows(c) \/ RemoveArchive(c)
        BY <3>2, TreesUntouched DEF ZipGrows, RemoveArchive
      <3>3. CASE Step(c)
        BY <3>3, GoingOn, Done DEF Step
      <3> QED
        BY <3>1, <3>2, <3>3
    <2>5. CASE UNCHANGED backupVars
      BY <2>5, TreesUntouched DEF backupVars
    <2> QED
      BY <2>1, <2>2, <2>3, <2>4, <2>5 DEF BackupNext
  <1> QED
    BY <1>1, <1>2, PTL DEF BackupSpec

\* A capture keeps the tree it copies into, whatever other processes sweep, die or are taken for.
THEOREM TreesSpared == BackupSpec => []LiveTreeSpared
  <1>1. TreesInv => LiveTreeSpared
    BY DEF TreesInv, Owned, LiveTreeSpared, Busy
  <1> QED
    BY <1>1, TreesInvariance, PTL

-----------------------------------------------------------------------------
(* Counting *)

\* A set of numbers that holds any holds a least one.
LEMMA Least ==
    ASSUME NEW C \in SUBSET Nat, C # {}
    PROVE  \E m \in C : \A n \in C : m <= n
  <1> DEFINE R == StrictSubsetOrdering(Nat)
             F == FiniteSubsetsOf(Nat)
             T == {0..(n - 1) : n \in C}
  <1>1. IsWellFoundedOn(R, F)
    BY FS_StrictSubsetOrderingWellFounded
  <1>2. T \subseteq F /\ T # {}
    <2>1. \A n \in C : IsFiniteSet(0..(n - 1)) /\ 0..(n-1) \in SUBSET Nat
      BY FS_Interval
    <2> QED
      BY <2>1 DEF FiniteSubsetsOf
  <1>3. \E x \in T : \A y \in T : ~ (<<y, x>> \in R)
    <2> HIDE DEF R, F, T
    <2> QED
      BY <1>1, <1>2, WFMin
  <1>4. PICK m \in C : \A n \in C : <<0..(n - 1), 0..(m - 1)>> \notin R
    BY <1>3
  <1>5. ASSUME NEW n \in C, n < m
        PROVE  FALSE
    <2>1. 0..(n-1) \subseteq 0..(m-1) /\ n \in 0..(m-1) /\ n \notin 0..(n-1)
      BY <1>5
    <2>2. 0..(n-1) \in SUBSET Nat /\ 0..(m-1) \in SUBSET Nat /\ 0..(n-1) # 0..(m-1)
      BY <2>1
    <2> QED
      BY <1>4, <1>5, <2>1, <2>2 DEF StrictSubsetOrdering
  <1> QED
    BY <1>4, <1>5

-----------------------------------------------------------------------------
(* Backups: the directory *)

\* Nothing is newer than itself, and newer than newer is newer.
Ordered ==
    /\ \A c \in Captures : <<c, c>> \notin newer
    /\ \A c, d, e \in Captures : <<c, d>> \in newer /\ <<d, e>> \in newer => <<c, e>> \in newer

\* A capture has no archive before its zip begins, and no whole one before the zip is closed.
DirOK ==
    /\ files \in SUBSET Captures /\ newer \in SUBSET (files \X files) /\ whole \in SUBSET files
    /\ Ordered
    /\ \A c \in Captures : (task[c] = "dump" => c \notin files) /\ (task[c] = "zip" => c \notin whole)

\* Where captures are one at a time and none is cut short, at most one archive is not whole.
Alone ==
    ~setting.overlap /\ ~setting.dies =>
        /\ \A c, d \in Busy : c = d
        /\ \A c \in files : c \in whole \/ task[c] = "zip"

DirInv == TreesInv /\ DirOK /\ Alone

\* Of any files there are at least n among the n newest, if there are so many.
LEMMA NewestEnough ==
    ASSUME Ordered, NEW S \in SUBSET Captures, NEW n \in Nat
    PROVE  Cardinality(Newest(S, n)) >= Smaller(Cardinality(S), n)
  <1> DEFINE Above(c) == {d \in S : <<d, c>> \in newer}
             T == Newest(S, n)
             U == S \ T
  <1>1. IsFiniteSet(S) /\ IsFiniteSet(T) /\ Cardinality(T) \in Nat /\ Cardinality(S) \in Nat
    BY BackupsAssumption, FS_Subset, FS_CardinalityType DEF Newest
  <1>2. \A c \in S : IsFiniteSet(Above(c)) /\ Cardinality(Above(c)) \in Nat
    BY <1>1, FS_Subset, FS_CardinalityType
  <1>3. CASE U = {}
    <2>1. T = S
      BY <1>3 DEF Newest
    <2> QED
      BY <1>1, <2>1 DEF Smaller
  <1>4. CASE U # {}
    <2> DEFINE C == {Cardinality(Above(c)) : c \in U}
    <2>1. C \in SUBSET Nat /\ C # {}
      BY <1>2, <1>4
    <2>2. PICK m \in U : \A c \in U : Cardinality(Above(m)) <= Cardinality(Above(c))
      <3> HIDE DEF C
      <3>1. PICK x \in C : \A y \in C : x <= y
        BY <2>1, Least
      <3> USE DEF C
      <3>2. PICK m \in U : x = Cardinality(Above(m))
        BY <3>1
      <3> HIDE DEF U, Above
      <3> QED
        BY <3>1, <3>2
    <2>3. ASSUME NEW d \in Above(m)
          PROVE  d \in T
      <3>1. SUFFICES ASSUME d \in U
                     PROVE  FALSE
        OBVIOUS
      <3>2. Above(d) \in SUBSET Above(m) /\ d \notin Above(d) /\ d \in Above(m)
        BY <2>3 DEF Ordered
      <3>3. Cardinality(Above(d)) < Cardinality(Above(m))
        <4>1. IsFiniteSet(Above(m)) /\ Above(d) # Above(m)
          BY <1>2, <3>2
        <4> HIDE DEF Above
        <4>2. Cardinality(Above(d)) <= Cardinality(Above(m)) /\ Cardinality(Above(d)) # Cardinality(Above(m))
          BY <3>2, <4>1, FS_Subset
        <4> QED
          BY <1>2, <3>1, <4>2
      <3> HIDE DEF Above
      <3> QED
        BY <1>2, <2>2, <3>1, <3>3
    <2>4. Cardinality(Above(m)) >= n
      BY <1>2 DEF Newest
    <2>5. Cardinality(Above(m)) <= Cardinality(T)
      <3>1. Above(m) \in SUBSET T
        BY <2>3
      <3> HIDE DEF Above, T
      <3> QED
        BY <1>1, <3>1, FS_Subset
    <2> HIDE DEF Above
    <2> QED
      BY <1>1, <1>2, <2>4, <2>5 DEF Smaller
  <1> QED
    BY <1>3, <1>4

\* A write makes a file the newest, and keeps the order.
LEMMA WrittenOrdered ==
    ASSUME DirOK, NEW c \in Captures, Written(c)
    PROVE  files' \in SUBSET Captures /\ newer' \in SUBSET (files' \X files') /\ Ordered'
  BY DEF DirOK, Ordered, Written

\* So does the loss of a file.
LEMMA KeepingOrdered ==
    ASSUME DirOK, NEW kept, Keeping(kept)
    PROVE  /\ files' \in SUBSET Captures /\ newer' \in SUBSET (files' \X files')
           /\ whole' \in SUBSET files' /\ Ordered'
  BY DEF DirOK, Ordered, Keeping

\* Steps that leave the directory and the captures alone.
LEMMA DirUntouched == DirInv /\ TreesInv' /\ UNCHANGED <<setting, task, files, newer, whole>> => DirInv'
  BY DEF DirInv, DirOK, Ordered, Alone, Busy

\* A capture that begins has no archive yet, and begins alone where captures are.
LEMMA BeginningDir ==
    ASSUME DirInv, TreesInv', NEW c \in Captures, NEW process, MayBegin(c), BeginsCapture(c, process),
           UNCHANGED <<setting, files, newer, whole>>
    PROVE  DirInv'
  <1>1. task' = [task EXCEPT ![c] = "dump"] /\ c \notin files /\ task[c] = "idle"
    BY DEF BeginsCapture, MayBegin, Unused
  <1>2. task \in [Captures -> Stages]
    BY DEF DirInv, TreesInv, TreesTyped
  <1>3. DirOK'
    BY <1>1, <1>2 DEF DirInv, DirOK, Ordered
  <1>4. Alone'
    <2>1. setting.overlap \/ Busy = {}
      BY DEF MayBegin
    <2>2. Busy' = Busy \cup {c}
      BY <1>1, <1>2 DEF Busy
    <2>3. \A d \in files : task'[d] = task[d]
      BY <1>1, <1>2 DEF DirInv, DirOK
    <2> QED
      BY <2>1, <2>2, <2>3 DEF DirInv, Alone
  <1> QED
    BY <1>3, <1>4 DEF DirInv

\* A capture that leaves: what is kept of the directory has no unfinished archive of its own.
LEMMA LeavingDir ==
    ASSUME DirInv, TreesInv', NEW c \in Captures, Leaves(c), NEW kept, Keeping(kept),
           task[c] = "zip" => c \notin kept, task[c] # "idle"
    PROVE  DirInv'
  <1>1. task' = [task EXCEPT ![c] = "idle"] /\ setting' = setting
    BY DEF Leaves
  <1>2. task \in [Captures -> Stages]
    BY DEF DirInv, TreesInv, TreesTyped
  <1>3. DirOK'
    BY <1>1, <1>2, KeepingOrdered DEF DirInv, DirOK, Keeping
  <1>4. Alone'
    <2>1. Busy' \subseteq Busy
      BY <1>1, <1>2 DEF Busy
    <2>2. \A d \in files' : d \in files /\ (d \in whole => d \in whole') /\ (task[d] = "zip" => d # c)
      BY DEF Keeping
    <2> QED
      BY <1>1, <1>2, <2>1, <2>2 DEF DirInv, DirOK, Alone
  <1> QED
    BY <1>3, <1>4 DEF DirInv

\* The steps of a capture, and a person's removal.
LEMMA StepDir ==
    ASSUME DirInv, TreesInv', NEW c \in Captures, Step(c) \/ ZipGrows(c) \/ RemoveArchive(c)
    PROVE  DirInv'
  <1>0. task \in [Captures -> Stages]
    BY DEF DirInv, TreesInv, TreesTyped
  <1>1. CASE CaptureRefused(c)
    <2>1. Leaves(c) /\ task[c] = "dump" /\ UNCHANGED <<files, newer, whole>>
      BY <1>1 DEF CaptureRefused, dirVars
    <2>2. task' = [task EXCEPT ![c] = "idle"] /\ setting' = setting
      BY <2>1 DEF Leaves
    <2> QED
      BY <1>0, <2>1, <2>2 DEF DirInv, DirOK, Ordered, Alone, Busy
  <1>2. CASE ZipBegins(c)
    <2>1. /\ Written(c) /\ task[c] = "dump" /\ task' = [task EXCEPT ![c] = "zip"]
          /\ UNCHANGED <<setting, whole>> /\ files' = files \cup {c}
      BY <1>2 DEF ZipBegins, Written
    <2>2. DirOK'
      BY <1>0, <2>1, WrittenOrdered DEF DirInv, DirOK
    <2>3. Alone'
      BY <1>0, <2>1 DEF DirInv, Alone, Busy
    <2> QED
      BY <2>2, <2>3 DEF DirInv
  <1>3. CASE ZipGrows(c)
    <2>1. Written(c) /\ c \in files /\ UNCHANGED <<setting, task, whole>> /\ files' = files \cup {c}
      BY <1>3 DEF ZipGrows, Written
    <2>2. DirOK'
      BY <2>1, WrittenOrdered DEF DirInv, DirOK
    <2>3. Alone'
      BY <2>1 DEF DirInv, Alone, Busy
    <2> QED
      BY <2>2, <2>3 DEF DirInv
  <1>4. CASE ZipCloses(c)
    <2>1. task[c] = "zip" /\ task' = [task EXCEPT ![c] = "written"] /\ setting' = setting
      BY <1>4 DEF ZipCloses
    <2>2. CASE c \in files
      <3>1. Written(c) /\ whole' = whole \cup {c} /\ files' = files \cup {c}
        BY <1>4, <2>2 DEF ZipCloses, Written
      <3>2. DirOK'
        BY <1>0, <2>1, <2>2, <3>1, WrittenOrdered DEF DirInv, DirOK
      <3>3. Alone'
        BY <1>0, <2>1, <2>2, <3>1 DEF DirInv, Alone, Busy
      <3> QED
        BY <3>2, <3>3 DEF DirInv
    <2>3. CASE c \notin files
      <3>1. UNCHANGED <<files, newer, whole>>
        BY <1>4, <2>3 DEF ZipCloses, dirVars
      <3>2. DirOK'
        BY <1>0, <2>1, <2>3, <3>1 DEF DirInv, DirOK, Ordered
      <3>3. Alone'
        BY <1>0, <2>1, <2>3, <3>1 DEF DirInv, Alone, Busy
      <3> QED
        BY <3>2, <3>3 DEF DirInv
    <2> QED
      BY <2>2, <2>3
  <1>5. CASE ZipFails(c)
    BY <1>5, LeavingDir DEF ZipFails, Unlinked
  <1>6. CASE Ends(c)
    BY <1>6, LeavingDir DEF Ends, Prune
  <1>7. CASE RemoveArchive(c)
    <2>1. Keeping(files \ {c}) /\ UNCHANGED <<setting, task>>
      BY <1>7 DEF RemoveArchive, Unlinked
    <2>2. DirOK'
      BY <2>1, KeepingOrdered DEF DirInv, DirOK, Keeping
    <2>3. Alone'
      BY <2>1 DEF DirInv, Alone, Busy, Keeping
    <2> QED
      BY <2>2, <2>3 DEF DirInv
  <1> QED
    BY <1>1, <1>2, <1>3, <1>4, <1>5, <1>6, <1>7 DEF Step

\* Every step keeps the directory in order and, where captures are one at a time, whole.
THEOREM DirKept == DirInv /\ TreesInv' /\ [BackupNext]_backupVars => DirInv'
  <1> SUFFICES ASSUME DirInv, TreesInv', [BackupNext]_backupVars
               PROVE  DirInv'
    OBVIOUS
  <1>1. CASE Tick \/ \E c \in Manual : Request(c) \/ Command(c)
    <2>1. \E c \in Captures, process \in Processes : MayBegin(c) /\ BeginsCapture(c, process)
      BY <1>1 DEF Tick, Request, Command, Captures, Processes
    <2>2. UNCHANGED <<setting, files, newer, whole>>
      BY <1>1 DEF Tick, Request, Command, dirVars
    <2> QED
      BY <2>1, <2>2, BeginningDir
  <1>2. CASE Hour \/ PanelStarts \/ UNCHANGED backupVars
    BY <1>2, DirUntouched DEF Hour, PanelStarts, backupVars, dirVars
  <1>3. ASSUME NEW process \in Processes, Killed(process)
        PROVE  DirInv'
    <2>1. UNCHANGED <<setting, files, newer, whole>>
      BY <1>3 DEF Killed, dirVars
    <2> DEFINE lost == {c \in Busy : by[c] = process}
    <2>2. task' = [c \in Captures |-> IF c \in lost THEN "idle" ELSE task[c]] /\ (lost # {} => setting.dies)
      BY <1>3 DEF Killed
    <2>3. task \in [Captures -> Stages]
      BY DEF DirInv, TreesInv, TreesTyped
    <2> HIDE DEF lost
    <2>4. DirOK'
      BY <2>1, <2>2, <2>3 DEF DirInv, DirOK, Ordered
    <2>5. Alone'
      <3>1. ~setting.dies => task' = task
        BY <2>2, <2>3
      <3> QED
        BY <2>1, <3>1 DEF DirInv, Alone, Busy
    <2> QED
      BY <2>4, <2>5 DEF DirInv
  <1>4. CASE PanelEnds \/ CommandEnds
    BY <1>3, <1>4 DEF PanelEnds, CommandEnds, Processes
  <1>5. CASE \E c \in Captures : Step(c) \/ ZipGrows(c) \/ RemoveArchive(c)
    BY <1>5, StepDir
  <1> QED
    BY <1>1, <1>2, <1>4, <1>5 DEF BackupNext

\* DirInv is inductive: the directory is empty at first, and every step keeps it.
THEOREM DirInvariance == BackupSpec => []DirInv
  <1>1. BackupInit /\ TreesInv => DirInv
    BY DEF BackupInit, DirInv, DirOK, Ordered, Alone, Busy
  <1> QED
    BY <1>1, DirKept, TreesInvariance, PTL DEF BackupSpec

\* The schedule's memory, the ages and the count of deaths.
ScheduleTyped ==
    /\ setting \in Settings /\ panelUp \in BOOLEAN /\ running \in BOOLEAN /\ attempt \in 0..Interval
    /\ age \in [Scheduled -> 0..Interval] /\ deaths \in 0..MaxDeaths

\* A clock that stops at the interval, and files that are young or as good as old.
LEMMA ScheduleTypedKept == ScheduleTyped /\ [BackupNext]_backupVars => ScheduleTyped'
  <1> SUFFICES ASSUME ScheduleTyped, [BackupNext]_backupVars
               PROVE  ScheduleTyped'
    OBVIOUS
  <1>0. Interval \in Nat \ {0} /\ MaxDeaths \in Nat /\ 0 \in 0..Interval /\ Interval \in 0..Interval
    BY BackupsAssumption
  <1>1. CASE Tick \/ PanelStarts \/ (\E c \in Manual : Request(c) \/ Command(c)) \/ UNCHANGED backupVars
    BY <1>0, <1>1 DEF ScheduleTyped, Tick, PanelStarts, Request, Command, backupVars, serviceVars, dirVars
  <1>2. CASE Hour
    <2>1. \A n \in 0..Interval : Older(n) \in 0..Interval
      BY <1>0 DEF Older
    <2> QED
      BY <1>2, <2>1 DEF ScheduleTyped, Hour
  <1>3. CASE PanelEnds \/ CommandEnds
    <2>1. UNCHANGED <<setting, age>> /\ deaths < MaxDeaths /\ deaths' = deaths + 1
      BY <1>3 DEF PanelEnds, CommandEnds, Killed, dirVars
    <2>2. /\ panelUp' \in {panelUp, FALSE} /\ running' \in {running, FALSE}
          /\ attempt' \in {attempt, Interval}
      BY <1>3 DEF PanelEnds, CommandEnds, serviceVars
    <2>3. deaths' \in 0..MaxDeaths
      BY <1>0, <2>1 DEF ScheduleTyped
    <2> QED
      BY <1>0, <2>1, <2>2, <2>3 DEF ScheduleTyped
  <1>4. ASSUME NEW c \in Captures, Step(c) \/ ZipGrows(c) \/ RemoveArchive(c)
        PROVE  ScheduleTyped'
    <2>1. /\ UNCHANGED <<setting, panelUp, attempt, deaths>>
          /\ running' \in {running, running /\ c \notin Scheduled}
      BY <1>4 DEF Step, CaptureRefused, ZipBegins, ZipFails, ZipCloses, Ends, ZipGrows, RemoveArchive,
         Leaves, Finally, serviceVars
    <2>2. age' \in [Scheduled -> 0..Interval]
      <3>1. age' = age \/ Written(c) \/ \E kept : Keeping(kept)
        BY <1>4 DEF Step, CaptureRefused, ZipBegins, ZipFails, ZipCloses, Ends, ZipGrows, RemoveArchive,
           Unlinked, Prune, dirVars
      <3> QED
        BY <1>0, <3>1 DEF ScheduleTyped, Written, Aged, Keeping
    <2> QED
      BY <2>1, <2>2 DEF ScheduleTyped
  <1> QED
    BY <1>1, <1>2, <1>3, <1>4 DEF BackupNext

\* Every variable of Backups keeps its type, for any captures, budgets and interval.
THEOREM BackupTypeCorrect == BackupSpec => []BackupTypeOK
  <1>1. BackupInit => ScheduleTyped
    <2>1. 0 \in 0..MaxDeaths /\ Interval \in 0..Interval
      BY BackupsAssumption
    <2> QED
      BY <2>1 DEF BackupInit, ScheduleTyped
  <1>2. DirInv /\ ScheduleTyped => BackupTypeOK
    BY DEF DirInv, TreesInv, TreesTyped, DirOK, ScheduleTyped, BackupTypeOK
  <1> QED
    BY <1>1, <1>2, ScheduleTypedKept, DirInvariance, PTL DEF BackupSpec

\* What a step that prunes nothing does to the good ones: it takes none.
LEMMA GoodStay ==
    ASSUME DirInv, [BackupNext]_backupVars, ~(\E c \in Captures : RemoveArchive(c)),
           ~(\E c \in Captures : Ends(c))
    PROVE  whole \subseteq whole'
  <1>1. CASE Tick \/ \E c \in Manual : Request(c) \/ Command(c)
    BY <1>1 DEF Tick, Request, Command, dirVars
  <1>2. CASE Hour \/ PanelStarts \/ UNCHANGED backupVars
    BY <1>2 DEF Hour, PanelStarts, backupVars, dirVars
  <1>3. CASE PanelEnds \/ CommandEnds
    BY <1>3 DEF PanelEnds, CommandEnds, Killed, dirVars
  <1>4. ASSUME NEW c \in Captures, CaptureRefused(c) \/ ZipBegins(c) \/ ZipCloses(c) \/ ZipGrows(c)
        PROVE  whole \subseteq whole'
    BY <1>4 DEF CaptureRefused, ZipBegins, ZipCloses, ZipGrows, dirVars
  <1>5. ASSUME NEW c \in Captures, ZipFails(c)
        PROVE  whole \subseteq whole'
    BY <1>5 DEF ZipFails, Unlinked, Keeping, DirInv, DirOK
  <1> QED
    BY <1>1, <1>2, <1>3, <1>4, <1>5 DEF BackupNext, Step

\* Every archive of a kind that its budget keeps, or as many as the budget asks for, are left.
THEOREM BackupsStay == BackupSpec => BackupStays
  <1> DEFINE A == ~setting.overlap /\ ~setting.dies /\ ~(\E c \in Captures : RemoveArchive(c)) =>
                    \A k \in {"auto", "manual"} :
                        Cardinality(Good(k)') >= Smaller(Cardinality(Good(k)), Keep[k])
  <1>1. ASSUME DirInv, DirInv', [BackupNext]_backupVars
        PROVE  A
    <2> SUFFICES ASSUME ~setting.overlap, ~setting.dies, ~(\E c \in Captures : RemoveArchive(c)),
                        NEW k \in {"auto", "manual"}
                 PROVE  Cardinality(Good(k)') >= Smaller(Cardinality(Good(k)), Keep[k])
      OBVIOUS
    <2>0. /\ Keep[k] \in Nat /\ Good(k) = whole \cap OfKind(k) /\ Good(k)' = whole' \cap OfKind(k)
          /\ OfKind(k) \in SUBSET Captures /\ IsFiniteSet(Captures)
      BY BackupsAssumption DEF Good, OfKind, Kind
    <2>1. /\ IsFiniteSet(Good(k)) /\ IsFiniteSet(Good(k)')
          /\ Cardinality(Good(k)) \in Nat /\ Cardinality(Good(k)') \in Nat
      <3>1. Good(k) \in SUBSET Captures /\ Good(k)' \in SUBSET Captures
        BY <2>0
      <3>2. IsFiniteSet(Good(k)) /\ IsFiniteSet(Good(k)')
        BY <2>0, <3>1, FS_Subset
      <3> QED
        BY <3>2, FS_CardinalityType
    <2>2. ASSUME NEW S, S \in SUBSET Good(k)', Cardinality(S) >= Smaller(Cardinality(Good(k)), Keep[k]),
                 Cardinality(S) \in Nat
          PROVE  Cardinality(Good(k)') >= Smaller(Cardinality(Good(k)), Keep[k])
      <3>1. Cardinality(S) <= Cardinality(Good(k)')
        BY <2>1, <2>2, FS_Subset
      <3> QED
        BY <2>0, <2>1, <2>2, <3>1 DEF Smaller
    <2>3. CASE ~(\E c \in Captures : Ends(c))
      <3>1. Good(k) \in SUBSET Good(k)'
        BY <1>1, <2>0, <2>3, GoodStay
      <3>2. Cardinality(Good(k)) >= Smaller(Cardinality(Good(k)), Keep[k])
        BY <2>0, <2>1 DEF Smaller
      <3> QED
        BY <2>1, <2>2, <3>1, <3>2
    <2>4. CASE \E c \in Captures : Ends(c)
      <3>1. PICK c \in Captures : Ends(c)
        BY <2>4
      <3>2. files = whole
        <4>1. \A d \in Captures : task[d] # "zip"
          <5>1. c \in Busy /\ task[c] = "written"
            BY <3>1 DEF Ends, Busy
          <5>2. \A d \in Busy : d = c
            BY <1>1, <5>1 DEF DirInv, Alone
          <5> QED
            BY <5>1, <5>2 DEF Busy
        <4> QED
          BY <1>1, <4>1 DEF DirInv, DirOK, Alone
      <3>3. Good(k) = files \cap OfKind(k)
        BY <2>0, <3>2
      <3>4. Keepers(k) \in SUBSET Good(k)'
        <4>1. whole' = whole \cap (Keepers("auto") \cup Keepers("manual"))
          BY <3>1 DEF Ends, Prune, Keeping
        <4>2. Keepers(k) \in SUBSET (files \cap OfKind(k))
          BY DEF Keepers, Newest
        <4> QED
          BY <2>0, <3>2, <4>1, <4>2
      <3>5. Cardinality(Keepers(k)) >= Smaller(Cardinality(Good(k)), Keep[k])
        <4>1. files \cap OfKind(k) \in SUBSET Captures
          BY <2>0
        <4> QED
          BY <1>1, <2>0, <3>3, <4>1, NewestEnough DEF DirInv, DirOK, Keepers
      <3>6. Cardinality(Keepers(k)) \in Nat
        BY <2>1, <3>4, FS_Subset, FS_CardinalityType
      <3> QED
        BY <2>2, <3>4, <3>5, <3>6
    <2> QED
      BY <2>3, <2>4
  <1> QED
    BY <1>1, DirInvariance, PTL DEF BackupSpec, BackupStays
=============================================================================
