------------------------------- MODULE Restore -------------------------------
(***************************************************************************)
(* Restoring an archive onto a host, and what it leaves for later:         *)
(* the restore lock, the writes, the dump staged beside them and the load  *)
(* hook the entry's next start runs (src/services/backups.ts,              *)
(* helpers/restore-lock.ts, cli/backup-offline.ts, services/panel.ts and   *)
(* services/supervisor.ts: runPendingLoad, stagePendingLoad).              *)
(*                                                                         *)
(* A restore is the panel's, applied in one turn of its event loop, or the *)
(* command line's with no panel, whose writes anything may come between.   *)
(* Both take the same lock file.  The archive brings one entry, with a     *)
(* load hook and a dump; a dump is named for the restore that staged it.   *)
(***************************************************************************)
EXTENDS Naturals, FiniteSets

CONSTANTS
    Jobs,       \* restores asked for
    NoJob,      \* null
    MaxCalls,   \* bound on what a user and the kernel do to the entry and the panel
    Worlds      \* see World

\* old: the entry as this host has it before any restore ("none": not at all).
\* fresh: nor its workspace.  autostart: of the entry, and the panel was started so.
\* meet: the panel may be started beside a restore of the command line.
\* slow: a restore may take longer than STALE_AFTER_MS.  torn: a process may die between
\* creating the lock file and writing it.
World == [old : {"none", "plain", "hooked"}, fresh : BOOLEAN, autostart : BOOLEAN,
          meet : BOOLEAN, slow : BOOLEAN, torn : BOOLEAN]

ASSUME RestoreAssumption ==
    /\ NoJob \notin Jobs /\ MaxCalls \in Nat
    /\ Worlds \subseteq World /\ \A w \in Worlds : w.fresh => w.old = "none"

VARIABLES
    world,
    conf,       \* the entry in servers.config.json: "none", "plain", or "hooked"
    pendingOnDisk, \* pendingLoad in the entry's state file
    lock,       \* restore.lock: absent, created and still empty, or a holder's record
    up, entry,  \* the panel, and the supervisor's Entry
    runs,       \* calls of runPendingLoad past their first turn
    server,     \* the entry's process is alive
    job,        \* the restores
    ran,        \* history: times a hook began with this dump
    owed,       \* history: the dump last staged whose hook has not begun
    unbroken,   \* history: no holder of the lock has died or been outwaited
    calls

diskVars  == <<conf, pendingOnDisk>>
panelVars == <<up, entry, runs, server>>
pastVars  == <<ran, owed>>
vars      == <<world, diskVars, lock, panelVars, job, pastVars, unbroken, calls>>

Dump  == Jobs \cup {NoJob}
Conf  == {"none", "plain", "hooked"}
Entry == [conf : Conf, status : {"stopped", "starting", "spawned", "running", "stopping"},
          pending : Dump, loading : BOOLEAN]
Gone  == [conf |-> "none", status |-> "stopped", pending |-> NoJob, loading |-> FALSE]
Run   == [at : {"none", "wait", "hook"}, dump : Dump]
NoRun == [at |-> "none", dump |-> NoJob]
Lock  == [at : {"absent", "empty", "held"}, by : Dump, aged : BOOLEAN]
NoLock == [at |-> "absent", by |-> NoJob, aged |-> FALSE]
Job   == [at : {"idle", "looked", "created", "reading", "written", "staged", "release",
                "removes", "refused", "done", "dead"},
          via : {"panel", "files"}, saw : {"nothing", "stale"}]

TypeOK ==
    /\ world \in Worlds
    /\ conf \in Conf /\ pendingOnDisk \in Dump /\ lock \in Lock
    /\ up \in BOOLEAN /\ entry \in Entry /\ runs \in [1..2 -> Run] /\ server \in BOOLEAN
    /\ job \in [Jobs -> Job]
    /\ ran \in [Jobs -> 0..2] /\ owed \in Dump /\ unbroken \in BOOLEAN
    /\ calls \in 0..MaxCalls

AtWork(j)  == job[j].at \in {"reading", "written", "staged"}
Holding(j) == AtWork(j) \/ job[j].at \in {"release", "removes"}
Alive(j)   == job[j].at \notin {"idle", "refused", "done", "dead"}
Offline    == \E j \in Jobs : Alive(j) /\ job[j].via = "files"

Go(j, place) == job' = [job EXCEPT ![j].at = place]
Called       == calls < MaxCalls /\ calls' = calls + 1

\* A panel in the middle of taking or releasing the lock does nothing else: both are
\* synchronous.
Turn == up /\ \A j \in Jobs : job[j].via = "panel" => job[j].at \notin {"looked", "created", "removes"}

-----------------------------------------------------------------------------
(* The restore lock *)

\* The command line asks the panel if there is one and works on the files if not.
Begins(j) ==
    /\ job[j].at = "idle"
    /\ lock.at = "held" => ~Alive(lock.by) \/ lock.aged
    /\ up => Turn
    /\ job' = [job EXCEPT ![j] = [at |-> "looked", via |-> IF up THEN "panel" ELSE "files",
                                  saw |-> IF lock.at = "held" THEN "stale" ELSE "nothing"]]
    /\ UNCHANGED <<world, diskVars, lock, panelVars, pastVars, unbroken, calls>>

\* Its record names a live holder, and not an old one.
Refused(j) ==
    /\ job[j].at = "idle" /\ (up => Turn)
    /\ lock.at = "held" /\ Alive(lock.by) /\ ~lock.aged
    /\ Go(j, "refused")
    /\ UNCHANGED <<world, diskVars, lock, panelVars, pastVars, unbroken, calls>>

\* writeFileAtomic over whatever is there now.
TakesOver(j) ==
    /\ job[j].at = "looked" /\ job[j].saw = "stale"
    /\ lock' = [at |-> "held", by |-> j, aged |-> FALSE]
    /\ Go(j, "reading")
    /\ UNCHANGED <<world, diskVars, panelVars, pastVars, unbroken, calls>>

\* Slip: the file is written where another may have created it meanwhile.
Creates_NoExclusion(j) ==
    /\ job[j].at = "looked" /\ job[j].saw = "nothing"
    /\ lock' = [at |-> "empty", by |-> j, aged |-> FALSE] /\ Go(j, "created")
    /\ UNCHANGED <<world, diskVars, panelVars, pastVars, unbroken, calls>>

\* The exclusive create: EEXIST is a refusal, readable or not.
Creates(j) ==
    /\ job[j].at = "looked" /\ job[j].saw = "nothing"
    /\ IF lock.at = "absent"
       THEN lock' = [at |-> "empty", by |-> j, aged |-> FALSE] /\ Go(j, "created")
       ELSE UNCHANGED lock /\ Go(j, "refused")
    /\ UNCHANGED <<world, diskVars, panelVars, pastVars, unbroken, calls>>

\* Into the file it created, which may have been removed since.
Writes(j) ==
    /\ job[j].at = "created"
    /\ lock' = IF lock.at = "empty" /\ lock.by = j
               THEN [at |-> "held", by |-> j, aged |-> FALSE] ELSE lock
    /\ Go(j, "reading")
    /\ UNCHANGED <<world, diskVars, panelVars, pastVars, unbroken, calls>>

\* release() reads the record and then removes the file, unless another's record is there.
Releases(j) ==
    /\ job[j].at = "release" /\ (job[j].via = "panel" => Turn)
    /\ Go(j, IF lock.at = "held" /\ lock.by # j THEN "done" ELSE "removes")
    /\ UNCHANGED <<world, diskVars, lock, panelVars, pastVars, unbroken, calls>>

\* Slip: the file stays.
RemovesLock_Keeps(j) ==
    /\ job[j].at = "removes"
    /\ Go(j, "done")
    /\ UNCHANGED <<world, diskVars, lock, panelVars, pastVars, unbroken, calls>>

RemovesLock(j) ==
    /\ job[j].at = "removes"
    /\ lock' = NoLock /\ Go(j, "done")
    /\ UNCHANGED <<world, diskVars, panelVars, pastVars, unbroken, calls>>

\* More than STALE_AFTER_MS have passed since the lock was taken.
Ages ==
    /\ world.slow /\ lock.at = "held" /\ ~lock.aged /\ AtWork(lock.by)
    /\ lock' = [lock EXCEPT !.aged = TRUE] /\ unbroken' = FALSE
    /\ UNCHANGED <<world, diskVars, panelVars, job, pastVars, calls>>

-----------------------------------------------------------------------------
(* The load hook: what one turn does to the entry, its state file and the calls *)

Free == {n \in 1..2 : runs[n].at = "none"}

\* Slip: a second call does not see the first, which waits.
LoadTurn_NoGuard(e) ==
    IF e.conf # "hooked"
    THEN entry' = [e EXCEPT !.pending = NoJob] /\ pendingOnDisk' = NoJob /\ UNCHANGED runs
    ELSE /\ entry' = [e EXCEPT !.loading = TRUE] /\ pendingOnDisk' = e.pending
         /\ IF Free = {} THEN UNCHANGED runs
            ELSE \E n \in Free : runs' = [runs EXCEPT ![n] = [at |-> "wait", dump |-> e.pending]]

\* runPendingLoad up to its first await; the state file is the entry's by now in every caller.
LoadTurn(e) ==
    IF e.conf # "hooked"
    THEN entry' = [e EXCEPT !.pending = NoJob] /\ pendingOnDisk' = NoJob /\ UNCHANGED runs
    ELSE IF e.loading
    THEN entry' = e /\ pendingOnDisk' = e.pending /\ UNCHANGED runs
    ELSE /\ entry' = [e EXCEPT !.loading = TRUE] /\ pendingOnDisk' = e.pending
         /\ \E n \in Free : runs' = [runs EXCEPT ![n] = [at |-> "wait", dump |-> e.pending]]

\* Slip: the spawn leaves the dump to a later start.
LoadIfPending_Not(e) == entry' = e /\ pendingOnDisk' = e.pending /\ UNCHANGED runs

LoadIfPending(e) ==
    IF e.pending # NoJob THEN LoadTurn(e)
                         ELSE entry' = e /\ pendingOnDisk' = e.pending /\ UNCHANGED runs

Credit(d) == ran' = [ran EXCEPT ![d] = IF @ < 2 THEN @ + 1 ELSE @]

\* The port answers, the entry was stopped, or the wait is over: the dump is forgotten,
\* here and on disk, and then the hook runs.
LoadProceeds(n) ==
    /\ Turn /\ runs[n].at = "wait"
    /\ runs' = [runs EXCEPT ![n].at = "hook"]
    /\ entry' = [entry EXCEPT !.pending = NoJob] /\ pendingOnDisk' = NoJob
    /\ Credit(IF entry.pending # NoJob THEN entry.pending ELSE runs[n].dump)
    /\ owed' = NoJob
    /\ UNCHANGED <<world, conf, lock, up, server, job, unbroken, calls>>

LoadEnds(n) ==
    /\ Turn /\ runs[n].at = "hook"
    /\ runs' = [runs EXCEPT ![n] = NoRun]
    /\ entry' = [entry EXCEPT !.loading = FALSE]
    /\ UNCHANGED <<world, diskVars, lock, up, server, job, pastVars, unbroken, calls>>

-----------------------------------------------------------------------------
(* The entry: every one of these that saves the state file saves the dump with it *)

Autostart == world.autostart

\* start(), up to its first await; on an entry already up it only sees to a waiting dump.
UserStart ==
    /\ Turn /\ entry.conf # "none" /\ Called
    /\ CASE entry.status = "stopped"  -> /\ entry' = [entry EXCEPT !.status = "starting"]
                                        /\ pendingOnDisk' = entry.pending /\ UNCHANGED runs
         [] entry.status = "stopping" -> UNCHANGED <<entry, pendingOnDisk, runs>>
         [] OTHER                     -> IF entry.pending = NoJob
                                         THEN UNCHANGED <<entry, pendingOnDisk, runs>>
                                         ELSE LoadTurn(entry)
    /\ UNCHANGED <<world, conf, lock, up, server, job, pastVars, unbroken>>

\* Slip: the state saved with the child's pid is put together without the dump.
Spawns_Drops ==
    /\ Turn /\ entry.status = "starting" /\ ~server
    /\ server' = TRUE
    /\ entry' = [entry EXCEPT !.status = "spawned"] /\ pendingOnDisk' = NoJob
    /\ UNCHANGED <<world, conf, lock, up, runs, job, pastVars, unbroken, calls>>

\* The start goes on: a child a former panel recorded is adopted, and otherwise one is spawned,
\* recorded, and a waiting dump is seen to.
Spawns ==
    /\ Turn /\ entry.status = "starting"
    /\ IF server
       THEN entry' = [entry EXCEPT !.status = "running"] /\ UNCHANGED <<pendingOnDisk, runs, server>>
       ELSE server' = TRUE /\ LoadIfPending([entry EXCEPT !.status = "spawned"])
    /\ UNCHANGED <<world, conf, lock, up, job, pastVars, unbroken, calls>>

Ready ==
    /\ Turn /\ entry.status = "spawned"
    /\ entry' = [entry EXCEPT !.status = "running"]
    /\ UNCHANGED <<world, diskVars, lock, up, runs, server, job, pastVars, unbroken, calls>>

\* A stop before the spawn is answered at once and the start goes on (Lifecycle), so it
\* is no step here.
UserStop ==
    /\ Turn /\ entry.status \in {"spawned", "running"} /\ Called
    /\ entry' = [entry EXCEPT !.status = "stopping"]
    /\ UNCHANGED <<world, diskVars, lock, up, runs, server, job, pastVars, unbroken>>

\* The child's exit, asked for or not, is saved: its pid is forgotten.
Exits ==
    /\ Turn /\ entry.status \in {"spawned", "running", "stopping"}
    /\ IF entry.status = "stopping" THEN UNCHANGED calls ELSE Called
    /\ server' = FALSE
    /\ entry' = [entry EXCEPT !.status = "stopped"] /\ pendingOnDisk' = entry.pending
    /\ UNCHANGED <<world, conf, lock, up, runs, job, pastVars, unbroken>>

-----------------------------------------------------------------------------
(* The writes of a restore *)

\* createEntry, and start() when the entry starts with what brought it.
Created(c, pending) ==
    [conf |-> c, status |-> IF Autostart THEN "starting" ELSE "stopped", pending |-> pending,
     loading |-> FALSE]

\* The panel's apply loop, its staging and its reload are one turn.  A workspace this host did not
\* have gets its runtime, and the entry is started, before the dump is staged; a workspace
\* it has shows the entry only to the reload.  The dump is staged on the configuration the
\* entry had before the reload.
PanelApplies(j) ==
    /\ job[j].at = "reading" /\ job[j].via = "panel" /\ Turn
    /\ conf' = "hooked" /\ owed' = j /\ Go(j, "release")
    /\ LET known == IF entry.conf = "none" /\ world.fresh THEN Created("hooked", j)
                    ELSE [entry EXCEPT !.pending = j]
       IN \/ /\ entry.conf = "none" /\ ~world.fresh
             /\ entry' = Created("hooked", j) /\ pendingOnDisk' = j /\ UNCHANGED runs
          \/ /\ known.conf = "plain" /\ known.status = "running"
             \* runPendingLoad finds no hook, and the reload brings one
             /\ entry' = [known EXCEPT !.pending = NoJob, !.conf = "hooked"]
             /\ pendingOnDisk' = NoJob /\ UNCHANGED runs
          \/ known.conf = "hooked" /\ known.status = "running" /\ LoadTurn(known)
          \/ /\ known.conf # "none" /\ known.status # "running"
             /\ entry' = [known EXCEPT !.conf = "hooked"]
             /\ pendingOnDisk' = j /\ UNCHANGED runs
    /\ UNCHANGED <<world, lock, up, server, ran, unbroken, calls>>

\* The command line's: the configuration, the copy of the dump, and the entry's state file.
FilesWritten(j) ==
    /\ job[j].at = "reading" /\ job[j].via = "files"
    /\ conf' = "hooked" /\ Go(j, "written")
    /\ UNCHANGED <<world, pendingOnDisk, lock, panelVars, pastVars, unbroken, calls>>

DumpCopied(j) ==
    /\ job[j].at = "written" /\ Go(j, "staged")
    /\ UNCHANGED <<world, diskVars, lock, panelVars, pastVars, unbroken, calls>>

LoadStaged(j) ==
    /\ job[j].at = "staged" /\ Go(j, "release")
    /\ pendingOnDisk' = j /\ owed' = j
    /\ UNCHANGED <<world, conf, lock, panelVars, ran, unbroken, calls>>

\* A wrong password, a bad archive, a full disk: what is already written stays, and the lock
\* is released all the same.
Fails(j) ==
    /\ AtWork(j) /\ (job[j].via = "panel" => Turn)
    /\ Go(j, "release")
    /\ UNCHANGED <<world, diskVars, lock, panelVars, pastVars, unbroken, calls>>

-----------------------------------------------------------------------------
(* The panel comes and goes, and processes die *)

Boots ==
    /\ ~up /\ Called /\ (Offline => world.meet)
    /\ up' = TRUE
    /\ entry' = IF conf = "none" THEN Gone ELSE Created(conf, pendingOnDisk)
    /\ UNCHANGED <<world, diskVars, lock, runs, server, job, pastVars, unbroken>>

Dies(dead) ==
    /\ job' = [j \in Jobs |-> IF j \in dead THEN [job[j] EXCEPT !.at = "dead"] ELSE job[j]]
    /\ unbroken' = (unbroken /\ \A j \in dead : ~Holding(j) /\ job[j].at # "created")
    /\ \A j \in dead : job[j].at = "created" => world.torn

PanelDies ==
    /\ up /\ Called
    /\ Dies({j \in Jobs : Alive(j) /\ job[j].via = "panel"})
    /\ up' = FALSE /\ entry' = Gone /\ runs' = [n \in 1..2 |-> NoRun]
    /\ server' \in {FALSE, server}
    /\ UNCHANGED <<world, diskVars, lock, pastVars>>

JobDies(j) ==
    /\ Alive(j) /\ job[j].via = "files" /\ Called
    /\ Dies({j})
    /\ UNCHANGED <<world, diskVars, lock, panelVars, pastVars>>

Init ==
    /\ world \in Worlds
    /\ conf = world.old /\ pendingOnDisk = NoJob /\ lock = NoLock
    /\ up \in BOOLEAN /\ server = FALSE
    /\ entry = IF up /\ conf # "none" THEN Created(conf, NoJob) ELSE Gone
    /\ runs = [n \in 1..2 |-> NoRun]
    /\ job = [j \in Jobs |-> [at |-> "idle", via |-> "files", saw |-> "nothing"]]
    /\ ran = [j \in Jobs |-> 0] /\ owed = NoJob /\ unbroken = TRUE /\ calls = 0

LoadStep(n) == LoadProceeds(n) \/ LoadEnds(n)
Next ==
    \/ \E j \in Jobs : \/ Begins(j) \/ Refused(j) \/ TakesOver(j) \/ Creates(j) \/ Writes(j)
                       \/ Releases(j) \/ RemovesLock(j) \/ PanelApplies(j) \/ FilesWritten(j)
                       \/ DumpCopied(j) \/ LoadStaged(j) \/ Fails(j) \/ JobDies(j)
    \/ \E n \in 1..2 : LoadStep(n)
    \/ Ages \/ UserStart \/ Spawns \/ Ready \/ UserStop \/ Exits \/ Boots \/ PanelDies

\* What a live event loop has begun goes on: timers, child processes, and the synchronous
\* calls that take and release the lock.
Fairness ==
    /\ WF_vars(Spawns) /\ \A n \in 1..2 : WF_vars(LoadProceeds(n)) /\ WF_vars(LoadEnds(n))
    /\ \A j \in Jobs : WF_vars(TakesOver(j) \/ Creates(j) \/ Writes(j) \/ RemovesLock(j))

Spec == Init /\ [][Next]_vars /\ Fairness

-----------------------------------------------------------------------------
(* Properties *)

\* Until a process dies holding the lock, or is outwaited, no two restores write the host
\* together, the panel's or the command line's (helpers/restore-lock.ts:7).
OneRestore == unbroken => \A j, k \in Jobs : AtWork(j) /\ AtWork(k) => j = k

\* The lock file is that of a restore at work, or of one that died: none that ended, or was
\* refused, leaves one behind to refuse the next (releases, take-overs and outwaited holders
\* included).
LockIsAccounted ==
    lock.at # "absent" => job[lock.by].at \notin {"idle", "looked", "refused", "done"}

\* A dump a restore has staged stays recorded on disk until its hook begins: no save of the
\* entry's state, restart of the panel or start of the entry loses it (supervisor.ts:2473).
\* Not of an entry that had no hook and runs, which forgets it (stagePendingLoad), nor when
\* a panel is started beside a restore of the command line.
StagedIsKept ==
    owed # NoJob /\ world.old # "plain" /\ ~world.meet => pendingOnDisk = owed

\* No dump is loaded twice, by overlapping starts or by a panel that died and came back.
LoadedOnce == \A j \in Jobs : ran[j] <= 1

\* An entry that is being started with a dump waiting, and no older hook still running, gets
\* it loaded, unless the panel goes or a newer dump takes its place.  Not the entry whose
\* child outlived a panel: start() adopts it and returns without the load (supervisor.ts:525),
\* so its dump waits, recorded, for a start() while it is up (:454) or its next spawn.
LoadRuns ==
    \A j \in Jobs :
        (up /\ entry.pending = j /\ entry.status = "starting" /\ ~server /\ ~entry.loading
            /\ entry.conf = "hooked")
        ~> (ran[j] > 0 \/ owed # j \/ ~up)
=============================================================================
