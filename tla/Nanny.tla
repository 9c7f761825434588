-------------------------------- MODULE Nanny --------------------------------
(***************************************************************************)
(* A persistent entry: the panel spawns a nanny, the nanny runs the server *)
(* and outlives the panel, and the next panel, or `down --with-persistent` *)
(* with no panel at all, finds it through its state file.                  *)
(* (src/services/nanny.ts, src/providers/nanny.ts,                         *)
(* src/providers/nanny-sweep.ts and their callers in supervisor.ts.)       *)
(*                                                                         *)
(* Three kinds of process run side by side: the panel, the nannies with    *)
(* their servers, and the command line's sweep.  The entry has no port, so *)
(* the state file is the only trace of its server.  Calls that overlap are *)
(* Lifecycle's: here a user's call waits for boot and for a start to end.  *)
(***************************************************************************)
EXTENDS Naturals

CONSTANTS
    Nannies,     \* the nannies spawned in one behaviour, the bound on spawns
    NoNanny,
    Worlds,      \* stop policies and surroundings considered, see World
    MaxBoots     \* bound on the times the panel comes back

\* trapped: stop.signal is SIGTERM or SIGINT, else SIGKILL; killGroup: stop.killGroup;
\* slow: the server ignores the polite signal; denied: none ends a nanny at work;
\* hard: something outside may kill a nanny alone;
\* autostart: the entry's; resumes: no --no-autostart.
World == [trapped : BOOLEAN, killGroup : BOOLEAN, slow : BOOLEAN, denied : BOOLEAN, hard : BOOLEAN,
          autostart : BOOLEAN, resumes : BOOLEAN]

ASSUME ConstantsAssumption == NoNanny \notin Nannies /\ MaxBoots \in Nat /\ Worlds \subseteq World

VARIABLES
    world,                            \* fixed at the start
    nanny, told, server,              \* per nanny: the process, whether a stop reached it, its server
    record, spec,                     \* on disk: the state file and the spawn spec
    enabled,                          \* config
    panel, boots,                     \* the panel process; times it came back
    status, handle, adopted,          \* the panel's entry
    starting, stopping, timer,
    startAt,                          \* the start in flight
    stopAt, stopOf, stopChild,        \* the stop, whom it signals, and whose server's pid it has read
    sweepAt, sweepOf,                 \* the command line's sweep
    reported, aimed                   \* history: how each end was recorded; a stop aimed at it

nannyVars == <<nanny, told, server>>
diskVars  == <<record, spec>>
entryVars == <<status, handle, adopted, starting, stopping, timer>>
stopVars  == <<stopAt, stopOf, stopChild>>
sweepVars == <<sweepAt, sweepOf>>
panelVars == <<panel, boots>>
vars      == <<world, nannyVars, diskVars, enabled, panelVars, entryVars, startAt, stopVars,
               sweepVars, reported, aimed>>

NoRecord == [of |-> NoNanny, server |-> FALSE, exit |-> FALSE]

ProcessesOK ==
    /\ world \in Worlds
    /\ nanny \in [Nannies -> {"unborn", "boot", "armed", "running", "exiting", "dead"}]
    /\ server \in [Nannies -> {"none", "alive", "leaving", "gone"}]
    /\ told \in [Nannies -> BOOLEAN] /\ aimed \in [Nannies -> BOOLEAN]
    /\ reported \in [Nannies -> {"no", "blind", "real", "twice"}]

FilesOK ==
    /\ record \in [of : Nannies \cup {NoNanny}, server : BOOLEAN, exit : BOOLEAN]
    /\ spec \in BOOLEAN /\ enabled \in BOOLEAN

EntryOK ==
    /\ panel \in {"down", "resuming", "booting", "up"} /\ boots \in 0..MaxBoots
    /\ status \in {"stopped", "starting", "running", "stopping", "backoff", "crashed", "conflict"}
    /\ handle \in Nannies \cup {NoNanny} /\ adopted \in BOOLEAN /\ (adopted => handle # NoNanny)
    /\ starting \in BOOLEAN /\ stopping \in BOOLEAN /\ timer \in BOOLEAN
    /\ startAt \in {"idle", "dependencies", "bootstrap"} /\ (starting <=> startAt # "idle")

StopsOK ==
    /\ stopAt \in {"idle", "signalled", "forced", "finish"}
    /\ stopOf \in Nannies \cup {NoNanny} /\ stopChild \in Nannies \cup {NoNanny}
    /\ sweepAt \in {"idle", "signalled", "forced", "ended"} /\ sweepOf \in Nannies \cup {NoNanny}

TypeOK == ProcessesOK /\ FilesOK /\ EntryOK /\ StopsOK

-----------------------------------------------------------------------------
(* Helpers *)

IsAlive(n) == n # NoNanny /\ nanny[n] \notin {"unborn", "dead"}
Serves(n)  == server[n] \in {"alive", "leaving"}

OutOfReach(n) == world.denied /\ nanny[n] \in {"running", "exiting"}

\* What a stop does to the processes behind nanny n: `kill(-pid)` reaches the server too,
\* `kill(pid)` the nanny alone.  A nanny that traps the signal passes it on.
Polite(n) ==
    IF OutOfReach(n) \/ ~IsAlive(n) THEN UNCHANGED nannyVars
    ELSE IF ~world.trapped \/ nanny[n] = "boot"
    THEN /\ nanny' = [nanny EXCEPT ![n] = "dead"]
         /\ server' = [server EXCEPT ![n] = IF world.killGroup /\ Serves(n) THEN "gone" ELSE @]
         /\ UNCHANGED told
    ELSE /\ told' = [told EXCEPT ![n] = TRUE]
         /\ server' = [server EXCEPT ![n] = IF @ = "alive" THEN "leaving" ELSE @]
         /\ UNCHANGED nanny

\* SIGKILL once the grace period is over.
Sigkill(n) ==
    IF OutOfReach(n) \/ ~IsAlive(n) THEN UNCHANGED nannyVars
    ELSE /\ nanny' = [nanny EXCEPT ![n] = "dead"]
         /\ server' = [server EXCEPT ![n] = IF world.killGroup /\ Serves(n) THEN "gone" ELSE @]
         /\ UNCHANGED told

\* The server's own pid, signalled and then killed, by whoever read it in the state file.
EndServer(n) ==
    /\ server' = [server EXCEPT ![n] = IF Serves(n) /\ ~world.denied THEN "gone" ELSE @]
    /\ UNCHANGED <<nanny, told>>

\* An exit goes to the history: from the state file ("real"), or without knowing its reason.
Report(n, how) ==
    reported' = IF n = NoNanny THEN reported
                ELSE [reported EXCEPT ![n] = IF @ \in {"no", "blind"} THEN how
                                             ELSE IF how = "real" THEN "twice" ELSE @]

Init ==
    /\ world \in Worlds
    /\ nanny = [n \in Nannies |-> "unborn"] /\ told = [n \in Nannies |-> FALSE]
    /\ server = [n \in Nannies |-> "none"]
    /\ record = NoRecord /\ spec = FALSE /\ enabled = TRUE
    /\ panel = "up" /\ boots = 0
    /\ status = "stopped" /\ handle = NoNanny /\ adopted = FALSE
    /\ starting = FALSE /\ stopping = FALSE /\ timer = FALSE
    /\ startAt = "idle" /\ stopAt = "idle" /\ stopOf = NoNanny /\ stopChild = NoNanny
    /\ sweepAt = "idle" /\ sweepOf = NoNanny
    /\ reported = [n \in Nannies |-> "no"] /\ aimed = [n \in Nannies |-> FALSE]

-----------------------------------------------------------------------------
(* The nanny and its server *)

NannyFrame == UNCHANGED <<world, enabled, panelVars, entryVars, startAt, stopVars, sweepVars, reported, aimed>>

\* takeNannySpec reads the spec and removes it; without one the nanny throws and ends.
\* The signal traps go up right after.
TakesSpec(n) ==
    /\ nanny[n] = "boot"
    /\ nanny' = [nanny EXCEPT ![n] = IF spec THEN "armed" ELSE "dead"]
    /\ spec' = FALSE
    /\ NannyFrame /\ UNCHANGED <<told, server, record>>

\* spawnManaged and the first persistState; a signal that came before the spawn still has
\* to reach the child.  A command that cannot be spawned ends the nanny.
SpawnsServer(n) ==
    /\ nanny[n] = "armed"
    /\ \/ /\ nanny' = [nanny EXCEPT ![n] = "running"]
          /\ server' = [server EXCEPT ![n] = IF told[n] THEN "leaving" ELSE "alive"]
          /\ record' = [of |-> n, server |-> TRUE, exit |-> FALSE]
       \/ /\ nanny' = [nanny EXCEPT ![n] = "exiting"]
          /\ record' = [of |-> n, server |-> FALSE, exit |-> TRUE] /\ UNCHANGED server
    /\ NannyFrame /\ UNCHANGED <<told, spec>>

\* Every NANNY_HEARTBEAT_MS the state file is written again, whatever became of it.
Heartbeat(n) ==
    /\ nanny[n] = "running" /\ Serves(n)
    /\ record # [of |-> n, server |-> TRUE, exit |-> FALSE]
    /\ record' = [of |-> n, server |-> TRUE, exit |-> FALSE]
    /\ NannyFrame /\ UNCHANGED <<nannyVars, spec>>

\* The server ends by itself, or because it was asked to.
ServerEnds(n) ==
    /\ Serves(n) /\ (server[n] = "leaving" => ~world.slow)
    /\ server' = [server EXCEPT ![n] = "gone"]
    /\ NannyFrame /\ UNCHANGED <<nanny, told, diskVars>>

\* The nanny's own terminate() runs out of patience with the server it was told to stop.
ForcesServer(n) ==
    /\ nanny[n] = "running" /\ told[n] /\ server[n] = "leaving"
    /\ server' = [server EXCEPT ![n] = "gone"]
    /\ NannyFrame /\ UNCHANGED <<nanny, told, diskVars>>

\* finish(): the exit goes into the state file, then the nanny ends.
SeesServerEnd(n) ==
    /\ nanny[n] = "running" /\ server[n] = "gone"
    /\ nanny' = [nanny EXCEPT ![n] = "exiting"]
    /\ record' = [of |-> n, server |-> TRUE, exit |-> TRUE]
    /\ NannyFrame /\ UNCHANGED <<told, server, spec>>

NannyLeaves(n) ==
    /\ nanny[n] = "exiting"
    /\ nanny' = [nanny EXCEPT ![n] = "dead"]
    /\ NannyFrame /\ UNCHANGED <<told, server, diskVars>>

\* The kernel, or a person, kills the nanny alone.
KilledHard(n) ==
    /\ world.hard /\ IsAlive(n)
    /\ nanny' = [nanny EXCEPT ![n] = "dead"]
    /\ NannyFrame /\ UNCHANGED <<told, server, diskVars>>

NannyStep(n) == TakesSpec(n) \/ SpawnsServer(n) \/ Heartbeat(n) \/ ForcesServer(n)
                \/ SeesServerEnd(n) \/ NannyLeaves(n)

-----------------------------------------------------------------------------
(* Finding it again: resumePersistent, and consumeNannyExit *)

\* The state file names a nanny that is there (nannyIsAlive): take it over.
Reattaches ==
    /\ handle' = record.of /\ adopted' = TRUE /\ status' = "running"
    /\ UNCHANGED <<diskVars, reported>>

\* Slip: the exit is read and reported, the state file stays.
ReportsAwayExit_KeepsRecord ==
    /\ UNCHANGED <<record, spec, handle, adopted>>
    /\ IF record.exit
       THEN Report(record.of, "real") /\ (status' = "crashed" \/ UNCHANGED status)
       ELSE UNCHANGED <<reported, status>>

\* It names one that is gone: read, report and consume how it ended.  A clean exit is no
\* crash.  With no lastExit there is nothing to report.
ReportsAwayExit ==
    /\ record' = NoRecord /\ UNCHANGED <<spec, handle, adopted>>
    /\ IF record.exit
       THEN Report(record.of, "real") /\ (status' = "crashed" \/ UNCHANGED status)
       ELSE UNCHANGED <<reported, status>>

\* resumePersistent.  Asking after a pid that is gone waits for nothing, so the answer is
\* as fresh as the file.
Resumes ==
    IF IsAlive(record.of) THEN Reattaches
    ELSE IF record # NoRecord THEN ReportsAwayExit
    ELSE UNCHANGED <<diskVars, status, handle, adopted, reported>>

\* Slip: another's word is taken for the end of this one, and the file stays.
ConsumesExit_KeepsRecord(n) ==
    Report(n, IF record.exit THEN "real" ELSE "blind") /\ UNCHANGED record

\* consumeNannyExit where an exit is being handled: the state file's word if it has one.
ConsumesExit(n) ==
    Report(n, IF record.exit THEN "real" ELSE "blind") /\ record' = NoRecord

\* afterExit: a stop in progress is the answer; else retry, while the budget lasts.
AfterExit ==
    IF stopping THEN status' = "stopped" /\ UNCHANGED timer
    ELSE \/ status' = "backoff" /\ timer' = TRUE
         \/ status' = "crashed" /\ UNCHANGED timer

\* handleExit, at once for a child; handleAdoptedExit, at the next tick of an entry that
\* is not being stopped.
HandleExit ==
    /\ panel # "down" /\ handle # NoNanny /\ nanny[handle] = "dead"
    /\ adopted => ~stopping
    /\ ConsumesExit(handle) /\ AfterExit
    /\ handle' = NoNanny /\ adopted' = FALSE
    /\ UNCHANGED <<world, nannyVars, spec, enabled, panelVars, starting, stopping, startAt, stopVars,
                   sweepVars, aimed>>

-----------------------------------------------------------------------------
(* start() *)

\* Slip: an entry that runs is started again.
StartAccepted_Running ==
    /\ panel # "down" /\ enabled
    /\ ~starting /\ ~stopping

StartAccepted ==
    /\ panel # "down" /\ enabled
    /\ status \notin {"running", "starting"} /\ ~starting /\ ~stopping

BeginsStart ==
    /\ StartAccepted
    /\ starting' = TRUE /\ timer' = FALSE /\ startAt' = "dependencies"
    /\ UNCHANGED <<world, nannyVars, diskVars, enabled, boots, status, handle, adopted, stopping,
                   stopVars, sweepVars, reported, aimed>>

UserStart  == panel = "up" /\ BeginsStart /\ UNCHANGED panel
RetryStart == timer /\ BeginsStart /\ UNCHANGED panel

\* A retry that start() refuses is spent all the same.
RetryRefused ==
    /\ panel # "down" /\ timer /\ ~StartAccepted /\ timer' = FALSE
    /\ UNCHANGED <<world, nannyVars, diskVars, enabled, panelVars, status, handle, adopted, starting,
                   stopping, startAt, stopVars, sweepVars, reported, aimed>>

StartReturns == starting' = FALSE /\ startAt' = "idle"

\* Dependencies settled: "starting", and a nanny that still runs is taken over.
StartResumes ==
    /\ panel # "down" /\ startAt = "dependencies"
    /\ IF stopping
       THEN StartReturns /\ UNCHANGED <<diskVars, status, handle, adopted, reported>>
       ELSE IF IsAlive(record.of)
       THEN Reattaches /\ StartReturns
       ELSE /\ record' = NoRecord /\ UNCHANGED <<spec, handle, adopted>>
            /\ status' \in (IF record.exit THEN {"starting", "crashed"} ELSE {"starting"})
            /\ IF record.exit THEN Report(record.of, "real") ELSE UNCHANGED reported
            /\ startAt' = "bootstrap" /\ UNCHANGED starting
    /\ UNCHANGED <<world, nannyVars, enabled, panelVars, stopping, timer, stopVars, sweepVars, aimed>>

\* spawnNanny and attachChild; with no port the entry is running at once, unless the exit
\* just reported had set "crashed".
SpawnsNanny(n) ==
    /\ nanny[n] = "unborn"
    /\ nanny' = [nanny EXCEPT ![n] = "boot"] /\ spec' = TRUE
    /\ handle' = n /\ adopted' = FALSE
    /\ status' = IF status = "starting" THEN "running" ELSE status
    /\ UNCHANGED <<told, server, record, timer, reported>>

\* The spawn never makes a process (a missing cwd): its `error` event goes through
\* handleExit, which consumes the state file and leaves the spec.
SpawnErrors ==
    /\ spec' = TRUE /\ record' = NoRecord /\ handle' = NoNanny /\ adopted' = FALSE
    /\ AfterExit
    /\ UNCHANGED <<nannyVars, reported>>

\* spawn() itself throws, and its catch removes the spec.
FailSpawn ==
    /\ spec' = FALSE /\ status' = "crashed"
    /\ UNCHANGED <<nannyVars, record, handle, adopted, timer, reported>>

StartSpawns ==
    /\ panel # "down" /\ startAt = "bootstrap"
    /\ IF stopping
       THEN UNCHANGED <<nannyVars, diskVars, status, handle, adopted, timer, reported>>
       ELSE (\E n \in Nannies : SpawnsNanny(n)) \/ SpawnErrors \/ FailSpawn
    /\ StartReturns
    /\ UNCHANGED <<world, enabled, panelVars, stopping, stopVars, sweepVars, aimed>>

-----------------------------------------------------------------------------
(* stopEntry() *)

\* A persistent entry with no handle is looked for first.  Then the signal; what the state
\* file says of the server's pid is read at that moment.
BeginsStop ==
    LET found == IF handle # NoNanny THEN handle
                 ELSE IF IsAlive(record.of) THEN record.of ELSE NoNanny
    IN /\ timer' = FALSE
       /\ handle' = found /\ adopted' = (IF handle = NoNanny THEN found # NoNanny ELSE adopted)
       /\ IF found = NoNanny
          THEN /\ stopping' = FALSE /\ status' = "stopped"
               /\ record' = NoRecord
               /\ IF record.exit THEN Report(record.of, "real") ELSE UNCHANGED reported
               /\ UNCHANGED <<nannyVars, stopVars, aimed>>
          ELSE /\ stopping' = TRUE /\ status' = "stopping"
               /\ stopAt' = "signalled" /\ stopOf' = found
               /\ stopChild' = (IF record.server THEN record.of ELSE NoNanny)
               /\ Polite(found) /\ aimed' = [aimed EXCEPT ![found] = TRUE]
               /\ UNCHANGED <<record, reported>>
       /\ UNCHANGED spec

UserStop ==
    /\ panel = "up" /\ stopAt = "idle" /\ ~starting
    /\ BeginsStop
    /\ UNCHANGED <<world, enabled, panelVars, starting, startAt, sweepVars>>

\* terminate and terminatePid: it ended within the grace period, or SIGKILL follows.  The
\* exit of a child is handled before its stop goes on.
StopForces ==
    /\ panel # "down" /\ stopAt = "signalled" /\ IsAlive(stopOf)
    /\ Sigkill(stopOf) /\ stopAt' = "forced"
    /\ UNCHANGED <<world, diskVars, enabled, panelVars, entryVars, startAt, stopOf, stopChild, sweepVars, reported, aimed>>

\* Slip: a nanny that is gone is taken for a server that is gone.
StopEndsServer_NannyOnly ==
    /\ panel # "down" /\ stopAt \in {"signalled", "forced"}
    /\ \/ ~IsAlive(stopOf) /\ (handle = stopOf => adopted)
       \/ stopAt = "forced" /\ world.denied
    /\ stopAt' = "finish"
    /\ UNCHANGED <<world, nannyVars, diskVars, enabled, panelVars, entryVars, startAt, stopOf, stopChild,
                   sweepVars, reported, aimed>>

\* The server itself, when the signal went to the nanny alone.
StopEndsServer ==
    /\ panel # "down" /\ stopAt \in {"signalled", "forced"}
    /\ \/ ~IsAlive(stopOf) /\ (handle = stopOf => adopted)
       \/ stopAt = "forced" /\ world.denied
    /\ stopAt' = "finish"
    /\ IF world.killGroup \/ stopChild = NoNanny THEN UNCHANGED nannyVars ELSE EndServer(stopChild)
    /\ UNCHANGED <<world, diskVars, enabled, panelVars, entryVars, startAt, stopOf, stopChild, sweepVars,
                   reported, aimed>>

\* Slip: the stop waits for the nanny to be gone.
StopFinishes_Waits ==
    /\ panel # "down" /\ stopAt = "finish" /\ ~IsAlive(handle)
    /\ record' = NoRecord /\ spec' = FALSE /\ status' = "stopped"
    /\ handle' = NoNanny /\ adopted' = FALSE /\ stopping' = FALSE
    /\ stopAt' = "idle" /\ stopOf' = NoNanny /\ stopChild' = NoNanny
    /\ UNCHANGED <<world, nannyVars, enabled, panelVars, starting, timer, startAt, sweepVars, reported, aimed>>

\* Only a nanny that is gone takes its files with it; a survivor is a "conflict".
StopFinishes ==
    /\ panel # "down" /\ stopAt = "finish"
    /\ IF IsAlive(handle)
       THEN UNCHANGED diskVars /\ status' = "conflict"
       ELSE record' = NoRecord /\ spec' = FALSE /\ status' = "stopped"
    /\ handle' = NoNanny /\ adopted' = FALSE /\ stopping' = FALSE
    /\ stopAt' = "idle" /\ stopOf' = NoNanny /\ stopChild' = NoNanny
    /\ UNCHANGED <<world, nannyVars, enabled, panelVars, starting, timer, startAt, sweepVars, reported, aimed>>

-----------------------------------------------------------------------------
(* The panel goes and comes back *)

\* `down`, a restart, or SIGKILL: whatever it was doing is forgotten.
PanelGoes ==
    /\ panel # "down"
    /\ panel' = "down"
    /\ status' = "stopped" /\ handle' = NoNanny /\ adopted' = FALSE
    /\ starting' = FALSE /\ stopping' = FALSE /\ timer' = FALSE
    /\ startAt' = "idle" /\ stopAt' = "idle" /\ stopOf' = NoNanny /\ stopChild' = NoNanny
    /\ UNCHANGED <<world, nannyVars, diskVars, enabled, boots, sweepVars, reported, aimed>>

\* The config is edited by hand meanwhile.
DisabledMeanwhile ==
    /\ panel = "down" /\ enabled
    /\ enabled' = FALSE
    /\ UNCHANGED <<world, nannyVars, diskVars, panelVars, entryVars, startAt, stopVars, sweepVars, reported, aimed>>

\* A panel boots, no faster than a nanny, which is the same program, and not while `down`
\* still runs.  Leftover specs are swept first.
PanelBoots ==
    /\ panel = "down" /\ boots < MaxBoots
    /\ sweepAt = "idle" /\ \A n \in Nannies : nanny[n] \notin {"boot", "armed"}
    /\ panel' = (IF world.resumes THEN "resuming" ELSE "up") /\ boots' = boots + 1
    /\ spec' = FALSE
    /\ UNCHANGED <<world, nannyVars, record, enabled, entryVars, startAt, stopVars, sweepVars, reported, aimed>>

IsActive == handle # NoNanny \/ status = "backoff"

\* Slip: a disabled entry is passed over.
BootResumes_EnabledOnly ==
    /\ panel = "resuming" /\ panel' = "booting"
    /\ IF IsActive \/ ~enabled
       THEN UNCHANGED <<nannyVars, diskVars, handle, adopted, status, stopping, timer, stopVars, reported, aimed>>
       ELSE Resumes /\ UNCHANGED <<nannyVars, stopping, timer, stopVars, aimed>>
    /\ UNCHANGED <<world, enabled, boots, starting, startAt, sweepVars>>

\* startAll's first pass: persistent entries are reattached; a disabled one that runs is
\* adopted in order to stop it.
BootResumes ==
    /\ panel = "resuming" /\ panel' = "booting"
    /\ IF IsActive
       THEN UNCHANGED <<nannyVars, diskVars, handle, adopted, status, stopping, timer, stopVars, reported, aimed>>
       ELSE IF ~enabled /\ IsAlive(record.of) /\ stopAt = "idle"
       THEN BeginsStop
       ELSE Resumes /\ UNCHANGED <<nannyVars, stopping, timer, stopVars, aimed>>
    /\ UNCHANGED <<world, enabled, boots, starting, startAt, sweepVars>>

\* startAll's second pass, for an entry marked autostart.
BootStarts ==
    /\ panel = "booting" /\ panel' = "up"
    /\ IF world.autostart /\ StartAccepted
       THEN starting' = TRUE /\ timer' = FALSE /\ startAt' = "dependencies"
       ELSE UNCHANGED <<starting, timer, startAt>>
    /\ UNCHANGED <<world, nannyVars, diskVars, enabled, boots, status, handle, adopted, stopping,
                   stopVars, sweepVars, reported, aimed>>

-----------------------------------------------------------------------------
(* stopPersistentEntries: `down --with-persistent` once the panel is gone *)

SweepFrame == UNCHANGED <<world, enabled, panelVars, entryVars, startAt, stopVars, reported>>

\* livePersistentEntries, then the signal to the nanny.
SweepBegins ==
    /\ panel = "down" /\ sweepAt = "idle" /\ IsAlive(record.of)
    /\ Polite(record.of) /\ aimed' = [aimed EXCEPT ![record.of] = TRUE]
    /\ sweepAt' = "signalled" /\ sweepOf' = record.of
    /\ SweepFrame /\ UNCHANGED diskVars

SweepForces ==
    /\ sweepAt = "signalled" /\ IsAlive(sweepOf)
    /\ Sigkill(sweepOf) /\ sweepAt' = "forced"
    /\ SweepFrame /\ UNCHANGED <<diskVars, sweepOf, aimed>>

\* The server was orphaned if its nanny had no chance to pass the stop on.
SweepEndsServer ==
    /\ sweepAt \in {"signalled", "forced"} /\ ~IsAlive(sweepOf)
    /\ sweepAt' = "ended"
    /\ IF ~world.killGroup /\ (~world.trapped \/ sweepAt = "forced")
       THEN EndServer(sweepOf) ELSE UNCHANGED nannyVars
    /\ SweepFrame /\ UNCHANGED <<diskVars, sweepOf, aimed>>

\* A survivor keeps its record and is reported as such.
SweepGivesUp ==
    /\ sweepAt = "forced" /\ IsAlive(sweepOf) /\ world.denied
    /\ sweepAt' = "idle" /\ sweepOf' = NoNanny
    /\ SweepFrame /\ UNCHANGED <<nannyVars, diskVars, aimed>>

\* consumeRecord.
SweepConsumes ==
    /\ sweepAt = "ended"
    /\ record' = NoRecord /\ spec' = FALSE
    /\ sweepAt' = "idle" /\ sweepOf' = NoNanny
    /\ SweepFrame /\ UNCHANGED <<nannyVars, aimed>>

-----------------------------------------------------------------------------

PanelStep == HandleExit \/ RetryStart \/ RetryRefused \/ StartResumes \/ StartSpawns \/ StopForces \/ StopEndsServer
             \/ StopFinishes \/ BootResumes \/ BootStarts
SweepStep == SweepForces \/ SweepEndsServer \/ SweepGivesUp \/ SweepConsumes

Next ==
    \/ PanelStep \/ SweepStep
    \/ UserStart \/ UserStop \/ SweepBegins
    \/ PanelGoes \/ DisabledMeanwhile \/ PanelBoots
    \/ \E n \in Nannies : NannyStep(n) \/ ServerEnds(n) \/ KilledHard(n)

Spec == Init /\ [][Next]_vars

\* The panel's event loop, the sweep's, the nannies and the servers they stop all run on.
\* Whether anybody asks for anything, and whether a panel comes back, is up to the user.
Fairness ==
    /\ WF_vars(PanelStep) /\ WF_vars(SweepStep)
    /\ \A n \in Nannies : WF_vars(NannyStep(n)) /\ WF_vars(ServerEnds(n) /\ server[n] = "leaving")

FairSpec == Spec /\ Fairness

-----------------------------------------------------------------------------
(* Properties *)

\* Boot reattaches, and no nanny outlives SIGKILL.
Followed == world.resumes /\ ~world.denied

\* And none is killed alone.
Orderly == Followed /\ ~world.hard

\* And a stop reaches the whole group, so that nothing of a stop cut short is left.
Undisturbed == Orderly /\ world.killGroup

\* The point of the state file: panels come and go, starts, retries and boots ask for the
\* server, and there is never a second nanny beside the first, nor a second server.
OneServer ==
    \A m, n \in Nannies : (Followed /\ IsAlive(m) /\ IsAlive(n)) \/ (Undisturbed /\ Serves(m) /\ Serves(n))
                         => m = n

\* A panel past its boot's first pass supervises every nanny there is: none is left to be
\* taken for a stranger.
NoStranger ==
    Followed /\ panel \in {"booting", "up"} => \A n \in Nannies : IsAlive(n) => n = handle

\* A stop that answers "stopped" leaves no server behind, whatever signal it used and
\* however that was taken (not what an earlier stop, cut short with its panel, has left; nor,
\* where the signal goes to the nanny alone, a stop that came before the nanny wrote down its
\* server's pid).
StopLeavesNothing ==
    /\ Orderly /\ sweepAt = "idle"
    /\ UserStop \/ (stopAt = "finish" /\ (world.killGroup \/ stopChild # NoNanny))
    /\ panel' # "down" /\ stopAt' = "idle" /\ status' = "stopped"
    => \A n \in Nannies : n = stopOf \/ ~aimed[n] => ~Serves(n)'

\* Nor does `down --with-persistent`, whose sweep works with no panel.
SweepLeavesNothing ==
    ~world.hard /\ sweepAt = "ended" /\ sweepAt' = "idle" => server'[sweepOf] \notin {"alive", "leaving"}

\* Nor does either take the record of a nanny that no signal ends: "The record goes only once
\* the process it names is gone" (nanny-sweep.ts:146).  Where nannies are followed, nothing does.
RecordOutlives ==
    Followed \/ (startAt # "bootstrap" /\ record.of \in {handle, stopOf, sweepOf})
    => (record # NoRecord /\ record' = NoRecord => nanny'[record.of] = "dead")

\* A stop, of either kind, is what it says it is (stopEntry, stopPersistentEntries).
StopIsReal == [][StopLeavesNothing /\ SweepLeavesNothing /\ RecordOutlives]_vars

\* The end of a server that nobody asked for is recorded with its own reason before the
\* state file that tells it goes, also when no panel was there to see it, and only once ("a
\* panel that has read how the entry ended must not report it twice", supervisor.ts:2003).
\* (Once wherever every nanny is followed: one that is not can leave its exit in the file
\* just as another's is handled.)
EndIsRecorded ==
    \A n \in Nannies :
        /\ Followed => reported[n] # "twice"
        /\ Undisturbed /\ nanny[n] = "dead" /\ server[n] = "gone" /\ ~aimed[n] /\ record.of # n
           => reported[n] # "no" /\ reported[n] # "blind"

\* Every stop comes to an end, also of a nanny no signal ends.
StopsEnd == (stopAt # "idle" ~> stopAt = "idle") /\ (sweepAt # "idle" ~> sweepAt = "idle")
=============================================================================
