------------------------------ MODULE Lifecycle ------------------------------
(***************************************************************************)
(* The life of one non-persistent entry under src/services/supervisor.ts:  *)
(* start(), stopEntry(), restart(), the exit event, the retry timer, the   *)
(* tick, config edits, and the panel dying and booting again.              *)
(*                                                                         *)
(* The supervisor is one Node process, so code between two awaits is one   *)
(* action here and every await is a point where any other call, event or   *)
(* crash may come in between.  A call in flight is a task: the operation,  *)
(* the await it is parked at, and the process it is terminating.           *)
(*                                                                         *)
(* Port conflicts and dependencies (Fleet), health (HealthBudget) and      *)
(* persistent entries (Nanny) have modules of their own; here a preflight  *)
(* answers "free" or "blocked", and a forced restart may come at any time. *)
(*                                                                         *)
(* An id may leave the configuration and return.  What comes back is a new *)
(* Entry object: the calls, the processes and the retry timer of the old   *)
(* one are nobody's from then on, and go on beside it.                     *)
(***************************************************************************)
EXTENDS Naturals

CONSTANTS
    Pids,           \* the pids the kernel may hand out
    NoPid,          \* stands for null where the code holds a pid or a child
    Tasks,          \* how many calls may be in flight at once
    MaxRetries,     \* restart.maxRetries
    RestartEnabled, \* restart.enabled
    Autostart,      \* the entry's autostart flag
    HasPort,        \* the entry declares a port: readiness wait and preflight
    MarkerReadable, \* the platform can read HHOSTED_SERVER_ID off a process
    Compose,        \* the entry runs a compose stack: stopComposeStack waits on docker
    SweepHolders,   \* stop.killPortHolders
    SurvivesKill,   \* a process may outlive SIGKILL's two-second wait
    StopsOverlap    \* TRUE: a stop may arrive while another call is in flight

ASSUME ConstantsAssumption ==
    /\ NoPid \notin Pids
    /\ MaxRetries \in Nat
    /\ RestartEnabled \in BOOLEAN /\ Autostart \in BOOLEAN /\ HasPort \in BOOLEAN
    /\ MarkerReadable \in BOOLEAN /\ Compose \in BOOLEAN /\ SweepHolders \in BOOLEAN
    /\ SurvivesKill \in BOOLEAN /\ StopsOverlap \in BOOLEAN

VARIABLES
    (* the machine *)
    proc,         \* pid -> "free", "live" (ours), "zombie" (ours, unreaped), "stranger"
    kids,         \* children of this panel whose exit event was not delivered yet
    diskPid,      \* lastPid in the entry's .run.json
    diskRestarts, \* restarts in the entry's .run.json
    (* the panel and the entry's configuration *)
    panel,        \* "down", "up", or "closing" once dispose() ran
    enabled,      \* config.enabled
    removed,      \* the config no longer lists the entry
    (* the Entry object *)
    status, child, pid, adopted, lastChild, restarts,
    starting, stopping,
    timer,        \* retryTimer # null
    retryAt,      \* nextRetryAt # null
    awaiting,     \* the child awaitReadiness() is polling for, if any
    (* what Entry objects the configuration dropped have left behind *)
    left,         \* their processes
    leftTimer,    \* a retry timer of one of them, which names the id it was set for
    (* the calls in flight *)
    task

machineVars == <<proc, kids>>
diskVars    == <<diskPid, diskRestarts>>
configVars  == <<panel, enabled, removed>>
handleVars  == <<child, pid, adopted>>
retryVars   == <<timer, retryAt>>
entryVars   == <<status, handleVars, lastChild, restarts, starting, stopping,
                 retryVars, awaiting>>
leftVars    == <<left, leftTimer>>
vars        == <<machineVars, diskVars, configVars, entryVars, leftVars, task>>

Status == {"stopped", "starting", "running", "stopping", "backoff", "crashed", "conflict"}
StartSteps == {"dependencies", "recorded", "bootstrap", "preflight"}
StopSteps  == {"signal", "sweep", "compose", "composeOnly", "again"}
StopOps    == {"stop", "restart", "dispose"}
GoneOps    == {"goneStart", "goneStop", "goneRestart"}  \* a call on an Entry that was dropped

Call == [op : {"none", "start"} \cup StopOps \cup GoneOps,
         at : {"none", "gone"} \cup StartSteps \cup StopSteps,
         victim : Pids \cup {NoPid}]
Idle == [op |-> "none", at |-> "none", victim |-> NoPid]

DataOK ==
    /\ proc \in [Pids -> {"free", "live", "zombie", "stranger"}]
    /\ kids \in SUBSET Pids
    /\ diskPid \in Pids \cup {NoPid} /\ diskRestarts \in 0..MaxRetries
    /\ panel \in {"down", "up", "closing"}
    /\ status \in Status
    /\ child \in Pids \cup {NoPid} /\ pid \in Pids \cup {NoPid}
    /\ lastChild \in Pids \cup {NoPid} /\ restarts \in 0..MaxRetries
    /\ awaiting \in Pids \cup {NoPid}
    /\ left \in SUBSET Pids
    /\ task \in [Tasks -> Call]

FlagsOK ==
    /\ enabled \in BOOLEAN /\ removed \in BOOLEAN /\ adopted \in BOOLEAN
    /\ starting \in BOOLEAN /\ stopping \in BOOLEAN
    /\ timer \in BOOLEAN /\ retryAt \in BOOLEAN /\ leftTimer \in BOOLEAN

TypeOK == DataOK /\ FlagsOK

-----------------------------------------------------------------------------
(* Helpers *)

Live == {p \in Pids : proc[p] = "live"}

\* The processes of the Entry the configuration lists now.
Ours == Live \ left

\* isProcessAlive: signal 0 reaches a zombie and a stranger too.
IsProcessAlive(p) == p # NoPid /\ proc[p] # "free"

\* A pid the supervisor is watching or signalling right now.  Its reuse within the
\* one second a tick takes to notice a death is left out of the model.
Held(p) == p = pid \/ p = child \/ \E t \in Tasks : task[t].victim = p

MayBegin(t) == task[t] = Idle

\* Calls overlap freely, except that without StopsOverlap no stop meets one in flight.
StopMayBegin(t) ==
    MayBegin(t) /\ (StopsOverlap \/ \A u \in Tasks : task[u].op \in {"none"} \cup GoneOps)

Goto(t, step) == task' = [task EXCEPT ![t].at = step]
Return(t)     == task' = [task EXCEPT ![t] = Idle]

\* persistEntryState: the whole record.  An Entry that was dropped writes nothing.
PersistEntryState == diskPid' = lastChild' /\ diskRestarts' = restarts'

IsActive == child # NoPid \/ pid # NoPid \/ adopted \/ status = "backoff"

Init ==
    /\ proc = [p \in Pids |-> "free"] /\ kids = {}
    /\ diskPid = NoPid /\ diskRestarts = 0
    /\ panel = "up" /\ enabled = TRUE /\ removed = FALSE
    /\ status = "stopped" /\ child = NoPid /\ pid = NoPid /\ adopted = FALSE
    /\ lastChild = NoPid /\ restarts = 0 /\ starting = FALSE /\ stopping = FALSE
    /\ timer = FALSE /\ retryAt = FALSE /\ awaiting = NoPid
    /\ left = {} /\ leftTimer = FALSE
    /\ task = [t \in Tasks |-> Idle]

\* The Entry object goes, whatever it was doing.
DropEntry ==
    /\ status' = "stopped" /\ child' = NoPid /\ pid' = NoPid /\ adopted' = FALSE
    /\ lastChild' = NoPid /\ restarts' = 0 /\ starting' = FALSE /\ stopping' = FALSE
    /\ timer' = FALSE /\ retryAt' = FALSE /\ awaiting' = NoPid

\* Slip: `<=` for `<`, one retry over the budget.
AfterExit_OffByOne ==
    IF stopping
    THEN status' = "stopped" /\ UNCHANGED <<restarts, retryVars>>
    ELSE \E spent \in {restarts, 0} :
           IF RestartEnabled /\ spent <= MaxRetries
           THEN /\ restarts' = spent + 1 /\ status' = "backoff"
                /\ timer' = TRUE /\ retryAt' = TRUE
           ELSE /\ restarts' = spent /\ status' = "crashed"
                /\ retryAt' = FALSE /\ UNCHANGED timer

\* afterExit: a stop in progress is the answer, otherwise retry within the budget or
\* give up.  Running for resetAfterMs refills the budget first.
AfterExit ==
    IF stopping
    THEN status' = "stopped" /\ UNCHANGED <<restarts, retryVars>>
    ELSE \E spent \in {restarts, 0} :
           IF RestartEnabled /\ spent < MaxRetries
           THEN /\ restarts' = spent + 1 /\ status' = "backoff"
                /\ timer' = TRUE /\ retryAt' = TRUE
           ELSE /\ restarts' = spent /\ status' = "crashed"
                /\ retryAt' = FALSE /\ UNCHANGED timer

-----------------------------------------------------------------------------
(* start() *)

\* Slip: the check for a start already in flight is lost.
StartAccepted_TwiceOver ==
    /\ panel # "down" /\ ~removed /\ enabled
    /\ status \notin {"running", "starting"} /\ ~stopping

\* The early returns of start(): the call is refused, or has nothing to do.
StartAccepted ==
    /\ panel # "down" /\ ~removed /\ enabled
    /\ status \notin {"running", "starting"} /\ ~starting /\ ~stopping

\* start() up to its first await, the one inside startDependencies().
BeginStart(t, retry) ==
    /\ StartAccepted
    /\ starting' = TRUE
    /\ timer' = FALSE
    /\ UNCHANGED lastChild
    /\ IF retry THEN UNCHANGED <<restarts, diskVars>>
                ELSE restarts' = 0 /\ PersistEntryState
    /\ task' = [task EXCEPT ![t] = [op |-> "start", at |-> "dependencies", victim |-> NoPid]]
    /\ UNCHANGED <<machineVars, configVars, status, handleVars, stopping, retryAt, awaiting>>

\* A start over the API, the CLI or from a dependent.
UserStart(t) == MayBegin(t) /\ BeginStart(t, FALSE) /\ UNCHANGED leftVars

\* start() gives up: `finally { entry.starting = false }`.
StartReturns(t) == starting' = FALSE /\ Return(t)

\* Dependencies are settled: a stop or dispose seen here wins, else "starting".
StartAfterDependencies(t) ==
    /\ task[t].op = "start" /\ task[t].at = "dependencies"
    /\ IF stopping \/ panel = "closing"
       THEN StartReturns(t) /\ UNCHANGED status
       ELSE status' = "starting" /\ Goto(t, "recorded") /\ UNCHANGED starting
    /\ UNCHANGED <<leftVars, machineVars, diskVars, configVars, handleVars, lastChild, restarts,
                   stopping, retryVars, awaiting>>

\* adoptEntry: take over a process this panel did not spawn.
AdoptEntry(p) ==
    /\ adopted' = TRUE /\ pid' = p /\ child' = NoPid /\ status' = "running"

\* Slip: liveness alone is the witness, whoever the pid belongs to by now.
StartAfterRecordedChild_NoBirth(t) ==
    /\ task[t].op = "start" /\ task[t].at = "recorded"
    /\ \/ /\ ~IsProcessAlive(lastChild)
          /\ lastChild' = NoPid
          /\ UNCHANGED restarts
          /\ PersistEntryState
          /\ Goto(t, "bootstrap")
          /\ UNCHANGED <<status, handleVars, starting>>
       \/ /\ IsProcessAlive(lastChild)
          /\ AdoptEntry(lastChild)
          /\ StartReturns(t)
          /\ UNCHANGED <<lastChild, restarts, diskVars>>
    /\ UNCHANGED <<leftVars, machineVars, configVars, stopping, retryVars, awaiting>>

\* resolveRecordedChild answers: nothing recorded or not that process any more, the
\* recorded child itself, or a live process this platform cannot place.
StartAfterRecordedChild(t) ==
    /\ task[t].op = "start" /\ task[t].at = "recorded"
    /\ \/ /\ lastChild \notin Ours
          /\ lastChild' = NoPid
          /\ UNCHANGED restarts
          /\ PersistEntryState
          /\ Goto(t, "bootstrap")
          /\ UNCHANGED <<status, handleVars, starting>>
       \/ /\ lastChild \in Ours /\ MarkerReadable
          /\ AdoptEntry(lastChild)
          /\ StartReturns(t)
          /\ UNCHANGED <<lastChild, restarts, diskVars>>
       \/ /\ lastChild \in Ours /\ ~MarkerReadable
          /\ IF HasPort THEN Goto(t, "bootstrap") /\ UNCHANGED <<status, starting>>
                        ELSE status' = "conflict" /\ StartReturns(t)
          /\ UNCHANGED <<handleVars, lastChild, restarts, diskVars>>
    /\ UNCHANGED <<leftVars, machineVars, configVars, stopping, retryVars, awaiting>>

\* runBootstrap finished (at once when there is none), and the two checks after it.
StartAfterBootstrap(t) ==
    /\ task[t].op = "start" /\ task[t].at = "bootstrap"
    /\ IF stopping \/ panel = "closing"
       THEN StartReturns(t)
       ELSE Goto(t, "preflight") /\ UNCHANGED starting
    /\ UNCHANGED <<leftVars, machineVars, diskVars, configVars, status, handleVars, lastChild,
                   restarts, stopping, retryVars, awaiting>>

\* Slip: the child is remembered but its record is not written.
Spawn_NotPersisted(p) ==
    /\ proc[p] = "free" /\ ~Held(p)
    /\ proc' = [proc EXCEPT ![p] = "live"]
    /\ kids' = kids \cup {p}
    /\ child' = p /\ pid' = p /\ lastChild' = p
    /\ UNCHANGED <<adopted, restarts, diskVars>>
    /\ awaiting' = IF HasPort THEN p ELSE NoPid
    /\ status' = IF ~HasPort /\ status = "starting" THEN "running" ELSE status

\* spawnDirect and attachChild: the child, its durable record, and readiness, which a
\* portless entry reaches on the spot when its status still says "starting".
Spawn(p) ==
    /\ proc[p] = "free" /\ ~Held(p)
    /\ proc' = [proc EXCEPT ![p] = "live"]
    /\ kids' = kids \cup {p}
    /\ child' = p /\ pid' = p /\ lastChild' = p
    /\ UNCHANGED <<adopted, restarts>>
    /\ PersistEntryState
    /\ awaiting' = IF HasPort THEN p ELSE NoPid
    /\ status' = IF ~HasPort /\ status = "starting" THEN "running" ELSE status

\* The preflight answered "blocked": the port is held by somebody else.
RefusePort ==
    /\ HasPort /\ status' = "conflict"
    /\ UNCHANGED <<machineVars, diskVars, handleVars, lastChild, restarts, retryVars, awaiting>>

\* failSpawn: spawn() threw.
FailSpawn ==
    /\ status' = "crashed"
    /\ UNCHANGED <<machineVars, diskVars, handleVars, lastChild, restarts, retryVars, awaiting>>

\* The child never got a pid: its "error" event goes through handleExit like an exit.
SpawnErrors ==
    /\ child' = NoPid /\ pid' = NoPid /\ adopted' = FALSE /\ UNCHANGED lastChild
    /\ AfterExit
    /\ PersistEntryState
    /\ UNCHANGED <<machineVars, awaiting>>

StartAfterPreflight(t) ==
    /\ task[t].op = "start" /\ task[t].at = "preflight"
    /\ \/ (\E p \in Pids : Spawn(p)) /\ UNCHANGED retryVars
       \/ RefusePort
       \/ FailSpawn
       \/ SpawnErrors
    /\ StartReturns(t)
    /\ UNCHANGED <<leftVars, configVars, stopping>>

\* awaitReadiness: the port accepted, or the wait ran out and it is watched anyway;
\* a poll that finds another child or another status gives up.
AwaitReadiness ==
    /\ awaiting # NoPid
    /\ awaiting' = NoPid
    /\ status' = IF child = awaiting /\ status = "starting" /\ panel # "closing"
                 THEN "running" ELSE status
    /\ UNCHANGED <<leftVars, machineVars, diskVars, configVars, handleVars, lastChild, restarts,
                   starting, stopping, retryVars, task>>

-----------------------------------------------------------------------------
(* stopEntry(), restart(), dispose() *)

\* stopEntry up to its first await.  With no handle there is nothing to signal: the
\* `stopping` flag set above is dropped in the same breath, and only docker is awaited.
BeginStop(t, op) ==
    /\ timer' = FALSE /\ retryAt' = FALSE
    /\ IF child = NoPid /\ pid = NoPid
       THEN /\ stopping' = FALSE
            /\ status' = IF Compose THEN status ELSE "stopped"
            /\ task' = [task EXCEPT ![t] =
                 IF Compose \/ op = "restart"
                 THEN [op |-> op, at |-> IF Compose THEN "composeOnly" ELSE "again", victim |-> NoPid]
                 ELSE Idle]
       ELSE /\ stopping' = TRUE
            /\ status' = "stopping"
            /\ task' = [task EXCEPT ![t] =
                 [op |-> op, at |-> "signal", victim |-> IF child # NoPid THEN child ELSE pid]]
    /\ UNCHANGED <<machineVars, handleVars, lastChild, restarts, starting, awaiting>>

UserStop(t) ==
    /\ StopMayBegin(t) /\ panel # "down" /\ ~removed
    /\ BeginStop(t, "stop")
    /\ UNCHANGED <<leftVars, diskVars, configVars>>

\* A restart over the API, or the tick forcing one on a running entry.
Restart(t) ==
    /\ StopMayBegin(t) /\ panel # "down" /\ ~removed
    /\ BeginStop(t, "restart")
    /\ UNCHANGED <<leftVars, diskVars, configVars>>

\* The stop half of the call is over: restart() goes on to start().
StopReturns(t) ==
    IF task[t].op = "restart" THEN task' = [task EXCEPT ![t].at = "again", ![t].victim = NoPid]
                              ELSE Return(t)

\* The end of stopEntry: readings dropped, a recorded child that is gone forgotten.
\* A container docker could not stop turns the answer into a conflict.
StopTail ==
    /\ pid' = NoPid /\ adopted' = FALSE
    /\ lastChild' = IF IsProcessAlive(lastChild) THEN lastChild ELSE NoPid
    /\ UNCHANGED restarts
    /\ PersistEntryState
    /\ \/ status' = "stopped"
       \/ Compose /\ status' = "conflict"

\* Slip: `stopping` is not reset once the handle is let go.
ReleaseHandle_KeepsFlag(t) ==
    /\ UNCHANGED stopping /\ child' = NoPid
    /\ IF Compose
       THEN Goto(t, "compose") /\ UNCHANGED <<pid, adopted, lastChild, restarts, diskVars, status>>
       ELSE StopTail /\ StopReturns(t)

\* After the signal (and the sweep): `stopping` and the child handle are let go before
\* docker is asked about the stack.
ReleaseHandle(t) ==
    /\ stopping' = FALSE /\ child' = NoPid
    /\ IF Compose
       THEN Goto(t, "compose") /\ UNCHANGED <<pid, adopted, lastChild, restarts, diskVars, status>>
       ELSE StopTail /\ StopReturns(t)

\* Slip: the signal is sent but its effect is not waited for.
Terminated_NotAwaited(p) == TRUE

\* terminate()/terminatePid() resolved: the exit was delivered, the adopted pid is
\* gone, or it outlived SIGKILL.
Terminated(p) == \/ p \notin kids /\ ~(proc[p] = "live")
                 \/ SurvivesKill

StopAfterSignal(t) ==
    /\ task[t].at = "signal"
    /\ Terminated(task[t].victim)
    /\ IF SweepHolders
       THEN Goto(t, "sweep") /\ UNCHANGED <<diskVars, status, handleVars, lastChild, restarts, stopping>>
       ELSE ReleaseHandle(t)
    /\ UNCHANGED <<leftVars, machineVars, configVars, starting, retryVars, awaiting>>

\* killPortHolders() resolved; it never touches a supervised process.
StopAfterSweep(t) ==
    /\ task[t].at = "sweep"
    /\ ReleaseHandle(t)
    /\ UNCHANGED <<leftVars, machineVars, configVars, starting, retryVars, awaiting>>

StopAfterCompose(t) ==
    /\ task[t].at = "compose"
    /\ StopTail
    /\ StopReturns(t)
    /\ UNCHANGED <<leftVars, machineVars, configVars, child, starting, stopping,
                   retryVars, awaiting>>

\* The same wait with no handle to begin with.
StopAfterComposeOnly(t) ==
    /\ task[t].at = "composeOnly"
    /\ stopping' = FALSE
    /\ status' \in {"stopped", "conflict"}
    /\ StopReturns(t)
    /\ UNCHANGED <<leftVars, machineVars, diskVars, configVars, handleVars, lastChild, restarts,
                   starting, retryVars, awaiting>>

\* restart(): the start half, refused like any other start.
RestartStarts(t) ==
    /\ task[t].at = "again"
    /\ \/ BeginStart(t, FALSE)
       \/ ~StartAccepted /\ Return(t)
          /\ UNCHANGED <<machineVars, diskVars, configVars, entryVars>>
    /\ UNCHANGED leftVars

\* dispose(): no more ticks or retries, then every non-persistent entry is stopped.
Dispose(t) ==
    /\ MayBegin(t) /\ panel = "up"
    /\ panel' = "closing"
    /\ IF removed THEN UNCHANGED <<machineVars, entryVars, task>>
                  ELSE BeginStop(t, "dispose")
    /\ UNCHANGED <<leftVars, diskVars, enabled, removed>>

-----------------------------------------------------------------------------
(* A process ends *)

\* forgetRecordedChild and endProcessReadings, then afterExit.
ProcessGone(p) ==
    /\ pid' = NoPid /\ adopted' = FALSE
    /\ lastChild' = IF lastChild = p THEN NoPid ELSE lastChild
    /\ AfterExit
    /\ PersistEntryState

\* The process of a dropped Entry, unless a stop of it is in progress, is retried too: the
\* Entry still listens to its child.
LeftRetries(p) ==
    RestartEnabled /\ p \in left /\ ~\E t \in Tasks : task[t].at = "gone" /\ task[t].victim = p

\* handleExit: the exit event of one child, ignored when the entry let go of it.
HandleExit(p) ==
    /\ panel # "down" /\ p \in kids /\ proc[p] = "zombie"
    /\ kids' = kids \ {p}
    /\ proc' = [proc EXCEPT ![p] = "free"]
    /\ left' = left \ {p}
    /\ IF child = p
       THEN child' = NoPid /\ ProcessGone(p) /\ UNCHANGED <<starting, stopping, awaiting>>
       ELSE UNCHANGED <<diskVars, entryVars>>
    /\ leftTimer' \in {leftTimer, LeftRetries(p) \/ leftTimer}
    /\ UNCHANGED <<configVars, task>>

\* The tick finds an adopted pid dead: handleAdoptedExit.
TickAdoptedExit ==
    /\ panel # "down" /\ ~removed
    /\ adopted /\ pid # NoPid /\ ~IsProcessAlive(pid)
    /\ ProcessGone(pid)
    /\ UNCHANGED <<leftVars, machineVars, configVars, child, starting, stopping, awaiting, task>>

\* The retry timer, or the tick standing in for a timer that is gone.
RetryFires(t) ==
    /\ MayBegin(t) /\ panel # "down"
    /\ \/ timer
       \/ ~removed /\ status = "backoff" /\ retryAt
    /\ \/ BeginStart(t, TRUE)
       \/ /\ ~StartAccepted /\ timer /\ timer' = FALSE
          /\ UNCHANGED <<machineVars, diskVars, configVars, status, handleVars, lastChild,
                         restarts, starting, stopping, retryAt, awaiting, task>>
    /\ UNCHANGED leftVars

\* The timer of a dropped Entry calls start() with the id, which is whatever Entry now has it.
LeftRetryFires(t) ==
    /\ MayBegin(t) /\ panel # "down"
    /\ leftTimer /\ leftTimer' = FALSE
    /\ \/ BeginStart(t, TRUE)
       \/ ~StartAccepted /\ UNCHANGED <<machineVars, diskVars, configVars, entryVars, task>>
    /\ UNCHANGED left

-----------------------------------------------------------------------------
(* sync(): the configuration changed under the supervisor *)

Disable(t) ==
    /\ StopMayBegin(t) /\ panel = "up" /\ ~removed /\ enabled
    /\ enabled' = FALSE
    /\ IF IsActive THEN BeginStop(t, "stop")
                   ELSE UNCHANGED <<machineVars, entryVars, task>>
    /\ UNCHANGED <<leftVars, diskVars, panel, removed>>

Enable ==
    /\ panel = "up" /\ ~removed /\ ~enabled
    /\ enabled' = TRUE
    /\ UNCHANGED <<leftVars, machineVars, diskVars, panel, removed, entryVars, task>>

\* A call in flight on an Entry that is dropped; its awaits no longer tell anything apart.
LeftBehind(c) ==
    CASE c.op = "start"   -> [op |-> "goneStart",   at |-> "gone", victim |-> NoPid]
      [] c.op = "stop"    -> [op |-> "goneStop",    at |-> "gone", victim |-> c.victim]
      [] c.op = "restart" -> [op |-> "goneRestart", at |-> "gone", victim |-> c.victim]
      [] OTHER            -> c

\* The entry is dropped, its state file reclaimed, and what it ran stopped, in a call nobody
\* waits for.  The Entry takes its processes and its calls with it.
Remove(t) ==
    /\ StopMayBegin(t) /\ panel = "up" /\ ~removed
    /\ removed' = TRUE
    /\ diskPid' = NoPid /\ diskRestarts' = 0
    /\ left' = left \cup Live
    /\ task' = [u \in Tasks |->
         IF u = t /\ (child # NoPid \/ pid # NoPid)
         THEN [op |-> "goneStop", at |-> "gone", victim |-> IF child # NoPid THEN child ELSE pid]
         ELSE LeftBehind(task[u])]
    /\ DropEntry
    /\ UNCHANGED <<machineVars, panel, enabled, leftTimer>>

\* The id is listed again: createEntry makes a new Entry from the state file, whether or not
\* the old one has come to an end.
ListedAgain ==
    /\ panel = "up" /\ removed
    /\ removed' = FALSE /\ enabled' \in BOOLEAN
    /\ lastChild' = diskPid /\ restarts' = diskRestarts
    /\ UNCHANGED <<machineVars, diskVars, panel, status, handleVars, starting, stopping,
                   retryVars, awaiting, leftVars, task>>

\* A start of a dropped Entry: it gives up, spawns a process nobody has in hand, or fails to
\* and has its retry timer set.
GoneStart(t) ==
    /\ task[t].op = "goneStart"
    /\ \/ UNCHANGED <<machineVars, leftVars>>
       \/ \E p \in Pids : /\ proc[p] = "free" /\ ~Held(p)
                          /\ proc' = [proc EXCEPT ![p] = "live"]
                          /\ kids' = kids \cup {p} /\ left' = left \cup {p}
                          /\ UNCHANGED leftTimer
       \/ RestartEnabled /\ leftTimer' = TRUE /\ UNCHANGED <<machineVars, left>>
    /\ Return(t)
    /\ UNCHANGED <<diskVars, configVars, entryVars>>

\* A stop of a dropped Entry resolves; a restart then starts whatever Entry has the id now.
GoneStop(t) ==
    /\ task[t].op \in {"goneStop", "goneRestart"}
    /\ task[t].victim # NoPid => Terminated(task[t].victim)
    /\ \/ task[t].op = "goneRestart" /\ BeginStart(t, FALSE)
       \/ /\ task[t].op = "goneStop" \/ ~StartAccepted
          /\ Return(t)
          /\ UNCHANGED <<machineVars, diskVars, configVars, entryVars>>
    /\ UNCHANGED leftVars

-----------------------------------------------------------------------------
(* The machine and the panel process *)

\* Any process of ours may end at any time; only a child of this panel leaves an exit
\* event behind, anyone else's is reaped by init.
ProcessExits(p) ==
    /\ proc[p] = "live"
    /\ proc' = [proc EXCEPT ![p] = IF p \in kids THEN "zombie" ELSE "free"]
    /\ left' = IF p \in kids THEN left ELSE left \ {p}
    /\ UNCHANGED <<kids, diskVars, configVars, entryVars, leftTimer, task>>

\* The kernel gives a free pid to somebody else, and takes it back.
PidRecycled(p) ==
    /\ ~Held(p)
    /\ \/ proc[p] = "free" /\ proc' = [proc EXCEPT ![p] = "stranger"]
       \/ proc[p] = "stranger" /\ proc' = [proc EXCEPT ![p] = "free"]
    /\ UNCHANGED <<leftVars, kids, diskVars, configVars, entryVars, task>>

\* Everything in the panel's memory is gone; detached children live on, and the
\* zombies it left are reaped.
PanelGone ==
    /\ panel' = "down"
    /\ proc' = [p \in Pids |-> IF proc[p] = "zombie" THEN "free" ELSE proc[p]]
    /\ kids' = {}
    /\ task' = [t \in Tasks |-> Idle]
    /\ left' = left \cap Live /\ leftTimer' = FALSE
    /\ DropEntry
    /\ UNCHANGED <<diskVars, enabled, removed>>

PanelKilled == panel # "down" /\ PanelGone

\* shutdown() runs to process.exit once dispose() has resolved.
PanelExits ==
    /\ panel = "closing"
    /\ \A t \in Tasks : task[t].op # "dispose"
    /\ PanelGone

\* A new panel: createEntry reads the state file, startAll starts what is autostart.
Boot(t) ==
    /\ panel = "down"
    /\ panel' = "up"
    /\ lastChild' = diskPid
    /\ IF Autostart /\ enabled /\ ~removed
       THEN /\ starting' = TRUE /\ restarts' = 0
            /\ diskRestarts' = 0 /\ UNCHANGED diskPid
            /\ task' = [task EXCEPT ![t] = [op |-> "start", at |-> "dependencies", victim |-> NoPid]]
       ELSE /\ restarts' = diskRestarts
            /\ UNCHANGED <<starting, diskVars, task>>
    /\ UNCHANGED <<leftVars, machineVars, enabled, removed, status, handleVars, stopping,
                   retryVars, awaiting>>

-----------------------------------------------------------------------------

StartStep(t) == \/ StartAfterDependencies(t) \/ StartAfterRecordedChild(t)
                \/ StartAfterBootstrap(t) \/ StartAfterPreflight(t)

StopStep(t) == \/ StopAfterSignal(t) \/ StopAfterSweep(t) \/ StopAfterCompose(t)
               \/ StopAfterComposeOnly(t) \/ RestartStarts(t)

GoneStep(t) == GoneStart(t) \/ GoneStop(t)

Next ==
    \/ \E t \in Tasks : UserStart(t) \/ UserStop(t) \/ Restart(t) \/ RetryFires(t)
                        \/ Disable(t) \/ Remove(t) \/ Dispose(t) \/ Boot(t)
                        \/ StartStep(t) \/ StopStep(t) \/ GoneStep(t) \/ LeftRetryFires(t)
    \/ \E p \in Pids : HandleExit(p) \/ ProcessExits(p) \/ PidRecycled(p)
    \/ AwaitReadiness \/ TickAdoptedExit \/ Enable \/ ListedAgain \/ PanelExits \/ PanelKilled

Spec == Init /\ [][Next]_vars

\* A process that was sent a stop signal ends, by itself or by SIGKILL.
SignalledExits(p) == (\E t \in Tasks : task[t].at \in {"signal", "gone"} /\ task[t].victim = p)
                     /\ ProcessExits(p)

\* Node runs every continuation, event and due timer; the user, the kernel's reuse of a
\* pid and a crash promise nothing.  A retry is strongly fair because only the model, with
\* its few Tasks, can hold it back.
FairSpec ==
    /\ Spec
    /\ \A t \in Tasks : WF_vars(StartStep(t)) /\ WF_vars(StopStep(t)) /\ WF_vars(GoneStep(t))
    /\ \A p \in Pids : WF_vars(HandleExit(p)) /\ WF_vars(SignalledExits(p))
    /\ WF_vars(AwaitReadiness) /\ WF_vars(PanelExits)
    /\ SF_vars(\E t \in Tasks : RetryFires(t))

-----------------------------------------------------------------------------
(* Properties *)

\* No twin: whatever the calls, exits and panel crashes in between, the Entry the configuration
\* lists never has two processes running (resolveRecordedChild, attachChild, start()'s `starting`
\* flag).  What an Entry that was dropped left running is not among them: an id listed again may
\* run beside it, for sync() clears the record and does not wait for the stop.
AtMostOneLive == \A p, q \in Ours : p = q

\* A process of a configured entry is always the one its state file names, so a panel
\* that boots after a crash can find it (attachChild, forgetRecordedChild, stopEntry).
LiveIsRecorded == Ours \subseteq {diskPid}

\* The supervisor never takes over, and so never signals, a process that is not the
\* entry's: a recycled pid is told apart from the recorded child (resolveRecordedChild).
NoStrangerSupervised == adopted /\ pid # NoPid => proc[pid] # "stranger"

\* One start in flight per entry, and exactly while `starting` is set: the flag that
\* keeps a click and a retry timer from both reaching the spawn (start()).
OneStartInFlight ==
    /\ starting <=> \E t \in Tasks : task[t].op = "start"
    /\ \A t, u \in Tasks : task[t].op = "start" /\ task[u].op = "start" => t = u

\* With every call answered, an entry shown as stopped has no process of this panel left
\* running, nor a retry pending that would start it again behind the user's back (stopEntry,
\* clearRetry, sync's disable).  What a dropped Entry of the same id left is TransientEnds'.
HonestStop ==
    (panel = "up" /\ status = "stopped" /\ \A t \in Tasks : task[t] = Idle)
        => kids \cap Ours = {} /\ ~timer

\* Nothing stays in between for ever: a stop and a start come to an end, a backed-off entry
\* is retried, and a child of an entry the configuration dropped is brought to its end.
TransientEnds ==
    /\ stopping ~> ~stopping
    /\ starting ~> ~starting
    /\ status = "backoff" /\ enabled /\ ~removed ~> status # "backoff" \/ ~enabled \/ removed
    /\ \A p \in Pids : p \in left \cap kids ~> p \notin left \cap kids

\* The whole life of a configured entry is one of EntryHandle's: processes are launched one
\* at a time and put on record as they are, and no record is dropped while its process runs,
\* except by the edit that drops the entry and leaves its process to nobody.
Handle == INSTANCE EntryHandle WITH live <- Ours, record <- diskPid, owned <- ~removed

HandleSpec == Handle!Spec
=============================================================================
