----------------------------- MODULE HealthBudget -----------------------------
(***************************************************************************)
(* What the supervisor does about a server that is up and cannot serve:    *)
(* the probe, the threshold, the forced restart and its budget, giving up, *)
(* the memory limit, and the announcement each forced restart owes         *)
(* (src/services/supervisor.ts: probeEntry, tick, shouldForceRestart,      *)
(* healthBudgetSpent, giveUpOnHealth, enforceMemoryLimit, settleRestart).  *)
(*                                                                         *)
(* The tick is not guarded against itself: a second one runs while the     *)
(* first waits for a probe or for a stop.  So a probe's question and its   *)
(* answer are two steps, and a restart's stop and start are too.           *)
(*                                                                         *)
(* start() and stopEntry() are Lifecycle's, cut down to the points health  *)
(* can tell apart; the entry has a port and its health check is on.        *)
(***************************************************************************)
EXTENDS Naturals

CONSTANTS
    Procs,          \* names for successive processes of the entry
    NoProc,         \* null
    Tasks,          \* how many calls may be in flight at once
    MaxRetries,     \* restart.maxRetries
    RestartEnabled, \* restart.enabled
    Threshold,      \* health.unhealthyThreshold
    Worlds,         \* the servers, limits and timings considered, see World
    MaxAsks         \* bound on the starts and restarts a user asks for

\* http: health.mode is "http", so accepting a connection proves nothing yet.
\* rss: resources.maxRssBytes > 0.  late: anything may happen while a probe is in flight.
\* sick: the server accepts connections and never passes a probe.
World == [http : BOOLEAN, rss : BOOLEAN, late : BOOLEAN, sick : BOOLEAN]

ASSUME ConstantsAssumption ==
    /\ NoProc \notin Procs
    /\ MaxRetries \in Nat /\ Threshold \in Nat \ {0} /\ MaxAsks \in Nat
    /\ RestartEnabled \in BOOLEAN /\ Worlds \subseteq World

VARIABLES
    world,          \* fixed at the start
    live,           \* processes of the entry that have not exited
    status, child, starting, stopping, restarts,
    health, failures,
    since,          \* unhealthySince # null
    probing,        \* a probe is in flight
    healthRestarts, \* forced restarts spent, bounded by restart.maxRetries
    pending,        \* pendingRestart's cause, or "none"
    byPanel,        \* stoppedByPanel
    seasoned,       \* startedAt is resetAfterMs ago
    task,           \* the calls in flight
    told,           \* the last notification sent
    asks, forced, forcedOn \* history: asked starts; forced restarts unpaid; their process

callVars   == <<status, child, starting, stopping, restarts>>
probeVars  == <<health, failures, since, probing>>
budgetVars == <<healthRestarts, pending, byPanel, seasoned, told>>
pastVars   == <<asks, forced, forcedOn>>
vars       == <<world, live, callVars, probeVars, budgetVars, task, pastVars>>

Cause == {"none", "health", "memory"}
Call  == [at : {"idle", "dependencies", "spawn", "signal", "again"},
          again : BOOLEAN, asked : BOOLEAN, owed : Cause, victim : Procs \cup {NoProc}]
Idle  == [at |-> "idle", again |-> FALSE, asked |-> FALSE, owed |-> "none", victim |-> NoProc]

TypeOK ==
    /\ world \in Worlds
    /\ live \in SUBSET Procs
    /\ status \in {"stopped", "starting", "running", "stopping", "backoff", "crashed", "conflict"}
    /\ child \in Procs \cup {NoProc}
    /\ starting \in BOOLEAN /\ stopping \in BOOLEAN /\ restarts \in 0..MaxRetries
    /\ health \in {"unknown", "healthy", "unhealthy"} /\ failures \in 0..Threshold
    /\ since \in BOOLEAN /\ probing \in BOOLEAN
    /\ healthRestarts \in 0..MaxRetries /\ pending \in Cause
    /\ byPanel \in BOOLEAN /\ seasoned \in BOOLEAN
    /\ task \in [Tasks -> Call]
    /\ told \in {"none", "unhealthy", "recovered", "forced", "rss", "restart-ok", "crash"}
    /\ asks \in 0..MaxAsks /\ forced \in 0..MaxRetries + 1 /\ forcedOn \in Procs \cup {NoProc}

-----------------------------------------------------------------------------
(* Helpers *)

Init ==
    /\ world \in Worlds
    /\ live = {} /\ status = "stopped" /\ child = NoProc
    /\ starting = FALSE /\ stopping = FALSE /\ restarts = 0
    /\ health = "unknown" /\ failures = 0 /\ since = FALSE /\ probing = FALSE
    /\ healthRestarts = 0 /\ pending = "none" /\ byPanel = FALSE /\ seasoned = FALSE
    /\ task = [t \in Tasks |-> Idle] /\ told = "none"
    /\ asks = 0 /\ forced = 0 /\ forcedOn = NoProc

\* A verdict that is not "unhealthy" ends the streak that led to one.
SetHealth(verdict) ==
    /\ health' = verdict
    /\ IF verdict = "unhealthy" THEN UNCHANGED <<failures, since>>
                                ELSE failures' = 0 /\ since' = FALSE

ResetHealth == SetHealth("unknown") /\ UNCHANGED probing

Return(t) == task' = [task EXCEPT ![t] = Idle]

\* settleRestart: an outcome that is owed is announced, once.
SettleRestart(otherwise) ==
    /\ pending' = "none"
    /\ told' = IF pending # "none" THEN "restart-ok" ELSE otherwise

-----------------------------------------------------------------------------
(* start() *)

StartAccepted == status \notin {"running", "starting"} /\ ~starting /\ ~stopping

\* Slip: every start refills the health budget, the panel's own restarts included.
BeginStart_RefillsAlways(t, retry, asked, owed) ==
    /\ StartAccepted
    /\ starting' = TRUE /\ byPanel' = FALSE
    /\ IF retry
       THEN UNCHANGED <<restarts, healthRestarts, probeVars>> /\ pending' = owed
       ELSE /\ restarts' = 0
            /\ healthRestarts' = 0
            /\ pending' = IF asked THEN "none" ELSE owed
            /\ ResetHealth
    /\ forced' = IF asked THEN 0 ELSE forced
    /\ task' = [task EXCEPT ![t] = [Idle EXCEPT !.at = "dependencies"]]
    /\ status' = status
    /\ UNCHANGED <<live, child, stopping, seasoned, told, forcedOn>>

\* start() up to its first await.  Only a start someone asked for (an actor other than
\* "policy") ends the health sequence and drops an announcement that is owed.
BeginStart(t, retry, asked, owed) ==
    /\ StartAccepted
    /\ starting' = TRUE /\ byPanel' = FALSE
    /\ IF retry
       THEN UNCHANGED <<restarts, healthRestarts, probeVars>> /\ pending' = owed
       ELSE /\ restarts' = 0
            /\ healthRestarts' = IF asked THEN 0 ELSE healthRestarts
            /\ pending' = IF asked THEN "none" ELSE owed
            /\ ResetHealth
    /\ forced' = IF asked THEN 0 ELSE forced
    /\ task' = [task EXCEPT ![t] = [Idle EXCEPT !.at = "dependencies"]]
    /\ status' = status
    /\ UNCHANGED <<live, child, stopping, seasoned, told, forcedOn>>

UserStart(t) ==
    /\ task[t] = Idle /\ asks < MaxAsks /\ asks' = asks + 1
    /\ BeginStart(t, FALSE, TRUE, pending)

\* A dependent starts this entry: nobody asked for it by name.
DependentStart(t) ==
    /\ task[t] = Idle /\ asks < MaxAsks /\ asks' = asks + 1
    /\ BeginStart(t, FALSE, FALSE, pending)

RetryFires(t) ==
    /\ task[t] = Idle /\ status = "backoff"
    /\ BeginStart(t, TRUE, FALSE, pending)
    /\ UNCHANGED asks

\* Dependencies are settled.
StartAfterDependencies(t) ==
    /\ task[t].at = "dependencies"
    /\ IF stopping
       THEN starting' = FALSE /\ Return(t) /\ UNCHANGED <<status, probeVars>>
       ELSE /\ status' = "starting" /\ ResetHealth
            /\ task' = [task EXCEPT ![t].at = "spawn"] /\ UNCHANGED starting
    /\ UNCHANGED <<live, child, stopping, restarts, budgetVars, pastVars>>

\* A name no step in flight remembers.
Fresh(p) == p \notin live \cup {child, forcedOn} /\ \A t \in Tasks : task[t].victim # p

\* Recorded child, bootstrap and preflight are behind: a new process, or a refusal.
StartSpawns(t) ==
    /\ task[t].at = "spawn"
    /\ starting' = FALSE /\ Return(t)
    /\ \/ /\ stopping
          /\ UNCHANGED <<live, child, status, probeVars, seasoned>>
       \/ /\ ~stopping
          /\ \E p \in Procs : Fresh(p) /\ child' = p /\ live' = live \cup {p}
          /\ seasoned' = FALSE /\ ResetHealth
          /\ UNCHANGED status
       \/ /\ ~stopping /\ status' \in {"conflict", "crashed"}
          /\ UNCHANGED <<live, child, probeVars, seasoned>>
    /\ UNCHANGED <<stopping, restarts, healthRestarts, pending, byPanel, told, pastVars>>

\* awaitReadiness: the port accepts, which is the probe itself in "port" mode and only
\* half of one in "http" mode; or the wait ran out and the entry counts as unhealthy.
AwaitReadiness ==
    /\ child # NoProc /\ status = "starting"
    /\ status' = "running"
    /\ \/ /\ ~world.sick \/ world.http
          /\ SetHealth(IF world.http THEN "unknown" ELSE "healthy")
          /\ IF world.http THEN UNCHANGED <<pending, told>> ELSE SettleRestart(told)
       \/ health' = "unhealthy" /\ since' = TRUE /\ UNCHANGED <<failures, pending, told>>
    /\ UNCHANGED <<live, child, starting, stopping, restarts, probing, healthRestarts,
                   byPanel, seasoned, task, pastVars>>

-----------------------------------------------------------------------------
(* stopEntry(), restart(), the exit event *)

\* stopEntry up to its first await, for a stop (again = FALSE) or the first half of a
\* restart, which remembers the outcome owed at that moment.
BeginStop(t, again, asked, owed) ==
    /\ IF child = NoProc
       THEN /\ stopping' = FALSE /\ status' = "stopped"
            /\ task' = IF again
                       THEN [task EXCEPT ![t] = [at |-> "again", again |-> TRUE, asked |-> asked,
                                                 owed |-> owed, victim |-> NoProc]]
                       ELSE task
       ELSE /\ stopping' = TRUE /\ status' = "stopping"
            /\ task' = [task EXCEPT ![t] = [at |-> "signal", again |-> again, asked |-> asked,
                                            owed |-> owed, victim |-> child]]
    /\ UNCHANGED <<live, child, starting, restarts, probeVars, seasoned>>

UserStop(t) ==
    /\ task[t] = Idle /\ BeginStop(t, FALSE, TRUE, "none")
    /\ UNCHANGED <<healthRestarts, pending, byPanel, told, pastVars>>

UserRestart(t) ==
    /\ task[t] = Idle /\ asks < MaxAsks /\ asks' = asks + 1
    /\ BeginStop(t, TRUE, TRUE, pending)
    /\ UNCHANGED <<healthRestarts, pending, byPanel, told, forced, forcedOn>>

\* The signalled process is gone: the handle, the streak and the verdict go with it.
StopEnds(t) ==
    /\ task[t].at = "signal" /\ task[t].victim \notin live
    /\ stopping' = FALSE /\ child' = NoProc /\ status' = "stopped"
    /\ ResetHealth
    /\ IF task[t].again THEN task' = [task EXCEPT ![t].at = "again"] ELSE Return(t)
    /\ UNCHANGED <<live, starting, restarts, budgetVars, pastVars>>

\* restart() puts an outcome back that was announced or dropped while it waited.
OwedAgain(t) == IF pending = "none" THEN task[t].owed ELSE pending

RestartStarts(t) ==
    /\ task[t].at = "again"
    /\ \/ BeginStart(t, FALSE, task[t].asked, OwedAgain(t))
       \/ /\ ~StartAccepted /\ Return(t) /\ pending' = OwedAgain(t)
          /\ UNCHANGED <<live, callVars, probeVars, healthRestarts, byPanel, seasoned, told,
                         forced, forcedOn>>
    /\ UNCHANGED asks

\* afterExit: the answer to a stop, a retry within the crash budget, or the end.
AfterExit ==
    LET spent == IF seasoned THEN 0 ELSE restarts IN
    IF stopping
    THEN status' = "stopped" /\ UNCHANGED <<restarts, pending, told>>
    ELSE IF RestartEnabled /\ spent < MaxRetries
         THEN restarts' = spent + 1 /\ status' = "backoff" /\ UNCHANGED <<pending, told>>
         ELSE restarts' = spent /\ status' = "crashed" /\ pending' = "none" /\ told' = "crash"

\* A process ends, and its exit event is delivered: handleExit.
HandleExit(p) ==
    /\ p \in live /\ live' = live \ {p}
    /\ IF child = p
       THEN child' = NoProc /\ ResetHealth /\ AfterExit
       ELSE UNCHANGED <<child, status, restarts, probeVars, pending, told>>
    /\ UNCHANGED <<starting, stopping, healthRestarts, byPanel, seasoned, task, pastVars>>

\* The process has been up for restart.resetAfterMs.  A sick one is never that long: see
\* SickEntryStops.
GrowsOld ==
    /\ child # NoProc /\ ~seasoned /\ ~world.sick /\ seasoned' = TRUE
    /\ UNCHANGED <<live, callVars, probeVars, healthRestarts, pending, byPanel, told, task, pastVars>>

-----------------------------------------------------------------------------
(* probeEntry *)

\* A probe is sent; nothing looks at the entry again until its answer is applied.
ProbeAsks ==
    /\ status = "running" /\ ~probing
    /\ probing' = TRUE
    /\ UNCHANGED <<live, callVars, health, failures, since, budgetVars, task, pastVars>>

\* The probe came back healthy.  The budget refills only after resetAfterMs of uptime.
ProbeHealthy ==
    /\ probing /\ ~world.sick
    /\ probing' = FALSE
    /\ SetHealth("healthy")
    /\ SettleRestart(IF health = "unhealthy" THEN "recovered" ELSE told)
    /\ IF seasoned THEN healthRestarts' = 0 /\ forced' = 0 ELSE UNCHANGED <<healthRestarts, forced>>
    /\ UNCHANGED <<live, callVars, byPanel, seasoned, task, asks, forcedOn>>

\* The probe failed; at the threshold the entry turns unhealthy, and says so once.
ProbeFails ==
    /\ probing
    /\ probing' = FALSE
    /\ failures' = IF failures < Threshold THEN failures + 1 ELSE failures
    /\ IF failures' = Threshold
       THEN health' = "unhealthy" /\ since' = TRUE
            /\ told' = IF since THEN told ELSE "unhealthy"
       ELSE UNCHANGED <<health, since, told>>
    /\ UNCHANGED <<live, callVars, healthRestarts, pending, byPanel, seasoned, task, pastVars>>

-----------------------------------------------------------------------------
(* What the tick does about it *)

\* Slip: the process is judged, not what the supervisor is already doing with it.
Unhealthy_WhileStopping == child # NoProc /\ health = "unhealthy" /\ since

Unhealthy == status = "running" /\ health = "unhealthy" /\ since

\* Slip: `<=` for `<`.
BudgetLeft_OffByOne == RestartEnabled /\ healthRestarts <= MaxRetries

BudgetLeft == RestartEnabled /\ healthRestarts < MaxRetries

\* shouldForceRestart, at any moment once forceRestartAfterMs may have passed.
ForceRestart(t) ==
    /\ task[t] = Idle /\ Unhealthy /\ BudgetLeft
    /\ healthRestarts' = healthRestarts + 1
    /\ pending' = "health" /\ told' = "forced"
    /\ BeginStop(t, TRUE, FALSE, "health")
    /\ forced' = IF forced > MaxRetries THEN forced ELSE forced + 1
    /\ forcedOn' = child
    /\ UNCHANGED <<byPanel, asks>>

\* Slip: the entry is relabelled but not stopped.
GiveUp_NoStop(t) ==
    /\ task[t] = Idle /\ Unhealthy /\ ~BudgetLeft
    /\ healthRestarts' = 0 /\ forced' = 0
    /\ pending' = "none" /\ byPanel' = TRUE /\ told' = "crash"
    /\ status' = "stopped"
    /\ UNCHANGED <<live, child, starting, stopping, restarts, probeVars, seasoned, task, asks, forcedOn>>

\* giveUpOnHealth, as soon as an entry without budget is unhealthy.
GiveUp(t) ==
    /\ task[t] = Idle /\ Unhealthy /\ ~BudgetLeft
    /\ healthRestarts' = 0 /\ forced' = 0
    /\ pending' = "none" /\ byPanel' = TRUE /\ told' = "crash"
    /\ BeginStop(t, FALSE, FALSE, "none")
    /\ UNCHANGED <<asks, forcedOn>>

\* enforceMemoryLimit: a running process is over resources.maxRssBytes.
MemoryLimit(t) ==
    /\ task[t] = Idle /\ world.rss
    /\ status = "running" /\ child # NoProc
    /\ pending' = "memory" /\ told' = "rss"
    /\ BeginStop(t, TRUE, FALSE, "memory")
    /\ forcedOn' = child
    /\ UNCHANGED <<healthRestarts, byPanel, asks, forced>>

-----------------------------------------------------------------------------

CallStep(t) == \/ StartAfterDependencies(t) \/ StartSpawns(t)
               \/ StopEnds(t) \/ RestartStarts(t)

TickStep(t) == ForceRestart(t) \/ GiveUp(t)

ProbeAnswers == UNCHANGED world /\ (ProbeHealthy \/ ProbeFails)

\* What else may happen while a probe is in flight depends on the world.
Free == UNCHANGED world /\ (world.late \/ ~probing)

Next ==
    \/ ProbeAnswers
    \/ Free /\ \E t \in Tasks : \/ UserStart(t) \/ DependentStart(t) \/ UserStop(t)
                               \/ UserRestart(t) \/ RetryFires(t) \/ CallStep(t)
                               \/ TickStep(t) \/ MemoryLimit(t)
    \/ Free /\ \E p \in Procs : HandleExit(p)
    \/ Free /\ (AwaitReadiness \/ GrowsOld \/ ProbeAsks)

Spec == Init /\ [][Next]_vars

\* A signalled process ends; Node runs every continuation; the tick keeps probing and
\* acting (strongly fair, since with few Tasks a call in flight can hold it back).
SignalledExits(p) == (\E t \in Tasks : task[t].at = "signal" /\ task[t].victim = p)
                     /\ Free /\ HandleExit(p)

FairSpec ==
    /\ Spec
    /\ \A t \in Tasks : WF_vars(Free /\ CallStep(t))
    /\ \A p \in Procs : WF_vars(SignalledExits(p))
    /\ WF_vars(Free /\ AwaitReadiness)
    /\ SF_vars(Free /\ ProbeAsks) /\ SF_vars(ProbeAnswers)
    /\ SF_vars(Free /\ \E t \in Tasks : TickStep(t))
    /\ SF_vars(Free /\ \E t \in Tasks : RetryFires(t))

-----------------------------------------------------------------------------
(* Properties *)

\* Between two starts somebody asked for, an entry that never serves resetAfterMs is
\* force-restarted at most maxRetries times, although every one of those restarts goes
\* through start() itself (shouldForceRestart, start()).
BudgetBoundsRestarts == forced <= MaxRetries

\* No two ticks force the same process down (the first has it "stopping" before it waits), and
\* "it is serving again" is only said of a process that came after the one forced down, where
\* nothing happens while a probe is in flight (shouldForceRestart, settleRestart).
ForcedOncePerProcess ==
    [][/\ healthRestarts' > healthRestarts => forcedOn # child
       /\ told # "restart-ok" /\ told' = "restart-ok" /\ ~world.late
            => child # NoProc /\ child # forcedOn]_vars

\* A server that never passes a probe, whatever starts it, is stopped in the end and not
\* restarted for ever (README: "a sick entry stops instead of looping"); one that is never up for
\* resetAfterMs, since an exit after that refills the budget of crashes (handleExit).
SickEntryStops == <>[](world.sick /\ ~world.rss => status # "running")
=============================================================================
