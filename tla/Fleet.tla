-------------------------------- MODULE Fleet --------------------------------
(***************************************************************************)
(* The servers of one workspace together: a start brings its dependencies  *)
(* up first and then settles who holds the port, boot starts them all and  *)
(* `stop all` stops them in reverse (src/services/supervisor.ts:           *)
(* startAll, stopAll, startDependencies, preflight, stopPortHolders,       *)
(* freePort, portHolders, supervisedPids).                                 *)
(*                                                                         *)
(* One port is contested: entries configured with it, a stranger, a        *)
(* detached successor of an entry, or docker may hold it.  Who supervises  *)
(* what is read first and who listens is asked after, in another step.     *)
(* The single entry's own machinery is Lifecycle's.                        *)
(***************************************************************************)
EXTENDS Dependencies, FiniteSets

CONSTANTS
    Entries, Procs, NoProc,
    Docker,      \* the holder when docker-proxy publishes the port: no pid to be listed
    Hidden,      \* the holder when nobody can be listed
    Worlds,      \* the configurations and machines considered, see World
    MaxCalls     \* bound on the starts, stops and frees a user asks for

Policy == {"block", "warn", "kill", "follow", "reclaim"}

\* The entries configured, those of them disabled, dependsOn, and which of them want the
\* contested port under which policy; whose processes an entry cannot tell from its own, by
\* their command line or by the id another workspace has too; what holds the port at first and
\* whose process that is; quick: listing the holders takes no time.
World == [present : SUBSET Entries, disabled : SUBSET Entries, dependsOn : [Entries -> Seq(Entries)],
          wants : SUBSET Entries, policy : [Entries -> Policy],
          alike : [Entries -> SUBSET (Entries \cup {"stranger"})],
          holder : Procs \cup {NoProc, Docker, Hidden},
          holderOf : Entries \cup {"stranger"}, quick : BOOLEAN]

ASSUME ConstantsAssumption ==
    /\ IsFiniteSet(Entries)
    /\ {"stranger", "dead"} \cap Entries = {}
    /\ {NoProc, Docker, Hidden} \cap Procs = {} /\ Docker # NoProc /\ Hidden \notin {NoProc, Docker}
    /\ MaxCalls \in Nat /\ Worlds \subseteq World

VARIABLES
    world,       \* fixed at the start
    owner,       \* per process: the entry it was started as, "stranger" or "dead"
    holder,      \* who listens on the contested port
    status, handle, starting, healthy,
    at, todo,    \* where a start is, and the dependencies it has still to see to
    pids,        \* what a start that met a busy port has read: the supervised pids, then its targets
    free,        \* the freePort call: where it is, for which entry, what it read
    job, left,   \* startAll or stopAll, and the entries it has still to do
    cleared,     \* processes that were signalled to free the port
    calls, gaveUp, seenUp \* history: calls made; per start, waits that ran out, servers seen up

entryVars == <<status, handle, starting, healthy>>
startVars == <<at, todo, pids, gaveUp, seenUp>>
jobVars   == <<job, left>>
vars      == <<world, owner, holder, entryVars, startVars, free, jobVars, cleared, calls>>

Resting == [at |-> "idle", entry |-> NoProc, pids |-> {}]

ProcessesOK ==
    /\ world \in Worlds
    /\ owner \in [Procs -> Entries \cup {"stranger", "dead"}]
    /\ holder \in Procs \cup {NoProc, Docker, Hidden}
    /\ status \in [Entries -> {"stopped", "starting", "running", "stopping", "crashed", "conflict"}]
    /\ handle \in [Entries -> Procs \cup {NoProc}]
    /\ healthy \in [Entries -> BOOLEAN]
    /\ cleared \in SUBSET Procs /\ calls \in 0..MaxCalls

StartsOK ==
    /\ starting \in [Entries -> BOOLEAN]
    /\ at \in [Entries -> {"idle", "deps", "called", "wait", "probe", "list", "kill", "spawn"}]
    /\ \A e \in Entries : starting[e] <=> at[e] # "idle"
    /\ pids \in [Entries -> SUBSET Procs]
    /\ free \in [at : {"idle", "list", "kill"}, entry : Entries \cup {NoProc}, pids : SUBSET Procs]

ListsOK ==
    /\ todo \in [Entries -> Seq(Entries)]
    /\ gaveUp \in [Entries -> SUBSET Entries] /\ seenUp \in [Entries -> SUBSET Entries]
    /\ job \in {"none", "startAll", "starting", "stopAll", "stopping"} /\ left \in Seq(Entries)

TypeOK == ProcessesOK /\ StartsOK /\ ListsOK

-----------------------------------------------------------------------------
(* Helpers *)

Live == {p \in Procs : owner[p] # "dead"}

\* supervisedPids: every process an entry holds, its own tree included.
Supervised == {handle[e] : e \in Entries} \ {NoProc}

\* listPortHolders: docker's proxy and sockets of other users are not listed.
Listed == {holder} \cap Live

\* What dependsOn names beside the servers configured is ignored.
Configured == [e \in world.present |-> world.dependsOn[e]]

Contested(e) == e \in world.wants /\ holder # NoProc

Up == {e \in Entries : status[e] = "running" /\ healthy[e]}

\* A new process; which name it gets is immaterial.
Fresh == CHOOSE p \in Procs : p \notin Live

Set(f, e, v) == [f EXCEPT ![e] = v]

\* A start that began another's start and waits for it to return.
CallerOf(e) == {c \in Entries : at[c] = "called" /\ Head(todo[c]) = e}

\* Slip: the flag stays up when the start returns.
StartReturns_KeepsFlag(e) ==
    /\ UNCHANGED starting
    /\ at' = [c \in Entries |-> IF c = e THEN "idle" ELSE IF c \in CallerOf(e) THEN "wait" ELSE at[c]]

\* start() returns: the flag goes down, and whoever awaited it goes on to wait for readiness.
StartReturns(e) ==
    /\ starting' = Set(starting, e, FALSE)
    /\ at' = [c \in Entries |-> IF c = e THEN "idle" ELSE IF c \in CallerOf(e) THEN "wait" ELSE at[c]]

\* Nobody is between reading who supervises what and acting on who listens.
Undisturbed == free.at # "list" /\ \A e \in Entries : at[e] # "list"

Init ==
    /\ world \in Worlds
    /\ holder = world.holder
    /\ owner = [p \in Procs |-> IF p = holder THEN world.holderOf ELSE "dead"]
    /\ status = [e \in Entries |-> "stopped"] /\ handle = [e \in Entries |-> NoProc]
    /\ starting = [e \in Entries |-> FALSE] /\ healthy = [e \in Entries |-> FALSE]
    /\ at = [e \in Entries |-> "idle"] /\ todo = [e \in Entries |-> <<>>]
    /\ pids = [e \in Entries |-> {}] /\ free = Resting
    /\ job = "none" /\ left = <<>> /\ cleared = {} /\ calls = 0
    /\ gaveUp = [e \in Entries |-> {}] /\ seenUp = [e \in Entries |-> {}]

-----------------------------------------------------------------------------
(* start(): dependencies *)

StartAccepted(e) ==
    e \notin world.disabled /\ status[e] \notin {"running", "starting", "stopping"} /\ ~starting[e]

BeginsStart(e) ==
    /\ e \in world.present /\ StartAccepted(e)
    /\ starting' = Set(starting, e, TRUE)
    /\ todo' = Set(todo, e, DependenciesOf(Configured, e))
    /\ gaveUp' = Set(gaveUp, e, {}) /\ seenUp' = Set(seenUp, e, Up)

UserStart(e) ==
    /\ calls < MaxCalls /\ calls' = calls + 1
    /\ BeginsStart(e) /\ at' = Set(at, e, "deps")
    /\ UNCHANGED <<owner, holder, status, handle, healthy, pids, free, jobVars, cleared>>

\* Slip, and the shape the code once had: a dependency that has a process is not waited for.
SeesToDependency_SkipsWait(e) ==
    LET d == Head(todo[e]) IN
    /\ at[e] = "deps" /\ todo[e] # <<>>
    /\ \/ /\ d \notin world.disabled /\ status[d] # "running" /\ handle[d] = NoProc
          /\ IF StartAccepted(d)
             THEN BeginsStart(d) /\ at' = [at EXCEPT ![e] = "called", ![d] = "deps"]
             ELSE at' = Set(at, e, "wait") /\ UNCHANGED <<starting, todo, gaveUp, seenUp>>
       \/ /\ d \in world.disabled \/ status[d] = "running" \/ handle[d] # NoProc
          /\ todo' = Set(todo, e, Tail(todo[e])) /\ UNCHANGED <<at, starting, gaveUp, seenUp>>
    /\ UNCHANGED <<owner, holder, status, handle, healthy, pids, free, jobVars, cleared, calls>>

\* The next dependency: a disabled one is passed over; another is started unless it is up or
\* on its way, and waited for either way.
SeesToDependency(e) ==
    LET d == Head(todo[e]) IN
    /\ at[e] = "deps" /\ todo[e] # <<>>
    /\ CASE d \in world.disabled ->
              todo' = Set(todo, e, Tail(todo[e])) /\ UNCHANGED <<at, starting, gaveUp, seenUp>>
         [] d \notin world.disabled /\ status[d] # "running" /\ handle[d] = NoProc /\ StartAccepted(d) ->
              BeginsStart(d) /\ at' = [at EXCEPT ![e] = "called", ![d] = "deps"]
         [] OTHER ->
              at' = Set(at, e, "wait") /\ UNCHANGED <<starting, todo, gaveUp, seenUp>>
    /\ UNCHANGED <<owner, holder, status, handle, healthy, pids, free, jobVars, cleared, calls>>

\* It is up and healthy, or its startTimeoutMs ran out and the start goes on anyway.
DependencySettled(e) ==
    /\ at[e] = "wait"
    /\ IF Head(todo[e]) \in Up THEN UNCHANGED gaveUp
                              ELSE gaveUp' = Set(gaveUp, e, gaveUp[e] \cup {Head(todo[e])})
    /\ todo' = Set(todo, e, Tail(todo[e])) /\ at' = Set(at, e, "deps")
    /\ UNCHANGED <<owner, holder, entryVars, pids, seenUp, free, jobVars, cleared, calls>>

DependenciesDone(e) ==
    /\ at[e] = "deps" /\ todo[e] = <<>>
    /\ status' = Set(status, e, "starting") /\ healthy' = Set(healthy, e, FALSE)
    /\ at' = Set(at, e, "probe")
    /\ gaveUp' = Set(gaveUp, e, {}) /\ seenUp' = Set(seenUp, e, {})
    /\ UNCHANGED <<owner, holder, handle, starting, todo, pids, free, jobVars, cleared, calls>>

-----------------------------------------------------------------------------
(* start(): preflight and spawn *)

\* The port is probed; a busy one sends the start to ask who supervises what, then who listens.
PortProbed(e) ==
    /\ at[e] = "probe"
    /\ IF Contested(e) THEN at' = Set(at, e, "list") /\ pids' = Set(pids, e, Supervised)
                       ELSE at' = Set(at, e, "spawn") /\ UNCHANGED pids
    /\ UNCHANGED <<owner, holder, entryVars, todo, gaveUp, seenUp, free, jobVars, cleared, calls>>

\* Slip: the listeners are not split into ours and foreign.
Foreign_NotSplit(read) == Listed

Foreign(read) == Listed \ read

\* identifyHolders: the entry's id in the environment, or else its own command line.
LooksLike(e) == {e} \cup world.alike[e]

\* ownPortHolder.  Two candidates would be nobody's; one port has one holder here.
Own(e) == {p \in Foreign(pids[e]) : owner[p] \in LooksLike(e)}

Stops(e, targets) ==
    /\ cleared' = cleared \cup targets
    /\ pids' = Set(pids, e, targets) /\ at' = Set(at, e, "kill")
    /\ UNCHANGED <<owner, holder, status, handle, starting, healthy>>

GoesAhead(e) ==
    /\ at' = Set(at, e, "spawn") /\ pids' = Set(pids, e, {})
    /\ UNCHANGED <<owner, status, handle, starting, healthy, cleared>>

IsBlocked(e) ==
    /\ status' = Set(status, e, "conflict") /\ StartReturns(e) /\ pids' = Set(pids, e, {})
    /\ UNCHANGED <<owner, holder, handle, healthy, cleared>>

\* adoptEntry: the detached successor becomes the entry's process.
Adopts(e, p) ==
    /\ handle' = Set(handle, e, p) /\ status' = Set(status, e, "running")
    /\ healthy' = Set(healthy, e, FALSE) /\ StartReturns(e) /\ pids' = Set(pids, e, {})
    /\ UNCHANGED <<owner, holder, cleared>>

\* Slip: a sibling's process is a target like any other.
KillDecides_OursToo(e) ==
    \/ Listed # {} /\ Stops(e, Listed)
    \/ Listed = {} /\ holder = Docker /\ \/ holder' = NoProc /\ GoesAhead(e)
                                         \/ IsBlocked(e)
    \/ Listed = {} /\ holder # Docker /\ GoesAhead(e) /\ UNCHANGED holder

\* onPortConflict "kill": whoever is foreign goes, docker's container through docker.
KillDecides(e) ==
    \/ Listed \cap pids[e] # {} /\ IsBlocked(e)
    \/ Foreign(pids[e]) # {} /\ Stops(e, Foreign(pids[e]))
    \/ Listed = {} /\ holder = Docker /\ \/ holder' = NoProc /\ GoesAhead(e)
                                         \/ IsBlocked(e)
    \/ Listed = {} /\ holder # Docker /\ GoesAhead(e) /\ UNCHANGED holder

FollowDecides(e) ==
    \/ \E p \in Own(e) : Adopts(e, p)
    \/ Own(e) = {} /\ IsBlocked(e)

ReclaimDecides(e) ==
    \/ Own(e) # {} /\ Stops(e, Own(e))
    \/ Own(e) = {} /\ IsBlocked(e)

\* preflight(), once the listeners are known, by policy.
PortDecided(e) ==
    /\ at[e] = "list"
    /\ \/ world.policy[e] = "kill" /\ KillDecides(e)
       \/ world.policy[e] = "follow" /\ FollowDecides(e)
       \/ world.policy[e] = "reclaim" /\ ReclaimDecides(e)
       \/ world.policy[e] = "warn" /\ GoesAhead(e) /\ UNCHANGED holder
       \/ world.policy[e] = "block" /\ IsBlocked(e)
    /\ UNCHANGED <<todo, gaveUp, seenUp, free, jobVars, calls>>

\* stopPortHolders: they are gone; the port, asked again, decides.
HoldersStopped(e) ==
    /\ at[e] = "kill" /\ pids[e] \cap cleared = {}
    /\ IF holder = NoProc THEN GoesAhead(e) /\ UNCHANGED holder ELSE IsBlocked(e)
    /\ UNCHANGED <<todo, gaveUp, seenUp, free, jobVars, calls>>

Spawns(e) ==
    /\ at[e] = "spawn"
    /\ Live # Procs
    /\ owner' = Set(owner, Fresh, e) /\ handle' = Set(handle, e, Fresh)
    /\ StartReturns(e)
    /\ UNCHANGED <<holder, status, healthy, todo, pids, gaveUp, seenUp, free, jobVars, cleared, calls>>

-----------------------------------------------------------------------------
(* The servers themselves *)

\* The exit of a process reaches whoever holds it.
ProcessGone(p) ==
    /\ cleared' = cleared \ {p}
    /\ handle' = [e \in Entries |-> IF handle[e] = p THEN NoProc ELSE handle[e]]
    /\ healthy' = [e \in Entries |-> handle[e] # p /\ healthy[e]]
    /\ status' = [e \in Entries |-> IF handle[e] # p THEN status[e]
                                    ELSE IF status[e] = "stopping" THEN "stopped" ELSE "crashed"]

\* A spawned server binds its port and answers, or finds the port taken and exits.
Binds(e) ==
    /\ handle[e] # NoProc /\ status[e] = "starting"
    /\ IF Contested(e)
       THEN /\ owner' = Set(owner, handle[e], "dead") /\ ProcessGone(handle[e])
            /\ UNCHANGED holder
       ELSE /\ holder' = IF e \in world.wants THEN handle[e] ELSE holder
            /\ status' = Set(status, e, "running") /\ UNCHANGED <<owner, handle, healthy, cleared>>
    /\ UNCHANGED <<starting, startVars, free, jobVars, calls>>

BecomesHealthy(e) ==
    /\ status[e] = "running" /\ ~healthy[e]
    /\ healthy' = Set(healthy, e, TRUE)
    /\ seenUp' = [f \in Entries |-> IF at[f] \in {"deps", "called", "wait"} THEN seenUp[f] \cup {e}
                                                                     ELSE {}]
    /\ UNCHANGED <<owner, holder, status, handle, starting, at, todo, pids, gaveUp, free, jobVars,
                   cleared, calls>>

\* A process ends, on its own or because it was signalled.
Ends(p) ==
    /\ p \in Live
    /\ owner' = Set(owner, p, "dead")
    /\ holder' = IF holder = p THEN NoProc ELSE holder
    /\ ProcessGone(p)
    /\ UNCHANGED <<starting, startVars, free, jobVars, calls>>

\* A program restarts itself: a detached process, started as the same entry, takes the port
\* over and the child exits.
Detaches(e) ==
    /\ calls < MaxCalls /\ calls' = calls + 1
    /\ handle[e] # NoProc /\ handle[e] = holder /\ status[e] = "running"
    /\ Live # Procs
    /\ owner' = [owner EXCEPT ![Fresh] = owner[handle[e]], ![handle[e]] = "dead"]
    /\ holder' = Fresh
    /\ ProcessGone(handle[e])
    /\ UNCHANGED <<starting, startVars, free, jobVars>>

\* stopEntry up to its wait; no stop meets a start in flight here (Lifecycle has that).
BeginsStop(e) ==
    /\ e \in world.present /\ ~starting[e]
    /\ status' = Set(status, e, IF handle[e] = NoProc THEN "stopped" ELSE "stopping")
    /\ UNCHANGED <<owner, holder, handle, starting, healthy, startVars, free, cleared>>

UserStop(e) ==
    /\ calls < MaxCalls /\ calls' = calls + 1 /\ BeginsStop(e) /\ UNCHANGED jobVars

-----------------------------------------------------------------------------
(* freePort *)

Frees(e) ==
    /\ calls < MaxCalls /\ calls' = calls + 1
    /\ free = Resting /\ e \in world.wants /\ ~starting[e] /\ status[e] # "stopping"
    /\ free' = [at |-> "list", entry |-> e, pids |-> Supervised]
    /\ UNCHANGED <<owner, holder, entryVars, startVars, jobVars, cleared>>

\* The reason the entry was blocked is gone.
Unblocked(e) == status' = Set(status, e, IF status[e] = "conflict" THEN "stopped" ELSE status[e])

\* What is listed and not ours is signalled; an unlisted holder is docker's to release, or
\* nobody's; one of ours is refused.
FreeDecided ==
    /\ free.at = "list"
    /\ \/ /\ Foreign(free.pids) # {}
          /\ cleared' = cleared \cup Foreign(free.pids)
          /\ free' = [free EXCEPT !.at = "kill", !.pids = Foreign(free.pids)]
          /\ UNCHANGED <<holder, status>>
       \/ /\ Listed = {} /\ holder = Docker /\ holder' = NoProc
          /\ Unblocked(free.entry) /\ free' = Resting /\ UNCHANGED cleared
       \/ /\ Foreign(free.pids) = {} /\ free' = Resting
          /\ UNCHANGED <<holder, status, cleared>>
    /\ UNCHANGED <<owner, handle, starting, healthy, startVars, jobVars, calls>>

FreeEnds ==
    /\ free.at = "kill" /\ free.pids \cap cleared = {}
    /\ IF holder = NoProc THEN Unblocked(free.entry) ELSE UNCHANGED status
    /\ free' = Resting
    /\ UNCHANGED <<owner, holder, handle, starting, healthy, startVars, jobVars, cleared, calls>>

-----------------------------------------------------------------------------
(* startAll and stopAll: one entry after the other, each call awaited *)

StartOrder == OrderByDependencies(Configured, SetToSeq(world.present))

StopOrder == Reverse(OrderByDependencies(Configured, SetToSeq(world.present)))

JobAsked ==
    /\ calls < MaxCalls /\ calls' = calls + 1 /\ job = "none"
    /\ \/ job' = "startAll" /\ left' = StartOrder
       \/ job' = "stopAll" /\ left' = StopOrder
    /\ UNCHANGED <<owner, holder, entryVars, startVars, free, cleared>>

StartAllStep ==
    /\ job = "startAll" /\ left # <<>>
    /\ \/ /\ BeginsStart(Head(left)) /\ at' = Set(at, Head(left), "deps") /\ job' = "starting"
          /\ UNCHANGED left
       \/ ~StartAccepted(Head(left)) /\ left' = Tail(left)
          /\ UNCHANGED <<job, starting, at, todo, gaveUp, seenUp>>
    /\ UNCHANGED <<owner, holder, status, handle, healthy, pids, free, cleared, calls>>

StopAllStep ==
    /\ job = "stopAll" /\ left # <<>> /\ BeginsStop(Head(left)) /\ job' = "stopping"
    /\ UNCHANGED <<left, calls>>

JobGoesOn ==
    /\ \/ job = "starting" /\ ~starting[Head(left)] /\ job' = "startAll" /\ left' = Tail(left)
       \/ job = "stopping" /\ status[Head(left)] # "stopping" /\ job' = "stopAll" /\ left' = Tail(left)
       \/ job \in {"startAll", "stopAll"} /\ left = <<>> /\ job' = "none" /\ UNCHANGED left
    /\ UNCHANGED <<owner, holder, entryVars, startVars, free, cleared, calls>>

-----------------------------------------------------------------------------

StartStep(e) == \/ SeesToDependency(e) \/ DependencySettled(e) \/ DependenciesDone(e)
                \/ PortProbed(e) \/ HoldersStopped(e) \/ Spawns(e)

Elsewhere == UNCHANGED world /\ (world.quick => Undisturbed)

Next ==
    \/ Elsewhere /\ \E e \in Entries : \/ UserStart(e) \/ UserStop(e) \/ Frees(e) \/ StartStep(e)
                                       \/ Binds(e) \/ BecomesHealthy(e) \/ Detaches(e)
    \/ Elsewhere /\ \E p \in Procs : Ends(p)
    \/ Elsewhere /\ (FreeEnds \/ JobAsked \/ StartAllStep \/ StopAllStep \/ JobGoesOn)
    \/ UNCHANGED world /\ \/ FreeDecided
                          \/ \E e \in Entries : PortDecided(e)

Spec == Init /\ [][Next]_vars

\* Continuations run, what is signalled ends, and startTimeoutMs runs out.
Doomed(p) == p \in cleared \/ \E e \in Entries : handle[e] = p /\ status[e] = "stopping"

FairSpec ==
    /\ Spec
    /\ \A e \in Entries : /\ WF_vars(Elsewhere /\ StartStep(e))
                          /\ WF_vars(UNCHANGED world /\ PortDecided(e))
    /\ \A p \in Procs : WF_vars(Elsewhere /\ Doomed(p) /\ Ends(p))
    /\ WF_vars(UNCHANGED world /\ FreeDecided) /\ WF_vars(Elsewhere /\ FreeEnds)
    /\ WF_vars(Elsewhere /\ (StartAllStep \/ StopAllStep \/ JobGoesOn))

-----------------------------------------------------------------------------
(* Properties *)

\* A server is spawned only after everything it depends on, however far down, has been up
\* and healthy since its start began, or had its whole startTimeoutMs to get there, the disabled
\* excepted, which are passed over; what is below a disabled one is not (startDependencies,
\* dependenciesOf).
DependencyFirst ==
    [][\A e \in Entries : at[e] = "deps" /\ at'[e] = "probe"
         => Reach(Configured, e) \ ({e} \cup world.disabled) \subseteq seenUp[e] \cup gaveUp[e]]_vars

\* Boot and a start begin servers, and `stop all` stops them, in an order in which none is
\* begun before one it needs, or stopped before one that needs it (orderByDependencies,
\* dependenciesOf, stopAll).
OrderRespected ==
    Acyclic(Configured)
        => /\ \A e \in Entries : IsTopological(Configured, todo[e])
           /\ job \in {"startAll", "starting"} => IsTopological(Configured, left)
           /\ job \in {"stopAll", "stopping"} => IsTopological(Configured, Reverse(left))

\* An entry holds no process but one started as itself, or as one it cannot tell from itself
\* (ownPortHolder); and even two entries that cannot tell their processes apart never hold the
\* same one (`ours` and `foreign`, supervisedPids), as long as nothing happens between the
\* reading of what is supervised and of who listens.
OneSupervisor ==
    \A e \in Entries : handle[e] # NoProc
        => /\ owner[handle[e]] \in LooksLike(e)
           /\ world.quick => \A f \in Entries \ {e} : handle[f] # handle[e]

\* No process of ours is signalled to free a port, as long as nothing happens between the
\* reading of the two lists (portHolders).
QuickSparesOurs == [][world.quick => (cleared' \ cleared) \cap Supervised = {}]_vars

\* Every start ends, whatever waits for what: a cycle of servers that wait for one another
\* is broken by startTimeoutMs.  So do startAll and stopAll.
EverythingEnds ==
    /\ \A e \in Entries : starting[e] ~> ~starting[e]
    /\ job # "none" ~> job = "none"
==============================================================================
