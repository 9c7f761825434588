-------------------------------- MODULE Proxy --------------------------------
(***************************************************************************)
(* The reverse proxy (services/proxy.ts): one engine the panel starts      *)
(* under a nanny, talks to over an admin socket and leaves running when it *)
(* exits.  What a panel knows of the engine is in its memory, in five      *)
(* files, and in answers that may not come.                                *)
(*                                                                         *)
(* A configuration is rendered from the route table, from which            *)
(* certificates are there and from which supervised servers run, all read  *)
(* at the moment of rendering; Revision is such a text.  A call in flight  *)
(* is parked at one of its awaits (at).  The API has one call in flight at *)
(* a time; the panel's tick waits for no earlier one, so a sync that takes *)
(* longer than a tick is overlapped by the next.                           *)
(*                                                                         *)
(* Assumed: the engine's build is installed and the admin transport is the *)
(* unix socket; a spawned nanny reads its spec and writes its state file   *)
(* before a panel that died is back; an answer sent before the engine died *)
(* is read before the next one is spawned; all tables use the same ports.  *)
(***************************************************************************)
EXTENDS Naturals, FiniteSets, TLC

CONSTANTS
    Tables,      \* route tables the user may save
    Refuses,     \* those the engine refuses to load or to boot from
    Unset,       \* no file, no revision
    Staged,      \* a table loaded with one route left out (retryCertificate)
    MaxNannies,  \* engines started
    MaxCalls,    \* calls of the API, at most
    MaxFailures, \* SYNC_MAX_FAILURES
    Ticks,       \* ticks whose sync() may be in flight together
    Worlds       \* the surroundings explored

ASSUME ProxyAssumption ==
    /\ Refuses \subseteq Tables
    /\ Unset # Staged /\ {Unset, Staged} \cap Tables = {}
    /\ "user" \notin Ticks
    /\ MaxNannies \in Nat /\ MaxCalls \in Nat /\ MaxFailures \in Nat \ {0}

VARIABLES
    world,     \* what the surroundings may do
    settings,  \* the proxy's settings: switched on, and its table
    around,    \* what a rendering depends on besides: certificates and supervised servers
    mem,       \* the panel's memory of the engine
    disk,      \* the files under .proxy
    proc,      \* proc[n]: the n-th nanny and the engine under it
    runs,      \* runs[n]: the configuration that engine serves
    socket,    \* which engine answers on the admin socket, 0 for none
    task,      \* task["user"]: the API's call in flight; task[t]: the sync of tick t
    calls,     \* calls of the API so far
    untold     \* untold[n]: history; what engine n did that no call heard of, or not in its turn

\* A start or a load of it that no call was told of, or loads of two texts that crossed: the
\* files may not say what it runs.  A stop of it that died with the panel.
Reasons == {"start", "load", "stop"}

vars == <<world, settings, around, mem, disk, proc, runs, socket, task, calls, untold>>

Nannies == 1 .. MaxNannies
Tasks   == {"user"} \cup Ticks
Certs   == {"pending", "issued"}
Revision == [table: Tables, cert: Certs, up: BOOLEAN]

\* capped: the engine holds cap_net_bind_service, so no port can be traced to it and its
\* environment cannot be read.  orphan: a nanny may be killed over its engine.  lossy: the admin
\* request may time out after the engine took it.  supervised: a route points at a server of the
\* panel, and the certificates stay as they are.  reverts: the user may revert.  slow: a sync
\* may take longer than a tick.  calls, engines: how often the API is called, and an engine
\* started, at most.
World == [capped: BOOLEAN, orphan: BOOLEAN, lossy: BOOLEAN, supervised: BOOLEAN, reverts: BOOLEAN,
          slow: BOOLEAN, calls: 0 .. MaxCalls, engines: Nannies]

ASSUME WorldsAssumption == Worlds \subseteq World

Idle == [at |-> "idle", by |-> "none", kind |-> "none", rev |-> Unset, saved |-> Unset,
         seen |-> "none", target |-> 0, crossed |-> FALSE]
Call == [at: {"idle", "starting", "ready", "posting", "loaded", "stop", "stopWait"},
         by: {"none", "button", "patch", "boot", "tick"},
         kind: {"none", "apply", "revert", "retry", "failed"},
         rev: Revision \cup {Unset, Staged},
         saved: Revision \cup {Unset},     \* revert: the file it read
         seen: Certs \cup {"none"},        \* sync: the signature it computed
         target: 0 .. MaxNannies,
         crossed: BOOLEAN]

Memory == [up: BOOLEAN, handle: 0 .. MaxNannies, admin: BOOLEAN, error: BOOLEAN,
           signature: Certs \cup {"none"}, failures: 0 .. MaxFailures]

NoMemory == [up |-> FALSE, handle |-> 0, admin |-> FALSE, error |-> FALSE,
             signature |-> "none", failures |-> 0]

NannyAlive(n) == n # 0 /\ proc[n] \in {"spawned", "booting", "serving", "ending"}
Bound(n)      == n # 0 /\ proc[n] \in {"serving", "orphan", "ending"}
Recorded      == disk.record # 0
\* live(): the state file names a nanny that runs and beats.
Live    == Recorded /\ NannyAlive(disk.record)
\* status().state = "running".
Answering == Live /\ mem.admin /\ socket # 0
Running   == settings.enabled /\ Answering

\* Whether the engine takes a configuration.
Takes(rev) == IF rev = Staged THEN TRUE ELSE rev.table \notin Refuses

\* Somebody answers on the admin address the panel knows.
Reachable == mem.admin /\ socket # 0 /\ Bound(socket)

Rendering(table) == [table |-> table, cert |-> around.cert, up |-> around.up]
Rendered == Rendering(settings.table)

-----------------------------------------------------------------------------
Init ==
    /\ world \in Worlds
    /\ settings \in [enabled: BOOLEAN, table: Tables \ Refuses]
    /\ around = [cert |-> "pending", up |-> FALSE]
    /\ mem = NoMemory
    /\ disk = [config |-> Unset, previous |-> Unset, admin |-> FALSE, applied |-> FALSE,
               record |-> 0]
    /\ proc = [n \in Nannies |-> "unborn"]
    /\ runs = [n \in Nannies |-> Unset]
    /\ socket = 0
    /\ task = [t \in Tasks |-> Idle]
    /\ calls = 0
    /\ untold = [n \in Nannies |-> {}]

-----------------------------------------------------------------------------
(* How a call ends.                                                        *)

\* Slip: the signature is computed again once the apply is through.
SyncEnds_Recomputed(ok, c, m) ==
    IF ok THEN [m EXCEPT !.signature = around.cert, !.failures = 0]
    ELSE [m EXCEPT !.failures = IF @ = MaxFailures THEN @ ELSE @ + 1, !.error = TRUE]

\* sync() takes the signature it had computed on success, counts a failure, and takes it all
\* the same once the failures are too many.
SyncEnds(ok, c, m) ==
    LET failed == IF m.failures = MaxFailures THEN MaxFailures ELSE m.failures + 1
    IN  IF ok THEN [m EXCEPT !.signature = c.seen, !.failures = 0]
        ELSE [m EXCEPT !.failures = failed, !.error = TRUE,
                       !.signature = IF failed = MaxFailures THEN c.seen ELSE @]

Returns(t, c, m) ==
    /\ task' = [task EXCEPT ![t] = Idle]
    /\ mem' = IF t \in Ticks THEN SyncEnds(TRUE, c, m) ELSE m

\* Whoever called records the message: the settings page and the tick always, boot for a
\* start; a button only answers it.
Throws(t, m) ==
    LET c == task[t]
    IN  /\ task' = [task EXCEPT ![t] = Idle]
        /\ mem' = IF t \in Ticks THEN SyncEnds(FALSE, c, m)
                  ELSE [m EXCEPT !.error = @ \/ c.by = "patch" \/ (c.by = "boot" /\ c.at = "starting")]

\* Slip: a record is enough, whatever it names.
PortsFree_Recorded == Recorded \/ \A n \in Nannies : ~Bound(n)

\* assertPortsFree(): a busy port passes when its holder can be traced to the record, or when
\* the engine is live and its last apply bound it.
PortsFree ==
    \/ \A n \in Nannies : ~Bound(n)
    \/ Recorded /\ ~world.capped /\ Bound(disk.record)
    \/ Live /\ disk.applied

\* Engine n has loaded what no call has had the answer of yet.
InFlight(n) == \E t \in DOMAIN task : task[t].at = "loaded" /\ task[t].target = n

\* rememberConfig(): the file the engine boots from, and the one before it.
Remember(d, rev) == [d EXCEPT !.previous = IF d.config = Unset THEN @ ELSE d.config,
                              !.config = rev]

-----------------------------------------------------------------------------
(* apply(), revert() and retryCertificate().                               *)

Posts(t, c, kind, rev) ==
    task' = [task EXCEPT ![t] = [c EXCEPT !.at = "posting", !.kind = kind, !.rev = rev]]

\* The first turn of apply(), in a call c of t that finds the memory m: the address is found,
\* and the rendered configuration sent unless it is what the file holds.
Applies(t, c, m, rev) ==
    LET found == [m EXCEPT !.admin = @ \/ disk.admin]
    IN  IF ~found.admin THEN Returns(t, c, m)
        ELSE IF disk.config = rev /\ c.kind # "retry"
        THEN Returns(t, c, [found EXCEPT !.error = FALSE])
        ELSE Posts(t, c, "apply", rev) /\ mem' = found

\* The ports were found free, and the engine loads what it was sent; the answer is on its way.
Loads(t) ==
    LET e == socket
        others == {k \in DOMAIN task \ {t} : task[k].at = "loaded" /\ task[k].rev # task[t].rev}
    IN  /\ task[t].at = "posting"
        /\ task[t].kind = "apply" => PortsFree
        /\ Reachable /\ Takes(task[t].rev)
        /\ runs' = [runs EXCEPT ![e] = task[t].rev]
        /\ task' = [k \in DOMAIN task |->
                       IF k = t THEN [task[k] EXCEPT !.at = "loaded", !.target = e,
                                                     !.crossed = others # {}]
                       ELSE IF k \in others THEN [task[k] EXCEPT !.crossed = TRUE] ELSE task[k]]
        /\ UNCHANGED <<world, settings, around, mem, disk, proc, socket, calls, untold>>

\* A port is taken by what is not this panel's engine: nothing is sent.
ApplyRefused(t) ==
    /\ task[t].at = "posting" /\ task[t].kind = "apply"
    /\ ~PortsFree
    /\ Throws(t, mem)
    /\ UNCHANGED <<world, settings, around, disk, proc, runs, socket, calls, untold>>

\* Slip, and the shape the code once had: the file is written before the engine is asked.
PostFails_Remembers(t) ==
    /\ task[t].at = "posting" /\ task[t].kind = "apply"
    /\ PortsFree
    /\ ~(Reachable /\ Takes(task[t].rev))
    /\ Throws(t, [mem EXCEPT !.error = TRUE])
    /\ disk' = Remember(disk, task[t].rev)
    /\ UNCHANGED <<world, settings, around, proc, runs, socket, calls, untold>>

\* postConfiguration() throws: the engine refused or cannot be reached.
PostFails(t) ==
    /\ task[t].at = "posting"
    /\ task[t].kind = "apply" => PortsFree
    /\ Reachable /\ Takes(task[t].rev) => proc[socket] = "ending"
    /\ Throws(t, [mem EXCEPT !.error = TRUE])
    /\ UNCHANGED <<world, settings, around, disk, proc, runs, socket, calls, untold>>

\* It throws over a configuration the engine took: it ended, or took too long to say so.
AnswerLost(t) ==
    /\ task[t].at = "loaded"
    /\ world.lossy \/ ~Bound(task[t].target)
    /\ untold' = [untold EXCEPT ![task[t].target] =
                     IF Bound(task[t].target) THEN @ \cup {"load"} ELSE @]
    /\ Throws(t, [mem EXCEPT !.error = TRUE])
    /\ UNCHANGED <<world, settings, around, disk, proc, runs, socket, calls>>

\* The files follow what the engine answered that it loaded.
Accepted(d, c) ==
    IF c.kind = "revert"
    THEN [d EXCEPT !.config = c.rev, !.previous = c.saved, !.applied = TRUE]
    ELSE [Remember(d, c.rev) EXCEPT !.applied = TRUE]

ApplyAnswered(t) ==
    LET c == task[t]
    IN  /\ c.at = "loaded" /\ c.kind # "retry"
        /\ Returns(t, c, [mem EXCEPT !.error = FALSE])
        /\ disk' = Accepted(disk, c)
        /\ untold' = [untold EXCEPT ![c.target] = IF c.crossed THEN @ \cup {"load"}
                                                  ELSE @ \ {"start", "load"}]
        /\ UNCHANGED <<world, settings, around, proc, runs, socket, calls>>

\* The table without the route is loaded: its stored certificate is dropped and the whole
\* table sent again, whatever the file says.
RetryAnswered(t) ==
    LET c == task[t]
    IN  /\ c.at = "loaded" /\ c.kind = "retry"
        /\ Applies(t, [c EXCEPT !.crossed = FALSE], mem, Rendered)
        /\ untold' = [untold EXCEPT ![c.target] = IF Bound(c.target) THEN @ \cup {"load"} ELSE @]
        /\ UNCHANGED <<world, settings, around, disk, proc, runs, socket, calls>>

-----------------------------------------------------------------------------
(* start().                                                                *)

\* world.engines is a bound of the model: nothing that would start one more begins.
Spare == \E n \in 1 .. world.engines : proc[n] = "unborn"

\* Its first turn: an engine that runs is only given the current configuration.
Starts(t, c, rev) ==
    IF ~Live THEN /\ Spare
                  /\ task' = [task EXCEPT ![t] = [c EXCEPT !.at = "starting"]]
                  /\ UNCHANGED mem
    ELSE IF disk.admin THEN Applies(t, c, mem, rev)
    ELSE UNCHANGED task /\ mem' = [mem EXCEPT !.error = @ \/ c.by = "patch"]

\* The ports are free: the configuration and the admin record are written, and the nanny
\* is spawned, before the engine has seen either.
StartSpawns(t) ==
    /\ task[t].at = "starting"
    /\ PortsFree
    /\ \A n \in Nannies : proc[n] = "gone" => ~InFlight(n)
    /\ \E n \in Nannies :
        /\ proc[n] = "unborn" /\ \A k \in 1 .. n - 1 : proc[k] # "unborn"
        /\ proc' = [proc EXCEPT ![n] = "spawned"]
        /\ untold' = [untold EXCEPT ![n] = {"start"}]
        /\ mem' = [mem EXCEPT !.admin = TRUE, !.handle = n]
        /\ task' = [task EXCEPT ![t].at = "ready", ![t].target = n]
    /\ disk' = [Remember(disk, Rendered) EXCEPT !.admin = TRUE]
    /\ socket' = 0
    /\ UNCHANGED <<world, settings, around, runs, calls>>

StartRefused(t) ==
    /\ task[t].at = "starting"
    /\ ~PortsFree
    /\ Throws(t, mem)
    /\ UNCHANGED <<world, settings, around, disk, proc, runs, socket, calls, untold>>

\* waitReady() has an answer on the admin socket.
StartReady(t) ==
    /\ task[t].at = "ready"
    /\ mem.handle # 0 /\ Reachable
    /\ Returns(t, task[t], [mem EXCEPT !.error = FALSE])
    /\ disk' = [disk EXCEPT !.applied = TRUE]
    /\ untold' = [untold EXCEPT ![task[t].target] = @ \ {"start"}]
    /\ UNCHANGED <<world, settings, around, proc, runs, socket, calls>>

\* Slip: the end of the child is not looked for while the engine is waited for.
StartNotReady_Waits(t) ==
    /\ task[t].at = "ready"
    /\ mem.handle # 0 /\ NannyAlive(mem.handle) /\ ~Reachable /\ proc[mem.handle] # "spawned"
    /\ task' = [task EXCEPT ![t].at = "stop", ![t].kind = "failed", ![t].target = disk.record]
    /\ UNCHANGED <<world, settings, around, mem, disk, proc, runs, socket, calls, untold>>

\* waitReady() gives up: the nanny is gone, or the engine took too long.  What there is of
\* it is stopped.
StartNotReady(t) ==
    /\ task[t].at = "ready"
    /\ mem.handle = 0 \/ (NannyAlive(mem.handle) /\ ~Reachable /\ proc[mem.handle] # "spawned")
    /\ task' = [task EXCEPT ![t].at = "stop", ![t].kind = "failed", ![t].target = disk.record]
    /\ UNCHANGED <<world, settings, around, mem, disk, proc, runs, socket, calls, untold>>

-----------------------------------------------------------------------------
(* stop().                                                                 *)

\* nannyIsAlive(), or the engine carries the marker its nanny gave it.
Known(n) == proc[n] \in {"booting", "serving"} \/ (proc[n] = "orphan" /\ ~world.capped)

\* Slip: the state file is consumed with the signal, not with the end of what it names.
StopSignals_Consumes(t) ==
    /\ task[t].at = "stop"
    /\ task' = [task EXCEPT ![t].at = "stopWait"]
    /\ proc' = [n \in Nannies |->
                   IF n = task[t].target /\ Known(n) THEN "ending" ELSE proc[n]]
    /\ disk' = [disk EXCEPT !.record = 0]
    /\ UNCHANGED <<world, settings, around, mem, runs, socket, calls, untold>>

\* The record read before the identity checks names a nanny, or an engine that outlived it.
StopSignals(t) ==
    /\ task[t].at = "stop"
    /\ task' = [task EXCEPT ![t].at = "stopWait"]
    /\ proc' = [n \in Nannies |->
                   IF n = task[t].target /\ Known(n) THEN "ending" ELSE proc[n]]
    /\ UNCHANGED <<world, settings, around, mem, disk, runs, socket, calls, untold>>

\* An engine that is gone takes what is said of it along.
Ends(n) ==
    /\ proc' = [proc EXCEPT ![n] = "gone"]
    /\ runs' = [runs EXCEPT ![n] = Unset]
    /\ untold' = [untold EXCEPT ![n] = {}]
    /\ socket' = IF socket = n THEN 0 ELSE socket

\* Everything the panel and its files know of the engine goes; the state file stays when a
\* process is still there right after SIGKILL, and goes over an engine that was not known.
StopEnds(t) ==
    LET n == task[t].target
        forgets(record) ==
            /\ disk' = [disk EXCEPT !.record = record, !.admin = FALSE, !.applied = FALSE]
            /\ mem' = [mem EXCEPT !.handle = 0, !.admin = FALSE, !.signature = "none",
                                  !.error = task[t].kind = "failed"]
    IN  /\ task[t].at = "stopWait"
        /\ \/ n = 0 /\ forgets(disk.record) /\ UNCHANGED <<proc, runs, socket, untold>>
           \/ n # 0 /\ proc[n] \in {"gone", "orphan"} /\ forgets(0) /\ UNCHANGED <<proc, runs, socket, untold>>
           \/ n # 0 /\ proc[n] = "ending" /\ Ends(n) /\ \E kept \in {0, disk.record} : forgets(kept)
        /\ task' = [task EXCEPT ![t] = Idle]
        /\ UNCHANGED <<world, settings, around, calls>>

-----------------------------------------------------------------------------
(* The API's calls, the tick and the panel's boot.                         *)

By(who) == [Idle EXCEPT !.by = who]

\* Slip: what the page says decides whether there is something to stop.
Stops_IfAnswering(c) ==
    /\ UNCHANGED mem
    /\ task' = [task EXCEPT !["user"] = IF Answering THEN [c EXCEPT !.at = "stop", !.target = disk.record] ELSE @]

Stops(c) ==
    /\ task' = [task EXCEPT !["user"] = [c EXCEPT !.at = "stop", !.target = disk.record]]
    /\ UNCHANGED mem

Asks ==
    /\ mem.up /\ task["user"] = Idle /\ calls < world.calls
    /\ calls' = calls + 1
    /\ UNCHANGED <<world, around, disk, proc, runs, socket, untold>>

\* PATCH /proxy: the settings are saved, then reconciled with the engine.
Patch ==
    /\ Asks
    /\ \E enabled \in BOOLEAN, table \in Tables :
        /\ settings' = [enabled |-> enabled, table |-> table]
        /\ IF ~enabled THEN Stops(By("patch"))
           ELSE IF Answering THEN Applies("user", By("patch"), mem, Rendering(table))
           ELSE Starts("user", By("patch"), Rendering(table))

\* The buttons of the page: start, apply, stop, revert, and a certificate asked for again.
Button ==
    LET c == By("button")
    IN  /\ Asks
        /\ \/ settings.enabled /\ (Starts("user", c, Rendered) \/ Applies("user", c, mem, Rendered))
           \/ Stops(c)
           \/ /\ world.reverts /\ disk.previous # Unset
              /\ Posts("user", [c EXCEPT !.saved = disk.config], "revert", disk.previous)
              /\ UNCHANGED mem
           \/ /\ settings.enabled
              /\ IF Running THEN Posts("user", c, "retry", Staged) /\ UNCHANGED mem
                 ELSE Applies("user", [c EXCEPT !.kind = "retry"], mem, Rendered)
        /\ UNCHANGED settings

\* sync(): a certificate situation other than the one last applied is applied; the first one
\* seen is only taken note of.  Nothing in it asks whether an earlier tick's is still at its
\* apply, so in a slow world there may be several (t is the first that is free).
Sync(t) ==
    /\ mem.up /\ task[t] = Idle /\ Running
    /\ world.slow \/ \A u \in Ticks : task[u] = Idle
    /\ t = CHOOSE u \in Ticks : task[u] = Idle
    /\ mem.signature # around.cert
    /\ IF mem.signature = "none"
       THEN mem' = [mem EXCEPT !.signature = around.cert] /\ UNCHANGED task
       ELSE Applies(t, [By("tick") EXCEPT !.seen = around.cert], mem, Rendered)
    /\ UNCHANGED <<world, settings, around, disk, proc, runs, socket, calls, untold>>

\* nannyGone(): the panel's own child ended.
NannyGone ==
    /\ mem.up /\ mem.handle # 0 /\ ~NannyAlive(mem.handle)
    /\ mem' = [mem EXCEPT !.handle = 0, !.admin = FALSE]
    /\ disk' = [disk EXCEPT !.admin = FALSE]
    /\ UNCHANGED <<world, settings, around, proc, runs, socket, task, calls, untold>>

\* The panel exits, or dies: the engine stays, calls in flight are never finished.
PanelEnds ==
    /\ mem.up
    /\ \A n \in Nannies : proc[n] # "spawned"
    /\ mem' = NoMemory
    /\ task' = [t \in DOMAIN task |-> Idle]
    /\ untold' = [n \in Nannies |->
                     IF proc[n] \in {"unborn", "gone"} THEN {}
                     ELSE untold[n] \cup (IF task["user"].at \in {"stop", "stopWait"} THEN {"stop"} ELSE {})
                                    \cup (IF InFlight(n) THEN {"load"} ELSE {})]
    /\ UNCHANGED <<world, settings, around, disk, proc, runs, socket, calls>>

\* initialize(), before any server is adopted or started: a live engine is given the current
\* configuration, else one is started.
Boots ==
    LET m == [NoMemory EXCEPT !.up = TRUE, !.admin = disk.admin]
        c == By("boot")
    IN  /\ ~mem.up
        /\ settings.enabled => Live \/ Spare
        /\ around' = [around EXCEPT !.up = FALSE]
        /\ IF ~settings.enabled THEN UNCHANGED task /\ mem' = m
           ELSE IF Live THEN Applies("user", c, m, [Rendered EXCEPT !.up = FALSE])
           ELSE task' = [task EXCEPT !["user"] = [c EXCEPT !.at = "starting"]] /\ mem' = m
        /\ UNCHANGED <<world, settings, disk, proc, runs, socket, calls, untold>>

-----------------------------------------------------------------------------
(* The nanny, the engine and what a rendering depends on.                  *)

\* The nanny starts the engine and writes the state file.
NannyStarts(n) ==
    /\ proc[n] = "spawned"
    /\ proc' = [proc EXCEPT ![n] = "booting"]
    /\ disk' = [disk EXCEPT !.record = n]
    /\ UNCHANGED <<world, settings, around, mem, runs, socket, task, calls, untold>>

\* The engine boots from the file, or refuses it and ends, and its nanny with it.
EngineBoots(n) ==
    /\ proc[n] = "booting"
    /\ IF ~Takes(disk.config) THEN Ends(n)
       ELSE /\ proc' = [proc EXCEPT ![n] = "serving"]
            /\ runs' = [runs EXCEPT ![n] = disk.config]
            /\ socket' = n
            /\ UNCHANGED untold
    /\ UNCHANGED <<world, settings, around, mem, disk, task, calls>>

EngineEnds(n) ==
    /\ proc[n] = "ending"
    /\ Ends(n)
    /\ UNCHANGED <<world, settings, around, mem, disk, task, calls>>

\* The engine crashes.
EngineCrashes(n) ==
    /\ proc[n] \in {"booting", "serving", "orphan"}
    /\ Ends(n)
    /\ UNCHANGED <<world, settings, around, mem, disk, task, calls>>

\* Its nanny is killed over it.
NannyKilled(n) ==
    /\ world.orphan /\ proc[n] = "serving"
    /\ proc' = [proc EXCEPT ![n] = "orphan"]
    /\ UNCHANGED <<world, settings, around, mem, disk, runs, socket, task, calls, untold>>

\* One at a time: not during a call of the API, and not before a tick has seen the last one,
\* but at any time while a sync is out.
CertificateMoves ==
    /\ ~world.supervised
    /\ task["user"] = Idle
    /\ mem.signature = around.cert \/ \E t \in Ticks : task[t] # Idle
    /\ \E c \in Certs \ {around.cert} : around' = [around EXCEPT !.cert = c]
    /\ UNCHANGED <<world, settings, mem, disk, proc, runs, socket, task, calls, untold>>

\* startAll(), after initialize(): the supervised server is up.
ServerUp ==
    /\ world.supervised /\ mem.up /\ task["user"].by # "boot" /\ ~around.up
    /\ around' = [around EXCEPT !.up = TRUE]
    /\ UNCHANGED <<world, settings, mem, disk, proc, runs, socket, task, calls, untold>>

-----------------------------------------------------------------------------
CallStep(t) ==
    \/ Loads(t) \/ ApplyRefused(t) \/ PostFails(t) \/ AnswerLost(t)
    \/ ApplyAnswered(t) \/ RetryAnswered(t)
    \/ StartSpawns(t) \/ StartRefused(t) \/ StartReady(t) \/ StartNotReady(t)
    \/ StopSignals(t) \/ StopEnds(t)

EngineStep(n) == NannyStarts(n) \/ EngineBoots(n) \/ EngineEnds(n)

Next ==
    \/ \E t \in Tasks : CallStep(t)
    \/ \E t \in Ticks : Sync(t)
    \/ Patch \/ Button \/ NannyGone \/ PanelEnds \/ Boots
    \/ \E n \in Nannies : EngineStep(n) \/ EngineCrashes(n) \/ NannyKilled(n)
    \/ CertificateMoves \/ ServerUp

\* Node runs its continuations, events and ticks; a nanny and an engine come up or end.  A
\* panel that is gone need not come back, nor does anybody have to call.
Fairness ==
    /\ \A t \in Tasks : WF_vars(CallStep(t))
    /\ \A n \in Nannies : WF_vars(EngineStep(n))
    /\ WF_vars(\E t \in Ticks : Sync(t)) /\ WF_vars(NannyGone) /\ WF_vars(ServerUp)

Spec == Init /\ [][Next]_vars /\ Fairness

-----------------------------------------------------------------------------
(* Properties.                                                             *)

\* Every variable keeps its type: what the two files hold is a whole table, never the staged
\* one of a certificate asked for again.
TypeOK ==
    /\ world \in World
    /\ settings \in [enabled: BOOLEAN, table: Tables]
    /\ around \in [cert: Certs, up: BOOLEAN]
    /\ mem \in Memory
    /\ disk \in [config: Revision \cup {Unset}, previous: Revision \cup {Unset},
                 admin: BOOLEAN, applied: BOOLEAN, record: 0 .. MaxNannies]
    /\ proc \in [Nannies -> {"unborn", "spawned", "booting", "serving", "orphan", "ending", "gone"}]
    /\ runs \in [Nannies -> Revision \cup {Unset, Staged}]
    /\ socket \in 0 .. MaxNannies
    /\ task \in [Tasks -> Call]
    /\ calls \in 0 .. MaxCalls
    /\ untold \in [Nannies -> SUBSET Reasons]

Serving(n) == proc[n] \in {"serving", "orphan"}
Alive(n)   == proc[n] \notin {"unborn", "gone"}

\* While the panel has had the answer to the start and to every load of the engine on record, in
\* turn (the rest is in untold), the file it boots from the next time holds what it serves now
\* and would be accepted, and applied.json says its ports are ours: neither a refused apply, a
\* revert, an overlap with the tick nor a panel that came and went gets between the two.
FilesFollowEngine ==
    \A n \in Nannies : Serving(n) /\ disk.record = n /\ ~InFlight(n) /\ untold[n] \subseteq {"stop"} =>
        /\ disk.config = runs[n]
        /\ Takes(disk.config)
        /\ disk.applied

\* An engine whose nanny was killed, and that nobody can tell from a stranger's process: stop()
\* removes the record over it and lets it run.
Unknown(n) == Alive(n) /\ proc[n] # "spawned" /\ ~Known(n) /\ proc[n] # "ending"

\* No nanny and no engine is alive without the state file that names it: what the panel cannot
\* find again it could never stop, and it holds the public ports.
EngineIsRecorded ==
    \A n \in Nannies : Alive(n) /\ proc[n] # "spawned" /\ ~Unknown(n) => disk.record = n

\* At most one engine at a time, across panels that die, nannies killed over their engine and
\* starts that give up: assertPortsFree() is all that is in the way of a second one.
OneEngine ==
    \A n, k \in Nannies : Alive(n) /\ Alive(k) => n = k

\* Switched off and reconciled, nothing serves, an engine the panel has just found again or that
\* has not answered yet included; but for one whose stop died with the panel, which boot does
\* not take up again, and for one nobody can tell from a stranger's.
OffIsOff ==
    mem.up /\ task["user"] = Idle /\ ~settings.enabled =>
        \A n \in Nannies : Alive(n) /\ ~Unknown(n) => "stop" \in untold[n]

\* The engine serves a table with another certificate situation than the one there is.
OutOfDate ==
    /\ Running /\ proc[socket] = "serving"
    /\ ~InFlight(socket) /\ untold[socket] \subseteq {"stop"}
    /\ runs[socket].cert # around.cert

\* A certificate that comes or goes gets served, or the panel says why not: sync() neither
\* forgets a change that came while it applied the last nor stops at a failure in silence.  For
\* certificates that move one at a time or while a sync is out, overlapping syncs included,
\* unless two loads of them crossed (untold; README: what is lost of the others).
CertificateServed ==
    ~world.reverts /\ OutOfDate ~> ~OutOfDate \/ mem.error

\* Every call of the API and every sync comes back, whatever dies under it and whichever of the
\* other's steps fall between its own: a nanny that ends during the wait for its engine is
\* noticed, and a stop waits for something that does end.
CallsEnd ==
    \A t \in Tasks : task[t] # Idle ~> task[t] = Idle

=============================================================================
