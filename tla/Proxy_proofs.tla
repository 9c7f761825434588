----------------------------- MODULE Proxy_proofs -----------------------------
(***************************************************************************)
(* Proofs about the reverse proxy, for any number of engines, calls and    *)
(* syncs that overlap: at most one engine, always on record; the files     *)
(* follow what it serves; off is off.                                      *)
(***************************************************************************)
EXTENDS Proxy, TLAPS

(* The inductive invariant *)

\* What a call sends is a whole table, but for the first load of a certificate asked for again.
SendsWhole ==
    \A t \in DOMAIN task : task[t].at \in {"posting", "loaded"} =>
        \/ task[t].kind \in {"apply", "revert"} /\ task[t].rev \in Revision
        \/ task[t].kind = "retry" /\ task[t].rev = Staged

\* No call survives the panel, and only the API's start or stop the engine.
CallsPlaced ==
    /\ ~mem.up => \A t \in DOMAIN task : task[t] = Idle
    /\ \A t \in Ticks : task[t].at \notin {"starting", "ready", "stop", "stopWait"}

\* The state file names the engine that comes up, serves or ends under its nanny.
NannyRecorded == \A n \in Nannies : proc[n] \in {"booting", "serving", "ending"} => disk.record = n

\* A start waits for what it spawned, with nothing beside it; it spawned over nothing that a
\* record would have named; a stop ends what is on record.
StartsAlone ==
    LET c == task["user"]
    IN  /\ \A n \in Nannies : proc[n] = "spawned" => c.at = "ready" /\ mem.handle = n
        /\ c.at = "starting" => \A n \in Nannies : proc[n] \in {"unborn", "gone", "orphan"}
        /\ c.at = "ready" => \A n \in Nannies : Alive(n) => n = c.target
        /\ c.at \in {"stop", "stopWait"} => c.target = disk.record

OrphansAllowed == \A n \in Nannies : proc[n] = "orphan" => world.orphan

Engines == NannyRecorded /\ StartsAlone /\ OrphansAllowed /\ OneEngine

\* The socket is a bound engine's; what a call had loaded, the engine runs, unless it crossed
\* the load of another text.
LoadsAnswered ==
    /\ socket # 0 => Bound(socket)
    /\ \A t \in DOMAIN task : task[t].at = "loaded" =>
        LET c == task[t]
        IN  /\ c.target \in Nannies /\ proc[c.target] \notin {"unborn", "spawned", "booting"}
            /\ \A n \in Nannies : Alive(n) => n = c.target
            /\ Takes(c.rev)
            /\ Bound(c.target) /\ ~c.crossed => runs[c.target] = c.rev
            /\ \A u \in DOMAIN task \ {t} : task[u].at = "loaded" =>
                  c.crossed \/ task[u].rev = c.rev

\* An engine that comes up has a start to answer, and no load.
ComesUpFresh ==
    \A n \in Nannies : proc[n] \in {"spawned", "booting"} =>
        "start" \in untold[n] /\ \A t \in DOMAIN task : task[t].at # "loaded"

\* FilesFollowEngine, from the moment the engine is up.
FilesFollow ==
    \A n \in Nannies : Serving(n) /\ disk.record = n /\ ~InFlight(n) /\ "load" \notin untold[n] =>
        /\ disk.config = runs[n] /\ Takes(disk.config)
        /\ "start" \in untold[n] \/ disk.applied

\* Switched off, nothing comes up, and what is alive has a stop under way or that died.
OffStops ==
    ~settings.enabled =>
        /\ task["user"].at \notin {"starting", "ready"}
        /\ task["user"].at \in {"stop", "stopWait"}
           \/ \A n \in Nannies : Alive(n) /\ ~Unknown(n) => "stop" \in untold[n]

IInv == /\ TypeOK /\ world \in Worlds /\ SendsWhole /\ CallsPlaced /\ Engines
        /\ LoadsAnswered /\ ComesUpFresh /\ FilesFollow /\ OffStops

\* An engine whose nanny may be killed over it holds cap_net_bind_service: its port is never
\* traced to a record that names nobody.
OrphansAreCapped == \A w \in Worlds : w.orphan => w.capped

-----------------------------------------------------------------------------
(* Helpers.                                                                *)

\* A call is the API's or a tick's, and which it is can be told.
LEMMA TasksAre ==
  ASSUME ProxyAssumption
  PROVE  /\ "user" \in Tasks /\ "user" \notin Ticks
         /\ \A t \in Tasks : t = "user" \/ t \in Ticks
         /\ \A t \in Ticks : t \in Tasks /\ t # "user"
  BY DEF ProxyAssumption, Tasks

LEMMA IdleType ==
  ASSUME ProxyAssumption
  PROVE  /\ Idle \in Call /\ Idle.at = "idle"
         /\ \A who \in {"button", "patch", "boot", "tick"} : By(who) \in Call /\ By(who).at = "idle"
  <1>1. 0 \in 0 .. MaxNannies
    BY DEF ProxyAssumption
  <1>2. Idle \in Call /\ Idle.at = "idle"
    BY <1>1 DEF Idle, Call
  <1>3. ASSUME NEW who \in {"button", "patch", "boot", "tick"}
        PROVE  By(who) \in Call /\ By(who).at = "idle"
    BY <1>1, <1>3 DEF Idle, Call, By
  <1> QED BY <1>2, <1>3

LEMMA RenderingType ==
  ASSUME TypeOK, NEW table \in Tables
  PROVE  Rendering(table) \in Revision /\ Rendered \in Revision
  BY DEF TypeOK, Rendering, Rendered, Revision

\* One call is another: every other one stays what it was.
LEMMA Moved ==
  ASSUME TypeOK, NEW t \in Tasks, NEW d \in Call, task' = [task EXCEPT ![t] = d]
  PROVE  /\ task' \in [Tasks -> Call]
         /\ task'[t] = d /\ \A u \in Tasks \ {t} : task'[u] = task[u]
  BY DEF TypeOK

LEMMA SyncEndsType ==
  ASSUME ProxyAssumption, NEW c \in Call, NEW m \in Memory
  PROVE  \A r \in {SyncEnds(TRUE, c, m), SyncEnds(FALSE, c, m)} :
            r \in Memory /\ r.up = m.up /\ r.handle = m.handle
  <1>1. m.failures \in 0 .. MaxFailures /\ MaxFailures \in Nat \ {0} /\ c.seen \in Certs \cup {"none"}
    BY DEF Memory, Call, ProxyAssumption
  <1>2. (IF m.failures = MaxFailures THEN MaxFailures ELSE m.failures + 1) \in 0 .. MaxFailures
    BY <1>1
  <1>3. SyncEnds(TRUE, c, m) = [m EXCEPT !.signature = c.seen, !.failures = 0]
    BY DEF SyncEnds
  <1>4. [m EXCEPT !.signature = c.seen, !.failures = 0] \in Memory
    <2>1. 0 \in 0 .. MaxFailures
      BY <1>1
    <2> QED BY <1>1, <2>1 DEF Memory
  <1> DEFINE failed == IF m.failures = MaxFailures THEN MaxFailures ELSE m.failures + 1
  <1>5. SyncEnds(FALSE, c, m) = [m EXCEPT !.failures = failed, !.error = TRUE,
                                          !.signature = IF failed = MaxFailures THEN c.seen ELSE @]
    BY DEF SyncEnds
  <1>6. SyncEnds(FALSE, c, m) \in Memory /\ SyncEnds(FALSE, c, m).up = m.up
        /\ SyncEnds(FALSE, c, m).handle = m.handle
    <2> HIDE DEF failed
    <2>1. failed \in 0 .. MaxFailures
      BY <1>2 DEF failed
    <2> QED BY <1>1, <1>5, <2>1 DEF Memory
  <1>7. [m EXCEPT !.signature = c.seen, !.failures = 0].up = m.up
        /\ [m EXCEPT !.signature = c.seen, !.failures = 0].handle = m.handle
    BY DEF Memory
  <1> QED BY <1>3, <1>4, <1>6, <1>7

\* A call that ends, well or not, leaves the memory a memory of the same panel and handle.
Settles(t, m) ==
    /\ task' = [task EXCEPT ![t] = Idle]
    /\ mem' \in Memory /\ mem'.up = m.up /\ mem'.handle = m.handle

LEMMA ReturnsSettles ==
  ASSUME ProxyAssumption, NEW t \in Tasks, NEW c \in Call, NEW m \in Memory,
         Returns(t, c, m)
  PROVE  Settles(t, m)
  BY SyncEndsType DEF Returns, Settles

LEMMA ThrowsSettles ==
  ASSUME ProxyAssumption, TypeOK, NEW t \in Tasks, NEW m \in Memory, Throws(t, m)
  PROVE  Settles(t, m)
  <1>1. task[t] \in Call
    BY DEF TypeOK
  <1>2. CASE t \in Ticks
    BY <1>1, <1>2, SyncEndsType DEF Throws, Settles
  <1>3. CASE t \notin Ticks
    BY <1>1, <1>3 DEF Throws, Settles, Memory
  <1> QED BY <1>2, <1>3

\* What apply() comes to in its first turn: it returns, or posts a whole table.
LEMMA AppliesShape ==
  ASSUME ProxyAssumption, TypeOK, NEW t \in Tasks, NEW c \in Call, NEW m \in Memory,
         NEW rev \in Revision, Applies(t, c, m, rev)
  PROVE  /\ mem' \in Memory /\ mem'.up = m.up /\ mem'.handle = m.handle
         /\ \E d \in Call :
              /\ task' = [task EXCEPT ![t] = d]
              /\ d = Idle \/ (d.at = "posting" /\ d.kind = "apply" /\ d.rev \in Revision)
  <1> DEFINE found == [m EXCEPT !.admin = @ \/ disk.admin]
             d == [c EXCEPT !.at = "posting", !.kind = "apply", !.rev = rev]
  <1>1. found \in Memory /\ found.up = m.up /\ found.handle = m.handle
    BY DEF Memory
  <1>2. [found EXCEPT !.error = FALSE] \in Memory
    BY <1>1 DEF Memory
  <1>3. d \in Call /\ d.at = "posting" /\ d.kind = "apply" /\ d.rev = rev
    BY DEF Call
  <1>4. CASE ~found.admin
    BY <1>4, ReturnsSettles, IdleType DEF Applies, Settles
  <1>5. CASE found.admin /\ disk.config = rev /\ c.kind # "retry"
    <2>1. Settles(t, [found EXCEPT !.error = FALSE])
      BY <1>2, <1>5, ReturnsSettles DEF Applies
    <2>2. [found EXCEPT !.error = FALSE].up = m.up /\ [found EXCEPT !.error = FALSE].handle = m.handle
      BY <1>1 DEF Memory
    <2> QED BY <2>1, <2>2, IdleType DEF Settles
  <1>6. CASE found.admin /\ ~(disk.config = rev /\ c.kind # "retry")
    BY <1>1, <1>3, <1>6 DEF Applies, Posts
  <1> QED BY <1>4, <1>5, <1>6

\* At most one engine is alive; the state file names it while its nanny is.
LEMMA Sole ==
  ASSUME IInv, NEW n \in Nannies, Alive(n)
  PROVE  \A k \in Nannies : k # n => proc[k] \in {"unborn", "gone"}
  BY DEF IInv, Engines, OneEngine, Alive

LEMMA BoundIsAlive ==
  ASSUME TypeOK, NEW n \in 0 .. MaxNannies, Bound(n)
  PROVE  n \in Nannies /\ Alive(n) /\ proc[n] \in {"serving", "orphan", "ending"}
  BY ProxyAssumption DEF TypeOK, Bound, Alive, Nannies

Safe == /\ world \in Worlds /\ SendsWhole /\ CallsPlaced /\ Engines
        /\ LoadsAnswered /\ ComesUpFresh /\ FilesFollow /\ OffStops

NoneSpawned == \A n \in Nannies : proc[n] # "spawned"

\* A call that is not waiting for a load goes on to d, or comes back, and leaves the engine and
\* the files alone.
GoesOnTo(t, d) ==
    /\ task' = [task EXCEPT ![t] = d]
    /\ task[t].at # "loaded"
    /\ UNCHANGED <<world, disk, proc, runs, socket, untold>>
    /\ mem'.up
    /\ NoneSpawned \/ (t \in Ticks /\ mem'.handle = mem.handle)
    /\ \/ d = Idle
       \/ d.at = "posting" /\ \/ d.kind \in {"apply", "revert"} /\ d.rev \in Revision
                              \/ d.kind = "retry" /\ d.rev = Staged
       \/ /\ t = "user" /\ d.at = "starting" /\ settings'.enabled
          /\ \A n \in Nannies : proc[n] \in {"unborn", "gone", "orphan"}
       \/ t = "user" /\ d.at = "stop" /\ d.target = disk.record
    /\ \/ settings'.enabled
       \/ d.at = "stop"
       \/ /\ settings'.enabled = settings.enabled
          /\ t = "user" => task[t].at \notin {"stop", "stopWait"}

LEMMA GoesOnKeeps ==
  ASSUME ProxyAssumption, IInv, NEW t \in Tasks, NEW d \in Call, GoesOnTo(t, d)
  PROVE  Safe'
  <1>0. /\ TypeOK /\ world' \in Worlds
        /\ task \in [Tasks -> Call] /\ task' \in [Tasks -> Call]
        /\ task'[t] = d /\ \A u \in Tasks \ {t} : task'[u] = task[u]
    BY Moved DEF IInv, TypeOK, GoesOnTo
  <1>a. d.at \in {"idle", "posting", "starting", "stop"}
    BY IdleType DEF GoesOnTo
  <1>1. SendsWhole'
    BY <1>0, IdleType DEF IInv, SendsWhole, GoesOnTo
  <1>2. CallsPlaced'
    BY <1>0, IdleType DEF IInv, CallsPlaced, GoesOnTo
  <1>3. Engines'
    <2>1. NannyRecorded' /\ OrphansAllowed' /\ OneEngine'
      BY DEF IInv, Engines, NannyRecorded, OrphansAllowed, OneEngine, Alive, GoesOnTo
    <2>2. StartsAlone'
      <3>1. CASE t = "user"
        BY <1>0, <1>a, <3>1, IdleType DEF IInv, Engines, StartsAlone, GoesOnTo, NoneSpawned
      <3>2. CASE t \in Ticks
        BY <1>0, <3>2 DEF IInv, Engines, StartsAlone, GoesOnTo, NoneSpawned, Alive
      <3> QED BY TasksAre, <3>1, <3>2
    <2> QED BY <2>1, <2>2 DEF Engines
  <1>4. LoadsAnswered' /\ ComesUpFresh'
    <2>1. \A u \in Tasks : task'[u].at = "loaded" => u # t /\ task'[u] = task[u]
      BY <1>0, <1>a
    <2>2. \A n \in Nannies : Alive(n)' = Alive(n)
      BY DEF Alive, GoesOnTo
    <2>3. \A n \in 0 .. MaxNannies : Bound(n)' = Bound(n)
      BY DEF Bound, GoesOnTo
    <2>4. LoadsAnswered'
      <3>1. proc' = proc /\ runs' = runs /\ socket' = socket /\ DOMAIN task' = DOMAIN task
        BY <1>0 DEF GoesOnTo
      <3>2. LoadsAnswered /\ 0 \in 0 .. MaxNannies /\ DOMAIN task = Tasks /\ socket \in 0 .. MaxNannies
        <4>1. DOMAIN task = Tasks
          BY <1>0
        <4>2. socket \in 0 .. MaxNannies
          BY <1>0 DEF TypeOK
        <4> QED BY <4>1, <4>2, ProxyAssumption DEF IInv
      <3>3. (socket # 0 => Bound(socket))'
        BY <2>3, <3>1, <3>2 DEF LoadsAnswered, Bound
      <3>4. ASSUME NEW u \in Tasks, task'[u].at = "loaded"
            PROVE  /\ task'[u] = task[u] /\ task[u].at = "loaded" /\ task[u].target \in Nannies
                   /\ Bound(task[u].target)' = Bound(task[u].target)
        BY <2>1, <2>3, <3>2, <3>4 DEF LoadsAnswered, Nannies
      <3>5. ASSUME NEW u \in Tasks, task'[u].at = "loaded"
            PROVE  LET c == task[u]
                   IN  /\ c.target \in Nannies /\ proc'[c.target] \notin {"unborn", "spawned", "booting"}
                       /\ \A n \in Nannies : Alive(n)' => n = c.target
                       /\ Takes(c.rev)
                       /\ Bound(c.target)' /\ ~c.crossed => runs'[c.target] = c.rev
                       /\ \A v \in Tasks \ {u} : task[v].at = "loaded" => c.crossed \/ task[v].rev = c.rev
        BY <2>2, <3>1, <3>2, <3>4, <3>5 DEF LoadsAnswered
      <3>6. ASSUME NEW u \in Tasks, task'[u].at = "loaded", NEW v \in Tasks \ {u}, task'[v].at = "loaded"
            PROVE  task'[u].crossed \/ task'[v].rev = task'[u].rev
        BY <3>4, <3>5, <3>6
      <3> QED BY <3>1, <3>2, <3>3, <3>4, <3>5, <3>6 DEF LoadsAnswered, Takes
    <2>5. ComesUpFresh'
      BY <1>0, <2>1 DEF IInv, ComesUpFresh, GoesOnTo
    <2> QED BY <2>4, <2>5
  <1>5. FilesFollow'
    <2>1. \A n \in Nannies : InFlight(n) => InFlight(n)'
      BY <1>0 DEF InFlight, GoesOnTo
    <2> QED BY <2>1 DEF IInv, FilesFollow, Serving, GoesOnTo
  <1>6. OffStops'
    <2>1. \A n \in Nannies : Alive(n)' = Alive(n) /\ Unknown(n)' = Unknown(n)
      BY DEF Alive, Unknown, Known, GoesOnTo
    <2>2. CASE t = "user"
      BY <1>0, <1>a, <2>1, <2>2, IdleType DEF IInv, OffStops, GoesOnTo
    <2>3. CASE t \in Ticks
      BY <1>0, <2>1, <2>3, IdleType DEF IInv, OffStops, GoesOnTo
    <2> QED BY TasksAre, <2>2, <2>3
  <1> QED BY <1>0, <1>1, <1>2, <1>3, <1>4, <1>5, <1>6 DEF Safe

LEMMA NoneComesUp ==
  ASSUME IInv, task["user"].at # "ready"
  PROVE  NoneSpawned
  BY DEF IInv, Engines, StartsAlone, NoneSpawned

LEMMA InACall ==
  ASSUME IInv, NEW t \in Tasks, task[t].at # "idle"
  PROVE  mem.up /\ task[t] # Idle
  BY IdleType, ProxyAssumption DEF IInv, TypeOK, CallsPlaced

\* What throws or returns goes on to no call.
LEMMA SettlesKeeps ==
  ASSUME ProxyAssumption, IInv, NEW t \in Tasks, NEW m \in Memory, Settles(t, m),
         m.up = mem.up, m.handle = mem.handle,
         task[t].at \in {"posting", "starting"},
         UNCHANGED <<world, settings, around, disk, proc, runs, socket, calls, untold>>
  PROVE  IInv'
  <1>1. TypeOK'
    BY Moved, IdleType DEF IInv, TypeOK, Settles
  <1>2. t \in Ticks \/ NoneSpawned
    BY NoneComesUp, TasksAre
  <1>3. GoesOnTo(t, Idle)
    BY <1>2, InACall DEF GoesOnTo, Settles
  <1> QED BY <1>1, <1>3, GoesOnKeeps, IdleType DEF IInv, Safe

LEMMA ThrowsSteps ==
  ASSUME ProxyAssumption, IInv, NEW t \in Tasks,
         ApplyRefused(t) \/ PostFails(t) \/ StartRefused(t)
  PROVE  IInv'
  <1>1. mem \in Memory /\ [mem EXCEPT !.error = TRUE] \in Memory
        /\ [mem EXCEPT !.error = TRUE].up = mem.up /\ [mem EXCEPT !.error = TRUE].handle = mem.handle
    BY DEF IInv, TypeOK, Memory
  <1>2. CASE ApplyRefused(t) \/ StartRefused(t)
    <2>1. Settles(t, mem)
      BY <1>1, <1>2, ThrowsSettles DEF ApplyRefused, StartRefused, IInv
    <2> QED BY <1>1, <1>2, <2>1, SettlesKeeps DEF ApplyRefused, StartRefused
  <1>3. CASE PostFails(t)
    <2>1. Settles(t, [mem EXCEPT !.error = TRUE])
      BY <1>1, <1>3, ThrowsSettles DEF PostFails, IInv
    <2> QED BY <1>1, <1>3, <2>1, SettlesKeeps DEF PostFails
  <1> QED BY <1>2, <1>3

LEMMA StartNotReadyStep ==
  ASSUME ProxyAssumption, IInv, NEW t \in Tasks, StartNotReady(t)
  PROVE  IInv'
  <1> DEFINE d == [task[t] EXCEPT !.at = "stop", !.kind = "failed", !.target = disk.record]
  <1>1. d \in Call /\ d.at = "stop" /\ d.target = disk.record /\ task' = [task EXCEPT ![t] = d]
    <2>1. task[t] \in Call /\ disk.record \in 0 .. MaxNannies
      BY DEF IInv, TypeOK
    <2>2. d \in Call /\ d.at = "stop" /\ d.target = disk.record
      BY <2>1 DEF Call
    <2>3. task' = [task EXCEPT ![t] = d]
      BY DEF IInv, TypeOK, StartNotReady
    <2> QED BY <2>2, <2>3
  <1>2. TypeOK'
    BY <1>1, Moved DEF IInv, TypeOK, StartNotReady
  <1>3. t = "user"
    BY TasksAre DEF IInv, CallsPlaced, StartNotReady
  <1>4. NoneSpawned
    BY ProxyAssumption DEF IInv, Engines, StartsAlone, StartNotReady, NoneSpawned, Nannies
  <1>5. GoesOnTo(t, d)
    BY <1>1, <1>3, <1>4, InACall DEF GoesOnTo, StartNotReady
  <1> QED BY <1>1, <1>2, <1>5, GoesOnKeeps DEF IInv, Safe

-----------------------------------------------------------------------------
(* The calls begin.                                                        *)

\* The engine and the files are as they were, and a call that begins has the panel's memory m.
AtRest(m) ==
    /\ UNCHANGED <<world, disk, proc, runs, socket, untold>>
    /\ m \in Memory /\ m.up

CallsType == mem' \in Memory /\ task' \in [Tasks -> Call]

LEMMA AppliesBegins ==
  ASSUME ProxyAssumption, IInv, NEW t \in Tasks, NEW c \in Call, NEW m \in Memory,
         NEW rev \in Revision, Applies(t, c, m, rev), AtRest(m), task[t] = Idle,
         NoneSpawned \/ (t \in Ticks /\ m.handle = mem.handle), settings'.enabled
  PROVE  CallsType /\ Safe'
  <1>1. /\ TypeOK /\ mem' \in Memory /\ mem'.up = m.up /\ mem'.handle = m.handle
        /\ \E d \in Call :
              /\ task' = [task EXCEPT ![t] = d]
              /\ d = Idle \/ (d.at = "posting" /\ d.kind = "apply" /\ d.rev \in Revision)
    BY AppliesShape DEF IInv
  <1>2. PICK d \in Call :
              /\ task' = [task EXCEPT ![t] = d]
              /\ d = Idle \/ (d.at = "posting" /\ d.kind = "apply" /\ d.rev \in Revision)
    BY <1>1
  <1>3. GoesOnTo(t, d)
    BY <1>1, <1>2, IdleType DEF GoesOnTo, AtRest
  <1> QED BY <1>1, <1>2, <1>3, GoesOnKeeps, Moved DEF CallsType

LEMMA StartsBegins ==
  ASSUME ProxyAssumption, IInv, NEW c \in Call, NEW rev \in Revision, Starts("user", c, rev),
         AtRest(mem), task["user"] = Idle, settings'.enabled
  PROVE  CallsType /\ Safe'
  <1>0. NoneSpawned
    BY NoneComesUp, IdleType
  <1>1. CASE ~Live
    <2> DEFINE d == [c EXCEPT !.at = "starting"]
    <2>1. d \in Call /\ d.at = "starting"
      BY DEF Call
    <2>2. ASSUME NEW n \in Nannies PROVE proc[n] \in {"unborn", "gone", "orphan"}
      <3>1. proc[n] \notin {"booting", "serving", "ending"}
        BY <1>1, ProxyAssumption
        DEF IInv, Engines, NannyRecorded, Live, Recorded, NannyAlive, Nannies
      <3> QED BY <1>0, <3>1 DEF IInv, TypeOK, NoneSpawned
    <2>3. GoesOnTo("user", d)
      BY <1>0, <1>1, <2>1, <2>2, IdleType DEF Starts, GoesOnTo, AtRest
    <2> QED BY TasksAre, <1>1, <2>1, <2>3, GoesOnKeeps, Moved DEF Starts, CallsType, AtRest, IInv
  <1>2. CASE Live /\ disk.admin
    BY TasksAre, <1>0, <1>2, AppliesBegins DEF Starts, AtRest
  <1>3. CASE Live /\ ~disk.admin
    <2>1. mem' \in Memory /\ mem'.up = mem.up /\ task' = [task EXCEPT !["user"] = Idle]
      BY ZenonT(60), TasksAre, <1>3 DEF Starts, IInv, TypeOK, Memory
    <2>2. GoesOnTo("user", Idle)
      BY <1>0, <2>1, IdleType DEF GoesOnTo, AtRest
    <2> QED BY TasksAre, <2>1, <2>2, GoesOnKeeps, Moved, IdleType DEF CallsType, IInv
  <1> QED BY <1>1, <1>2, <1>3

LEMMA StopsBegins ==
  ASSUME ProxyAssumption, IInv, NEW c \in Call, Stops(c), AtRest(mem), task["user"] = Idle
  PROVE  CallsType /\ Safe'
  <1> DEFINE d == [c EXCEPT !.at = "stop", !.target = disk.record]
  <1>0. NoneSpawned
    BY NoneComesUp, IdleType
  <1>1. d \in Call /\ d.at = "stop" /\ d.target = disk.record
    BY DEF Call, IInv, TypeOK
  <1>2. GoesOnTo("user", d)
    BY <1>0, <1>1, IdleType DEF GoesOnTo, AtRest, Stops
  <1> QED BY TasksAre, <1>1, <1>2, GoesOnKeeps, Moved DEF Stops, CallsType, AtRest, IInv

LEMMA PatchStep ==
  ASSUME ProxyAssumption, IInv, Patch
  PROVE  IInv'
  <1>0. /\ TypeOK /\ AtRest(mem) /\ task["user"] = Idle
        /\ calls' \in 0 .. MaxCalls /\ By("patch") \in Call /\ NoneSpawned
    BY TasksAre, IdleType, NoneComesUp, ProxyAssumption DEF IInv, TypeOK, World, AtRest, Patch, Asks
  <1>1. PICK enabled \in BOOLEAN, table \in Tables :
          /\ settings' = [enabled |-> enabled, table |-> table]
          /\ IF ~enabled THEN Stops(By("patch"))
             ELSE IF Answering THEN Applies("user", By("patch"), mem, Rendering(table))
             ELSE Starts("user", By("patch"), Rendering(table))
    BY DEF Patch
  <1>2. Rendering(table) \in Revision
    BY <1>0, RenderingType
  <1>3. CallsType /\ Safe'
    <2>1. CASE ~enabled
      BY <1>0, <1>1, <2>1, StopsBegins
    <2>2. CASE enabled /\ Answering
      BY TasksAre, <1>0, <1>1, <1>2, <2>2, AppliesBegins DEF IInv, TypeOK
    <2>3. CASE enabled /\ ~Answering
      BY <1>0, <1>1, <1>2, <2>3, StartsBegins
    <2> QED BY <2>1, <2>2, <2>3
  <1> QED BY <1>0, <1>1, <1>3 DEF CallsType, IInv, Safe, TypeOK, AtRest, Patch, Asks

LEMMA PostsBegins ==
  ASSUME ProxyAssumption, IInv, NEW c \in Call, NEW kind \in {"revert", "retry"},
         NEW rev \in Revision \cup {Staged}, Posts("user", c, kind, rev), UNCHANGED mem,
         kind = "revert" => rev \in Revision, kind = "retry" => rev = Staged,
         AtRest(mem), task["user"] = Idle, settings' = settings
  PROVE  CallsType /\ Safe'
  <1> DEFINE d == [c EXCEPT !.at = "posting", !.kind = kind, !.rev = rev]
  <1>1. d \in Call /\ d.at = "posting" /\ d.kind = kind /\ d.rev = rev
    BY DEF Call
  <1>2. GoesOnTo("user", d)
    BY <1>1, IdleType, NoneComesUp DEF GoesOnTo, AtRest, Posts
  <1> QED BY TasksAre, <1>1, <1>2, GoesOnKeeps, Moved DEF Posts, CallsType, AtRest, IInv

LEMMA ButtonStep ==
  ASSUME ProxyAssumption, IInv, Button
  PROVE  IInv'
  <1> DEFINE c == By("button")
  <1>0. /\ TypeOK /\ AtRest(mem) /\ task["user"] = Idle /\ settings' = settings
        /\ calls' \in 0 .. MaxCalls /\ c \in Call /\ NoneSpawned
    BY TasksAre, IdleType, NoneComesUp, ProxyAssumption DEF IInv, TypeOK, World, AtRest, Button, Asks
  <1>1. Rendered \in Revision
    BY <1>0, RenderingType, ProxyAssumption DEF TypeOK
  <1>2. CallsType /\ Safe'
    <2>1. CASE settings.enabled /\ Starts("user", c, Rendered)
      BY <1>0, <1>1, <2>1, StartsBegins
    <2>2. CASE settings.enabled /\ Applies("user", c, mem, Rendered)
      BY TasksAre, <1>0, <1>1, <2>2, AppliesBegins DEF AtRest
    <2>3. CASE Stops(c)
      BY <1>0, <2>3, StopsBegins
    <2>4. CASE /\ disk.previous # Unset
               /\ Posts("user", [c EXCEPT !.saved = disk.config], "revert", disk.previous)
               /\ UNCHANGED mem
      <3>1. [c EXCEPT !.saved = disk.config] \in Call /\ disk.previous \in Revision
        BY <1>0, <2>4 DEF TypeOK, Call
      <3> QED BY <1>0, <2>4, <3>1, PostsBegins
    <2>5. CASE Posts("user", c, "retry", Staged) /\ UNCHANGED mem
      BY <1>0, <2>5, PostsBegins
    <2>6. CASE settings.enabled /\ Applies("user", [c EXCEPT !.kind = "retry"], mem, Rendered)
      <3>1. [c EXCEPT !.kind = "retry"] \in Call
        BY <1>0 DEF Call
      <3> QED BY TasksAre, <1>0, <1>1, <2>6, <3>1, AppliesBegins DEF AtRest
    <2> QED BY <2>1, <2>2, <2>3, <2>4, <2>5, <2>6 DEF Button
  <1> QED BY <1>0, <1>2 DEF CallsType, IInv, Safe, TypeOK, AtRest, Button, Asks

LEMMA SyncStep ==
  ASSUME ProxyAssumption, IInv, NEW t \in Ticks, Sync(t)
  PROVE  IInv'
  <1> DEFINE c == [By("tick") EXCEPT !.seen = around.cert]
  <1>0. t \in Tasks /\ TypeOK /\ AtRest(mem) /\ task[t] = Idle /\ settings' = settings /\ settings.enabled
    BY DEF IInv, TypeOK, AtRest, Sync, Running, Tasks
  <1>1. CASE mem.signature = "none"
    <2>1. mem' \in Memory /\ mem'.up /\ mem'.handle = mem.handle
      BY <1>0, <1>1 DEF Sync, TypeOK, Memory
    <2>2. task' = [task EXCEPT ![t] = Idle] /\ task' = task
      BY <1>0, <1>1 DEF Sync, TypeOK
    <2>3. GoesOnTo(t, Idle)
      BY <1>0, <2>1, <2>2, IdleType DEF GoesOnTo, AtRest
    <2> QED BY <1>0, <2>1, <2>2, <2>3, IdleType, GoesOnKeeps DEF Sync, IInv, Safe, TypeOK
  <1>2. CASE mem.signature # "none"
    <2>1. c \in Call /\ Rendered \in Revision
      BY <1>0, IdleType, RenderingType DEF TypeOK, Call
    <2>2. Applies(t, c, mem, Rendered) /\ mem \in Memory /\ settings'.enabled
      BY <1>0, <1>2 DEF Sync, TypeOK
    <2> HIDE DEF c
    <2>3. CallsType /\ Safe'
      BY <1>0, <2>1, <2>2, AppliesBegins
    <2> QED BY <1>0, <2>3 DEF CallsType, Sync, IInv, Safe, TypeOK
  <1> QED BY <1>1, <1>2

LEMMA BootsStep ==
  ASSUME ProxyAssumption, IInv, Boots
  PROVE  IInv'
  <1> DEFINE m == [NoMemory EXCEPT !.up = TRUE, !.admin = disk.admin]
             c == By("boot")
             rev == [Rendered EXCEPT !.up = FALSE]
  <1>0. /\ TypeOK /\ task["user"] = Idle /\ settings' = settings /\ c \in Call /\ NoneSpawned
        /\ around' \in [cert: Certs, up: BOOLEAN]
    BY TasksAre, IdleType, NoneComesUp DEF IInv, TypeOK, CallsPlaced, Boots
  <1>1. m \in Memory /\ m.up /\ m.handle = 0
    <2>1. 0 \in 0 .. MaxNannies /\ 0 \in 0 .. MaxFailures
      BY ProxyAssumption
    <2>2. disk.admin \in BOOLEAN
      BY <1>0 DEF TypeOK
    <2> QED BY <2>1, <2>2 DEF Memory, NoMemory
  <1>2. AtRest(m) /\ rev \in Revision
    BY <1>0, <1>1, RenderingType, ProxyAssumption DEF AtRest, Boots, TypeOK, Revision
  <1>3. CallsType /\ Safe'
    <2>1. CASE ~settings.enabled
      <3>1. task' = [task EXCEPT !["user"] = Idle] /\ mem' = m
        BY <1>0, <2>1 DEF Boots, TypeOK
      <3>2. GoesOnTo("user", Idle)
        BY <1>0, <1>1, <3>1, IdleType DEF GoesOnTo, Boots
      <3> QED BY TasksAre, <1>0, <1>1, <3>1, <3>2, IdleType, GoesOnKeeps, Moved DEF CallsType
    <2>2. CASE settings.enabled /\ Live
      BY TasksAre, <1>0, <1>2, <2>2, AppliesBegins DEF Boots, AtRest
    <2>3. CASE settings.enabled /\ ~Live
      <3> DEFINE d == [c EXCEPT !.at = "starting"]
      <3>1. d \in Call /\ d.at = "starting"
        BY <1>0 DEF Call
      <3>2. ASSUME NEW n \in Nannies PROVE proc[n] \in {"unborn", "gone", "orphan"}
        <4>1. proc[n] \notin {"booting", "serving", "ending"}
          BY <2>3, ProxyAssumption
          DEF IInv, Engines, NannyRecorded, Live, Recorded, NannyAlive, Nannies
        <4> QED BY <1>0, <4>1 DEF TypeOK, NoneSpawned
      <3>3. task' = [task EXCEPT !["user"] = d] /\ mem' = m
        BY <2>3 DEF Boots
      <3>4. GoesOnTo("user", d)
        BY <1>0, <1>1, <2>3, <3>1, <3>2, <3>3, IdleType DEF GoesOnTo, Boots
      <3> QED BY TasksAre, <1>0, <1>1, <3>1, <3>3, <3>4, GoesOnKeeps, Moved DEF CallsType
    <2> QED BY <2>1, <2>2, <2>3
  <1> QED BY <1>0, <1>2, <1>3 DEF CallsType, IInv, Safe, TypeOK, AtRest, Boots

-----------------------------------------------------------------------------
(* Loads and their answers.                                                *)

LEMMA LoadsStep ==
  ASSUME ProxyAssumption, IInv, NEW t \in Tasks, Loads(t)
  PROVE  IInv'
  <1> DEFINE others == {k \in Tasks \ {t} : task[k].at = "loaded" /\ task[k].rev # task[t].rev}
  <1>e. PICK e \in Nannies : e = socket /\ Alive(e) /\ proc[e] \in {"serving", "orphan", "ending"}
    BY BoundIsAlive DEF IInv, TypeOK, Loads, Reachable
  <1>0. /\ TypeOK /\ DOMAIN task = Tasks /\ task \in [Tasks -> Call]
        /\ task[t] \in Call /\ e \in 0 .. MaxNannies /\ Takes(task[t].rev)
        /\ task[t].at = "posting" /\ proc' = proc /\ socket' = socket /\ disk' = disk
    BY <1>e, ProxyAssumption DEF IInv, TypeOK, Loads, Nannies
  <1>1. /\ task'[t] = [task[t] EXCEPT !.at = "loaded", !.target = e, !.crossed = others # {}]
        /\ \A k \in others : task'[k] = [task[k] EXCEPT !.crossed = TRUE]
        /\ \A k \in Tasks \ {t} : k \notin others => task'[k] = task[k]
        /\ DOMAIN task' = Tasks
    BY <1>0, <1>e DEF Loads
  <1>2. /\ task'[t] \in Call /\ task'[t].at = "loaded" /\ task'[t].target = e
        /\ task'[t].kind = task[t].kind /\ task'[t].rev = task[t].rev
        /\ task'[t].crossed = (others # {})
    BY <1>0, <1>1 DEF Call
  <1>3. \A k \in others :
            /\ task'[k] \in Call /\ task'[k].at = task[k].at /\ task'[k].target = task[k].target
            /\ task'[k].kind = task[k].kind /\ task'[k].rev = task[k].rev /\ task'[k].crossed
    <2> SUFFICES ASSUME NEW k \in others
                 PROVE  /\ task'[k] \in Call /\ task'[k].at = task[k].at /\ task'[k].target = task[k].target
                        /\ task'[k].kind = task[k].kind /\ task'[k].rev = task[k].rev /\ task'[k].crossed
      OBVIOUS
    <2>1. task[k] \in Call /\ task'[k] = [task[k] EXCEPT !.crossed = TRUE]
      BY <1>0, <1>1
    <2> HIDE DEF others
    <2> QED BY <2>1 DEF Call
  <1>4. task' \in [Tasks -> Call]
    <2>1. \A k \in Tasks : task'[k] \in Call
      BY <1>0, <1>1, <1>2, <1>3
    <2> QED BY <1>0, <2>1 DEF Loads
  <1>5. /\ task[t].rev \in Revision \cup {Staged}
        /\ mem.up /\ (task[t].kind \in {"apply", "revert"} => task[t].rev \in Revision)
        /\ task[t].kind \in {"apply", "revert"} \/ (task[t].kind = "retry" /\ task[t].rev = Staged)
    BY <1>0, InACall DEF IInv, SendsWhole, Loads
  <1>6. runs' = [runs EXCEPT ![e] = task[t].rev]
    BY <1>e DEF Loads
  <1>7. TypeOK'
    <2>1. runs' \in [Nannies -> Revision \cup {Unset, Staged}]
      BY <1>0, <1>5, <1>6 DEF TypeOK
    <2> QED BY <1>0, <1>4, <2>1 DEF TypeOK, Loads
  <1>8. SendsWhole' /\ CallsPlaced'
    <2>1. SendsWhole'
      <3> SUFFICES ASSUME NEW k \in Tasks, task'[k].at \in {"posting", "loaded"}
                   PROVE  \/ task'[k].kind \in {"apply", "revert"} /\ task'[k].rev \in Revision
                          \/ task'[k].kind = "retry" /\ task'[k].rev = Staged
        BY <1>1 DEF SendsWhole
      <3>1. task'[k].kind = task[k].kind /\ task'[k].rev = task[k].rev
        BY <1>1, <1>2, <1>3
      <3>2. task[k].at \in {"posting", "loaded"}
        BY <1>0, <1>1, <1>2, <1>3
      <3> QED BY <1>0, <3>1, <3>2 DEF IInv, SendsWhole
    <2>2. mem' = mem /\ \A u \in Ticks : task'[u].at \in {"loaded", task[u].at}
      BY <1>1, <1>2, <1>3 DEF Loads, Tasks
    <2> QED BY <1>5, <2>1, <2>2 DEF IInv, CallsPlaced
  <1>9. Engines'
    <2>1. NannyRecorded' /\ OrphansAllowed' /\ OneEngine'
      BY DEF IInv, Engines, NannyRecorded, OrphansAllowed, OneEngine, Alive, Loads
    <2>2. task'["user"] = task["user"] \/ task'["user"].at = "loaded"
      BY TasksAre, <1>0, <1>1, <1>2, <1>3
    <2>3. NoneSpawned
      BY <1>0, <1>e, Sole DEF NoneSpawned
    <2>4. StartsAlone'
      BY <1>0, <2>2, <2>3 DEF IInv, Engines, StartsAlone, Alive, NoneSpawned
    <2> QED BY <2>1, <2>4 DEF Engines
  <1>10. LoadsAnswered'
    <2>1. socket' # 0 => Bound(socket)'
      BY DEF IInv, LoadsAnswered, Bound, Loads
    <2>2. \A n \in Nannies : Alive(n)' => n = e
      BY <1>0, <1>e, Sole DEF Alive, Loads
    <2>3. ASSUME NEW k \in Tasks, task'[k].at = "loaded"
          PROVE  /\ task'[k].target = e
                 /\ Takes(task'[k].rev)
                 /\ ~task'[k].crossed => runs'[e] = task'[k].rev
                 /\ \A u \in Tasks \ {k} : task'[u].at = "loaded" =>
                        task'[k].crossed \/ task'[u].rev = task'[k].rev
      <3>1. CASE k = t
        <4>1. runs'[e] = task[t].rev
          BY <1>0, <1>6 DEF TypeOK
        <4>2. ASSUME NEW u \in Tasks \ {k}, task'[u].at = "loaded"
              PROVE  others # {} \/ task'[u].rev = task'[k].rev
          <5>1. u \in others \/ (task'[u] = task[u] /\ task[u].rev = task[t].rev)
            BY <1>1, <3>1, <4>2
          <5> QED BY <1>2, <3>1, <5>1
        <4> QED BY <1>0, <1>2, <3>1, <4>1, <4>2
      <3>2. CASE k # t
        <4>1. task[k].at = "loaded"
          BY <1>1, <1>3, <2>3, <3>2
        <4>2. /\ task[k].target = e /\ Takes(task[k].rev)
              /\ \A u \in Tasks \ {k} : task[u].at = "loaded" =>
                     task[k].crossed \/ task[u].rev = task[k].rev
          <5>1. k \in DOMAIN task
            BY <1>0
          <5>2. /\ (\A n \in Nannies : Alive(n) => n = task[k].target) /\ Takes(task[k].rev)
                /\ \A u \in DOMAIN task \ {k} : task[u].at = "loaded" =>
                       task[k].crossed \/ task[u].rev = task[k].rev
            BY <4>1, <5>1 DEF IInv, LoadsAnswered
          <5> QED BY <1>0, <1>e, <5>2
        <4>3. CASE k \in others
          BY <1>3, <4>2, <4>3
        <4>4. CASE k \notin others
          <5>1. task'[k] = task[k] /\ task[k].rev = task[t].rev
            BY <1>1, <3>2, <4>1, <4>4
          <5>2. runs'[e] = task[t].rev
            BY <1>0, <1>6 DEF TypeOK
          <5>3. ASSUME NEW u \in Tasks \ {k}, task'[u].at = "loaded"
                PROVE  task'[k].crossed \/ task'[u].rev = task'[k].rev
            <6>1. u = t \/ (task[u].at = "loaded" /\ task'[u].rev = task[u].rev)
              BY <1>1, <1>3, <5>3
            <6> QED BY <1>2, <4>2, <5>1, <6>1
          <5> QED BY <4>2, <5>1, <5>2, <5>3
        <4> QED BY <4>3, <4>4
      <3> QED BY <3>1, <3>2
    <2>4. proc'[e] \notin {"unborn", "spawned", "booting"}
      BY <1>0, <1>e
    <2> QED BY <1>1, <2>1, <2>2, <2>3, <2>4 DEF LoadsAnswered, Takes
  <1>11. ComesUpFresh'
    <2>1. \A n \in Nannies : proc'[n] \notin {"spawned", "booting"}
      BY <1>0, <1>e, Sole DEF Loads
    <2> QED BY <2>1 DEF ComesUpFresh
  <1>12. FilesFollow'
    <2>1. InFlight(e)'
      BY <1>1, <1>2 DEF InFlight
    <2>2. \A n \in Nannies : Serving(n)' => n = e
      BY <1>0, <1>e, Sole DEF Serving
    <2> QED BY <2>1, <2>2 DEF FilesFollow
  <1>13. OffStops'
    <2>1. /\ task["user"].at \in {"starting", "ready", "stop", "stopWait"}
               <=> task'["user"].at \in {"starting", "ready", "stop", "stopWait"}
          /\ task'["user"].at \in {"starting", "ready", "stop", "stopWait"} => task'["user"] = task["user"]
      BY TasksAre, <1>0, <1>1, <1>2, <1>3 DEF Loads
    <2> QED BY <2>1 DEF IInv, OffStops, Alive, Unknown, Known, Loads
  <1> QED BY <1>7, <1>8, <1>9, <1>10, <1>11, <1>12, <1>13 DEF IInv, Loads

\* A call whose load was answered, or whose answer was lost, comes back or posts again, and
\* says what it heard.
Answered(t, d, told) ==
    LET n == task[t].target
    IN  /\ task[t].at = "loaded"
        /\ task' = [task EXCEPT ![t] = d]
        /\ d = Idle \/ (d.at = "posting" /\ d.kind = "apply" /\ d.rev \in Revision)
        /\ mem' \in Memory /\ mem'.up = mem.up /\ mem'.handle = mem.handle
        /\ untold' = [untold EXCEPT ![n] = told]
        /\ "stop" \in untold[n] => "stop" \in told
        /\ disk'.record = disk.record
        /\ Serving(n) /\ disk.record = n /\ "load" \notin told =>
              disk'.config = runs[n] /\ Takes(disk'.config) /\ ("start" \in told \/ disk'.applied)
        /\ UNCHANGED <<world, settings, around, proc, runs, socket, calls>>

LEMMA AnsweredKeeps ==
  ASSUME ProxyAssumption, IInv, NEW t \in Tasks, NEW d \in Call,
         NEW told \in SUBSET Reasons, Answered(t, d, told),
         disk' \in [config: Revision \cup {Unset}, previous: Revision \cup {Unset},
                    admin: BOOLEAN, applied: BOOLEAN, record: 0 .. MaxNannies]
  PROVE  IInv'
  <1> DEFINE e == task[t].target
  <1>0. /\ TypeOK /\ DOMAIN task = Tasks /\ DOMAIN task' = Tasks
        /\ task' \in [Tasks -> Call]
        /\ task'[t] = d /\ \A u \in Tasks \ {t} : task'[u] = task[u]
    BY Moved DEF IInv, TypeOK, Answered
  <1>1. /\ e \in Nannies /\ proc[e] \notin {"unborn", "spawned", "booting"}
        /\ \A n \in Nannies : Alive(n) => n = e
    BY <1>0 DEF IInv, LoadsAnswered, Answered
  <1>2. d.at \in {"idle", "posting"}
    BY IdleType DEF Answered
  <1>3. /\ mem.up /\ proc' = proc /\ socket' = socket /\ runs' = runs /\ settings' = settings
        /\ disk'.record = disk.record /\ world' = world /\ task[t].at = "loaded"
    BY InACall DEF Answered
  <1>4. \A n \in Nannies : proc[n] \notin {"spawned", "booting"}
    BY <1>1 DEF Alive
  <1>5. TypeOK'
    BY <1>0, <1>1 DEF TypeOK, Answered
  <1>6. SendsWhole'
    BY <1>0, IdleType DEF IInv, SendsWhole, Answered
  <1>7. CallsPlaced'
    BY <1>0, <1>2, <1>3 DEF IInv, CallsPlaced, Answered
  <1>8. Engines'
    <2>1. NannyRecorded' /\ OrphansAllowed' /\ OneEngine'
      BY <1>3 DEF IInv, Engines, NannyRecorded, OrphansAllowed, OneEngine, Alive
    <2>2. task'["user"] = task["user"] \/ task'["user"].at \in {"idle", "posting"}
      BY TasksAre, <1>0, <1>2
    <2>3. StartsAlone'
      BY <1>3, <1>4, <2>2 DEF IInv, Engines, StartsAlone, Alive
    <2> QED BY <2>1, <2>3 DEF Engines
  <1>9. LoadsAnswered'
    <2>1. \A u \in Tasks : task'[u].at = "loaded" => u # t /\ task'[u] = task[u]
      BY <1>0, <1>2
    <2>2. \A n \in Nannies : Alive(n)' = Alive(n)
      BY <1>3 DEF Alive
    <2>3. \A n \in 0 .. MaxNannies : Bound(n)' = Bound(n)
      BY <1>3 DEF Bound
    <2> QED BY SMTT(30), TasksAre, <1>0, <1>3, <2>1, <2>2, <2>3
    DEF IInv, TypeOK, LoadsAnswered, Nannies
  <1>10. ComesUpFresh'
    BY <1>3, <1>4 DEF ComesUpFresh
  <1>11. FilesFollow'
    <2>1. \A n \in Nannies : Serving(n)' => n = e /\ Serving(n)
      BY <1>1, <1>3 DEF Serving, Alive
    <2>2. untold'[e] = told
      BY <1>0, <1>1 DEF Answered, TypeOK
    <2> QED BY <1>3, <2>1, <2>2 DEF FilesFollow, Answered
  <1>12. OffStops'
    <2>1. \A n \in Nannies : Alive(n)' = Alive(n) /\ Unknown(n)' = Unknown(n)
      BY <1>3 DEF Alive, Unknown, Known
    <2>2. \A n \in Nannies : "stop" \in untold[n] => "stop" \in untold'[n]
      BY <1>0 DEF Answered, TypeOK
    <2>3. \/ task'["user"] = task["user"]
          \/ task["user"].at = "loaded" /\ task'["user"].at \in {"idle", "posting"}
      BY TasksAre, <1>0, <1>2, <1>3
    <2> QED BY <1>3, <2>1, <2>2, <2>3 DEF IInv, OffStops
  <1>13. world' \in Worlds
    BY <1>3 DEF IInv
  <1> QED BY <1>5, <1>6, <1>7, <1>8, <1>9, <1>10, <1>11, <1>12, <1>13 DEF IInv

LEMMA AnswerLostStep ==
  ASSUME ProxyAssumption, IInv, NEW t \in Tasks, AnswerLost(t)
  PROVE  IInv'
  <1> DEFINE n == task[t].target
             told == IF Bound(n) THEN untold[n] \cup {"load"} ELSE untold[n]
  <1>1. TypeOK /\ n \in Nannies
    BY DEF IInv, TypeOK, LoadsAnswered, AnswerLost
  <1>2. told \in SUBSET Reasons /\ ("stop" \in untold[n] => "stop" \in told)
    BY <1>1 DEF TypeOK, Reasons
  <1>3. [mem EXCEPT !.error = TRUE] \in Memory
        /\ [mem EXCEPT !.error = TRUE].up = mem.up /\ [mem EXCEPT !.error = TRUE].handle = mem.handle
    BY <1>1 DEF TypeOK, Memory
  <1>4. Settles(t, [mem EXCEPT !.error = TRUE])
    BY <1>1, <1>3, ThrowsSettles DEF AnswerLost
  <1>5. Serving(n) => "load" \in told
    BY <1>1, ProxyAssumption DEF Serving, Bound, Nannies
  <1>6. untold' = [untold EXCEPT ![n] = told]
    BY DEF AnswerLost
  <1> HIDE DEF told
  <1>7. Answered(t, Idle, told)
    BY <1>2, <1>3, <1>4, <1>5, <1>6 DEF Answered, Settles, AnswerLost
  <1> QED BY <1>1, <1>2, <1>7, AnsweredKeeps, IdleType DEF TypeOK, AnswerLost

LEMMA ApplyAnsweredStep ==
  ASSUME ProxyAssumption, IInv, NEW t \in Tasks, ApplyAnswered(t)
  PROVE  IInv'
  <1> DEFINE c == task[t]
             n == task[t].target
             told == IF c.crossed THEN untold[n] \cup {"load"} ELSE untold[n] \ {"start", "load"}
             m == [mem EXCEPT !.error = FALSE]
  <1>1. /\ TypeOK /\ n \in Nannies /\ c \in Call /\ c.rev \in Revision /\ Takes(c.rev)
        /\ Bound(n) /\ ~c.crossed => runs[n] = c.rev
    BY DEF IInv, TypeOK, LoadsAnswered, SendsWhole, ApplyAnswered
  <1>2. told \in SUBSET Reasons /\ ("stop" \in untold[n] => "stop" \in told)
    BY <1>1 DEF TypeOK, Reasons
  <1>3. m \in Memory /\ m.up = mem.up /\ m.handle = mem.handle
    BY <1>1 DEF TypeOK, Memory
  <1>4. Settles(t, m)
    BY <1>1, <1>3, ReturnsSettles DEF ApplyAnswered
  <1>5. /\ disk' \in [config: Revision \cup {Unset}, previous: Revision \cup {Unset},
                      admin: BOOLEAN, applied: BOOLEAN, record: 0 .. MaxNannies]
        /\ disk'.config = c.rev /\ disk'.applied /\ disk'.record = disk.record
    <2>1. c.saved \in Revision \cup {Unset}
      BY <1>1 DEF Call
    <2> QED BY <1>1, <2>1 DEF ApplyAnswered, Accepted, Remember, TypeOK
  <1>6. Serving(n) /\ "load" \notin told => runs[n] = c.rev
    BY <1>1, ProxyAssumption DEF Serving, Bound, Nannies
  <1>7. untold' = [untold EXCEPT ![n] = told]
    BY DEF ApplyAnswered
  <1>8. Answered(t, Idle, told)
    <2> HIDE DEF told, m
    <2> QED BY <1>1, <1>2, <1>3, <1>4, <1>5, <1>6, <1>7 DEF Answered, Settles, ApplyAnswered
  <1> QED BY <1>2, <1>5, <1>8, AnsweredKeeps, IdleType

LEMMA RetryAnsweredStep ==
  ASSUME ProxyAssumption, IInv, NEW t \in Tasks, RetryAnswered(t)
  PROVE  IInv'
  <1> DEFINE n == task[t].target
             told == IF Bound(n) THEN untold[n] \cup {"load"} ELSE untold[n]
             c == [task[t] EXCEPT !.crossed = FALSE]
  <1>1. TypeOK /\ n \in Nannies /\ task[t] \in Call
    BY DEF IInv, TypeOK, LoadsAnswered, RetryAnswered
  <1>2. told \in SUBSET Reasons /\ ("stop" \in untold[n] => "stop" \in told)
    BY <1>1 DEF TypeOK, Reasons
  <1>3. c \in Call
    BY <1>1 DEF Call
  <1>4. Rendered \in Revision /\ mem \in Memory
    BY <1>1, RenderingType, ProxyAssumption DEF TypeOK
  <1>5. /\ mem' \in Memory /\ mem'.up = mem.up /\ mem'.handle = mem.handle
        /\ \E d \in Call :
              /\ task' = [task EXCEPT ![t] = d]
              /\ d = Idle \/ (d.at = "posting" /\ d.kind = "apply" /\ d.rev \in Revision)
    BY <1>1, <1>3, <1>4, AppliesShape DEF RetryAnswered
  <1>6. PICK d \in Call :
              /\ task' = [task EXCEPT ![t] = d]
              /\ d = Idle \/ (d.at = "posting" /\ d.kind = "apply" /\ d.rev \in Revision)
    BY <1>5
  <1>7. Serving(n) => "load" \in told
    BY <1>1, ProxyAssumption DEF Serving, Bound, Nannies
  <1>8. untold' = [untold EXCEPT ![n] = told]
    BY DEF RetryAnswered
  <1>9. Answered(t, d, told)
    <2> HIDE DEF told
    <2> QED BY <1>2, <1>5, <1>6, <1>7, <1>8 DEF Answered, RetryAnswered
  <1> QED BY <1>1, <1>2, <1>9, AnsweredKeeps DEF TypeOK, RetryAnswered

-----------------------------------------------------------------------------
(* Starts and stops.                                                       *)

\* What assertPortsFree() is for: where a start may spawn, nothing is left alive.
LEMMA StartsOverNothing ==
  ASSUME ProxyAssumption, OrphansAreCapped, IInv, task["user"].at = "starting", PortsFree
  PROVE  \A n \in Nannies : proc[n] \in {"unborn", "gone"}
  <1> SUFFICES ASSUME NEW n \in Nannies, proc[n] = "orphan" PROVE FALSE
    BY DEF IInv, Engines, StartsAlone
  <1>1. Bound(n) /\ world.capped
    BY ProxyAssumption DEF IInv, Engines, OrphansAllowed, OrphansAreCapped, Bound, Nannies
  <1>2. Live
    BY <1>1 DEF PortsFree
  <1>3. disk.record \in Nannies /\ proc[disk.record] \notin {"unborn", "gone", "orphan"}
    BY <1>2 DEF Live, Recorded, NannyAlive, IInv, TypeOK, Nannies
  <1> QED BY <1>3 DEF IInv, Engines, StartsAlone

LEMMA StartSpawnsStep ==
  ASSUME ProxyAssumption, OrphansAreCapped, IInv, NEW t \in Tasks, StartSpawns(t)
  PROVE  IInv'
  <1>1. t = "user" /\ task["user"].at = "starting"
    BY TasksAre DEF IInv, CallsPlaced, StartSpawns
  <1>2. \A n \in Nannies : proc[n] \in {"unborn", "gone"}
    BY <1>1, StartsOverNothing DEF StartSpawns
  <1>3. PICK n \in Nannies :
        /\ proc[n] = "unborn"
        /\ proc' = [proc EXCEPT ![n] = "spawned"]
        /\ untold' = [untold EXCEPT ![n] = {"start"}]
        /\ mem' = [mem EXCEPT !.admin = TRUE, !.handle = n]
        /\ task' = [task EXCEPT ![t].at = "ready", ![t].target = n]
    BY DEF StartSpawns
  <1> DEFINE d == [task[t] EXCEPT !.at = "ready", !.target = n]
  <1>4. TypeOK /\ task[t] \in Call /\ n \in 0 .. MaxNannies /\ mem.up
    BY InACall, ProxyAssumption DEF IInv, TypeOK, Nannies, StartSpawns
  <1>5. d \in Call /\ d.at = "ready" /\ d.target = n
    BY <1>4 DEF Call
  <1>6. task' = [task EXCEPT ![t] = d]
    BY <1>3, <1>4 DEF TypeOK
  <1> HIDE DEF d
  <1>7. /\ task' \in [Tasks -> Call] /\ DOMAIN task' = Tasks
        /\ task'["user"] = d /\ \A u \in Ticks : task'[u] = task[u]
    BY TasksAre, <1>1, <1>4, <1>5, <1>6, Moved
  <1>8. /\ proc'[n] = "spawned" /\ \A k \in Nannies : k # n => proc'[k] \in {"unborn", "gone"}
        /\ untold'[n] = {"start"}
    BY <1>2, <1>3, <1>4 DEF TypeOK
  <1>9. mem' \in Memory /\ mem'.up /\ mem'.handle = n
    BY <1>3, <1>4 DEF TypeOK, Memory
  <1>10. Rendered \in Revision /\ settings.enabled
    BY <1>1, <1>4, RenderingType DEF TypeOK, IInv, OffStops
  <1>11. disk' \in [config: Revision \cup {Unset}, previous: Revision \cup {Unset},
                    admin: BOOLEAN, applied: BOOLEAN, record: 0 .. MaxNannies]
    BY <1>4, <1>10 DEF StartSpawns, Remember, TypeOK
  <1>12. /\ world' = world /\ settings' = settings /\ around' = around /\ runs' = runs
         /\ calls' = calls /\ socket' = 0 /\ socket' \in 0 .. MaxNannies
    BY ProxyAssumption DEF StartSpawns
  <1>13. TypeOK'
    <2>1. proc' \in [Nannies -> {"unborn", "spawned", "booting", "serving", "orphan", "ending", "gone"}]
      BY <1>3, <1>4 DEF TypeOK
    <2>2. untold' \in [Nannies -> SUBSET Reasons]
      BY <1>3, <1>4 DEF TypeOK, Reasons
    <2> QED BY <1>4, <1>7, <1>9, <1>11, <1>12, <2>1, <2>2 DEF TypeOK
  <1>14. \A u \in Ticks : task[u].at # "loaded"
    <2> SUFFICES ASSUME NEW u \in Ticks, task[u].at = "loaded" PROVE FALSE
      OBVIOUS
    <2> DEFINE k == task[u].target
    <2>1. k \in Nannies /\ proc[k] \notin {"unborn", "spawned", "booting"}
      BY TasksAre, <1>4 DEF IInv, LoadsAnswered, TypeOK
    <2>2. proc[k] = "gone" /\ InFlight(k)
      BY TasksAre, <1>2, <1>4, <2>1 DEF InFlight, TypeOK
    <2> QED BY <2>1, <2>2 DEF StartSpawns
  <1>15. SendsWhole' /\ CallsPlaced'
    BY TasksAre, <1>4, <1>5, <1>7, <1>9 DEF IInv, TypeOK, SendsWhole, CallsPlaced
  <1>16. Engines'
    BY <1>5, <1>7, <1>8, <1>9
    DEF Engines, NannyRecorded, OrphansAllowed, OneEngine, StartsAlone, Alive
  <1>17. LoadsAnswered' /\ ComesUpFresh'
    BY TasksAre, <1>5, <1>7, <1>8, <1>12, <1>14 DEF LoadsAnswered, ComesUpFresh
  <1>18. FilesFollow' /\ OffStops'
    BY <1>8, <1>10, <1>12 DEF FilesFollow, OffStops, Serving
  <1> QED BY <1>12, <1>13, <1>15, <1>16, <1>17, <1>18 DEF IInv

LEMMA StartReadyStep ==
  ASSUME ProxyAssumption, IInv, NEW t \in Tasks, StartReady(t)
  PROVE  IInv'
  <1> DEFINE n == task[t].target
             m == [mem EXCEPT !.error = FALSE]
  <1>1. TypeOK /\ t = "user" /\ socket \in Nannies /\ Alive(socket) /\ mem.up
        /\ proc[socket] \in {"serving", "orphan", "ending"} /\ task[t] \in Call
    BY TasksAre, BoundIsAlive, InACall DEF IInv, TypeOK, CallsPlaced, StartReady, Reachable
  <1>2. n = socket /\ \A k \in Nannies : k # n => proc[k] \in {"unborn", "gone"}
    BY <1>1, Sole DEF IInv, Engines, StartsAlone, StartReady
  <1>3. m \in Memory /\ m.up = mem.up /\ m.handle = mem.handle
    BY <1>1 DEF TypeOK, Memory
  <1>4. Settles(t, m)
    BY <1>1, <1>3, ReturnsSettles DEF StartReady
  <1>5. /\ disk' \in [config: Revision \cup {Unset}, previous: Revision \cup {Unset},
                      admin: BOOLEAN, applied: BOOLEAN, record: 0 .. MaxNannies]
        /\ disk'.config = disk.config /\ disk'.record = disk.record /\ disk'.applied
    BY <1>1 DEF StartReady, TypeOK
  <1>6. untold'[n] = untold[n] \ {"start"} /\ untold' \in [Nannies -> SUBSET Reasons]
    BY <1>1, <1>2 DEF StartReady, TypeOK
  <1>7. /\ task' \in [Tasks -> Call] /\ DOMAIN task' = Tasks
        /\ task'["user"] = Idle /\ \A u \in Ticks : task'[u] = task[u]
        /\ mem' \in Memory /\ mem'.up /\ DOMAIN task = Tasks
    BY <1>1, <1>3, <1>4, Moved, IdleType DEF Settles, TypeOK
  <1>8. /\ world' = world /\ settings' = settings /\ around' = around /\ runs' = runs
        /\ calls' = calls /\ socket' = socket /\ proc' = proc /\ task["user"].at = "ready"
    BY <1>1 DEF StartReady
  <1>m. \A u \in Tasks : \/ u \in Ticks /\ task'[u] = task[u]
                         \/ u = "user" /\ task'[u].at = "idle"
    BY TasksAre, <1>7, IdleType
  <1>9. TypeOK'
    BY <1>1, <1>5, <1>6, <1>7, <1>8 DEF TypeOK
  <1>10. SendsWhole' /\ CallsPlaced'
    BY TasksAre, <1>7, IdleType DEF IInv, SendsWhole, CallsPlaced
  <1>11. Engines'
    <2>1. \A k \in Nannies : proc[k] # "spawned"
      BY <1>1, <1>2
    <2> QED BY <1>5, <1>7, <1>8, <2>1, IdleType
         DEF IInv, Engines, NannyRecorded, OrphansAllowed, OneEngine, StartsAlone, Alive
  <1>12. LoadsAnswered'
    <2>1. \A k \in Nannies : Alive(k)' = Alive(k)
      BY <1>8 DEF Alive
    <2>2. \A k \in 0 .. MaxNannies : Bound(k)' = Bound(k)
      BY <1>8 DEF Bound
    <2> QED BY <1>m, <1>1, <1>7, <1>8, <2>1, <2>2 DEF IInv, TypeOK, LoadsAnswered, Nannies
  <1>13. ComesUpFresh'
    BY <1>1, <1>2, <1>8 DEF ComesUpFresh
  <1>14. FilesFollow'
    <2> SUFFICES ASSUME NEW k \in Nannies, Serving(k)', disk'.record = k, ~InFlight(k)',
                        "load" \notin untold'[k]
                 PROVE  disk'.config = runs'[k] /\ Takes(disk'.config)
      BY <1>5 DEF FilesFollow, Takes
    <2>1. k = n /\ Serving(k)
      BY <1>2, <1>8 DEF Serving
    <2>2. ~InFlight(k)
      BY TasksAre, <1>7, <1>8, IdleType DEF InFlight
    <2>3. "load" \notin untold[k]
      BY <1>6, <2>1
    <2> QED BY <1>5, <1>8, <2>1, <2>2, <2>3 DEF IInv, FilesFollow
  <1>15. OffStops'
    BY <1>8 DEF IInv, OffStops
  <1> QED BY <1>8, <1>9, <1>10, <1>11, <1>12, <1>13, <1>14, <1>15 DEF IInv

LEMMA StopSignalsStep ==
  ASSUME ProxyAssumption, IInv, NEW t \in Tasks, StopSignals(t)
  PROVE  IInv'
  <1> DEFINE n == task["user"].target
             d == [task["user"] EXCEPT !.at = "stopWait"]
  <1>1. /\ TypeOK /\ t = "user" /\ task["user"] \in Call /\ task["user"].at = "stop" /\ mem.up
        /\ n = disk.record /\ DOMAIN task = Tasks
    BY TasksAre, InACall DEF IInv, TypeOK, CallsPlaced, Engines, StartsAlone, StopSignals
  <1>2. d \in Call /\ d.at = "stopWait" /\ d.target = n
    BY <1>1 DEF Call
  <1>3. task' = [task EXCEPT !["user"] = d]
    BY <1>1 DEF StopSignals, TypeOK
  <1>4. /\ task' \in [Tasks -> Call] /\ DOMAIN task' = Tasks
        /\ task'["user"].at = "stopWait" /\ task'["user"].target = n /\ \A u \in Ticks : task'[u] = task[u]
    BY TasksAre, <1>1, <1>2, <1>3, Moved
  <1>5. \A k \in Nannies : proc'[k] = IF k = n /\ Known(k) THEN "ending" ELSE proc[k]
    BY <1>1 DEF StopSignals
  <1>6. /\ world' = world /\ settings' = settings /\ around' = around /\ runs' = runs
        /\ calls' = calls /\ socket' = socket /\ mem' = mem /\ disk' = disk /\ untold' = untold
    BY DEF StopSignals
  <1>7. \A k \in Nannies :
            /\ Alive(k)' <=> Alive(k)
            /\ Serving(k)' => Serving(k)
            /\ proc'[k] = proc[k] \/ (proc'[k] = "ending" /\ proc[k] \in {"booting", "serving", "orphan"} /\ k = n)
    BY <1>5 DEF Alive, Serving, Known
  <1>8. \A k \in 0 .. MaxNannies : Bound(k) => Bound(k)'
    BY <1>5 DEF Bound, Nannies
  <1>m. \A u \in Tasks : \/ u \in Ticks /\ task'[u] = task[u]
                         \/ u = "user" /\ task'[u].at = "stopWait"
    BY TasksAre, <1>4
  <1>9. TypeOK'
    <2>1. proc' \in [Nannies -> {"unborn", "spawned", "booting", "serving", "orphan", "ending", "gone"}]
      BY <1>1 DEF TypeOK, StopSignals
    <2> QED BY <1>1, <1>4, <1>6, <2>1 DEF TypeOK
  <1>10. SendsWhole' /\ CallsPlaced'
    <2>1. SendsWhole'
      <3>1. SendsWhole /\ DOMAIN task = Tasks
        BY <1>1 DEF IInv, TypeOK
      <3>2. ASSUME NEW u \in Tasks, task'[u].at \in {"posting", "loaded"}
            PROVE  task'[u] = task[u]
        BY <1>m, <3>2
      <3> QED BY <1>4, <3>1, <3>2 DEF SendsWhole
    <2>2. CallsPlaced'
      BY <1>m, <1>1, <1>4, <1>6, TasksAre DEF IInv, CallsPlaced
    <2> QED BY <2>1, <2>2
  <1>11. Engines'
    BY <1>1, <1>4, <1>6, <1>7
    DEF IInv, Engines, NannyRecorded, OrphansAllowed, OneEngine, StartsAlone
  <1>12. LoadsAnswered'
    <2>1. socket' # 0 => Bound(socket)'
      BY <1>1, <1>6, <1>8 DEF IInv, LoadsAnswered, TypeOK, Bound
    <2> SUFFICES ASSUME NEW tick \in Ticks, task'[tick] = task[tick], tick \in DOMAIN task,
                        task[tick].at = "loaded"
                 PROVE  /\ task[tick].target \in Nannies
                        /\ proc'[task[tick].target] \notin {"unborn", "spawned", "booting"}
                        /\ \A k \in Nannies : Alive(k)' => k = task[tick].target
                        /\ Takes(task[tick].rev)
                        /\ /\ task[tick].target # 0
                           /\ proc'[task[tick].target] \in {"serving", "orphan", "ending"}
                           /\ ~task[tick].crossed
                           => runs'[task[tick].target] = task[tick].rev
                        /\ \A u \in DOMAIN task \ {tick} : task[u].at = "loaded" =>
                               task[tick].crossed \/ task[u].rev = task[tick].rev
      <3>1. \A u \in DOMAIN task' :
                task'[u].at = "loaded" => u \in Ticks /\ u \in DOMAIN task /\ task'[u] = task[u]
        BY <1>m, <1>1, <1>4
      <3> QED BY <3>1, <2>1 DEF LoadsAnswered, Takes, Bound
    <2> DEFINE c == task[tick]
    <2>2. /\ c.target \in Nannies /\ proc[c.target] \notin {"unborn", "spawned", "booting"}
          /\ (\A k \in Nannies : Alive(k) => k = c.target) /\ Takes(c.rev)
          /\ Bound(c.target) /\ ~c.crossed => runs[c.target] = c.rev
          /\ \A u \in DOMAIN task \ {tick} : task[u].at = "loaded" =>
                 c.crossed \/ task[u].rev = c.rev
      BY TasksAre, <1>1 DEF IInv, LoadsAnswered
    <2>3. proc'[c.target] \notin {"unborn", "spawned", "booting"}
      BY <1>7, <2>2
    <2>4. proc'[c.target] \in {"serving", "orphan", "ending"} => proc[c.target] \in {"serving", "orphan", "ending"}
      BY <1>5, <2>2 DEF Known
    <2> QED BY <1>4, <1>6, <1>7, <2>2, <2>3, <2>4 DEF Bound
  <1>13. ComesUpFresh'
    <2>1. \A k \in Nannies : proc'[k] \in {"spawned", "booting"} => proc'[k] = proc[k]
      BY <1>7
    <2>2. \A u \in DOMAIN task' : task'[u].at = "loaded" => u \in DOMAIN task /\ task'[u] = task[u]
      BY <1>m, <1>1, <1>4
    <2> QED BY <1>6, <2>1, <2>2 DEF IInv, ComesUpFresh
  <1>14. FilesFollow'
    <2>1. \A k \in Nannies : InFlight(k) => InFlight(k)'
      BY TasksAre, <1>1, <1>4 DEF InFlight
    <2> QED BY <1>6, <1>7, <2>1 DEF IInv, FilesFollow, Takes
  <1>15. OffStops'
    BY <1>4, <1>6 DEF OffStops
  <1> QED BY <1>6, <1>9, <1>10, <1>11, <1>12, <1>13, <1>14, <1>15 DEF IInv

\* With no call left to start or to stop it, nothing on record and nothing coming up, all that
\* is alive is an engine nobody can tell.
LEMMA OnlyUnknown ==
  ASSUME OrphansAreCapped, IInv, NEW n \in Nannies, Alive(n), proc[n] # "spawned",
         proc[n] \notin {"booting", "serving", "ending"}
  PROVE  Unknown(n)
  BY DEF IInv, TypeOK, Engines, OrphansAllowed, OrphansAreCapped, Alive, Unknown, Known

LEMMA StopEndsStep ==
  ASSUME ProxyAssumption, OrphansAreCapped, IInv, NEW t \in Tasks, StopEnds(t)
  PROVE  IInv'
  <1> DEFINE n == task["user"].target
  <1>1. /\ TypeOK /\ t = "user" /\ task["user"] \in Call /\ task["user"].at = "stopWait" /\ mem.up
        /\ n = disk.record /\ DOMAIN task = Tasks /\ n \in 0 .. MaxNannies
    BY TasksAre, InACall DEF IInv, TypeOK, CallsPlaced, Engines, StartsAlone, StopEnds
  <1>2. /\ task' \in [Tasks -> Call] /\ DOMAIN task' = Tasks
        /\ task'["user"] = Idle /\ \A u \in Ticks : task'[u] = task[u]
    BY TasksAre, <1>1, Moved, IdleType DEF StopEnds
  <1>m. \A u \in Tasks : \/ u \in Ticks /\ task'[u] = task[u]
                         \/ u = "user" /\ task'[u].at = "idle"
    BY TasksAre, <1>2, IdleType
  <1>3. PICK record \in {0, disk.record} :
          /\ disk' = [disk EXCEPT !.record = record, !.admin = FALSE, !.applied = FALSE]
          /\ mem' = [mem EXCEPT !.handle = 0, !.admin = FALSE, !.signature = "none",
                                !.error = task[t].kind = "failed"]
          /\ \/ n = 0 /\ record = disk.record /\ UNCHANGED <<proc, runs, socket, untold>>
             \/ n # 0 /\ proc[n] \in {"gone", "orphan"} /\ record = 0
                      /\ UNCHANGED <<proc, runs, socket, untold>>
             \/ n # 0 /\ proc[n] = "ending" /\ Ends(n)
    BY <1>1 DEF StopEnds
  <1>4. /\ mem' \in Memory /\ mem'.up /\ mem'.handle = 0
    <2>1. 0 \in 0 .. MaxNannies /\ (task[t].kind = "failed") \in BOOLEAN
      BY ProxyAssumption
    <2> QED BY <1>1, <1>3, <2>1 DEF TypeOK, Memory
  <1>5. /\ disk' \in [config: Revision \cup {Unset}, previous: Revision \cup {Unset},
                      admin: BOOLEAN, applied: BOOLEAN, record: 0 .. MaxNannies]
        /\ disk'.record = record /\ disk'.config = disk.config
    <2>1. record \in 0 .. MaxNannies
      BY <1>1, ProxyAssumption
    <2> QED BY <1>1, <1>3, <2>1 DEF TypeOK
  <1>6. /\ world' = world /\ settings' = settings /\ around' = around /\ calls' = calls
    BY DEF StopEnds
  <1>7. \/ UNCHANGED <<proc, runs, socket, untold>> /\ (n = 0 \/ (n \in Nannies /\ proc[n] \in {"gone", "orphan"}))
        \/ n \in Nannies /\ proc[n] = "ending" /\ Ends(n)
    BY <1>1, <1>3, ProxyAssumption DEF Nannies
  <1>8. \A k \in Nannies : Alive(k)' => proc'[k] = proc[k] /\ proc[k] = "orphan" /\ Alive(k)
    <2> SUFFICES ASSUME NEW k \in Nannies, Alive(k)'
                 PROVE  proc'[k] = proc[k] /\ proc[k] = "orphan"
      BY DEF Alive
    <2>1. proc'[k] = proc[k] /\ ~(k = n /\ proc[n] = "ending")
      BY <1>1, <1>7, ProxyAssumption DEF Ends, TypeOK, Alive, Nannies
    <2>2. proc[k] # "spawned"
      BY <1>1, NoneComesUp DEF NoneSpawned
    <2>3. proc[k] \notin {"booting", "serving", "ending"}
      BY <1>1, <1>7, <2>1, ProxyAssumption DEF IInv, Engines, NannyRecorded, Nannies
    <2> QED BY <1>1, <2>1, <2>2, <2>3 DEF TypeOK, Alive
  <1>9. TypeOK'
    <2>1. /\ proc' \in [Nannies -> {"unborn", "spawned", "booting", "serving", "orphan", "ending", "gone"}]
          /\ untold' \in [Nannies -> SUBSET Reasons]
      BY <1>1, <1>7 DEF TypeOK, Ends
    <2>2. runs' \in [Nannies -> Revision \cup {Unset, Staged}]
      BY <1>1, <1>7 DEF TypeOK, Ends
    <2>3. socket' \in 0 .. MaxNannies
      BY <1>1, <1>7, ProxyAssumption DEF TypeOK, Ends
    <2> QED BY <1>1, <1>2, <1>4, <1>5, <1>6, <2>1, <2>2, <2>3 DEF TypeOK
  <1>10. SendsWhole' /\ CallsPlaced'
    <2>1. SendsWhole'
      BY <1>m, <1>1, <1>2 DEF IInv, SendsWhole
    <2>2. CallsPlaced'
      BY <1>m, <1>1, <1>2, <1>4, TasksAre, IdleType DEF IInv, CallsPlaced
    <2> QED BY <2>1, <2>2
  <1>11. Engines'
    <2>1. NannyRecorded' /\ StartsAlone'
      BY <1>2, <1>8, IdleType DEF NannyRecorded, StartsAlone, Alive
    <2>2. OrphansAllowed' /\ OneEngine'
      BY <1>6, <1>8 DEF IInv, Engines, OrphansAllowed, OneEngine, Alive
    <2> QED BY <2>1, <2>2 DEF Engines
  <1>12. LoadsAnswered'
    <2>1. socket' # 0 => Bound(socket)'
      BY <1>1, <1>7, ProxyAssumption DEF IInv, TypeOK, LoadsAnswered, Bound, Ends, Nannies
    <2> SUFFICES ASSUME NEW tick \in Ticks, task'[tick] = task[tick], tick \in DOMAIN task,
                        task[tick].at = "loaded"
                 PROVE  /\ task[tick].target \in Nannies
                        /\ proc'[task[tick].target] \notin {"unborn", "spawned", "booting"}
                        /\ \A k \in Nannies : Alive(k)' => k = task[tick].target
                        /\ Takes(task[tick].rev)
                        /\ /\ task[tick].target # 0
                           /\ proc'[task[tick].target] \in {"serving", "orphan", "ending"}
                           /\ ~task[tick].crossed
                           => runs'[task[tick].target] = task[tick].rev
                        /\ \A u \in DOMAIN task \ {tick} : task[u].at = "loaded" =>
                               task[tick].crossed \/ task[u].rev = task[tick].rev
      <3>1. \A u \in DOMAIN task' :
                task'[u].at = "loaded" => u \in Ticks /\ u \in DOMAIN task /\ task'[u] = task[u]
        BY <1>m, <1>1, <1>2
      <3> QED BY <3>1, <2>1 DEF LoadsAnswered, Takes, Bound
    <2> DEFINE c == task[tick]
    <2>2. /\ c.target \in Nannies /\ proc[c.target] \notin {"unborn", "spawned", "booting"}
          /\ (\A k \in Nannies : Alive(k) => k = c.target) /\ Takes(c.rev)
          /\ Bound(c.target) /\ ~c.crossed => runs[c.target] = c.rev
          /\ \A u \in DOMAIN task \ {tick} : task[u].at = "loaded" =>
                 c.crossed \/ task[u].rev = c.rev
      BY TasksAre, <1>1 DEF IInv, LoadsAnswered
    <2>3. proc'[c.target] = proc[c.target] \/ proc'[c.target] = "gone"
      BY <1>1, <1>7, <2>2 DEF Ends, TypeOK
    <2>4. proc'[c.target] # "gone" => UNCHANGED <<proc, runs>> \/ (proc'[c.target] = proc[c.target] /\ c.target # n)
      BY <1>1, <1>7, <2>2 DEF Ends, TypeOK
    <2>5. Bound(c.target)' => Bound(c.target) /\ runs'[c.target] = runs[c.target]
      BY <1>1, <1>2, <1>7, <2>2, <2>4 DEF Ends, TypeOK, Bound
    <2> QED BY <1>2, <1>8, <2>2, <2>3, <2>5 DEF Bound
  <1>13. ComesUpFresh'
    BY <1>8 DEF ComesUpFresh, Alive
  <1>14. FilesFollow'
    <2> SUFFICES ASSUME NEW k \in Nannies, Serving(k)', disk'.record = k PROVE FALSE
      BY DEF FilesFollow
    <2>1. Alive(k)' /\ k # 0
      BY ProxyAssumption DEF Serving, Alive, Nannies
    <2>2. disk.record = k /\ disk'.record # 0
      BY <1>5, <2>1
    <2>3. n = k /\ proc[k] = "orphan"
      BY <1>1, <1>8, <2>1, <2>2
    <2> QED BY <1>1, <1>3, <2>1, <2>3 DEF TypeOK
  <1>15. OffStops'
    <2>1. \A k \in Nannies : Alive(k)' => Unknown(k)'
      <3> SUFFICES ASSUME NEW k \in Nannies, Alive(k)' PROVE Unknown(k)'
        OBVIOUS
      <3>1. proc'[k] = proc[k] /\ Alive(k) /\ proc[k] = "orphan"
        BY <1>8
      <3>2. Unknown(k)
        BY <3>1, OnlyUnknown
      <3> QED BY <1>6, <3>1, <3>2 DEF Unknown, Known, Alive
    <2> QED BY <1>2, <2>1, IdleType DEF OffStops
  <1> QED BY <1>6, <1>9, <1>10, <1>11, <1>12, <1>13, <1>14, <1>15 DEF IInv

-----------------------------------------------------------------------------
(* The panel, the nanny and the engine.                                    *)

LEMMA NannyGoneStep ==
  ASSUME ProxyAssumption, IInv, NannyGone
  PROVE  IInv'
  <1>1. NoneSpawned
    BY DEF IInv, Engines, StartsAlone, NoneSpawned, NannyGone, NannyAlive
  <1>2. /\ mem' \in Memory /\ mem'.up /\ mem.up
        /\ disk'.record = disk.record /\ disk'.config = disk.config /\ disk'.applied = disk.applied
    <2>1. 0 \in 0 .. MaxNannies
      BY ProxyAssumption
    <2> QED BY <2>1 DEF IInv, TypeOK, Memory, NannyGone
  <1>3. disk' \in [config: Revision \cup {Unset}, previous: Revision \cup {Unset},
                   admin: BOOLEAN, applied: BOOLEAN, record: 0 .. MaxNannies]
    BY DEF IInv, TypeOK, NannyGone
  <1>4. TypeOK'
    BY <1>2, <1>3 DEF IInv, TypeOK, NannyGone
  <1>5. SendsWhole' /\ CallsPlaced'
    BY <1>2 DEF IInv, SendsWhole, CallsPlaced, NannyGone
  <1>6. Engines'
    BY <1>1, <1>2 DEF IInv, Engines, NannyRecorded, OrphansAllowed, OneEngine, StartsAlone, Alive,
       NoneSpawned, NannyGone
  <1>7. LoadsAnswered' /\ ComesUpFresh'
    BY DEF IInv, LoadsAnswered, ComesUpFresh, Alive, Bound, Takes, NannyGone
  <1>8. FilesFollow'
    BY <1>2 DEF IInv, FilesFollow, Serving, InFlight, Takes, NannyGone
  <1>9. OffStops'
    BY DEF IInv, OffStops, Alive, Unknown, Known, NannyGone
  <1> QED BY <1>4, <1>5, <1>6, <1>7, <1>8, <1>9 DEF IInv, NannyGone

LEMMA PanelEndsStep ==
  ASSUME ProxyAssumption, IInv, PanelEnds
  PROVE  IInv'
  <1>1. /\ TypeOK /\ DOMAIN task' = Tasks /\ DOMAIN task = Tasks
        /\ \A t \in Tasks : task'[t] = Idle
        /\ task' \in [Tasks -> Call]
    BY IdleType DEF IInv, TypeOK, PanelEnds
  <1>2. /\ mem' \in Memory /\ ~mem'.up
    <2>1. 0 \in 0 .. MaxNannies /\ 0 \in 0 .. MaxFailures
      BY ProxyAssumption
    <2> QED BY <2>1 DEF PanelEnds, NoMemory, Memory
  <1>3. /\ world' = world /\ settings' = settings /\ around' = around /\ disk' = disk
        /\ proc' = proc /\ runs' = runs /\ socket' = socket /\ calls' = calls
        /\ NoneSpawned
    BY DEF PanelEnds, NoneSpawned
  <1>4. untold' \in [Nannies -> SUBSET Reasons]
    BY <1>1 DEF TypeOK, PanelEnds, Reasons
  <1>5. \A n \in Nannies : Alive(n) =>
            /\ untold[n] \subseteq untold'[n]
            /\ InFlight(n) => "load" \in untold'[n]
            /\ task["user"].at \in {"stop", "stopWait"} => "stop" \in untold'[n]
    BY DEF Alive, PanelEnds
  <1>6. TypeOK'
    BY <1>1, <1>2, <1>3, <1>4 DEF TypeOK
  <1>7. SendsWhole' /\ CallsPlaced' /\ LoadsAnswered'
    BY TasksAre, <1>1, <1>3, IdleType DEF IInv, SendsWhole, CallsPlaced, LoadsAnswered, Bound
  <1>8. Engines'
    BY TasksAre, <1>1, <1>3, IdleType
    DEF IInv, Engines, NannyRecorded, OrphansAllowed, OneEngine, StartsAlone, Alive, NoneSpawned
  <1>9. ComesUpFresh'
    BY <1>1, <1>3, <1>5, IdleType DEF IInv, ComesUpFresh, Alive
  <1>10. FilesFollow'
    BY <1>3, <1>5 DEF IInv, FilesFollow, Serving, Alive, Takes
  <1>11. OffStops'
    <2>1. \A n \in Nannies : Alive(n)' = Alive(n) /\ Unknown(n)' = Unknown(n)
      BY <1>3 DEF Alive, Unknown, Known
    <2> QED BY TasksAre, <1>1, <1>3, <1>5, <2>1, IdleType DEF IInv, OffStops
  <1> QED BY <1>3, <1>6, <1>7, <1>8, <1>9, <1>10, <1>11 DEF IInv

LEMMA NannyStartsStep ==
  ASSUME ProxyAssumption, IInv, NEW n \in Nannies, NannyStarts(n)
  PROVE  IInv'
  <1>1. /\ TypeOK /\ proc[n] = "spawned" /\ proc'[n] = "booting" /\ task["user"].at = "ready"
        /\ \A k \in Nannies : k # n => proc'[k] = proc[k] /\ proc[k] \in {"unborn", "gone"}
    <2>1. proc[n] = "spawned" /\ Alive(n)
      BY DEF NannyStarts, Alive
    <2> QED BY <2>1, Sole DEF IInv, TypeOK, Engines, StartsAlone, NannyStarts
  <1>2. /\ world' = world /\ settings' = settings /\ around' = around /\ mem' = mem
        /\ runs' = runs /\ socket' = socket /\ calls' = calls /\ task' = task /\ untold' = untold
    BY DEF NannyStarts
  <1>3. disk' \in [config: Revision \cup {Unset}, previous: Revision \cup {Unset},
                   admin: BOOLEAN, applied: BOOLEAN, record: 0 .. MaxNannies] /\ disk'.record = n
    <2>1. n \in 0 .. MaxNannies
      BY ProxyAssumption DEF Nannies
    <2> QED BY <1>1, <2>1 DEF TypeOK, NannyStarts
  <1>4. TypeOK'
    <2>1. proc' \in [Nannies -> {"unborn", "spawned", "booting", "serving", "orphan", "ending", "gone"}]
      BY <1>1 DEF TypeOK, NannyStarts
    <2> QED BY <1>1, <1>2, <1>3, <2>1 DEF TypeOK
  <1>5. SendsWhole' /\ CallsPlaced'
    BY <1>2 DEF IInv, SendsWhole, CallsPlaced
  <1>6. Engines'
    <2>1. n = task["user"].target /\ \A k \in Nannies : Alive(k)' => k = n
      BY <1>1 DEF IInv, Engines, StartsAlone, Alive
    <2> QED BY <1>1, <1>2, <1>3, <2>1
         DEF IInv, Engines, NannyRecorded, OrphansAllowed, OneEngine, StartsAlone, Alive
  <1>7. \A t \in Tasks : task[t].at # "loaded"
    BY <1>1 DEF IInv, TypeOK, ComesUpFresh
  <1>8. LoadsAnswered'
    <2>1. socket = 0
      BY <1>1, BoundIsAlive DEF IInv, LoadsAnswered, TypeOK, Alive
    <2> QED BY <1>1, <1>2, <1>7, <2>1 DEF LoadsAnswered, TypeOK
  <1>9. ComesUpFresh'
    BY <1>1, <1>2 DEF IInv, ComesUpFresh
  <1>10. FilesFollow' /\ OffStops'
    BY <1>1, <1>2 DEF IInv, FilesFollow, OffStops, Serving
  <1> QED BY <1>2, <1>4, <1>5, <1>6, <1>8, <1>9, <1>10 DEF IInv

LEMMA EndsKeeps ==
  ASSUME ProxyAssumption, IInv, NEW n \in Nannies, Ends(n),
         proc[n] \in {"booting", "serving", "orphan", "ending"},
         UNCHANGED <<world, settings, around, mem, disk, task, calls>>
  PROVE  IInv'
  <1>1. /\ TypeOK /\ proc'[n] = "gone" /\ Alive(n)
        /\ \A k \in Nannies : proc'[k] \in {"unborn", "gone"}
    <2>1. Alive(n)
      BY DEF Alive
    <2> QED BY <2>1, Sole DEF IInv, TypeOK, Ends
  <1>2. TypeOK'
    <2>1. /\ proc' \in [Nannies -> {"unborn", "spawned", "booting", "serving", "orphan", "ending", "gone"}]
          /\ untold' \in [Nannies -> SUBSET Reasons]
      BY <1>1 DEF TypeOK, Ends
    <2>2. runs' \in [Nannies -> Revision \cup {Unset, Staged}]
      BY <1>1 DEF TypeOK, Ends
    <2>3. socket' \in 0 .. MaxNannies
      BY <1>1, ProxyAssumption DEF TypeOK, Ends
    <2> QED BY <1>1, <2>1, <2>2, <2>3 DEF TypeOK
  <1>3. socket' = 0
    BY <1>1, BoundIsAlive, Sole DEF IInv, TypeOK, LoadsAnswered, Ends, Alive
  <1>4. SendsWhole' /\ CallsPlaced'
    BY DEF IInv, SendsWhole, CallsPlaced
  <1>5. Engines'
    BY <1>1 DEF IInv, Engines, NannyRecorded, OrphansAllowed, OneEngine, StartsAlone, Alive
  <1>6. LoadsAnswered'
    <2> SUFFICES ASSUME NEW t \in Tasks, task[t].at = "loaded"
                 PROVE  LET c == task[t]
                        IN  /\ c.target \in Nannies
                            /\ proc'[c.target] \notin {"unborn", "spawned", "booting"}
                            /\ ~Bound(c.target)'
                            /\ Takes(c.rev)
                            /\ \A u \in DOMAIN task \ {t} : task[u].at = "loaded" =>
                                   c.crossed \/ task[u].rev = c.rev
      BY <1>1, <1>3 DEF TypeOK, LoadsAnswered, Alive, Takes
    <2>1. /\ task[t].target = n
          /\ Takes(task[t].rev)
          /\ \A u \in DOMAIN task \ {t} : task[u].at = "loaded" =>
                 task[t].crossed \/ task[u].rev = task[t].rev
      BY <1>1 DEF IInv, TypeOK, LoadsAnswered
    <2> QED BY <1>1, <2>1 DEF Bound
  <1>7. ComesUpFresh' /\ FilesFollow' /\ OffStops'
    BY <1>1 DEF IInv, ComesUpFresh, FilesFollow, OffStops, Serving, Alive
  <1> QED BY <1>2, <1>4, <1>5, <1>6, <1>7 DEF IInv

LEMMA EngineBootsStep ==
  ASSUME ProxyAssumption, IInv, NEW n \in Nannies, EngineBoots(n)
  PROVE  IInv'
  <1>1. CASE ~Takes(disk.config)
    BY <1>1, EndsKeeps DEF EngineBoots
  <1>2. CASE Takes(disk.config)
    <2>1. /\ TypeOK /\ proc[n] = "booting" /\ Alive(n) /\ proc'[n] = "serving" /\ runs'[n] = disk.config
          /\ \A k \in Nannies : k # n => proc'[k] = proc[k] /\ proc[k] \in {"unborn", "gone"}
      <3>1. proc[n] = "booting" /\ Alive(n)
        BY DEF EngineBoots, Alive
      <3> QED BY <1>2, <3>1, Sole DEF IInv, TypeOK, EngineBoots
    <2>2. /\ world' = world /\ settings' = settings /\ around' = around /\ mem' = mem
          /\ disk' = disk /\ calls' = calls /\ task' = task /\ untold' = untold /\ socket' = n
      BY <1>2 DEF EngineBoots
    <2>3. TypeOK'
      <3>1. proc' \in [Nannies -> {"unborn", "spawned", "booting", "serving", "orphan", "ending", "gone"}]
        BY <1>2, <2>1 DEF TypeOK, EngineBoots
      <3>2. runs' \in [Nannies -> Revision \cup {Unset, Staged}]
        BY <1>2, <2>1 DEF TypeOK, EngineBoots
      <3>3. socket' \in 0 .. MaxNannies
        BY <2>2, ProxyAssumption DEF Nannies
      <3> QED BY <2>1, <2>2, <3>1, <3>2, <3>3 DEF TypeOK
    <2>4. SendsWhole' /\ CallsPlaced'
      BY <2>2 DEF IInv, SendsWhole, CallsPlaced
    <2>5. Engines'
      BY <2>1, <2>2 DEF IInv, Engines, NannyRecorded, OrphansAllowed, OneEngine, StartsAlone, Alive
    <2>6. \A t \in Tasks : task[t].at # "loaded"
      BY <2>1 DEF IInv, TypeOK, ComesUpFresh
    <2>7. LoadsAnswered'
      BY <2>1, <2>2, <2>6, ProxyAssumption DEF LoadsAnswered, TypeOK, Bound, Nannies
    <2>8. ComesUpFresh'
      BY <2>1 DEF ComesUpFresh
    <2>9. FilesFollow'
      BY <1>2, <2>1, <2>2 DEF IInv, ComesUpFresh, FilesFollow, Serving, Takes
    <2>10. OffStops'
      <3>1. /\ \A k \in Nannies : Alive(k)' => k = n
            /\ ~Unknown(n)
        BY <2>1 DEF Alive, Unknown, Known
      <3> QED BY <2>1, <2>2, <3>1 DEF IInv, OffStops
    <2> QED BY <2>2, <2>3, <2>4, <2>5, <2>7, <2>8, <2>9, <2>10 DEF IInv
  <1> QED BY <1>1, <1>2

LEMMA NannyKilledStep ==
  ASSUME ProxyAssumption, IInv, NEW n \in Nannies, NannyKilled(n)
  PROVE  IInv'
  <1>1. /\ TypeOK /\ proc[n] = "serving" /\ Alive(n) /\ proc'[n] = "orphan" /\ world.orphan
        /\ \A k \in Nannies : k # n => proc'[k] = proc[k] /\ proc[k] \in {"unborn", "gone"}
    <2>1. proc[n] = "serving" /\ Alive(n)
      BY DEF NannyKilled, Alive
    <2> QED BY <2>1, Sole DEF IInv, TypeOK, NannyKilled
  <1>2. /\ world' = world /\ settings' = settings /\ around' = around /\ mem' = mem /\ runs' = runs
        /\ disk' = disk /\ calls' = calls /\ task' = task /\ untold' = untold /\ socket' = socket
    BY DEF NannyKilled
  <1>3. \A k \in Nannies : (Alive(k)' <=> Alive(k)) /\ (Serving(k)' <=> Serving(k))
    BY <1>1 DEF Alive, Serving
  <1>4. \A k \in 0 .. MaxNannies : Bound(k)' <=> Bound(k)
    BY <1>1, ProxyAssumption DEF Bound, Nannies
  <1>5. TypeOK'
    <2>1. proc' \in [Nannies -> {"unborn", "spawned", "booting", "serving", "orphan", "ending", "gone"}]
      BY <1>1 DEF TypeOK, NannyKilled
    <2> QED BY <1>1, <1>2, <2>1 DEF TypeOK
  <1>6. SendsWhole' /\ CallsPlaced'
    BY <1>2 DEF IInv, SendsWhole, CallsPlaced
  <1>7. Engines'
    BY <1>1, <1>2, <1>3
    DEF IInv, Engines, NannyRecorded, OrphansAllowed, OneEngine, StartsAlone, Alive
  <1>8. LoadsAnswered'
    <2>1. \A k \in Nannies : proc[k] \notin {"unborn", "spawned", "booting"} =>
                               proc'[k] \notin {"unborn", "spawned", "booting"}
      BY <1>1
    <2> QED BY <1>1, <1>2, <1>3, <1>4, <2>1 DEF IInv, TypeOK, LoadsAnswered, Takes, Nannies
  <1>9. ComesUpFresh'
    BY <1>1 DEF ComesUpFresh
  <1>10. FilesFollow'
    BY <1>2, <1>3 DEF IInv, FilesFollow, InFlight, Takes
  <1>11. OffStops'
    <2>1. ~Unknown(n)
      BY <1>1 DEF Unknown, Known
    <2> QED BY <1>1, <1>2, <1>3, <2>1 DEF IInv, OffStops, Alive
  <1> QED BY <1>2, <1>5, <1>6, <1>7, <1>8, <1>9, <1>10, <1>11 DEF IInv

\* What a rendering depends on moves under everything else: no conjunct but the type reads it.
LEMMA AroundSteps ==
  ASSUME ProxyAssumption, IInv, CertificateMoves \/ ServerUp \/ UNCHANGED vars
  PROVE  IInv'
  <1>1. around' \in [cert: Certs, up: BOOLEAN]
    BY DEF IInv, TypeOK, CertificateMoves, ServerUp, vars
  <1>2. UNCHANGED <<world, settings, mem, disk, proc, runs, socket, task, calls, untold>>
    BY DEF CertificateMoves, ServerUp, vars
  <1>3. TypeOK'
    BY <1>1, <1>2 DEF IInv, TypeOK
  <1> QED BY <1>2, <1>3
       DEF IInv, SendsWhole, CallsPlaced, Engines, NannyRecorded, StartsAlone, OrphansAllowed,
           OneEngine, LoadsAnswered, ComesUpFresh, FilesFollow, OffStops, Alive, Bound, Serving,
           Unknown, Known, InFlight, Takes

-----------------------------------------------------------------------------
(* The invariant, and what follows of it.                                  *)

LEMMA InitIInv ==
  ASSUME ProxyAssumption, WorldsAssumption, Init
  PROVE  IInv
  <1>0. 0 \in 0 .. MaxNannies /\ 0 \in 0 .. MaxFailures /\ 0 \in 0 .. MaxCalls
    BY DEF ProxyAssumption
  <1>1. mem \in Memory /\ mem.up = FALSE
    BY <1>0 DEF Init, NoMemory, Memory
  <1>2. TypeOK
    BY <1>0, <1>1, IdleType DEF Init, TypeOK, WorldsAssumption, Certs
  <1>3. \A t \in DOMAIN task : task[t] = Idle
    BY DEF Init
  <1>4. \A n \in Nannies : proc[n] = "unborn" /\ ~Alive(n) /\ ~Serving(n)
    BY DEF Init, Alive, Serving
  <1> QED BY TasksAre, <1>2, <1>3, <1>4, IdleType
       DEF Init, IInv, SendsWhole, CallsPlaced, Engines, NannyRecorded, StartsAlone, OrphansAllowed,
           OneEngine, LoadsAnswered, ComesUpFresh, FilesFollow, OffStops

LEMMA StepIInv ==
  ASSUME ProxyAssumption, OrphansAreCapped, IInv, [Next]_vars
  PROVE  IInv'
  <1>1. ASSUME NEW t \in Tasks, CallStep(t) PROVE IInv'
    BY <1>1, LoadsStep, ThrowsSteps, AnswerLostStep, ApplyAnsweredStep, RetryAnsweredStep,
       StartSpawnsStep, StartReadyStep, StartNotReadyStep, StopSignalsStep, StopEndsStep
    DEF CallStep
  <1>2. ASSUME NEW n \in Nannies, EngineStep(n) PROVE IInv'
    BY <1>2, NannyStartsStep, EngineBootsStep, EndsKeeps DEF EngineStep, EngineEnds
  <1>3. ASSUME NEW n \in Nannies, EngineCrashes(n) \/ NannyKilled(n) PROVE IInv'
    BY <1>3, EndsKeeps, NannyKilledStep DEF EngineCrashes
  <1>4. CASE Patch \/ Button \/ NannyGone \/ PanelEnds \/ Boots
             \/ \E t \in Ticks : Sync(t)
    BY <1>4, PatchStep, ButtonStep, SyncStep, NannyGoneStep, PanelEndsStep, BootsStep
  <1>5. CASE CertificateMoves \/ ServerUp \/ UNCHANGED vars
    BY <1>5, AroundSteps
  <1> QED BY <1>1, <1>2, <1>3, <1>4, <1>5 DEF Next

LEMMA Invariant ==
  ASSUME OrphansAreCapped
  PROVE  Spec => []IInv
  <1>1. Init => IInv
    BY InitIInv, ProxyAssumption, WorldsAssumption
  <1>2. IInv /\ [Next]_vars => IInv'
    BY StepIInv, ProxyAssumption
  <1> QED BY <1>1, <1>2, PTL DEF Spec

LEMMA OnRecord ==
  ASSUME OrphansAreCapped, IInv
  PROVE  EngineIsRecorded
  BY OnlyUnknown DEF IInv, Engines, NannyRecorded, EngineIsRecorded

\* At most one engine at a time, for any number of engines and calls, whatever dies: where an
\* engine may outlive its nanny its ports cannot be traced (OrphansAreCapped), and
\* assertPortsFree() refuses them.
THEOREM EngineIsAlone ==
  ASSUME OrphansAreCapped
  PROVE  Spec => []OneEngine
  <1>1. IInv => OneEngine
    BY DEF IInv, Engines
  <1> QED BY <1>1, Invariant, PTL

\* No nanny and no engine is alive without the state file that names it, an engine whose nanny
\* was killed and that nobody can tell aside.
THEOREM EngineIsFound ==
  ASSUME OrphansAreCapped
  PROVE  Spec => []EngineIsRecorded
  <1>1. IInv => EngineIsRecorded
    BY OnRecord
  <1> QED BY <1>1, Invariant, PTL

\* The file an engine boots from the next time is what it serves, and would be accepted, as long
\* as the panel heard of its start and of its loads in turn.
THEOREM FilesAreTrue ==
  ASSUME OrphansAreCapped
  PROVE  Spec => []FilesFollowEngine
  <1>1. IInv => FilesFollowEngine
    BY DEF IInv, FilesFollow, FilesFollowEngine
  <1> QED BY <1>1, Invariant, PTL

\* Switched off and reconciled, nothing serves but what a stop that died left, and what nobody
\* can tell.
THEOREM OffStaysOff ==
  ASSUME OrphansAreCapped
  PROVE  Spec => []OffIsOff
  <1>1. IInv => OffIsOff
    BY IdleType, ProxyAssumption DEF IInv, OffStops, OffIsOff
  <1> QED BY <1>1, Invariant, PTL

\* Every variable keeps its type: the files hold whole tables, never the staged one of a
\* certificate asked for again.
THEOREM TypeCorrect ==
  ASSUME OrphansAreCapped
  PROVE  Spec => []TypeOK
  <1>1. IInv => TypeOK
    BY DEF IInv
  <1> QED BY <1>1, Invariant, PTL
=============================================================================
