# home-hosted: a verification project

Specifications of **home-hosted**, a self-hosted panel that supervises the servers of one machine:
it starts them in dependency order, watches their health, restarts them within a budget, keeps some
of them alive across its own restarts through a detached "nanny" process, puts a reverse proxy in
front of them, reads its configuration from files people edit by hand, and backs up and restores all
of it. The modules are TLA+, checked
with TLC; the theorems are proved with TLAPS. Paths below are relative to the repository;
`supervisor.ts` is `src/src/services/supervisor.ts` and so on.

- [1. The system](#1-the-system) — the inventory
- [2. The modules](#2-the-modules) — how each corresponds to the code
- [3. The runs](#3-the-runs) — bounds, fairness, what each shows
- [4. What is proved](#4-what-is-proved)
- [5. Where the code departs from its own words](#5-where-the-code-departs-from-its-own-words)
- [6. Limits](#6-limits) — what is only model-checked, what is not modelled
- [7. Plan](#7-plan)

To repeat a run: `tlc -config MCLifecycle_overlap.cfg MCLifecycle.tla`. To repeat a proof: `tlapm
Lifecycle_proofs.tla`, and the same for `HealthBudget_proofs`, `Nanny_proofs`, `Fleet_proofs`,
`ConfigStore_proofs`, `BackupService_proofs`, `Proxy_proofs` and `Panel_proofs`.

## 1. The system

One Node process, the *panel* (`src/src/index.ts`), owns everything; a command line (`src/src/cli`)
starts, stops and restarts it and can work on its files without it. Nothing in the panel runs in
parallel: the interleavings are those of its event loop, where anything may happen at an `await`,
and those with the other processes: servers, nannies, editors, a second command line. What survives
a crash is files, which is why most invariants relate memory to a file.

Boot (`index.ts:394-448`) reads the settings and workspaces, listens, starts the proxy, then lets
each workspace's supervisor adopt what still runs and start what should. Shutdown
(`index.ts:354-367`) disposes of the same in reverse.

| component | state it keeps | operations | talks to | what is hard | what makes it correct |
|---|---|---|---|---|---|
| **Entry lifecycle** `supervisor.ts` | per entry: status, child, pid, adopted, retry timer and count, `starting`, `stopping`; `lastPid` in the entry's state file | start, stop, restart, exit, retry, tick, sync, dispose, adoption at boot | the kernel (spawn, signal, birth times), the state file | calls overlap at every await; exits arrive late; a panel may die anywhere; pids are reused | never two processes of one entry, never a stranger, the record names what runs, a stop is a stop |
| **Health** `supervisor.ts` | health, streak, forced-restart count, promised outcome | probe, readiness, forced restart, give up, memory limit | lifecycle | probes outlive what they were sent to; ticks overlap; a forced restart goes through start(), which resets counters | the budget holds, a sick entry ends stopped, every restart promised has an outcome |
| **Fleet** `supervisor.ts`, `dependencies.ts` | the walks over `dependsOn`, who holds the port | start with dependencies, five `onPortConflict` policies, freePort, startAll, stopAll | lifecycle, the port table | cycles; two entries want one port; lists read in two awaits | order, one supervisor per process, ours never signalled, everything ends |
| **Persistent entries** `nanny.ts`, `providers/nanny*.ts` | the nanny's state file and spec file; handle in the panel | spawn a nanny, its heartbeat, relay, forward of signals, report of exit, resume at boot, sweep by `down --with-persistent` | the panel, its files, the server | three processes and a file; any may die between two writes | one server, no nanny forgotten, every end told once, a stop that is one |
| **Workspace config** `config/store.ts`, `parse.ts`, `config-watch.ts` | two files; last trusted text, value and error of each; resolved servers | boot, poll, save, reset, reload | editors, supervisor.sync | refused, broken and missing files in any order against saves | what was read runs, a bad file costs nothing, saves write what runs |
| **Restore** `backups.ts`, `restore-lock.ts`, `cli/backup-offline.ts` | the lock file; staged dump in the entry's state file; `loadingPending` | take, break, release the lock; apply by panel or offline; stage; load hook | store, supervisor, panel | two processes and a stale lock; the staged dump rides on every save of the state file; the hook is asynchronous | one restore at a time, no lock left behind, a dump loaded exactly once |
| **Reverse proxy** `proxy.ts`, `proxy-config.ts`, `acme-challenge.ts` | engine process (under a nanny); `current.json`, `previous.json`, `admin.json`, `applied.json`, the nanny's state file; in memory the handle, the certificates' signature and the failures | start, stop, apply, revert, retry of a certificate, sync by the tick with a limit on failures, adoption at boot | nanny, TLS, the supervisor's servers, exposure | four writes around one request; the answer may be lost; the engine outlives its panel and can outlive its nanny; a capped engine's ports cannot be traced | the files say what the engine runs; one engine, on record; off is off; a renewed certificate is served |
| **TLS** `tls.ts` | certificate and key files, the listener | renew, upload, reload | proxy, control server | two files written in two steps | the pair served is a pair |
| **Dynamic DNS** `ddns.ts` | cache of what was sent, timer | pass, settings change | HTTP providers | the cache outlives the settings it was sent under | the record follows the address |
| **Panel process** `cli/up, down, restart`, `helpers/daemon.ts`, `control-server.ts` | `run.json`, the listening socket | up, down, restart, shutdown | everything | nothing locks the state directory; a running panel closes and binds its port anew; a pid in a record is reused; the clock steps; a panel hangs or stops half way | one panel supervises while the port is held; a panel that is up is on record; no stranger is signalled; a panel waited on ends |
| **Workspaces** `config/workspaces.ts`, `panel.ts` | list of workspaces, a runtime for each | create, remove, restore, reload | store, supervisor | a runtime removed while in use | a runtime for each workspace |
| **Backups** `backups.ts`, `archive.ts`, `backup-hook.ts` | the archives in one directory, staging trees, `running` and `lastAttemptAt`, two budgets | capture (dump hooks, copy, zip), tick, prune, sweep, removal, by the panel or a command | restore, store | captures overlap, in two processes; a file counts from its first byte; a process dies in the middle | a live tree is not swept; retention takes no good archive it should keep; the schedule goes on |
| **Global settings, secrets** `config/settings.ts`, `secrets.ts`, `migrations.ts` | files, key | read, save, seal | store | another baseline rule than the workspace store's | as the store |
| **Auth** `auth.ts` | sessions, throttle | login, expiry, revoke | API | expiry | none outlives its revocation |
| **Logs** `log-files.ts`, `log-relay.ts`, `log-buffer.ts` | files, offsets | append, rotate, tail | nanny | rotation under the tail | no line twice or lost |
| **UI updates, notifications, history, ports/processes/docker, host metrics, HTTP API** | little or none of their own | | | | |

How they call each other: the API and the command line call the supervisor, store, backups and
proxy; the store's change notification calls `Supervisor.sync`; the supervisor and the proxy both
spawn nannies; a restore writes through the store, then stages a dump with the supervisor; the tick
of each supervisor drives retries, probes and the watch on adopted pids.

`PROJECT.json` lists every component with its status, and under `hazards` each place in the code
where something can go wrong that a test would hardly reach; those lists are what the properties are
for.

## 2. The modules

An action is a turn of the event loop: from where a function resumes after an `await` to the next
one, with everything it calls. Calls in flight are records (`task`, `at`, `job`) whose `at` names
the `await` they are parked at.

**Lifecycle** (with **EntryHandle**, its abstraction, and **Lifecycle_proofs**): one non-persistent
entry. `task[t]` is a call in flight and the await it is parked at. `StartAccepted`,
`StartAfterDependencies`, `StartAfterRecordedChild`, `StartAfterBootstrap`, `StartAfterPreflight`
(with `Spawn`) and `AwaitReadiness` are the stretches of `start()` and what it calls; `BeginStop`,
`StopAfterSignal`, `StopAfterSweep`, `StopAfterCompose` and `ReleaseHandle` those of `stopEntry`;
`HandleExit` and `AfterExit` the exit handler; `TickAdoptedExit` and `RetryFires` the tick and the
retry timer; `Disable`, `Enable`, `Remove` and `ListedAgain` are what `sync` does on a config edit; `PanelExits`
and `PanelKilled` the two ways a panel ends and `Boot` its adoption pass. `proc[p]` is what the
kernel has under a pid: nothing, a live process of the entry, a zombie, or a stranger once the pid
is reused. `diskPid` is `lastPid` in the state file. An id that leaves the configuration and comes back
is a new Entry object: `Remove` clears the record and leaves the old one's processes (`left`), its calls
(`goneStart`, `goneStop`, `goneRestart`) and its retry timer (`leftTimer`) to go on beside the new one
(`GoneStart`, `GoneStop`, `LeftRetryFires`); `Ours` are the processes of the Entry listed now. The module is
shown to implement `EntryHandle`: the processes of the Entry listed are launched one at a time, recorded
as they are launched, and forgotten only once gone (`Forget`) or abandoned with the Entry (`Abandon`).

**HealthBudget** (with **HealthBudget_proofs**): the probe, the threshold, `shouldForceRestart`,
`settleRestart`, `giveUpOnHealth` and the memory limit (2300-2460), over a start and a stop cut down to
the points that health tells apart. A probe is asked in one step and answered in another; `world.late`
says whether anything may come between.

**Dependencies**, **Fleet** (with **Fleet_proofs**): `orderByDependencies` and `dependenciesOf` against
the definition of a topological order, and several entries with a contested port. The recursive
`visit` of the code is a function by levels: level n goes n calls deep, and since each call marks one
server more, as many levels as there are servers are the whole of it. `Configured` is the graph the
supervisor's loops see: the names of servers that are not configured are ignored. `portHolders` is
modelled as the two reads it is (`supervisedPids`, then the listeners). Start all orders every entry
configured; in the code, boot orders those with `autoStart`, which is the same walk over fewer. A
world says which entries are disabled (not started, and passed over by the starts of those that depend
on them) and whose processes are `alike`: `ownPortHolder` recognises a process by a marker that is only
the server's id, or by its command line, so one holder may be several entries' own (`LooksLike`).

**Nanny** (with **Nanny_proofs**): a persistent entry through three processes. `nanny[n]` and
`server[n]` are the n-th nanny spawned and its child; `record` is the nanny's state file, `spec` the
spawn spec on disk, `handle` what the panel holds. `SweepStep` is `stopPersistentEntries` run by the
command line with no panel.

**ConfigStore** (with **ConfigStore_proofs**): `settingsFile` and `serversFile` are the texts on disk (a
usable content or `Refused`, `Broken`, `Missing`); `store` is the WorkspaceStore's memory: last texts,
errors, trusted revision (`raw`) and resolved servers. `Poll` is the watcher's `reloadFromDisk`,
`ReloadAll` the reload a restore asks for, `Boots` the load, and `SaveServer`, `RemoveServer` and
`SaveSettings` the saves. A resolved server is its own value or the default it inherits.

**Restore** (with **BackupService_proofs**): `lock` is `restore.lock` (absent, created and still empty, or
a record), `job[j]` a restore: taking the lock is `looked` (read it), `created` (exclusive create),
then writing the record, each its own step for another process to come between; a restore of the
panel applies in one turn, one of the command line in several; either may fail once it has the lock
(`Fails`: a wrong password, a bad archive), which gives it back. `entry` is the supervisor's,
`pendingOnDisk` is `pendingLoad` in its state file, `runs` the calls of `runPendingLoad` past their
first turn.

**Backups** (also with **BackupService_proofs**; its names have a prefix where Restore has them too, as
both are parts of one `BackupService`): `files` are the archives the directory lists, `newer` their
order by time, `whole` those whose zip was closed, `tree[c]` the process in the name of a staging tree
(or a dead one), `task[c]` a capture between its `await`s: the dump hooks, the zip, and `written`, where
`create()` is about to resume. `Ends` is that last stretch: its own tree goes, both budgets are pruned,
dead processes' trees are swept. `Tick` is the schedule's turn, `Request` and `Command` a person's
capture by the panel or by a command line that found none. Ages are counted up to the schedule's
interval.

**Proxy** (with **Proxy_proofs**): the panel's memory (`mem`), the five files (`disk`), each nanny with
its engine (`proc`) and what that engine serves (`runs`). A configuration is a `Revision`: the table,
the state of the certificates and whether the supervised server runs, all read when it is rendered.
`task["user"]` is the API's call, and `task[t]` for each of `Ticks` a sync, each parked at an `await` of
`start`, `apply`, `revert`, `retryCertificate` or `stop`. The panel ticks every second without asking
whether the tick before has come back (`panel.ts:108-110`), so in a `slow` world a sync may begin
while others are out. `untold[n]` records what an engine did that no call
heard of (a load whose answer was lost, a start or stop that died with the panel): there the files
cannot know.

**Panel** (with **Exclusive**, its abstraction, and **Panel_proofs**): `step[p]` is a panel between
its spawn and its exit, `record` is `run.json`, `listener` the owner of the port, `taken` the pids
the kernel handed out again, `cmd[c]` an `up` or a `down` in a terminal. A running panel may close its
listener (`LetsGo`) to bind it again with another certificate or setting (`Relistens`), which can fail
for good: `closed` are those without their port, and `crossed` remembers which panels shared the
servers with one of them, or came up before a `down` was done with the panel before. `Liveness` is
`processLiveness`, with what it can and cannot tell on platforms that give births and those that do
not. The module is shown to implement `Exclusive`, a lock on the servers, which a panel loses with its
port.

`PROJECT.json`'s `map` gives, for each definition, the lines it stands for.

## 3. The runs

Every passing property has a mutant: a plausible slip in a mapped definition (the definitions named
`X_SomeSlip`) under which TLC finds the property violated.

| run | shows | bounds and why they are enough |
|---|---|---|
| `MCLifecycle_overlap` | `TypeOK`, `AtMostOneLive`, `NoStrangerSupervised` and the refinement `HandleSpec`, with any two calls overlapping, panel deaths and boots, reused pids, a compose stack, processes that outlive SIGKILL, and an entry that is dropped and listed again with calls in flight | two pids (an old and a new one, each reusable without limit), two calls at once: the races of the code are between two; the retry budget is 1, so reached and exceeded. Panel deaths, boots, and the times an entry is dropped and listed are unbounded |
| `MCLifecycle_live` | `HonestStop` where a stop meets no other call, `TransientEnds` | as above, stops do not overlap |
| `MCHealthBudget_budget` | `BudgetBoundsRestarts`, `ForcedOncePerProcess`, `SickEntryStops` | three processes: first, forced, and one asked for after; threshold 2 so that a streak is more than one answer; budget 1 |
| `MCFleet_start` | `OrderRespected`, `OneSupervisor`, `DependencyFirst`, `QuickSparesOurs`, `EverythingEnds` | three entries give a chain, a diamond's half, a cycle, a cycle with a bystander, a server named that is not configured, and a chain with a disabled link; two entries for the port, policies in the pairs that differ, and two with one command line; two calls by the user |
| `MCNanny_persistent` | `OneServer`, `NoStranger`, `EndIsRecorded`, `StopIsReal`, `StopsEnd` | two nannies: one and its successor; the panel comes back twice, so that a boot meets what the boot before it left; eight worlds of stop policy and surroundings |
| `MCConfigStore_files` | `ReadIsInForce`, `RemovalIsMeant`, `Converges` | two entries (the one touched and one that must not be), two sets of defaults, three edits (bad, good, again) against two saves or restarts |
| `MCRestore_host` | `OneRestore`, `LockIsAccounted`, `StagedIsKept`, `LoadedOnce`, `LoadRuns` | two restores, for the lock and for a newer dump; three calls cover start, death and boot; hosts where the entry was absent, hookless or hooked, with or without autostart, and the ill-behaved ones (outwaited, torn, a panel beside the command line); a restore may fail at any point once it has the lock |
| `MCBackups_keep` | `LiveTreeSpared`, `BackupStays`, `ScheduleComes` | a budget of one of each kind, so that every capture after the first prunes; three scheduled archives (kept, pruned, under way) and two of a person; an interval of one step; one death, which leaves both a tree and a partial archive; a world where captures come one at a time and one where they overlap, processes die and pids are reused |
| `MCProxy_engine` | `FilesFollowEngine`, `EngineIsRecorded`, `OneEngine`, `OffIsOff`, `CertificateServed`, `CallsEnd` | two engines, one and its successor; two calls of the API beside the tick; two failures, so that the limit is reached and not at once; a good table and one the engine refuses; four worlds: a capped engine whose nanny may be killed with a user who reverts; lost answers, with one call; an engine whose ports can be traced with a route to a supervised server; and, over one engine and with one call, two syncs that overlap one another and the call |
| `MCPanel_daemon` | `UpIsRecorded`, `StrangersSpared`, `WaitedOnEnds` and the refinement `IsALock` | two panels (one and the next, or two started together) and two terminals: each race is between two, also that of a panel which gave its port up with the one that got it |
| `MCLifecycle_lost_stop`, `MCConfigStore_typo` | each one disagreement of the code with its own words, section 5 | those of the run beside it |

`TypeOK` is a run's invariant for Lifecycle, whose retry counter it bounds, and proved for every module
but Dependencies, which has no state. Deadlock is checked except for Fleet, Nanny, Restore,
Backups, Proxy and Panel: there the user's calls, the processes or the deaths are bounded, and with
them used up and every process at rest the system has stopped as it should.

**Conditions inside properties.** Some properties hold under a condition that a run's worlds leave
and enter: `world.late` (health), `world.quick` (the two reads of the port's holders),
`Followed` (boot
reattaches and SIGKILL ends a nanny), `Orderly` (and nobody kills a nanny alone), `Undisturbed` (and a
stop signals the whole group), `world.vanish` (a file that is gone is seeded
empty by a reload), `unbroken` (no lock holder died or was outwaited), `world.meet` and `world.old =
"plain"` (a panel started beside an offline restore; a running entry whose old configuration has no
load hook), `untold` (an answer of the proxy's engine that no call heard), `births` (a platform that
tells when a process was born), and for `BackupStays` captures that come one at a time and are never
cut short (`ScheduleComes` is stated for the other world, where a person's capture that hangs cannot
hold the schedule back), and no panel `crossed` with one that lost its port or with a `down` not yet
done. Outside them the code does not keep the property, and sections 5 and 6 say so.

**Fairness.** Node runs every continuation, event and due timer, and a process that was signalled
ends: these are weakly fair. Users, the kernel's reuse of a pid, crashes and a server's own exit
promise nothing, and a panel that is down owes nothing. Strong fairness is asked for the retry timer
(Lifecycle, HealthBudget), the probe and the tick (HealthBudget): they are enabled again and again,
and only the model, whose few `Tasks` may all be taken, holds them back; the code has no such limit.
In Fleet, `startTimeoutMs` running out is the step that ends the wait in a cycle, and only doomed
processes have to end. In Nanny the panel's, the sweep's and the nannies' own steps, and the end of
a server that is leaving, are fair. `Converges` asks for the poll, and for a panel that comes back;
`LoadRuns` for the spawn, the end of the wait and of the hook (both bounded by the hook's own
times), and not for the entry that is adopted alive (section 5). In Backups the tick, the clock and the next step of each capture are fair, whether it
succeeds or fails; growth, removal, death and the panel's return are not. In Proxy each call's next
step (every wait has a timeout), each engine's start and end, and the next sync are. In Panel each
panel's own steps and each command's are, except of a panel that hangs; a listener that was closed
need not come back.

## 4. What is proved

With TLAPS, for every value of the constants: any number of pids, calls, panel crashes,
nannies, entries and their dependencies, restores, captures, dumps and hosts. Every safety invariant
and action property that a run checks has its theorem; liveness has none (section 6).

**Lifecycle** (`Lifecycle_proofs`). `TypeCorrect` (`TypeOK`), `SingleStart` (`OneStartInFlight`),
`NoTwin` (`AtMostOneLive`), `AlwaysRecorded` (`LiveIsRecorded`) and `Implements` (`HandleSpec`, the
refinement). `NoTwin`, `AlwaysRecorded` and `Implements` assume `MarkerReadable`: on a platform where
the entry's marker cannot be read off a process, the code takes a pid it cannot identify for free, and
the property is not claimed. None of the invariants is inductive alone: two live processes are excluded
only because a start that is past `resolveRecordedChild` knows nothing runs (`ClearedToSpawn`), which
holds only because what the panel remembers is what is on disk (`RecordMirrored`) and what runs of the Entry listed is what
it remembers (`LiveIsRemembered`); and only one
start is past it because `starting` says so (`CallsInv`). `IInv` is the conjunction, one lemma per
action. An Entry that was dropped is kept out of it: what it left behind is still there, so that no
process spawned later is taken for it (`LeftRuns`), and an entry the configuration does not list has
neither process, record nor start (`DroppedIsBare`). So the
theorems are about the processes of the Entry listed, and say nothing of one beside it that an Entry
dropped before is still stopping (section 5). `OursOnly` (`NoStrangerSupervised`) needs no marker: the pid the supervisor holds was a live
process of the entry's when it was taken (`PidIsOurs`), and `PidRecycled` reuses none that is watched
(assumed, section 6).

**Lifecycle's stops** (`Lifecycle_proofs`, second half). `StopIsStop` (`HonestStop`) assumes what the
property is conditional on, `StopsMeetNothing`: no second call meets a stop, no process survives its
signals, no compose entry. Inductive (`HonestInv`): a stop under way is alone, and past its first wait
no child runs (`StopsAlone`); what runs is the child held, and no start goes on beside it (`ChildSeen`,
`AdoptedSeen`); the status tells of a stop, a start or a retry on its way (`StatusTold`); and a panel
that is gone left nothing in memory (`Forgotten`).

**HealthBudget** (`HealthBudget_proofs`). `BudgetHolds` (`BudgetBoundsRestarts`), `NoneForcedTwice`
(`ForcedOncePerProcess`) and `TypeCorrect`, for any threshold, budget and number of late answers. The
budget is a count, `healthRestarts`, that `start()` resets, and every forced restart goes through
`start()`: inductive is that the count is what was really forced since the last start asked for
(`Paid`). A process is forced down once because from then on it is being stopped and nothing calls it
serving again (`Condemned`, `RunsOn`), and where nothing happens while a probe is in flight, its answer
finds what it asked (`Prompt`).

**Nanny** (`Nanny_proofs`), from `ConstantsAssumption` only, and without fairness. `OneServerEver`
(`OneServer`), `NobodyIsAStranger` (`NoStranger`), `EndsAreRecorded` (`EndIsRecorded`), `StopsAreReal`
(`StopIsReal`) and `TypeCorrect`, over a panel that dies between any two steps. None of them is
inductive: that a start spawns no second nanny rests on what the panel holds, which a death erases and
only the state file gives back. `IInv` has four parts.
- `BasicInv`, in every world: whoever is held, stopped or swept was spawned; a panel that is gone has
  nothing in memory (`Forgotten`); a stop and a sweep have whom they signal (`StopHolds`, `SweepHolds`);
  an exit on record is that of a nanny on its way out (`RecordTells`).
- `FollowedInv`: one nanny at a time, on record from its server's first moment (`OneOnRecord`); a panel
  past its first pass holds the one there is, and none holds one while its start is in flight
  (`PanelHolds`); a stop or a sweep goes on only once whom it ends has ended (`EndersEnd`); what was
  told is off the record (`ToldIsOver`). It is one conjunction because the parts need one another: the
  spawn keeps `OneOnRecord` only by `PanelHolds`, and boot re-establishes `PanelHolds` from the record.
- `OrphansInv`, where nobody kills a nanny alone: a server is left without its nanny only by a stop that
  signals no group.
- `EndKept`, where nothing is left behind: an end nobody asked for is told, or still in the file.

The conditions are needed: section 5 describes how, where boot does not reattach, a second nanny comes
to be.

**Fleet** (`Fleet_proofs`), from `ConstantsAssumption`, which asks that the entries be finitely many.
First the walks, for every graph, also with cycles, self-loops and names of nobody: `DependenciesRight`
(`dependenciesOf` returns exactly what is below a server, itself excepted, each once, and in topological
order where there is no cycle) and `OrderRight` (`orderByDependencies` likewise returns exactly the
servers it was given and what is below them). A level of `visit` is shown right from the one below it
(`LevelVisits`): from a walk in which everything listed has what it names listed or pending (`Sound`),
it returns such a walk, with its server seen, nothing new pending and nothing listed that is not below
(`Visits`), as long as the servers not yet seen are fewer than the levels left (`Fits`). What is pending
is above the server visited (`Below`), so a server not listed when one that names it is means a cycle.
The induction on levels is `UpTo`, from a least element of a set of numbers (`Least`), which the
library's theorem that finite sets are well-founded by inclusion gives.

Then the state machine.
- `NoProcessIsShared` (`OneSupervisor`): a process that is held is one its entry recognises
  (`HandlesRecognised`), which several may; that no two hold it (`HeldAlone`) is because an entry adopts
  only a holder that no other has in hand, and what it has read of that still holds (`ReadIsNow`) where
  the two reads are one.
- `OursAreSpared` (`QuickSparesOurs`): where the two reads are one, the supervised pids a start acts on
  are those there are (`ReadIsNow`).
- `StartsAndStopsInOrder` (`OrderRespected`): every list in flight is a tail of one that a walk made
  (`JobMoves`, `Moves`), and tails keep the order. That nobody takes the tail of an empty one is
  `Coming`: whoever waits waits for somebody.
- `DependenciesComeFirst` (`DependencyFirst`) needs more than order, since a cycle has none: while a
  start sees to its dependencies, each that is not disabled is still on its list, was seen up, or was
  waited for in vain (`Covered`). At first all of them are on the list, by `DependenciesRight`; one leaves it because it is
  up or was waited for in vain, and a start has seen whoever is up (`Seen`), since no step but a health
  check adds to those and a server starting is not yet healthy (`NotYet`).
- `TypeCorrect` (`TypeOK`).

**ConfigStore** (`ConfigStore_proofs`). `ReadMeansInForce` (`ReadIsInForce`), `UnusableCostsNothing`
(`RemovalIsMeant`) and `TypeCorrect`, for any ids and defaults and any number of edits, saves, reloads
and restarts. Inductive: what was read last, if usable, is live (`ReadIsLive`), what is live is applied
(`LiveIsApplied`), the files are there unless they may vanish (`FilesThere`), and a servers file not
read yet lists what a person last asked for (`UnreadIsMeant`). `Kept` is what one step does under
them: it drops no entry that is meant.

**Restore** (`BackupService_proofs`), from `RestoreAssumption` only.
- `Exclusive` (`OneRestore`) and `NoneLeftBehind` (`LockIsAccounted`). The invariant says what
  the file and the jobs know of each other: while unbroken, a job that holds, or has created,
  the lock is the one it names, the lock names such a job, and nobody has seen a stale record
  (`Agrees`). Broken or not, a lock on disk has an owner that has not ended.
- `NeverTwice` (`LoadedOnce`): at most one call of `runPendingLoad` is on its way and
  `loadingPending` tells of it (`OneRun`); a dump on record has never been run (`PendingIsNew`),
  because the record is cleared, on disk too, before the hook begins.
- `StagedStays` (`StagedIsKept`): the supervisor's entry and the files agree while no panel
  meets a command line's restore (`PanelIsFiles`, `FilesAlone`), and an owed dump has a
  configuration with a hook (`HookOwed`), so that no save, start or boot writes anything else.
- `TypeCorrect` (`TypeOK`).

**Backups** (`BackupService_proofs`), from `BackupsAssumption`: finitely many captures, budgets that
keep something. `TreesSpared` (`LiveTreeSpared`), for any captures, budgets, overlaps,
deaths and reused pids: a capture under way has a process that lives, and its tree is in that
process's name (`Owned`), while the sweep takes the trees of dead owners only. `BackupsStay`
(`BackupStays`): no step but a person's removal leaves a kind fewer good archives than it had, unless
as many as its budget keeps. The invariant (`DirInv`): the directory's order is one (`Ordered`), an
archive is there only once its zip began and whole only once it was closed (`DirOK`), and where
captures come one at a time and none is cut short, at most the one under way is not whole (`Alone`).
That last part is why the property is not claimed elsewhere: an archive that is not whole is counted by
`prune` all the same. The step is counting: of any files there are n among the n newest, if there are
so many (`NewestEnough`), since a least element of those left out has n newer ones. `BackupTypeCorrect`
is the module's type invariant.

**Proxy** (`Proxy_proofs`). `EngineIsAlone` (`OneEngine`), `EngineIsFound` (`EngineIsRecorded`),
`FilesAreTrue` (`FilesFollowEngine`), `OffStaysOff` (`OffIsOff`) and `TypeCorrect`, for any number of
engines, calls, syncs at a time and failures. They assume `OrphansAreCapped`: where a nanny may be killed over its
engine, the engine's ports cannot be traced to the record; over one that can be traced a start passes
`assertPortsFree()` and spawns a second engine (section 5). The invariant: the state file names what
comes up, serves or ends under its nanny (`NannyRecorded`); a start has nothing alive beside what it
spawned, and a stop ends what is on record (`StartsAlone`); a load that was not crossed by another is
what its engine runs (`LoadsAnswered`), and none is out while an engine comes up (`ComesUpFresh`);
from there the files follow (`FilesFollow`), and switched off nothing comes up and a stop is under
way (`OffStops`).

**Panel** (`Panel_proofs`). `UpStaysOnRecord` (`UpIsRecorded`), `NoStrangerSignalled`
(`StrangersSpared`), `PortIsALock` (`IsALock`, the refinement of `Exclusive`), `SupervisesAlone` (two
panels have servers in hand only if one of them is without its port) and `TypeCorrect`, for any number of
panels and terminals. The invariant: a panel that may have servers in hand holds the port unless it gave
it up (`PortIsHeld`); two that have got past listening have `crossed` (`MeetCrossed`), since the later
one found the port free; a record names a panel that came up (`RecordIsPast`); a pid taken by another
process is a dead panel's (`TakenAreDead`); and a `down` is at work on a panel that came up, after whose
death whoever is up has `crossed` it (`DownIsOnLast`), which is why the record it then clears is that of
no other panel.

## 5. Where the code departs from its own words

Two have a run whose counterexample shows them; `PROJECT.json`, `findings`, quotes the lines.

1. **A stop can be lost** (`supervisor.ts:951`, `MCLifecycle_lost_stop`): a stop while a start has
   no child yet clears `stopping` in the same turn and answers; the start then spawns.
2. **A bad settings.json changes servers** (`config/store.ts:497`, `MCConfigStore_typo`): inherited
   defaults fall back to the schema's.

Seen while modelling, described by the models where the state is there, and with no run:

- *Lifecycle.* Disabling an entry while its start is in flight leaves it running
  (`supervisor.ts:1210`, `docs/SERVERS.md:87`). Stopping an adopted compose entry lets the tick arm
  a retry (1027). Boot resets the persisted retry budget (426, `docs/SERVERS.md:94`). A second stop
  resets `stopping` while the first is finishing. An id that is dropped from the configuration and listed
  again is a new Entry with a cleared record (`supervisor.ts:1189`, 1219-1222), while the stop of the old
  one (1195) is not waited for: the new one can launch a second process beside the one still stopping, or
  beside one that a start in flight on the old Entry spawns only then, and no record names the old.
- *Health.* A probe's late answer is applied to an entry that has no process any more
  (`supervisor.ts:2328`). With late probes recovery can be announced early (2327, against 2018-2021).
  Restarts for the memory limit have no budget (2384).
- *Fleet.* A process of ours can be taken for foreign and signalled: the supervised pids are read one
  await before the listeners (742; the properties hold under `world.quick`). Two entries that look alike
  and follow the port's holder can, both between reading who is supervised and adopting, adopt the same
  process; and one that is killed or reclaimed can be the look-alike's, for the marker is the server's id
  only, and without one the command line decides (`identity.ts:302-328`). A start passes over a dependency that
  is disabled without a word (`supervisor.ts:866`), so a server may serve with one it names not there.
- *Nanny.* With `--no-autostart`, a start that reports the exit of the panel's absence leaves "crashed"
  over a live server (1992), and `attachChild` promotes only "starting". The guard of `start()` is the
  status (448-463), so a second start is accepted; until the new nanny has written its state file
  nothing stops it, and it spawns a second one, which the comment on the guard means to exclude ("two
  overlapping `start()` calls
  ... would otherwise both reach `spawnEntry` and orphan one", 465). It takes three
  nannies (the one that exited, and two), one more than the run has; the properties claim one server
  only where boot reattaches (`Followed`). `docs/SERVERS.md:355` says `--no-autostart` still adopts;
  `index.ts:444` skips the pass that does. `docs/SERVERS.md:361` says "reported, not restarted";
  startAll's second pass restarts an autostart entry. A nanny killed hard has its record cleared though
  its server lives. With `killGroup` off, a stop before the nanny wrote its child's pid leaves the
  child; so does a panel that dies between the nanny and its child. The spec file stays when a spawn
  fails asynchronously.
- *Restore.* Taking over a stale lock is a plain write, so two processes can both do it
  (`restore-lock.ts:7` against 139-142). A lock file created and never written refuses for ever
  ("unreadable"). A restore of more than 30 minutes is outwaited. A running entry whose old
  configuration has no `load` hook forgets the dump that the plan announced as staged
  (`supervisor.ts:567-572`). A second dump is copied over the first in `pending-load`, which nothing
  cleans. An offline restore beside a booting panel can lose `pendingLoad`. A dump is forgotten
  before its hook runs, deliberately, so a hook that fails is not retried. The comment at `supervisor.ts:455-457` says a dump "must not sit
  there for ever" on an entry that is up already: it is run where `start()` meets one that is running,
  but not where `start()` adopts a child that outlived its panel (525), which returns before it; that dump
  waits on record for a further start or the next spawn. `LoadRuns` leaves this entry out.
- *Config store.* A save overwrites a hand edit not read yet (documented, `docs/SERVERS.md:454`). A
  servers file that is missing at `reloadAll` is seeded empty, which stops everything.
- *Backups.* `README.md:702` and the comment on `create` (`backups.ts:735`) say a scheduled pass never
  prunes what a person took. `prune` counts every archive in the directory, also one that still grows
  or that a death left half written, as one to keep: while a person's capture is under way, or after
  one was cut short, the end of a pass removes a finished manual archive. An ordinary `down` waits for
  no capture (`PanelService.dispose`), so it leaves such a partial archive too, which is also the
  schedule's newest until the interval is over.
- *Proxy.* A server that comes up after a rendering stays dark until the settings are saved or a
  certificate moves (`proxy.ts:1195`, 1316, against `docs/REVERSE_PROXY.md:76`); at boot the proxy
  renders before the servers start. `start` writes `current.json` before the engine accepts it, so
  after a restart `previous.json` holds the same. The tick's first sync only takes the signature, so a
  certificate that arrives between a rendering and it is not served. `start` sets no flag before its
  first await: two overlapping ones spawn two nannies (1636). Of two overlapping saves the older table
  can land last; so can the older of two loads that overlapping syncs ask for with other certificates,
  and the one before the renewal is then served until something moves again (`panel.ts:108`, no sync
  asks for another's end). A panel that dies while it waits for the engine leaves no `applied.json`, and a capped
  engine's port is then refused until it is stopped; one that dies between saving `enabled: false` and
  the stop leaves the engine serving. A `stop` of a capped engine whose nanny was killed forgets it
  unsignalled (1757, against `docs/REVERSE_PROXY.md:61-68`), and a start over an uncapped one passes
  the port check and overwrites its record. When the second load of `retryCertificate` fails, the route
  stays out. After a lost answer, settings put back to the old text are taken for applied.
- *Panel.* A panel that restarts its listener on the same port (`control-server.ts:66-77`, for a
  certificate or a proxy setting) holds no lock meanwhile, and none ever again if the port cannot be
  bound: it goes on supervising and listens nowhere (`api/tls.ts:65-67` says as much). A panel that
  booted past its checks by then, or is started where a clock step makes the record look recycled, then
  supervises the same servers. `run.json` is deleted without looking whose it is, by `shutdown()`
  (`index.ts:362`) and by a `down` whose panel has ended (`down.ts:112`, 118, 143), so a panel that came
  up in between runs off the record; where the pid looked recycled, the comment says the record "is left
  for that panel to overwrite" (103-104) and line 112 clears it. `.last-stop.json` is never removed, so a panel killed later is still shown as having exited
  cleanly (`README.md:546`, `cli/status.ts:54`). Two `up` on different ports give two panels
  (`README.md:957`). Moving the panel to another port does not rewrite `run.json`, so a `down` calls
  the old address, falls back to SIGTERM and loses `--with-persistent`. A panel whose shutdown failed
  half way ignores every signal but SIGKILL. Where births cannot be read, a `down` can signal a
  stranger.
- *Dynamic DNS* (not modelled). A record is skipped as unchanged on its address alone (`ddns.ts:219`),
  also after its account, zone or proxied flag changed.

## 6. Limits

**Only model-checked.** Liveness (`TransientEnds`, `SickEntryStops`, `EverythingEnds`, `StopsEnd`,
`Converges`, `LoadRuns`, `ScheduleComes`, `CertificateServed`, `CallsEnd`, `WaitedOnEnds`): fairness and
ENABLED are out of the prover's reach. The library's induction theorems are out of reach too, since
they take the formula as a parameter; where a proof needs induction (the levels of a walk, the turns
of a loop, the newest of some files) it is on a set of numbers instead (`Least`, `UpTo`).

**Abstracted.** Pids, processes, dumps and texts are model values; a configuration is what the
properties tell apart; a probe is a verdict; time is order, with a timeout as a step that may come
when something is waited for. Log lines, wording and history's text are left out. Writes of a state
file succeed (`writeEntryState` swallows a failure: a full disk is not modelled) and are atomic, as
`writeFileAtomic` is.

**Assumed about the surroundings.** A pid the panel watches is not reused between two ticks. In
Lifecycle: one boolean stands for all the timers that dropped Entries left; a start of a dropped Entry
may give up, spawn or fail at any time; a preflight that meets a process of a dropped Entry and adopts
it is not modelled (ports are Fleet's). In HealthBudget a server that never passes a probe is not up for
`resetAfterMs` either. In Fleet the port has one listener, so the rule for two candidates is never met. In
Nanny: a panel boots no faster than a nanny reaches its state file and not while `down` sweeps,
`resumePersistent` is one step, the entry has no port, and a user's calls wait for one another
(their overlaps are Lifecycle's). In Restore: a panel's apply is
one step, which fails before its writes or not at all; a whole archive of one entry, a start has no failure
of its own (Lifecycle's), and a stop before the spawn is no step (it is the lost stop of section 5).
In Backups: the clock does not step back, backups stay enabled and the budgets are not lowered; a
person has one capture under way. In Proxy: the engine is installed and answers on the unix socket,
DNS-01 is off, every table uses the same ports, the API has one call in flight beside the syncs,
a nanny reaches its state file before a panel that died is back, an answer sent before the engine died
is read before the next is spawned, and certificates move one at a time or while a sync is out
(`CertificateServed` excuses loads of different texts that cross). In Panel: every panel is
started on the same port and stays on it, the clock steps forward only, a pid is not reused while a
`down` works on it, and the record of a dead pid is checked and cleared in one step; a closed listener
may come back at any time, where the code tries three times in 400 ms.

**Not modelled**: the components marked so in `PROJECT.json`, with the reason.

## 7. Plan

Done, in the order of what the panel is for (keep servers up and never twice, then the files it runs
from, restoring, serving, and the panel itself): Lifecycle (with EntryHandle), HealthBudget,
Dependencies and Fleet, Nanny, ConfigStore, Restore, Proxy, Panel (with Exclusive), Backups; and the
proofs of the safety properties of all of them.

Next, in this order:

1. **Theorems**: an abstract store (what runs is the last usable revision) that ConfigStore implements;
   `EntryHandle` for Nanny, whose one server is the same promise.
2. **Workspaces**: create, remove and restore of a workspace against its runtime.
3. **Dynamic DNS and TLS**: the pass and its memory of what was sent against the settings that change
   under it; the pair's two files.
4. **Global settings, sessions, log rotation** as room allows.
