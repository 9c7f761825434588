------------------------------- MODULE Backups -------------------------------
(***************************************************************************)
(* Backups: one directory of archives, the captures that write into it, the *)
(* schedule and the two retention budgets (src/services/backups.ts create,  *)
(* tick, prune and sweepStaging, src/providers/archive.ts createZip,        *)
(* src/providers/backup-hook.ts, src/cli/backup.ts).                        *)
(*                                                                         *)
(* A capture copies into a staging tree of its own, named for the process   *)
(* that owns it, and zips that tree straight into the directory, so a file  *)
(* is listed from its first byte on.  Captures overlap: `running` holds one *)
(* scheduled pass apart from the next, and nothing holds a person's back.   *)
(* A command started while no panel ran captures in its own process, and    *)
(* any process may end in the middle, a panel's by an ordinary `down`.      *)
(*                                                                         *)
(* What an archive holds is left out.  Time is the ages the schedule asks   *)
(* for, counted up to the interval, and the clock does not step back.       *)
(***************************************************************************)
EXTENDS Naturals, FiniteSets

CONSTANTS
    Scheduled,  \* captures of the schedule, each the name of the archive it writes
    Manual,     \* captures a person asks for
    Keep,       \* the two budgets: keep, and schedule.keep
    Interval,   \* schedule.intervalMs
    MaxAtOnce,  \* bound on a person's captures under way together
    MaxDeaths,  \* bound on processes that end in the middle of a capture
    Settings    \* see Setting

\* overlap: two captures may be under way.  dies: a process may end within a capture.
\* reuse: the pid of a dead process may be found alive.
Setting == [overlap : BOOLEAN, dies : BOOLEAN, reuse : BOOLEAN]

Captures  == Scheduled \cup Manual
Processes == {"panel", "command"}
Kind(c)   == IF c \in Scheduled THEN "auto" ELSE "manual"

ASSUME BackupsAssumption ==
    /\ Scheduled \cap Manual = {} /\ IsFiniteSet(Captures)
    /\ Keep \in [{"auto", "manual"} -> Nat \ {0}]
    /\ Interval \in Nat \ {0} /\ MaxAtOnce \in Nat /\ MaxDeaths \in Nat /\ Settings \subseteq Setting

VARIABLES
    setting,    \* fixed at the start
    panelUp,    \* the panel runs
    running,    \* BackupService.running
    attempt,    \* the age of lastAttemptAt; null is as good as long ago
    task,       \* what each capture is at
    by,         \* the process it runs in, or none
    tree,       \* its staging tree: none, or the process the name gives, or a dead one
    files,      \* the archives of the directory
    newer,      \* which of them are newer than which, by their time
    whole,      \* the archives whose zip was closed
    age,        \* how long ago each of the schedule's was last written
    deaths

serviceVars == <<panelUp, running, attempt>>
dirVars     == <<files, newer, whole, age>>
backupVars  == <<setting, serviceVars, task, by, tree, dirVars, deaths>>

Stages == {"idle", "dump", "zip", "written"}

BackupTypeOK ==
    /\ setting \in Settings /\ panelUp \in BOOLEAN /\ running \in BOOLEAN /\ attempt \in 0..Interval
    /\ task \in [Captures -> Stages] /\ by \in [Captures -> Processes \cup {"none"}]
    /\ tree \in [Captures -> Processes \cup {"none", "dead"}]
    /\ files \in SUBSET Captures /\ newer \in SUBSET (files \X files) /\ whole \in SUBSET files
    /\ age \in [Scheduled -> 0..Interval] /\ deaths \in 0..MaxDeaths

Busy        == {c \in Captures : task[c] # "idle"}
Unused(c)   == task[c] = "idle" /\ tree[c] = "none" /\ c \notin files
OfKind(k)   == {c \in Captures : Kind(c) = k}
Good(k)     == whole \cap OfKind(k)

BackupInit ==
    /\ setting \in Settings
    /\ panelUp = FALSE /\ running = FALSE /\ attempt = Interval
    /\ task = [c \in Captures |-> "idle"] /\ by = [c \in Captures |-> "none"]
    /\ tree = [c \in Captures |-> "none"]
    /\ files = {} /\ newer = {} /\ whole = {} /\ age = [c \in Scheduled |-> Interval]
    /\ deaths = 0

-----------------------------------------------------------------------------
(* The directory *)

Aged(c, n) == [d \in Scheduled |-> IF d = c THEN n ELSE age[d]]

\* A write makes the file the newest of the directory.
Written(c) ==
    /\ files' = files \cup {c}
    /\ newer' = {p \in newer : c \notin {p[1], p[2]}} \cup ({c} \X (files \ {c}))
    /\ age' = Aged(c, 0)

\* The others keep their times.
Keeping(kept) ==
    /\ files' = files \cap kept /\ newer' = newer \cap (kept \X kept) /\ whole' = whole \cap kept
    /\ age' = [d \in Scheduled |-> IF d \in kept THEN age[d] ELSE Interval]

\* The first n of them, newest first.
Newest(S, n) == {c \in S : Cardinality({d \in S : <<d, c>> \in newer}) < n}

\* Slip: one list, so the two budgets eat each other.
Keepers_Together(k) == Newest(files, Keep["auto"] + Keep["manual"])

\* The newest of a kind, whatever state they are in: list() cannot tell.
Keepers(k) == Newest(files \cap OfKind(k), Keep[k])

Prune == Keeping(Keepers("auto") \cup Keepers("manual"))

\* Slip: a successful run clears whatever tree is not its own process's.
Swept_Others(c, spared) == {d \in Captures : tree[d] \notin {"none", by[c]}}

\* sweepStaging: the trees whose owner is found dead, and none of an owner that lives.
Swept(c, spared) == {d \in Captures : tree[d] = "dead"} \ spared

\* Unlink: a capture that still writes goes on writing to a file that has no name.
Unlinked(c) == Keeping(files \ {c})

-----------------------------------------------------------------------------
(* Captures *)

\* A name the clock makes new; which of the free ones does not matter.
MayBegin(c) ==
    /\ Unused(c) /\ c = CHOOSE d \in OfKind(Kind(c)) : Unused(d)
    /\ setting.overlap \/ Busy = {}
    /\ c \in Manual => Cardinality(Busy \cap Manual) < MaxAtOnce

BeginsCapture(c, process) ==
    /\ task' = [task EXCEPT ![c] = "dump"] /\ by' = [by EXCEPT ![c] = process]
    /\ tree' = [tree EXCEPT ![c] = process]

\* lastAutomatic(), or long ago.
LastAutomatic ==
    LET first == Newest(files \cap Scheduled, 1)
    IN  IF first = {} THEN Interval ELSE age[CHOOSE c \in first : TRUE]

Due == attempt = Interval /\ LastAutomatic = Interval

\* tick() of a running panel.
Tick ==
    /\ panelUp /\ ~running /\ Due
    /\ \E c \in Scheduled : MayBegin(c) /\ BeginsCapture(c, "panel")
    /\ running' = TRUE /\ attempt' = 0
    /\ UNCHANGED <<setting, panelUp, dirVars, deaths>>

\* POST /api/backups and the local control channel.
Request(c) ==
    /\ panelUp /\ MayBegin(c) /\ BeginsCapture(c, "panel")
    /\ UNCHANGED <<setting, serviceVars, dirVars, deaths>>

\* `backup create` that found no panel: one may be up by the time consent is given.
Command(c) ==
    /\ \A d \in Busy : by[d] # "command"
    /\ MayBegin(c) /\ BeginsCapture(c, "command")
    /\ UNCHANGED <<setting, serviceVars, dirVars, deaths>>

\* Slip: a pass that made no archive leaves the flag up.
Finally_OnSuccess(c) == running' = (running /\ ~(c \in Scheduled /\ c \in whole))

\* tick()'s finally, when the capture was a pass of the schedule.
Finally(c) == running' = (running /\ c \notin Scheduled)

Leaves(c) ==
    /\ task' = [task EXCEPT ![c] = "idle"] /\ by' = [by EXCEPT ![c] = "none"]
    /\ Finally(c)
    /\ UNCHANGED <<setting, panelUp, attempt, deaths>>

\* A dump hook that fails or times out, or a selection that captured nothing.
CaptureRefused(c) ==
    /\ task[c] = "dump" /\ Leaves(c)
    /\ tree' = [tree EXCEPT ![c] = "none"]
    /\ UNCHANGED dirVars

\* The tree is full: its archive is opened in the directory.
ZipBegins(c) ==
    /\ task[c] = "dump" /\ task' = [task EXCEPT ![c] = "zip"]
    /\ Written(c)
    /\ UNCHANGED <<setting, serviceVars, by, tree, whole, deaths>>

\* A write, and with it a newer time; nothing when the file was unlinked under it.
ZipGrows(c) ==
    /\ task[c] = "zip" /\ c \in files
    /\ Written(c)
    /\ UNCHANGED <<setting, serviceVars, task, by, tree, whole, deaths>>

\* A full disk, a source that cannot be read.
ZipFails(c) ==
    /\ task[c] = "zip" /\ Leaves(c)
    /\ tree' = [tree EXCEPT ![c] = "none"]
    /\ Unlinked(c)

\* The last write and the close.
ZipCloses(c) ==
    /\ task[c] = "zip" /\ task' = [task EXCEPT ![c] = "written"]
    /\ IF c \in files
       THEN Written(c) /\ whole' = whole \cup {c}
       ELSE UNCHANGED dirVars
    /\ UNCHANGED <<setting, serviceVars, by, tree, deaths>>

\* create() resumes: its tree goes, old archives go, dead processes' trees go.
Ends(c) ==
    /\ task[c] = "written" /\ Leaves(c)
    /\ Prune
    /\ \E spared \in SUBSET {d \in Captures : tree[d] = "dead"} :
        /\ setting.reuse \/ spared = {}
        /\ tree' = [d \in Captures |-> IF d = c \/ d \in Swept(c, spared) THEN "none" ELSE tree[d]]

-----------------------------------------------------------------------------
(* Processes, the clock and a person *)

Killed(process) ==
    LET lost == {c \in Busy : by[c] = process}
    IN  /\ lost # {} => setting.dies
        /\ deaths < MaxDeaths /\ deaths' = deaths + 1
        /\ task' = [c \in Captures |-> IF c \in lost THEN "idle" ELSE task[c]]
        /\ tree' = [c \in Captures |-> IF c \in lost /\ tree[c] = process THEN "dead" ELSE tree[c]]
        /\ by' = [c \in Captures |-> IF c \in lost THEN "none" ELSE by[c]]
        /\ UNCHANGED <<setting, dirVars>>

\* A crash, or a `down`: nothing waits for a capture.
PanelEnds ==
    /\ panelUp /\ Killed("panel")
    /\ panelUp' = FALSE /\ running' = FALSE /\ attempt' = Interval

CommandEnds ==
    /\ \E c \in Busy : by[c] = "command"
    /\ Killed("command") /\ UNCHANGED serviceVars

PanelStarts ==
    /\ ~panelUp /\ panelUp' = TRUE
    /\ UNCHANGED <<setting, running, attempt, task, by, tree, dirVars, deaths>>

\* DELETE /api/backups/:name.
RemoveArchive(c) ==
    /\ panelUp /\ c \in files /\ Unlinked(c)
    /\ UNCHANGED <<setting, serviceVars, task, by, tree, deaths>>

Older(n) == IF n < Interval THEN n + 1 ELSE n

Hour ==
    /\ attempt < Interval \/ \E c \in Scheduled : age[c] < Interval
    /\ attempt' = Older(attempt) /\ age' = [c \in Scheduled |-> Older(age[c])]
    /\ UNCHANGED <<setting, panelUp, running, task, by, tree, files, newer, whole, deaths>>

Step(c) == CaptureRefused(c) \/ ZipBegins(c) \/ ZipFails(c) \/ ZipCloses(c) \/ Ends(c)

BackupNext ==
    \/ Tick \/ Hour \/ PanelEnds \/ CommandEnds \/ PanelStarts
    \/ \E c \in Manual : Request(c) \/ Command(c)
    \/ \E c \in Captures : Step(c) \/ ZipGrows(c) \/ RemoveArchive(c)

BackupSpec == BackupInit /\ [][BackupNext]_backupVars

\* The panel ticks every second, time passes, and a capture comes to an end, either way.
BackupFairness == WF_backupVars(Tick) /\ WF_backupVars(Hour) /\ \A c \in Captures : WF_backupVars(Step(c))
BackupFairSpec == BackupSpec /\ BackupFairness

-----------------------------------------------------------------------------
(* Properties *)

\* A capture keeps the tree it copies into, whatever other processes sweep meanwhile
\* (sweepStaging goes by the owner, never by age).
LiveTreeSpared == \A c \in Busy : tree[c] = by[c]

Smaller(m, n) == IF m < n THEN m ELSE n

\* Where captures are one at a time and none is cut short, no step but a person's removal
\* leaves fewer good archives of a kind than there were, or than its budget asks for: a
\* pass of the schedule takes nothing of a person's, and a capture that fails costs none.
BackupStays ==
    [][~setting.overlap /\ ~setting.dies /\ ~(\E c \in Captures : RemoveArchive(c)) =>
        \A k \in {"auto", "manual"} :
            Cardinality(Good(k)') >= Smaller(Cardinality(Good(k)), Keep[k])]_backupVars

\* While the panel stays up the schedule goes on, whatever its passes came to and whatever
\* a panel before it left behind (tick(), lastAttemptAt, running).
ScheduleComes == setting.overlap /\ <>[]panelUp => []<>(\E c \in Scheduled : task[c] # "idle")
=============================================================================
