--------------------------- MODULE Lifecycle_proofs ---------------------------
(***************************************************************************)
(* Proofs about Lifecycle, for any pids, any number of calls in flight and *)
(* any configuration of the entry: type correctness, one start in flight   *)
(* and no stranger supervised; and where the platform can read the marker  *)
(* off a process, no twin, the record on disk and the refinement of        *)
(* EntryHandle.  Last, that a stop is a stop: an entry shown as stopped,   *)
(* with every call answered, has no child running and no retry pending.    *)
(***************************************************************************)
EXTENDS Lifecycle, TLAPS

(* The inductive invariant *)

\* A call's step belongs to its operation.
CallsWellFormed ==
    \A t \in Tasks : /\ task[t].op = "start"    <=> task[t].at \in StartSteps
                     /\ task[t].op = "none"     <=> task[t].at = "none"
                     /\ task[t].op \in GoneOps <=> task[t].at = "gone"

\* No call survives the panel.
DownIsIdle == panel = "down" => \A t \in Tasks : task[t] = Idle

CallsInv == CallsWellFormed /\ OneStartInFlight /\ DownIsIdle

\* The panel's memory of the last child and the record on disk agree.
RecordMirrored == panel # "down" => diskPid = lastChild

\* What runs is what the panel remembers.
LiveIsRemembered == panel # "down" => Ours \subseteq {lastChild}

\* A start past resolveRecordedChild knows that nothing runs.
ClearedToSpawn ==
    \A t \in Tasks : task[t].op = "start" /\ task[t].at \in {"bootstrap", "preflight"}
                        => Ours = {}

\* What an Entry left behind is still there, so a process spawned later is not among it.
LeftRuns == \A p \in left : proc[p] \in {"live", "zombie"}

\* An entry the configuration does not list has nothing: no process, no record, no start.
DroppedIsBare == removed => Ours = {} /\ diskPid = NoPid /\ ~starting

RecordInv ==
    /\ AtMostOneLive /\ LiveIsRecorded /\ RecordMirrored /\ LiveIsRemembered
    /\ ClearedToSpawn /\ LeftRuns /\ DroppedIsBare

IInv == DataOK /\ CallsInv /\ RecordInv

-----------------------------------------------------------------------------
(* Types *)

LEMMA CallIdle == Idle \in Call
  BY DEF Idle, Call

LEMMA CallBegun ==
  ASSUME NEW o \in {"start"} \cup StopOps, NEW a \in StartSteps \cup StopSteps,
         NEW p \in Pids \cup {NoPid}
  PROVE  [op |-> o, at |-> a, victim |-> p] \in Call
  BY DEF Call

LEMMA GotoType ==
  ASSUME DataOK, NEW t \in Tasks, NEW a \in StartSteps \cup StopSteps, Goto(t, a)
  PROVE  task' \in [Tasks -> Call]
  BY SMT DEF DataOK, Goto, Call

LEMMA ReturnType ==
  ASSUME DataOK, NEW t \in Tasks, Return(t)
  PROVE  task' \in [Tasks -> Call]
  BY CallIdle, SMT DEF DataOK, Return

LEMMA StopReturnsType ==
  ASSUME DataOK, NEW t \in Tasks, StopReturns(t)
  PROVE  task' \in [Tasks -> Call]
  BY ReturnType, SMT DEF DataOK, StopReturns, Call, StopSteps

LEMMA StopTailType ==
  ASSUME DataOK, StopTail
  PROVE  /\ status' \in Status /\ pid' \in Pids \cup {NoPid}
         /\ lastChild' \in Pids \cup {NoPid} /\ restarts' \in 0..MaxRetries
         /\ diskPid' \in Pids \cup {NoPid} /\ diskRestarts' \in 0..MaxRetries
  BY SMT DEF DataOK, StopTail, PersistEntryState, diskVars, Status

LEMMA LeftBehindType ==
  ASSUME NEW c \in Call
  PROVE  LeftBehind(c) \in Call
  BY DEF LeftBehind, Call, GoneOps

LEMMA DataStep == DataOK /\ [Next]_vars => DataOK'
  <1> SUFFICES ASSUME DataOK, [Next]_vars PROVE DataOK'
    OBVIOUS
  <1> USE DEF DataOK, Status, StartSteps, StopSteps, StopOps, GoneOps, machineVars, leftVars, diskVars,
     configVars, handleVars, retryVars, entryVars
  <1>1. ASSUME NEW t \in Tasks, UserStart(t) PROVE DataOK'
    BY <1>1, CallIdle, CallBegun, ConstantsAssumption DEF UserStart, BeginStart,
       PersistEntryState
  <1>2. ASSUME NEW t \in Tasks, UserStop(t) PROVE DataOK'
    BY <1>2, CallIdle, CallBegun, ConstantsAssumption DEF UserStop, BeginStop
  <1>3. ASSUME NEW t \in Tasks, Restart(t) PROVE DataOK'
    BY <1>3, CallIdle, CallBegun, ConstantsAssumption DEF Restart, BeginStop
  <1>4. ASSUME NEW t \in Tasks, RetryFires(t) PROVE DataOK'
    BY <1>4, CallIdle, CallBegun, ConstantsAssumption DEF RetryFires, BeginStart,
       PersistEntryState
  <1>5. ASSUME NEW t \in Tasks, Disable(t) PROVE DataOK'
    BY <1>5, CallIdle, CallBegun, ConstantsAssumption DEF Disable, BeginStop
  <1>6. ASSUME NEW t \in Tasks, Remove(t) PROVE DataOK'
    <2>1. \A u \in Tasks : LeftBehind(task[u]) \in Call
      BY LeftBehindType
    <2>2. task' \in [Tasks -> Call]
      BY <1>6, <2>1 DEF Remove, Call
    <2>3. left' \in SUBSET Pids
      BY <1>6 DEF Remove, Live
    <2> QED
      BY <1>6, <2>2, <2>3, ConstantsAssumption DEF Remove, DropEntry
  <1>7. ASSUME NEW t \in Tasks, Dispose(t) PROVE DataOK'
    BY <1>7, CallIdle, CallBegun, ConstantsAssumption DEF Dispose, BeginStop
  <1>8. ASSUME NEW t \in Tasks, Boot(t) PROVE DataOK'
    BY <1>8, CallIdle, CallBegun, ConstantsAssumption DEF Boot
  <1>9. ASSUME NEW t \in Tasks, StartAfterDependencies(t) PROVE DataOK'
    BY <1>9, GotoType, ReturnType DEF StartAfterDependencies, StartReturns
  <1>10. ASSUME NEW t \in Tasks, StartAfterRecordedChild(t) PROVE DataOK'
    BY <1>10, GotoType, ReturnType DEF StartAfterRecordedChild, StartReturns,
       AdoptEntry, PersistEntryState
  <1>11. ASSUME NEW t \in Tasks, StartAfterBootstrap(t) PROVE DataOK'
    BY <1>11, GotoType, ReturnType DEF StartAfterBootstrap, StartReturns
  <1>12. ASSUME NEW t \in Tasks, StartAfterPreflight(t) PROVE DataOK'
    BY <1>12, ReturnType, ConstantsAssumption DEF StartAfterPreflight, Spawn,
       RefusePort, FailSpawn, SpawnErrors, AfterExit, StartReturns, PersistEntryState
  <1>13. ASSUME NEW t \in Tasks, StopAfterSignal(t) PROVE DataOK'
    BY <1>13, GotoType, StopReturnsType, StopTailType DEF StopAfterSignal,
       ReleaseHandle
  <1>14. ASSUME NEW t \in Tasks, StopAfterSweep(t) PROVE DataOK'
    BY <1>14, GotoType, StopReturnsType, StopTailType DEF StopAfterSweep,
       ReleaseHandle
  <1>15. ASSUME NEW t \in Tasks, StopAfterCompose(t) PROVE DataOK'
    BY <1>15, StopReturnsType, StopTailType DEF StopAfterCompose
  <1>16. ASSUME NEW t \in Tasks, StopAfterComposeOnly(t) PROVE DataOK'
    BY <1>16, StopReturnsType DEF StopAfterComposeOnly
  <1>17. ASSUME NEW t \in Tasks, RestartStarts(t) PROVE DataOK'
    BY <1>17, CallIdle, CallBegun, ConstantsAssumption DEF RestartStarts, BeginStart,
       Return, PersistEntryState
  <1>18. ASSUME NEW p \in Pids, HandleExit(p) PROVE DataOK'
    BY <1>18, CallIdle, CallBegun, ConstantsAssumption DEF HandleExit, ProcessGone,
       AfterExit, PersistEntryState
  <1>19. ASSUME NEW p \in Pids, ProcessExits(p) PROVE DataOK'
    BY <1>19, CallIdle, CallBegun, ConstantsAssumption DEF ProcessExits
  <1>20. ASSUME NEW p \in Pids, PidRecycled(p) PROVE DataOK'
    BY <1>20, CallIdle, CallBegun, ConstantsAssumption DEF PidRecycled
  <1>21. CASE AwaitReadiness
    BY <1>21, CallIdle, CallBegun, ConstantsAssumption DEF AwaitReadiness
  <1>22. CASE TickAdoptedExit
    BY <1>22, CallIdle, CallBegun, ConstantsAssumption DEF TickAdoptedExit,
       ProcessGone, AfterExit, PersistEntryState
  <1>23. CASE Enable
    BY <1>23, CallIdle, CallBegun, ConstantsAssumption DEF Enable
  <1>24. CASE PanelExits
    BY <1>24, CallIdle, CallBegun, ConstantsAssumption DEF PanelExits, PanelGone, DropEntry
  <1>25. CASE PanelKilled
    BY <1>25, CallIdle, CallBegun, ConstantsAssumption DEF PanelKilled, PanelGone, DropEntry
  <1>26. CASE UNCHANGED vars
    BY <1>26 DEF vars
  <1>27. ASSUME NEW t \in Tasks, GoneStart(t) PROVE DataOK'
    BY <1>27, ReturnType DEF GoneStart
  <1>28. ASSUME NEW t \in Tasks, GoneStop(t) PROVE DataOK'
    BY <1>28, ReturnType, CallBegun, ConstantsAssumption DEF GoneStop, BeginStart, PersistEntryState
  <1>29. ASSUME NEW t \in Tasks, LeftRetryFires(t) PROVE DataOK'
    BY <1>29, CallBegun, ConstantsAssumption DEF LeftRetryFires, BeginStart, PersistEntryState
  <1>30. CASE ListedAgain
    BY <1>30 DEF ListedAgain
  <1> QED
    BY <1>1, <1>2, <1>3, <1>4, <1>5, <1>6, <1>7, <1>8, <1>9, <1>10, <1>11, <1>12,
       <1>13, <1>14, <1>15, <1>16, <1>17, <1>18, <1>19, <1>20, <1>21, <1>22, <1>23,
       <1>24, <1>25, <1>26, <1>27, <1>28, <1>29, <1>30 DEF Next, StartStep, StopStep, GoneStep

LEMMA FlagsStep == FlagsOK /\ [Next]_vars => FlagsOK'
  <1> SUFFICES ASSUME FlagsOK, [Next]_vars PROVE FlagsOK'
    OBVIOUS
  <1> USE DEF FlagsOK, leftVars, machineVars, diskVars, configVars, handleVars, retryVars,
     entryVars
  <1>1. ASSUME NEW t \in Tasks, UserStart(t) PROVE FlagsOK'
    BY <1>1 DEF UserStart, BeginStart, PersistEntryState
  <1>2. ASSUME NEW t \in Tasks, UserStop(t) PROVE FlagsOK'
    BY <1>2 DEF UserStop, BeginStop
  <1>3. ASSUME NEW t \in Tasks, Restart(t) PROVE FlagsOK'
    BY <1>3 DEF Restart, BeginStop
  <1>4. ASSUME NEW t \in Tasks, RetryFires(t) PROVE FlagsOK'
    BY <1>4 DEF RetryFires, BeginStart, PersistEntryState
  <1>5. ASSUME NEW t \in Tasks, Disable(t) PROVE FlagsOK'
    BY <1>5 DEF Disable, BeginStop
  <1>6. ASSUME NEW t \in Tasks, Remove(t) PROVE FlagsOK'
    BY <1>6 DEF Remove, DropEntry
  <1>7. ASSUME NEW t \in Tasks, Dispose(t) PROVE FlagsOK'
    BY <1>7 DEF Dispose, BeginStop
  <1>8. ASSUME NEW t \in Tasks, Boot(t) PROVE FlagsOK'
    BY <1>8 DEF Boot
  <1>9. ASSUME NEW t \in Tasks, StartAfterDependencies(t) PROVE FlagsOK'
    BY <1>9 DEF StartAfterDependencies, StartReturns, Return, Goto
  <1>10. ASSUME NEW t \in Tasks, StartAfterRecordedChild(t) PROVE FlagsOK'
    BY <1>10 DEF StartAfterRecordedChild, StartReturns, Return, Goto, AdoptEntry,
       PersistEntryState
  <1>11. ASSUME NEW t \in Tasks, StartAfterBootstrap(t) PROVE FlagsOK'
    BY <1>11 DEF StartAfterBootstrap, StartReturns, Return, Goto
  <1>12. ASSUME NEW t \in Tasks, StartAfterPreflight(t) PROVE FlagsOK'
    BY <1>12 DEF StartAfterPreflight, Spawn, RefusePort, FailSpawn, SpawnErrors,
       AfterExit, StartReturns, Return, PersistEntryState
  <1>13. ASSUME NEW t \in Tasks, StopAfterSignal(t) PROVE FlagsOK'
    BY <1>13 DEF StopAfterSignal, ReleaseHandle, StopTail, StopReturns, Return, Goto,
       PersistEntryState
  <1>14. ASSUME NEW t \in Tasks, StopAfterSweep(t) PROVE FlagsOK'
    BY <1>14 DEF StopAfterSweep, ReleaseHandle, StopTail, StopReturns, Return, Goto,
       PersistEntryState
  <1>15. ASSUME NEW t \in Tasks, StopAfterCompose(t) PROVE FlagsOK'
    BY <1>15 DEF StopAfterCompose, StopTail, StopReturns, Return, PersistEntryState
  <1>16. ASSUME NEW t \in Tasks, StopAfterComposeOnly(t) PROVE FlagsOK'
    BY <1>16 DEF StopAfterComposeOnly, StopReturns, Return
  <1>17. ASSUME NEW t \in Tasks, RestartStarts(t) PROVE FlagsOK'
    BY <1>17 DEF RestartStarts, BeginStart, Return, PersistEntryState
  <1>18. ASSUME NEW p \in Pids, HandleExit(p) PROVE FlagsOK'
    BY <1>18 DEF HandleExit, LeftRetries, ProcessGone, AfterExit, PersistEntryState
  <1>19. ASSUME NEW p \in Pids, ProcessExits(p) PROVE FlagsOK'
    BY <1>19 DEF ProcessExits
  <1>20. ASSUME NEW p \in Pids, PidRecycled(p) PROVE FlagsOK'
    BY <1>20 DEF PidRecycled
  <1>21. CASE AwaitReadiness
    BY <1>21 DEF AwaitReadiness
  <1>22. CASE TickAdoptedExit
    BY <1>22 DEF TickAdoptedExit, ProcessGone, AfterExit, PersistEntryState
  <1>23. CASE Enable
    BY <1>23 DEF Enable
  <1>24. CASE PanelExits
    BY <1>24 DEF PanelExits, PanelGone, DropEntry
  <1>25. CASE PanelKilled
    BY <1>25 DEF PanelKilled, PanelGone, DropEntry
  <1>26. CASE UNCHANGED vars
    BY <1>26 DEF vars
  <1>27. ASSUME NEW t \in Tasks, GoneStart(t) PROVE FlagsOK'
    BY <1>27 DEF GoneStart
  <1>28. ASSUME NEW t \in Tasks, GoneStop(t) PROVE FlagsOK'
    BY <1>28 DEF GoneStop, BeginStart, PersistEntryState
  <1>29. ASSUME NEW t \in Tasks, LeftRetryFires(t) PROVE FlagsOK'
    BY <1>29 DEF LeftRetryFires, BeginStart, PersistEntryState
  <1>30. CASE ListedAgain
    BY <1>30 DEF ListedAgain
  <1> QED
    BY <1>1, <1>2, <1>3, <1>4, <1>5, <1>6, <1>7, <1>8, <1>9, <1>10, <1>11, <1>12,
       <1>13, <1>14, <1>15, <1>16, <1>17, <1>18, <1>19, <1>20, <1>21, <1>22, <1>23,
       <1>24, <1>25, <1>26, <1>27, <1>28, <1>29, <1>30 DEF Next, StartStep, StopStep, GoneStep

-----------------------------------------------------------------------------
(* The calls in flight *)

LEMMA BeginStartCalls ==
  ASSUME DataOK, CallsInv, NEW t \in Tasks, NEW r \in BOOLEAN, BeginStart(t, r)
  PROVE  CallsInv'
  <1> USE DEF BeginStart, StartAccepted, DataOK, CallsInv, configVars
  <1>1. /\ task' = [task EXCEPT ![t] = [op |-> "start", at |-> "dependencies", victim |-> NoPid]]
        /\ \A u \in Tasks : task[u].op # "start"
        /\ starting' /\ panel' # "down"
    BY DEF OneStartInFlight
  <1>2. CallsWellFormed'
    BY <1>1 DEF CallsWellFormed, StartSteps, GoneOps
  <1>3. OneStartInFlight'
    BY <1>1 DEF OneStartInFlight
  <1> QED
    BY <1>1, <1>2, <1>3 DEF DownIsIdle

LEMMA BeginStopCalls ==
  ASSUME DataOK, CallsInv, NEW t \in Tasks, task[t] = Idle, NEW o \in StopOps,
         BeginStop(t, o), panel' # "down"
  PROVE  CallsInv'
  <1> USE DEF BeginStop, DataOK, CallsInv
  <1>1. starting' = starting
    OBVIOUS
  <1>2. /\ task[t].op = "none"
        /\ task'[t].op # "start" /\ task'[t].at \notin StartSteps
        /\ task'[t].op = "none" <=> task'[t].at = "none"
        /\ task'[t].op \notin GoneOps /\ task'[t].at # "gone"
        /\ \A u \in Tasks : u # t => task'[u] = task[u]
    BY DEF Idle, StartSteps, StopSteps, StopOps, GoneOps
  <1>3. CallsWellFormed'
    BY <1>2 DEF CallsWellFormed
  <1>4. OneStartInFlight'
    BY <1>1, <1>2 DEF OneStartInFlight
  <1> QED
    BY <1>3, <1>4 DEF DownIsIdle

LEMMA CallsStep == DataOK /\ CallsInv /\ [Next]_vars => CallsInv'
  <1> SUFFICES ASSUME DataOK, CallsInv, [Next]_vars PROVE CallsInv'
    OBVIOUS
  <1> USE DEF DataOK, CallsInv, CallsWellFormed, OneStartInFlight, DownIsIdle, Call,
     Idle, StartSteps, StopSteps, StopOps, GoneOps, machineVars, leftVars, diskVars, configVars,
     handleVars, retryVars, entryVars
  <1>1. ASSUME NEW t \in Tasks, UserStart(t) PROVE CallsInv'
    BY <1>1, BeginStartCalls DEF UserStart
  <1>2. ASSUME NEW t \in Tasks, UserStop(t) PROVE CallsInv'
    BY <1>2, BeginStopCalls DEF UserStop, MayBegin, StopMayBegin
  <1>3. ASSUME NEW t \in Tasks, Restart(t) PROVE CallsInv'
    BY <1>3, BeginStopCalls DEF Restart, MayBegin, StopMayBegin
  <1>4. ASSUME NEW t \in Tasks, RetryFires(t) PROVE CallsInv'
    <2>1. CASE BeginStart(t, TRUE)
      BY <2>1, BeginStartCalls
    <2>2. CASE UNCHANGED <<panel, starting, task>>
      BY <2>2
    <2> QED
      BY <1>4, <2>1, <2>2 DEF RetryFires
  <1>5. ASSUME NEW t \in Tasks, Disable(t) PROVE CallsInv'
    BY <1>5, BeginStopCalls DEF Disable, MayBegin, StopMayBegin
  <1>6. ASSUME NEW t \in Tasks, Remove(t) PROVE CallsInv'
    <2>1. \A u \in Tasks : /\ task'[u].op # "start" /\ task'[u].at \notin StartSteps
                           /\ task'[u].op = "none" <=> task'[u].at = "none"
                           /\ task'[u].op \in GoneOps <=> task'[u].at = "gone"
      BY <1>6 DEF Remove, LeftBehind, Dispose
    <2>2. ~starting' /\ panel' = "up"
      BY <1>6 DEF Remove, DropEntry
    <2> QED
      BY <2>1, <2>2
  <1>7. ASSUME NEW t \in Tasks, Dispose(t) PROVE CallsInv'
    BY <1>7, BeginStopCalls DEF Dispose, MayBegin
  <1>8. ASSUME NEW t \in Tasks, Boot(t) PROVE CallsInv'
    BY <1>8 DEF Boot
  <1>9. ASSUME NEW t \in Tasks, StartAfterDependencies(t) PROVE CallsInv'
    BY <1>9 DEF StartAfterDependencies, StartReturns, Return, Goto
  <1>10. ASSUME NEW t \in Tasks, StartAfterRecordedChild(t) PROVE CallsInv'
    BY <1>10 DEF StartAfterRecordedChild, StartReturns, Return, Goto, AdoptEntry,
       PersistEntryState
  <1>11. ASSUME NEW t \in Tasks, StartAfterBootstrap(t) PROVE CallsInv'
    BY <1>11 DEF StartAfterBootstrap, StartReturns, Return, Goto
  <1>12. ASSUME NEW t \in Tasks, StartAfterPreflight(t) PROVE CallsInv'
    BY <1>12 DEF StartAfterPreflight, Spawn, RefusePort, FailSpawn, SpawnErrors,
       AfterExit, StartReturns, Return, PersistEntryState
  <1>13. ASSUME NEW t \in Tasks, StopAfterSignal(t) PROVE CallsInv'
    BY <1>13 DEF StopAfterSignal, ReleaseHandle, StopTail, StopReturns, Return, Goto,
       PersistEntryState
  <1>14. ASSUME NEW t \in Tasks, StopAfterSweep(t) PROVE CallsInv'
    BY <1>14 DEF StopAfterSweep, ReleaseHandle, StopTail, StopReturns, Return, Goto,
       PersistEntryState
  <1>15. ASSUME NEW t \in Tasks, StopAfterCompose(t) PROVE CallsInv'
    BY <1>15 DEF StopAfterCompose, StopTail, StopReturns, Return, PersistEntryState
  <1>16. ASSUME NEW t \in Tasks, StopAfterComposeOnly(t) PROVE CallsInv'
    BY <1>16 DEF StopAfterComposeOnly, StopReturns, Return
  <1>17. ASSUME NEW t \in Tasks, RestartStarts(t) PROVE CallsInv'
    <2>1. CASE BeginStart(t, FALSE)
      BY <2>1, BeginStartCalls
    <2>2. CASE Return(t) /\ UNCHANGED <<panel, starting>>
      BY <1>17, <2>2 DEF RestartStarts, Return
    <2> QED
      BY <1>17, <2>1, <2>2 DEF RestartStarts
  <1>18. ASSUME NEW p \in Pids, HandleExit(p) PROVE CallsInv'
    BY <1>18 DEF HandleExit, ProcessGone, AfterExit, PersistEntryState
  <1>19. ASSUME NEW p \in Pids, ProcessExits(p) PROVE CallsInv'
    BY <1>19 DEF ProcessExits
  <1>20. ASSUME NEW p \in Pids, PidRecycled(p) PROVE CallsInv'
    BY <1>20 DEF PidRecycled
  <1>21. CASE AwaitReadiness
    BY <1>21 DEF AwaitReadiness
  <1>22. CASE TickAdoptedExit
    BY <1>22 DEF TickAdoptedExit, ProcessGone, AfterExit, PersistEntryState
  <1>23. CASE Enable
    BY <1>23 DEF Enable
  <1>24. CASE PanelExits
    BY <1>24 DEF PanelExits, PanelGone, DropEntry
  <1>25. CASE PanelKilled
    BY <1>25 DEF PanelKilled, PanelGone, DropEntry
  <1>26. CASE UNCHANGED vars
    BY <1>26 DEF vars
  <1>27. ASSUME NEW t \in Tasks, GoneStart(t) PROVE CallsInv'
    BY <1>27 DEF GoneStart, Return
  <1>28. ASSUME NEW t \in Tasks, GoneStop(t) PROVE CallsInv'
    <2>1. CASE BeginStart(t, FALSE)
      BY <2>1, BeginStartCalls
    <2>2. CASE Return(t) /\ UNCHANGED <<panel, starting>>
      BY <1>28, <2>2 DEF GoneStop, Return
    <2> QED
      BY <1>28, <2>1, <2>2 DEF GoneStop
  <1>29. ASSUME NEW t \in Tasks, LeftRetryFires(t) PROVE CallsInv'
    <2>1. CASE BeginStart(t, TRUE)
      BY <2>1, BeginStartCalls
    <2>2. CASE UNCHANGED <<panel, starting, task>>
      BY <2>2
    <2> QED
      BY <1>29, <2>1, <2>2 DEF LeftRetryFires
  <1>30. CASE ListedAgain
    BY <1>30 DEF ListedAgain
  <1> QED
    BY <1>1, <1>2, <1>3, <1>4, <1>5, <1>6, <1>7, <1>8, <1>9, <1>10, <1>11, <1>12,
       <1>13, <1>14, <1>15, <1>16, <1>17, <1>18, <1>19, <1>20, <1>21, <1>22, <1>23,
       <1>24, <1>25, <1>26, <1>27, <1>28, <1>29, <1>30 DEF Next, StartStep, StopStep, GoneStep

-----------------------------------------------------------------------------
(* The record on disk *)

\* A step that moves neither a process nor the record, and begins no start of an entry
\* whose start may not spawn yet.
RecordFrame ==
    /\ UNCHANGED <<proc, left, diskPid, lastChild, panel, removed>>
    /\ removed /\ starting' => starting
    /\ \A t \in Tasks : task'[t].op = "start" /\ task'[t].at \in {"bootstrap", "preflight"}
            => task[t].op = "start" /\ task[t].at \in {"bootstrap", "preflight"}

LEMMA FrameStep == RecordInv /\ RecordFrame => RecordInv'
  BY DEF RecordInv, RecordFrame, AtMostOneLive, LiveIsRecorded, RecordMirrored, LiveIsRemembered,
     ClearedToSpawn, LeftRuns, DroppedIsBare, Ours, Live, leftVars

\* A start begins only for a configured entry, and before it has looked at anything.
LEMMA BeginStartRecord ==
  ASSUME IInv, NEW t \in Tasks, NEW r \in BOOLEAN, BeginStart(t, r), UNCHANGED left
  PROVE  RecordInv'
  <1> USE DEF BeginStart, StartAccepted, PersistEntryState, IInv, machineVars, diskVars, configVars
  <1>1. UNCHANGED <<proc, diskPid, lastChild, panel, removed>> /\ ~removed
    BY DEF RecordInv, RecordMirrored
  <1>2. \A u \in Tasks : u # t => task'[u] = task[u]
    BY DEF DataOK
  <1>3. task'[t].at = "dependencies"
    BY DEF DataOK
  <1> QED
    BY <1>1, <1>2, <1>3, FrameStep DEF RecordFrame

\* stopEntry up to its first await touches no record.
LEMMA BeginStopRecord ==
  ASSUME IInv, NEW t \in Tasks, NEW o \in StopOps, BeginStop(t, o),
         UNCHANGED <<left, diskPid, panel, removed>>
  PROVE  RecordInv'
  <1>1. /\ task'[t].op # "start"
        /\ \A u \in Tasks : u # t => task'[u] = task[u]
    BY DEF BeginStop, IInv, DataOK, Idle, StopOps
  <1> QED
    BY <1>1, FrameStep DEF BeginStop, RecordFrame, IInv, machineVars

\* A call that is not a start moves to another step or returns.
LEMMA StopMoves ==
  ASSUME IInv, NEW t \in Tasks, task[t].at \in StopSteps,
         \/ StopReturns(t)
         \/ \E a \in StopSteps : Goto(t, a)
  PROVE  /\ task'[t].op # "start"
         /\ \A u \in Tasks : u # t => task'[u] = task[u]
         /\ panel # "down"
  <1> USE DEF IInv, DataOK, CallsInv
  <1>1. task[t].op \notin {"start", "none"}
    BY DEF CallsWellFormed, StartSteps, StopSteps
  <1>2. panel # "down"
    BY <1>1 DEF DownIsIdle, Idle
  <1> QED
    BY <1>1, <1>2 DEF StopReturns, Return, Goto, Idle, Call

\* The end of a stop keeps the record of a process that outlived it.
LEMMA StopTailRecord ==
  ASSUME IInv, panel # "down", StopTail, UNCHANGED <<proc, left, panel, removed, starting>>,
         NEW t \in Tasks, task'[t].op # "start", \A u \in Tasks : u # t => task'[u] = task[u]
  PROVE  RecordInv'
  <1> USE DEF IInv, RecordInv
  <1>1. Ours' = Ours
    BY DEF Ours, Live, leftVars
  <1>2. ASSUME Ours \subseteq {lastChild} PROVE Ours \subseteq {lastChild'}
    BY <1>2 DEF StopTail, IsProcessAlive, Ours, Live, leftVars, DataOK
  <1>3. diskPid' = lastChild' /\ lastChild' \in {lastChild, NoPid}
    BY DEF StopTail, PersistEntryState
  <1>4. LiveIsRemembered' /\ LiveIsRecorded'
    BY <1>1, <1>2, <1>3 DEF LiveIsRemembered, LiveIsRecorded
  <1>5. RecordMirrored' /\ AtMostOneLive' /\ ClearedToSpawn' /\ LeftRuns'
    BY <1>1, <1>3 DEF RecordMirrored, AtMostOneLive, ClearedToSpawn, LeftRuns
  <1>6. DroppedIsBare'
    BY <1>1, <1>3 DEF DroppedIsBare, RecordMirrored
  <1> QED
    BY <1>4, <1>5, <1>6

\* letting go of the handle, with or without docker to ask
LEMMA ReleaseRecord ==
  ASSUME IInv, NEW t \in Tasks, task[t].at \in StopSteps, ReleaseHandle(t),
         UNCHANGED <<proc, left, panel, removed, starting>>
  PROVE  RecordInv'
  <1>1. CASE Compose
    <2>1. Goto(t, "compose") /\ UNCHANGED <<diskPid, lastChild>>
      BY <1>1 DEF ReleaseHandle, diskVars
    <2> QED
      BY <2>1, StopMoves, FrameStep DEF RecordFrame, IInv, StopSteps
  <1>2. CASE ~Compose
    BY <1>2, StopMoves, StopTailRecord DEF ReleaseHandle
  <1> QED
    BY <1>1, <1>2

\* A process that is gone takes its record with it, and only its own.
LEMMA ProcessGoneRecord ==
  ASSUME IInv, panel # "down", NEW p \in Pids, p \notin Ours, ProcessGone(p),
         Ours' = Ours, LeftRuns', UNCHANGED <<panel, removed, starting, task>>
  PROVE  RecordInv'
  <1> USE DEF IInv, RecordInv
  <1>1. Ours \subseteq {lastChild} => Ours \subseteq {lastChild'}
    BY DEF ProcessGone
  <1>2. diskPid' = lastChild' /\ lastChild' \in {lastChild, NoPid}
    BY DEF ProcessGone, PersistEntryState
  <1>3. LiveIsRemembered' /\ LiveIsRecorded'
    BY <1>1, <1>2 DEF LiveIsRemembered, LiveIsRecorded
  <1>4. DroppedIsBare'
    BY <1>2 DEF DroppedIsBare, RecordMirrored
  <1> QED
    BY <1>2, <1>3, <1>4 DEF RecordMirrored, AtMostOneLive, ClearedToSpawn

\* The machine takes a process of the dropped Entries away, or gives them one.
LEMMA LeftRecord ==
  ASSUME IInv, Ours' = Ours, LeftRuns',
         UNCHANGED <<diskPid, lastChild, panel, removed, starting>>,
         \A t \in Tasks : task'[t] = task[t] \/ task'[t] = Idle
  PROVE  RecordInv'
  BY DEF IInv, RecordInv, AtMostOneLive, LiveIsRecorded, RecordMirrored, LiveIsRemembered,
     ClearedToSpawn, DroppedIsBare, Idle

LEMMA RecordStep == MarkerReadable /\ IInv /\ [Next]_vars => RecordInv'
  <1> SUFFICES ASSUME MarkerReadable, IInv, [Next]_vars PROVE RecordInv'
    OBVIOUS
  <1> USE DEF IInv, leftVars
  <1>1. ASSUME NEW t \in Tasks, UserStart(t) PROVE RecordInv'
    BY <1>1, BeginStartRecord DEF UserStart
  <1>2. ASSUME NEW t \in Tasks, UserStop(t) PROVE RecordInv'
    BY <1>2, BeginStopRecord DEF UserStop, diskVars, configVars, StopOps
  <1>3. ASSUME NEW t \in Tasks, Restart(t) PROVE RecordInv'
    BY <1>3, BeginStopRecord DEF Restart, diskVars, configVars, StopOps
  <1>4. ASSUME NEW t \in Tasks, RetryFires(t) PROVE RecordInv'
    <2>1. CASE BeginStart(t, TRUE)
      BY <1>4, <2>1, BeginStartRecord DEF RetryFires
    <2>2. CASE UNCHANGED <<machineVars, diskVars, configVars, leftVars, lastChild, starting, task>>
      BY <2>2, FrameStep DEF RecordFrame, machineVars, diskVars, configVars
    <2> QED
      BY <1>4, <2>1, <2>2 DEF RetryFires
  <1>5. ASSUME NEW t \in Tasks, Disable(t) PROVE RecordInv'
    <2>1. CASE IsActive
      BY <1>5, <2>1, BeginStopRecord DEF Disable, diskVars, StopOps
    <2>2. CASE ~IsActive
      BY <1>5, <2>2, FrameStep DEF Disable, RecordFrame, diskVars, machineVars, entryVars
    <2> QED
      BY <2>1, <2>2
  <1>6. ASSUME NEW t \in Tasks, Remove(t) PROVE RecordInv'
    <2>1. Ours' = {} /\ diskPid' = NoPid /\ lastChild' = NoPid /\ ~starting'
      BY <1>6 DEF Remove, DropEntry, Ours, Live, machineVars
    <2>2. \A u \in Tasks : task'[u].op # "start"
      BY <1>6 DEF Remove, LeftBehind, DataOK, Call, StopOps, GoneOps
    <2>3. LeftRuns'
      BY <1>6 DEF Remove, RecordInv, LeftRuns, Live, machineVars
    <2> QED
      BY <2>1, <2>2, <2>3 DEF RecordInv, AtMostOneLive, LiveIsRecorded, RecordMirrored,
         LiveIsRemembered, ClearedToSpawn, DroppedIsBare
  <1>7. ASSUME NEW t \in Tasks, Dispose(t) PROVE RecordInv'
    <2>1. /\ UNCHANGED <<proc, left, diskPid, lastChild, removed, starting>>
          /\ panel = "up" /\ panel' = "closing"
          /\ \A u \in Tasks : task'[u] = task[u] \/ task'[u].op # "start"
      BY <1>7 DEF Dispose, BeginStop, machineVars, leftVars, diskVars, entryVars, DataOK, Idle
    <2> QED
      BY <2>1 DEF RecordInv, AtMostOneLive, LiveIsRecorded, RecordMirrored, LiveIsRemembered,
         ClearedToSpawn, LeftRuns, DroppedIsBare, Ours, Live
  <1>8. ASSUME NEW t \in Tasks, Boot(t) PROVE RecordInv'
    <2>1. /\ UNCHANGED <<proc, left, diskPid, removed>> /\ lastChild' = diskPid /\ panel' = "up"
          /\ removed => starting' = starting
      BY <1>8 DEF Boot, machineVars, leftVars, diskVars
    <2>2. \A u \in Tasks : task'[u].at \notin {"bootstrap", "preflight"}
      BY <1>8 DEF Boot, CallsInv, DownIsIdle, Idle, DataOK
    <2> QED
      BY <2>1, <2>2 DEF RecordInv, AtMostOneLive, LiveIsRecorded, RecordMirrored, LiveIsRemembered,
         ClearedToSpawn, LeftRuns, DroppedIsBare, Ours, Live
  <1>9. ASSUME NEW t \in Tasks, StartAfterDependencies(t) PROVE RecordInv'
    <2> USE DEF StartAfterDependencies, machineVars, diskVars, configVars
    <2>1. starting
      BY <1>9 DEF CallsInv, OneStartInFlight
    <2>2. UNCHANGED <<proc, left, diskPid, lastChild, panel, removed>>
      BY <1>9
    <2>3. \A u \in Tasks : task'[u].op = "start" /\ task'[u].at \in {"bootstrap", "preflight"}
                          => u # t /\ task'[u] = task[u]
      <3>1. CASE StartReturns(t)
        BY <3>1 DEF StartReturns, Return, Idle, DataOK
      <3>2. CASE Goto(t, "recorded")
        BY <3>2 DEF Goto, DataOK
      <3> QED
        BY <1>9, <3>1, <3>2
    <2> QED
      BY <2>1, <2>2, <2>3, FrameStep DEF RecordFrame
  <1>10. ASSUME NEW t \in Tasks, StartAfterRecordedChild(t) PROVE RecordInv'
    <2> USE DEF StartAfterRecordedChild, machineVars, diskVars, configVars
    <2>1. starting /\ panel # "down" /\ Ours \subseteq {lastChild}
      BY <1>10 DEF CallsInv, OneStartInFlight, DownIsIdle, Idle, RecordInv, LiveIsRemembered
    <2>2. CASE lastChild \notin Ours
      <3>1. Ours = {} /\ Ours' = Ours /\ LeftRuns'
        BY <1>10, <2>1, <2>2 DEF Ours, Live, RecordInv, LeftRuns
      <3>2. diskPid' = NoPid /\ lastChild' = NoPid /\ UNCHANGED <<panel, removed, starting>>
        BY <1>10, <2>2 DEF PersistEntryState
      <3> QED
        BY <3>1, <3>2 DEF RecordInv, AtMostOneLive, LiveIsRecorded, RecordMirrored, LiveIsRemembered,
           ClearedToSpawn, DroppedIsBare
    <2>3. CASE lastChild \in Ours
      BY <1>10, <2>3, FrameStep DEF RecordFrame, StartReturns, Return, Idle, DataOK
    <2> QED
      BY <2>2, <2>3
  <1>11. ASSUME NEW t \in Tasks, StartAfterBootstrap(t) PROVE RecordInv'
    BY <1>11, FrameStep DEF StartAfterBootstrap, StartReturns, Return, Goto, Idle,
       RecordFrame, DataOK, CallsInv, OneStartInFlight, machineVars, diskVars,
       configVars
  <1>12. ASSUME NEW t \in Tasks, StartAfterPreflight(t) PROVE RecordInv'
    BY <1>12 DEF StartAfterPreflight, Spawn, RefusePort, FailSpawn, SpawnErrors,
       StartReturns, Return, Idle, PersistEntryState, machineVars, diskVars,
       configVars, DataOK, CallsInv, OneStartInFlight, DownIsIdle, RecordInv,
       AtMostOneLive, LiveIsRecorded, RecordMirrored, LiveIsRemembered, ClearedToSpawn, LeftRuns,
       DroppedIsBare, Ours, Live
  <1>13. ASSUME NEW t \in Tasks, StopAfterSignal(t) PROVE RecordInv'
    <2>1. CASE SweepHolders
      BY <1>13, <2>1, StopMoves, FrameStep DEF StopAfterSignal, RecordFrame, StopSteps,
         machineVars, diskVars, configVars
    <2>2. CASE ~SweepHolders
      BY <1>13, <2>2, ReleaseRecord DEF StopAfterSignal, StopSteps, machineVars, configVars
    <2> QED
      BY <2>1, <2>2
  <1>14. ASSUME NEW t \in Tasks, StopAfterSweep(t) PROVE RecordInv'
    BY <1>14, ReleaseRecord DEF StopAfterSweep, StopSteps, machineVars, configVars
  <1>15. ASSUME NEW t \in Tasks, StopAfterCompose(t) PROVE RecordInv'
    BY <1>15, StopMoves, StopTailRecord DEF StopAfterCompose, StopSteps, machineVars,
       configVars
  <1>16. ASSUME NEW t \in Tasks, StopAfterComposeOnly(t) PROVE RecordInv'
    BY <1>16, StopMoves, FrameStep DEF StopAfterComposeOnly, StopSteps, RecordFrame,
       machineVars, diskVars, configVars
  <1>17. ASSUME NEW t \in Tasks, RestartStarts(t) PROVE RecordInv'
    <2>1. CASE BeginStart(t, FALSE)
      BY <1>17, <2>1, BeginStartRecord DEF RestartStarts
    <2>2. CASE Return(t) /\ UNCHANGED <<machineVars, diskVars, configVars, entryVars>>
      BY <1>17, <2>2, FrameStep DEF RestartStarts, RecordFrame, Return, Idle, DataOK, machineVars,
         diskVars, configVars, entryVars
    <2> QED
      BY <1>17, <2>1, <2>2 DEF RestartStarts
  <1>18. ASSUME NEW p \in Pids, HandleExit(p) PROVE RecordInv'
    <2>1. Ours' = Ours /\ p \notin Ours /\ panel # "down" /\ UNCHANGED <<panel, removed, starting, task>>
      BY <1>18 DEF HandleExit, Ours, Live, DataOK, configVars, entryVars
    <2>2. CASE child = p
      <3>1. LeftRuns'
        BY <1>18 DEF HandleExit, RecordInv, LeftRuns, DataOK
      <3> QED
        BY <1>18, <2>1, <2>2, <3>1, ProcessGoneRecord DEF HandleExit
    <2>3. CASE child # p
      BY <1>18, <2>1, <2>3 DEF HandleExit, diskVars, entryVars, RecordInv, AtMostOneLive,
         LiveIsRecorded, RecordMirrored, LiveIsRemembered, ClearedToSpawn, LeftRuns, DroppedIsBare,
         DataOK
    <2> QED
      BY <2>2, <2>3
  <1>19. ASSUME NEW p \in Pids, ProcessExits(p) PROVE RecordInv'
    BY <1>19 DEF ProcessExits, RecordInv, AtMostOneLive, LiveIsRecorded,
       RecordMirrored, LiveIsRemembered, ClearedToSpawn, LeftRuns, DroppedIsBare, Ours, Live,
       DataOK, diskVars,
       configVars, entryVars
  <1>20. ASSUME NEW p \in Pids, PidRecycled(p) PROVE RecordInv'
    <2>1. Ours' = Ours
      BY <1>20 DEF PidRecycled, Ours, Live, DataOK
    <2>2. LeftRuns'
      BY <1>20 DEF PidRecycled, RecordInv, LeftRuns, DataOK
    <2> QED
      BY <1>20, <2>1, <2>2, LeftRecord DEF PidRecycled, diskVars, configVars, entryVars
  <1>21. CASE AwaitReadiness
    BY <1>21, FrameStep DEF AwaitReadiness, RecordFrame, machineVars, diskVars,
       configVars
  <1>22. CASE TickAdoptedExit
    BY <1>22, ProcessGoneRecord DEF TickAdoptedExit, IsProcessAlive, Ours, Live, DataOK,
       machineVars, configVars, RecordInv, LeftRuns
  <1>23. CASE Enable
    BY <1>23, FrameStep DEF Enable, RecordFrame, machineVars, diskVars, entryVars
  <1>24. CASE PanelExits
    <2>1. Ours' = Ours /\ LeftRuns'
      BY <1>24 DEF PanelExits, PanelGone, Ours, Live, LeftRuns, DataOK
    <2>2. UNCHANGED <<diskPid, removed>> /\ panel' = "down" /\ ~starting' /\ \A t \in Tasks : task'[t] = Idle
      BY <1>24 DEF PanelExits, PanelGone, DropEntry, diskVars
    <2> QED
      BY <2>1, <2>2 DEF Idle, RecordInv, AtMostOneLive, LiveIsRecorded, RecordMirrored,
         LiveIsRemembered, ClearedToSpawn, DroppedIsBare
  <1>25. CASE PanelKilled
    <2>1. Ours' = Ours /\ LeftRuns'
      BY <1>25 DEF PanelKilled, PanelGone, Ours, Live, LeftRuns, DataOK
    <2>2. UNCHANGED <<diskPid, removed>> /\ panel' = "down" /\ ~starting' /\ \A t \in Tasks : task'[t] = Idle
      BY <1>25 DEF PanelKilled, PanelGone, DropEntry, diskVars
    <2> QED
      BY <2>1, <2>2 DEF Idle, RecordInv, AtMostOneLive, LiveIsRecorded, RecordMirrored,
         LiveIsRemembered, ClearedToSpawn, DroppedIsBare
  <1>26. CASE UNCHANGED vars
    BY <1>26, FrameStep DEF RecordFrame, vars, machineVars, diskVars, configVars,
       entryVars
  <1>27. ASSUME NEW t \in Tasks, GoneStart(t) PROVE RecordInv'
    <2>1. Ours' = Ours /\ LeftRuns'
      BY <1>27 DEF GoneStart, RecordInv, LeftRuns, Ours, Live, DataOK, machineVars
    <2> QED
      BY <1>27, <2>1, LeftRecord DEF GoneStart, Return, DataOK, diskVars, configVars, entryVars
  <1>28. ASSUME NEW t \in Tasks, GoneStop(t) PROVE RecordInv'
    <2>1. CASE BeginStart(t, FALSE)
      BY <1>28, <2>1, BeginStartRecord DEF GoneStop
    <2>2. CASE Return(t) /\ UNCHANGED <<machineVars, diskVars, configVars, entryVars>>
      BY <1>28, <2>2, FrameStep DEF GoneStop, RecordFrame, Return, Idle, DataOK, machineVars, diskVars,
         configVars, entryVars
    <2> QED
      BY <1>28, <2>1, <2>2 DEF GoneStop
  <1>29. ASSUME NEW t \in Tasks, LeftRetryFires(t) PROVE RecordInv'
    <2>1. CASE BeginStart(t, TRUE)
      BY <1>29, <2>1, BeginStartRecord DEF LeftRetryFires
    <2>2. CASE UNCHANGED <<machineVars, diskVars, configVars, entryVars, task>>
      BY <1>29, <2>2, FrameStep DEF LeftRetryFires, RecordFrame, machineVars, diskVars, configVars,
         entryVars
    <2> QED
      BY <1>29, <2>1, <2>2 DEF LeftRetryFires
  <1>30. CASE ListedAgain
    BY <1>30 DEF ListedAgain, machineVars, diskVars, RecordInv, AtMostOneLive, LiveIsRecorded,
       RecordMirrored, LiveIsRemembered, ClearedToSpawn, LeftRuns, DroppedIsBare, Ours, Live
  <1> QED
    BY <1>1, <1>2, <1>3, <1>4, <1>5, <1>6, <1>7, <1>8, <1>9, <1>10, <1>11, <1>12,
       <1>13, <1>14, <1>15, <1>16, <1>17, <1>18, <1>19, <1>20, <1>21, <1>22, <1>23,
       <1>24, <1>25, <1>26, <1>27, <1>28, <1>29, <1>30 DEF Next, StartStep, StopStep, GoneStep

-----------------------------------------------------------------------------
(* The theorems *)

\* Every variable keeps its type, and the retry counter its budget, whatever the calls,
\* exits, edits and crashes (afterExit).
THEOREM TypeCorrect == Spec => []TypeOK
  <1>1. Init => DataOK
    BY CallIdle, ConstantsAssumption, SMT DEF Init, DataOK, Status
  <1>2. Init => FlagsOK
    BY DEF Init, FlagsOK
  <1>3. TypeOK /\ [Next]_vars => TypeOK'
    BY DataStep, FlagsStep DEF TypeOK
  <1> QED
    BY <1>1, <1>2, <1>3, PTL DEF Spec, TypeOK

\* The invariant is inductive where the marker can be read off a process.
THEOREM Inductive == ASSUME MarkerReadable PROVE Spec => []IInv
  <1>1. Init => IInv
    BY CallIdle, ConstantsAssumption DEF Init, IInv, DataOK, Status, CallsInv,
       CallsWellFormed, OneStartInFlight, DownIsIdle, Idle, StartSteps, GoneOps, RecordInv,
       AtMostOneLive, LiveIsRecorded, RecordMirrored, LiveIsRemembered, ClearedToSpawn, LeftRuns,
       DroppedIsBare, Ours, Live, leftVars
  <1>2. IInv /\ [Next]_vars => IInv'
    BY DataStep, CallsStep, RecordStep DEF IInv
  <1> QED
    BY <1>1, <1>2, PTL DEF Spec

\* No twin, ever: start(), resolveRecordedChild and attachChild between them keep a second
\* process of the entry from being spawned, across any number of panel crashes.
THEOREM NoTwin == ASSUME MarkerReadable PROVE Spec => []AtMostOneLive
  BY Inductive, PTL DEF IInv, RecordInv

\* The state file of a configured entry always names the process that runs.
THEOREM AlwaysRecorded == ASSUME MarkerReadable PROVE Spec => []LiveIsRecorded
  BY Inductive, PTL DEF IInv, RecordInv

\* `starting` lets exactly one start through, on every platform.
THEOREM SingleStart == Spec => []OneStartInFlight
  <1>1. Init => DataOK /\ CallsInv
    BY CallIdle, ConstantsAssumption DEF Init, DataOK, Status, CallsInv,
       CallsWellFormed, OneStartInFlight, DownIsIdle, Idle, StartSteps, GoneOps
  <1>2. DataOK /\ CallsInv /\ [Next]_vars => (DataOK /\ CallsInv)'
    BY DataStep, CallsStep
  <1> QED
    BY <1>1, <1>2, PTL DEF Spec, CallsInv

-----------------------------------------------------------------------------
(* No stranger *)

\* The pid an entry holds is not a stranger's: it was a live process of ours when it was taken,
\* and is not handed out again while it is held.
PidIsOurs == pid # NoPid => proc[pid] # "stranger"

LEMMA PidStep == DataOK /\ PidIsOurs /\ [Next]_vars => PidIsOurs'
  <1> SUFFICES ASSUME DataOK, PidIsOurs, [Next]_vars PROVE PidIsOurs'
    OBVIOUS
  <1> USE DEF DataOK, PidIsOurs, machineVars, handleVars, entryVars
  <1>1. CASE pid' \in {pid, NoPid} /\ proc' = proc
    BY <1>1
  <1>2. ASSUME NEW t \in Tasks, StartAfterRecordedChild(t) PROVE PidIsOurs'
    BY <1>2 DEF StartAfterRecordedChild, AdoptEntry, Ours, Live
  <1>3. ASSUME NEW t \in Tasks, StartAfterPreflight(t) PROVE PidIsOurs'
    BY <1>3 DEF StartAfterPreflight, Spawn, RefusePort, FailSpawn, SpawnErrors
  <1>4. ASSUME NEW t \in Tasks, StopStep(t) PROVE pid' \in {pid, NoPid} /\ proc' = proc
    BY <1>4 DEF StopStep, StopAfterSignal, StopAfterSweep, StopAfterCompose, StopAfterComposeOnly,
       RestartStarts, BeginStart, ReleaseHandle, StopTail
  <1>5. ASSUME NEW t \in Tasks, UserStart(t) \/ UserStop(t) \/ Restart(t) \/ RetryFires(t) \/ Disable(t)
               \/ LeftRetryFires(t) \/ GoneStop(t) \/ Dispose(t) \/ Boot(t) \/ StartAfterDependencies(t) \/ StartAfterBootstrap(t)
        PROVE  pid' = pid /\ proc' = proc
    BY <1>5 DEF UserStart, UserStop, Restart, RetryFires, Disable, LeftRetryFires, GoneStop,
       Dispose, Boot, BeginStart,
       BeginStop, StartAfterDependencies, StartAfterBootstrap
  <1>6. ASSUME NEW p \in Pids, HandleExit(p) PROVE PidIsOurs'
    BY <1>6 DEF HandleExit, ProcessGone
  <1>7. ASSUME NEW p \in Pids, ProcessExits(p) PROVE PidIsOurs'
    BY <1>7 DEF ProcessExits
  <1>8. ASSUME NEW p \in Pids, PidRecycled(p) PROVE PidIsOurs'
    BY <1>8 DEF PidRecycled, Held
  <1>9. CASE AwaitReadiness \/ TickAdoptedExit \/ Enable \/ UNCHANGED vars
    BY <1>1, <1>9 DEF AwaitReadiness, TickAdoptedExit, ProcessGone, Enable, vars
  <1>10. ASSUME (\E t \in Tasks : Remove(t)) \/ PanelExits \/ PanelKilled PROVE PidIsOurs'
    BY <1>10 DEF Remove, PanelExits, PanelKilled, PanelGone, DropEntry
  <1>11. CASE ListedAgain
    BY <1>1, <1>11 DEF ListedAgain
  <1>12. ASSUME NEW t \in Tasks, GoneStart(t) PROVE PidIsOurs'
    BY <1>12 DEF GoneStart
  <1> QED
    BY <1>1, <1>2, <1>3, <1>4, <1>5, <1>6, <1>7, <1>8, <1>9, <1>10, <1>11, <1>12 DEF Next,
       StartStep, GoneStep

\* The supervisor never takes over a process that is not the entry's, nor is left holding one
\* (resolveRecordedChild, adoptEntry), on every platform.
THEOREM OursOnly == Spec => []NoStrangerSupervised
  <1>1. Init => DataOK /\ PidIsOurs
    BY CallIdle, ConstantsAssumption DEF Init, DataOK, Status, PidIsOurs
  <1>2. DataOK /\ PidIsOurs /\ [Next]_vars => (DataOK /\ PidIsOurs)'
    BY DataStep, PidStep
  <1>3. PidIsOurs => NoStrangerSupervised
    BY DEF PidIsOurs, NoStrangerSupervised
  <1> QED
    BY <1>1, <1>2, <1>3, PTL DEF Spec

-----------------------------------------------------------------------------
(* The lifecycle implements EntryHandle *)

HandleStep == [Handle!Next]_(Handle!vars)

\* Nothing EntryHandle sees has moved.
LEMMA HandleStutters ==
  Ours' = Ours /\ UNCHANGED <<diskPid, removed>> => HandleStep
  BY DEF HandleStep, Handle!vars

\* The record is written again, and names nothing any more only when nothing runs.
LEMMA HandleForgets ==
  ASSUME IInv, panel # "down", Ours' = Ours, UNCHANGED removed, PersistEntryState,
         lastChild' = lastChild \/ (lastChild' = NoPid /\ lastChild \notin Ours)
  PROVE  HandleStep
  <1>1. CASE lastChild' = lastChild
    BY <1>1, HandleStutters DEF PersistEntryState, IInv, RecordInv, RecordMirrored
  <1>2. CASE lastChild' = NoPid /\ lastChild \notin Ours
    <2>1. Ours = {} /\ diskPid' = NoPid
      BY <1>2 DEF PersistEntryState, IInv, RecordInv, LiveIsRemembered
    <2>2. Handle!Forget
      BY <2>1 DEF Handle!Forget
    <2> QED
      BY <2>2 DEF HandleStep, Handle!Next
  <1> QED
    BY <1>1, <1>2

LEMMA HandleReleases ==
  ASSUME IInv, NEW t \in Tasks, task[t].at \in StopSteps, ReleaseHandle(t),
         UNCHANGED <<proc, left, removed>>
  PROVE  HandleStep
  <1>1. Ours' = Ours
    BY DEF Ours, Live, leftVars
  <1>2. CASE Compose
    BY <1>1, <1>2, HandleStutters DEF ReleaseHandle, diskVars
  <1>3. CASE ~Compose
    <2>1. panel # "down"
      BY <1>3, StopMoves DEF ReleaseHandle
    <2>2. PersistEntryState
      BY <1>3 DEF ReleaseHandle, StopTail
    <2>3. lastChild' = lastChild \/ (lastChild' = NoPid /\ lastChild \notin Ours)
      BY <1>3 DEF ReleaseHandle, StopTail, IsProcessAlive, Ours, Live, leftVars
    <2> QED
      BY <1>1, <2>1, <2>2, <2>3, HandleForgets
  <1> QED
    BY <1>2, <1>3

LEMMA RefinementStep == MarkerReadable /\ IInv /\ [Next]_vars => HandleStep
  <1> SUFFICES ASSUME MarkerReadable, IInv, [Next]_vars PROVE HandleStep
    OBVIOUS
  <1>1. ASSUME NEW t \in Tasks, UserStart(t) PROVE HandleStep
    <2>1. UNCHANGED <<proc, left, diskPid, removed>>
      BY <1>1 DEF UserStart, BeginStart, PersistEntryState, IInv, RecordInv, RecordMirrored, machineVars,
         diskVars, configVars, StartAccepted, entryVars, leftVars
    <2> QED
      BY <2>1, HandleStutters DEF Ours, Live, leftVars
  <1>2. ASSUME NEW t \in Tasks, UserStop(t) PROVE HandleStep
    BY <1>2, HandleStutters DEF Ours, Live, leftVars, UserStop, BeginStop, machineVars, diskVars,
       configVars, entryVars, handleVars
  <1>3. ASSUME NEW t \in Tasks, Restart(t) PROVE HandleStep
    BY <1>3, HandleStutters DEF Ours, Live, leftVars, Restart, BeginStop, machineVars, diskVars,
       configVars, entryVars, handleVars
  <1>4. ASSUME NEW t \in Tasks, RetryFires(t) PROVE HandleStep
    <2>1. UNCHANGED <<proc, left, diskPid, removed>>
      BY <1>4 DEF RetryFires, BeginStart, PersistEntryState, IInv, RecordInv, RecordMirrored,
         machineVars,
         diskVars, configVars, StartAccepted, entryVars, leftVars
    <2> QED
      BY <2>1, HandleStutters DEF Ours, Live, leftVars
  <1>5. ASSUME NEW t \in Tasks, Disable(t) PROVE HandleStep
    BY <1>5, HandleStutters DEF Ours, Live, leftVars, Disable, BeginStop, machineVars, diskVars,
       configVars, entryVars, handleVars
  <1>6. ASSUME NEW t \in Tasks, Remove(t) PROVE HandleStep
    <2>1. Handle!Abandon
      BY <1>6 DEF Remove, DropEntry, Ours, Live, machineVars, Handle!Abandon
    <2> QED
      BY <2>1 DEF HandleStep, Handle!Next
  <1>7. ASSUME NEW t \in Tasks, Dispose(t) PROVE HandleStep
    BY <1>7, HandleStutters DEF Ours, Live, leftVars, Dispose, BeginStop, machineVars, diskVars,
       configVars, entryVars, handleVars
  <1>8. ASSUME NEW t \in Tasks, Boot(t) PROVE HandleStep
    BY <1>8, HandleStutters DEF Ours, Live, leftVars, Boot, machineVars, diskVars, configVars,
       entryVars, handleVars
  <1>9. ASSUME NEW t \in Tasks, StartAfterDependencies(t) PROVE HandleStep
    BY <1>9, HandleStutters DEF Ours, Live, leftVars, StartAfterDependencies, StartReturns, Return,
       Goto, machineVars, diskVars, configVars, entryVars, handleVars
  <1>10. ASSUME NEW t \in Tasks, StartAfterRecordedChild(t) PROVE HandleStep
    <2>1. Ours' = Ours /\ UNCHANGED removed
      BY <1>10 DEF StartAfterRecordedChild, Ours, Live, leftVars, machineVars, configVars
    <2>2. panel # "down"
      BY <1>10 DEF StartAfterRecordedChild, IInv, CallsInv, DownIsIdle, Idle
    <2>3. CASE lastChild \notin Ours
      <3>1. lastChild' = NoPid /\ PersistEntryState
        BY <1>10, <2>3 DEF StartAfterRecordedChild
      <3> QED
        BY <2>1, <2>2, <2>3, <3>1, HandleForgets
    <2>4. CASE lastChild \in Ours
      BY <1>10, <2>1, <2>4, HandleStutters DEF StartAfterRecordedChild, diskVars
    <2> QED
      BY <2>3, <2>4
  <1>11. ASSUME NEW t \in Tasks, StartAfterBootstrap(t) PROVE HandleStep
    BY <1>11, HandleStutters DEF Ours, Live, leftVars, StartAfterBootstrap, StartReturns, Return,
       Goto, machineVars, diskVars, configVars, entryVars, handleVars
  <1>12. ASSUME NEW t \in Tasks, StartAfterPreflight(t) PROVE HandleStep
    <2>1. UNCHANGED <<left, removed>> /\ ~removed /\ panel # "down" /\ Ours = {} /\ LeftRuns
      BY <1>12 DEF StartAfterPreflight, configVars, IInv, CallsInv, DownIsIdle, Idle, RecordInv,
         ClearedToSpawn, DroppedIsBare, OneStartInFlight, leftVars
    <2>2. ASSUME NEW p \in Pids, Spawn(p) PROVE HandleStep
      <3>1. Ours' = {p}
        BY <2>1, <2>2 DEF Spawn, Ours, Live, LeftRuns, IInv, DataOK
      <3>2. diskPid' = p
        BY <2>2 DEF Spawn, PersistEntryState
      <3>3. Handle!Launch(p)
        BY <2>1, <3>1, <3>2 DEF Handle!Launch
      <3> QED
        BY <3>3 DEF HandleStep, Handle!Next
    <2>3. CASE RefusePort \/ FailSpawn
      BY <2>1, <2>3, HandleStutters DEF RefusePort, FailSpawn, Ours, Live, leftVars, machineVars,
         diskVars
    <2>4. CASE SpawnErrors
      <3>1. Ours' = Ours /\ lastChild' = lastChild /\ PersistEntryState
        BY <2>1, <2>4 DEF SpawnErrors, Ours, Live, machineVars
      <3> QED
        BY <2>1, <3>1, HandleForgets
    <2> QED
      BY <1>12, <2>2, <2>3, <2>4 DEF StartAfterPreflight
  <1>13. ASSUME NEW t \in Tasks, StopAfterSignal(t) PROVE HandleStep
    <2>1. CASE SweepHolders
      BY <1>13, <2>1, HandleStutters DEF StopAfterSignal, Ours, Live, leftVars, machineVars,
         diskVars, configVars
    <2>2. CASE ~SweepHolders
      BY <1>13, <2>2, HandleReleases DEF StopAfterSignal, StopSteps, machineVars, configVars, leftVars
    <2> QED
      BY <2>1, <2>2
  <1>14. ASSUME NEW t \in Tasks, StopAfterSweep(t) PROVE HandleStep
    BY <1>14, HandleReleases DEF StopAfterSweep, StopSteps, machineVars, configVars, leftVars
  <1>15. ASSUME NEW t \in Tasks, StopAfterCompose(t) PROVE HandleStep
    <2>1. Ours' = Ours /\ UNCHANGED removed /\ panel # "down"
      BY <1>15, StopMoves DEF StopAfterCompose, Ours, Live, leftVars, machineVars, configVars, StopSteps
    <2>2. PersistEntryState /\ (lastChild' = lastChild \/ (lastChild' = NoPid /\ lastChild \notin Ours))
      BY <1>15 DEF StopAfterCompose, StopTail, IsProcessAlive, Ours, Live, leftVars
    <2> QED
      BY <2>1, <2>2, HandleForgets
  <1>16. ASSUME NEW t \in Tasks, StopAfterComposeOnly(t) PROVE HandleStep
    BY <1>16, HandleStutters DEF Ours, Live, leftVars, StopAfterComposeOnly, StopReturns, Return,
       machineVars, diskVars, configVars, entryVars, handleVars
  <1>17. ASSUME NEW t \in Tasks, RestartStarts(t) PROVE HandleStep
    <2>1. UNCHANGED <<proc, left, diskPid, removed>>
      BY <1>17 DEF RestartStarts, BeginStart, PersistEntryState, IInv, RecordInv, RecordMirrored,
         machineVars,
         diskVars, configVars, StartAccepted, entryVars, leftVars
    <2> QED
      BY <2>1, HandleStutters DEF Ours, Live, leftVars
  <1>18. ASSUME NEW p \in Pids, HandleExit(p) PROVE HandleStep
    <2>1. Ours' = Ours /\ p \notin Ours /\ panel # "down" /\ UNCHANGED removed
      BY <1>18 DEF HandleExit, Ours, Live, leftVars, IInv, DataOK, configVars
    <2>2. CASE child = p
      <3>1. PersistEntryState /\ (lastChild' = lastChild \/ (lastChild' = NoPid /\ lastChild \notin Ours))
        BY <1>18, <2>1, <2>2 DEF HandleExit, ProcessGone
      <3> QED
        BY <2>1, <3>1, HandleForgets
    <2>3. CASE child # p
      BY <1>18, <2>1, <2>3, HandleStutters DEF HandleExit, diskVars
    <2> QED
      BY <2>2, <2>3
  <1>19. ASSUME NEW p \in Pids, ProcessExits(p) PROVE HandleStep
    <2>1. Ours' = Ours \ {p}
      BY <1>19 DEF ProcessExits, Ours, Live, IInv, DataOK
    <2>2. UNCHANGED <<diskPid, removed>>
      BY <1>19 DEF ProcessExits, diskVars, configVars
    <2>3. CASE p \in Ours
      BY <2>1, <2>2, <2>3 DEF Handle!End, HandleStep, Handle!Next
    <2>4. CASE p \notin Ours
      BY <2>1, <2>2, <2>4, HandleStutters
    <2> QED
      BY <2>3, <2>4
  <1>20. ASSUME NEW p \in Pids, PidRecycled(p) PROVE HandleStep
    <2>1. Ours' = Ours
      BY <1>20 DEF PidRecycled, Ours, Live, leftVars, IInv, DataOK
    <2> QED
      BY <1>20, <2>1, HandleStutters DEF PidRecycled, diskVars, configVars
  <1>21. CASE AwaitReadiness
    BY <1>21, HandleStutters DEF Ours, Live, leftVars, AwaitReadiness, machineVars, diskVars,
       configVars, entryVars, handleVars
  <1>22. CASE TickAdoptedExit
    <2>1. Ours' = Ours /\ UNCHANGED removed /\ panel # "down" /\ pid \notin Ours
      BY <1>22 DEF TickAdoptedExit, Ours, Live, leftVars, IsProcessAlive, machineVars, configVars
    <2>2. PersistEntryState /\ (lastChild' = lastChild \/ (lastChild' = NoPid /\ lastChild \notin Ours))
      BY <1>22, <2>1 DEF TickAdoptedExit, ProcessGone
    <2> QED
      BY <2>1, <2>2, HandleForgets
  <1>23. CASE Enable
    BY <1>23, HandleStutters DEF Ours, Live, leftVars, Enable, machineVars, diskVars, configVars,
       entryVars, handleVars
  <1>24. CASE PanelExits
    <2>1. Ours' = Ours
      BY <1>24 DEF PanelExits, PanelGone, Ours, Live, leftVars, IInv, DataOK
    <2> QED
      BY <1>24, <2>1, HandleStutters DEF PanelExits, PanelGone, diskVars
  <1>25. CASE PanelKilled
    <2>1. Ours' = Ours
      BY <1>25 DEF PanelKilled, PanelGone, Ours, Live, leftVars, IInv, DataOK
    <2> QED
      BY <1>25, <2>1, HandleStutters DEF PanelKilled, PanelGone, diskVars
  <1>26. CASE UNCHANGED vars
    BY <1>26, HandleStutters DEF vars, machineVars, diskVars, configVars, Ours, Live, leftVars
  <1>27. ASSUME NEW t \in Tasks, GoneStart(t) PROVE HandleStep
    <2>1. Ours' = Ours
      BY <1>27 DEF GoneStart, Ours, Live, IInv, DataOK, machineVars, leftVars
    <2> QED
      BY <1>27, <2>1, HandleStutters DEF GoneStart, diskVars, configVars
  <1>28. ASSUME NEW t \in Tasks, GoneStop(t) \/ LeftRetryFires(t) PROVE HandleStep
    <2>1. UNCHANGED <<proc, left, diskPid, removed>>
      BY <1>28 DEF GoneStop, LeftRetryFires, BeginStart, PersistEntryState, IInv, RecordInv,
         RecordMirrored,
         machineVars, diskVars, configVars, StartAccepted, entryVars, leftVars
    <2> QED
      BY <2>1, HandleStutters DEF Ours, Live
  <1>29. CASE ListedAgain
    <2>1. Ours' = Ours
      BY <1>29 DEF ListedAgain, Ours, Live, machineVars, leftVars
    <2>2. Handle!Relist
      BY <1>29, <2>1 DEF ListedAgain, Handle!Relist, diskVars
    <2> QED
      BY <2>2 DEF HandleStep, Handle!Next
  <1> QED
    BY <1>1, <1>2, <1>3, <1>4, <1>5, <1>6, <1>7, <1>8, <1>9, <1>10, <1>11, <1>12,
       <1>13, <1>14, <1>15, <1>16, <1>17, <1>18, <1>19, <1>20, <1>21, <1>22, <1>23,
       <1>24, <1>25, <1>26, <1>27, <1>28, <1>29 DEF Next, StartStep, StopStep, GoneStep

\* The lifecycle implements EntryHandle: over any number of calls, exits, edits and panel
\* crashes, a process is launched only when none runs, is on record from that step on,
\* and its record is dropped only once it is gone (supervisor.ts's start, stopEntry,
\* handleExit and sync, seen from outside).
THEOREM Implements == ASSUME MarkerReadable PROVE Spec => HandleSpec
  <1>1. Init => Handle!Init
    BY DEF Init, Ours, Live, leftVars, Handle!Init
  <1>2. IInv /\ [Next]_vars => [Handle!Next]_(Handle!vars)
    BY RefinementStep DEF HandleStep
  <1> QED
    BY <1>1, <1>2, Inductive, PTL DEF Spec, HandleSpec, Handle!Spec

-----------------------------------------------------------------------------
(* A stop is a stop: where no stop meets another call, SIGKILL ends a process and there is *)
(* no compose stack to wait for. *)

StopsMeetNothing == ~StopsOverlap /\ ~SurvivesKill /\ ~Compose

(* The inductive invariant *)

InStop(t) == task[t].at \in {"signal", "sweep"}

\* A stop is one at a time, with `stopping` set and no start beside it; the child it signals is
\* the entry's, and once its end was waited for no child runs.
StopsAlone ==
    /\ stopping => \E t \in Tasks : InStop(t)
    /\ \A t \in Tasks :
        /\ task[t].at \notin {"compose", "composeOnly"}
        /\ InStop(t) => stopping /\ ~starting /\ ~timer /\ \A u \in Tasks : InStop(u) => u = t
        /\ task[t].at = "signal" => child \in {NoPid, task[t].victim}
        /\ task[t].at = "sweep" => kids \cap Ours = {}

\* The handle is let go only when its process is gone, and no start goes on while there is one.
ChildSeen ==
    /\ kids \cap Ours \subseteq {child}
    /\ child # NoPid => ~starting /\ status \in {"starting", "running", "stopping"}

AdoptedSeen == adopted => child = NoPid /\ pid # NoPid /\ ~starting /\ (status = "running" \/ stopping)

\* What the status says while a stop, a start or a retry is on its way.
StatusTold ==
    /\ status = "stopping" => stopping
    /\ timer => status = "backoff" /\ ~starting
    /\ \A t \in Tasks : task[t].at \in {"recorded", "bootstrap", "preflight"} => status = "starting"

\* A panel that is gone has left nothing in memory.
Forgotten ==
    kids = {} /\ child = NoPid /\ status = "stopped" /\ ~adopted /\ ~stopping /\ ~starting /\ ~timer

StopInv ==
    /\ panel = "up" => StopsAlone /\ ChildSeen /\ AdoptedSeen /\ StatusTold
    /\ panel = "down" => Forgotten

HonestInv == DataOK /\ CallsInv /\ StopInv

-----------------------------------------------------------------------------

\* A step that changes nothing but where a start or an ended stop is, or what the machine does
\* to a process that is let go of.
LEMMA BeginStartHonest ==
  ASSUME StopsMeetNothing, HonestInv, NEW t \in Tasks, NEW r \in BOOLEAN, BeginStart(t, r),
  UNCHANGED left
  PROVE  StopInv'
  <1> USE DEF HonestInv, DataOK, BeginStart, StartAccepted, configVars, machineVars, handleVars
  <1>1. CASE panel = "up"
    <2>1. \A u \in Tasks : ~InStop(u) /\ task[u].op # "start"
      BY <1>1 DEF StopInv, StopsAlone, CallsInv, OneStartInFlight
    <2>2. /\ task' = [task EXCEPT ![t] = [op |-> "start", at |-> "dependencies", victim |-> NoPid]]
          /\ ~stopping /\ ~stopping' /\ ~timer'
          /\ \A u \in Tasks : u # t => task'[u] = task[u]
      OBVIOUS
    <2>3. StopsAlone'
      BY <1>1, <2>1, <2>2 DEF StopInv, StopsAlone, InStop
    <2>4. ChildSeen' /\ AdoptedSeen'
      BY <1>1, <2>2 DEF StopInv, ChildSeen, AdoptedSeen, StatusTold, Ours, Live
    <2>5. StatusTold'
      BY <1>1, <2>1, <2>2 DEF StopInv, StatusTold, CallsInv, CallsWellFormed, StartSteps
    <2> QED
      BY <1>1, <2>3, <2>4, <2>5 DEF StopInv
  <1>2. CASE panel # "up"
    BY <1>2 DEF StopInv
  <1> QED
    BY <1>1, <1>2

LEMMA BeginStopHonest ==
  ASSUME StopsMeetNothing, HonestInv, NEW t \in Tasks, NEW o \in StopOps, BeginStop(t, o),
  UNCHANGED left,
         \A u \in Tasks : task[u].op \in {"none"} \cup GoneOps, panel = "up", panel' = "up"
  PROVE  StopInv'
  <1> USE DEF HonestInv, DataOK, machineVars, handleVars, StopsMeetNothing
  <1>1. ~starting
    BY DEF CallsInv, OneStartInFlight, GoneOps
  <1>2. ~stopping /\ \A u \in Tasks : task[u].at \in {"none", "gone"}
    BY DEF StopInv, StopsAlone, InStop, CallsInv, CallsWellFormed
  <1>3. UNCHANGED <<proc, kids, child, pid, adopted, starting>> /\ ~timer'
    BY DEF BeginStop
  <1>4. \A u \in Tasks : u # t => task'[u] = task[u]
    BY DEF BeginStop
  <1>5. CASE child = NoPid /\ pid = NoPid
    <2>1. ~stopping' /\ status' = "stopped" /\ task'[t].at \in {"none", "again"}
      BY <1>5 DEF BeginStop, Idle
    <2>2. StopsAlone'
      BY <1>2, <1>4, <2>1 DEF StopsAlone, InStop
    <2>3. ChildSeen' /\ StatusTold'
      BY <1>2, <1>3, <1>4, <1>5, <2>1 DEF StopInv, ChildSeen, StatusTold, Ours, Live
    <2>4. AdoptedSeen'
      BY <1>1, <1>2, <1>3, <1>5, <2>1 DEF StopInv, AdoptedSeen
    <2> QED
      BY <2>2, <2>3, <2>4 DEF StopInv
  <1>6. CASE ~(child = NoPid /\ pid = NoPid)
    <2>1. /\ stopping' /\ status' = "stopping" /\ task'[t].at = "signal"
          /\ child \in {NoPid, task'[t].victim}
      BY <1>6 DEF BeginStop
    <2>2. StopsAlone'
      BY <1>1, <1>2, <1>3, <1>4, <2>1 DEF StopsAlone, InStop
    <2>3. ChildSeen' /\ StatusTold'
      BY <1>1, <1>2, <1>3, <1>4, <2>1 DEF StopInv, ChildSeen, StatusTold, Ours, Live
    <2>4. AdoptedSeen'
      BY <1>1, <1>3, <2>1 DEF StopInv, AdoptedSeen
    <2> QED
      BY <2>2, <2>3, <2>4 DEF StopInv
  <1> QED
    BY <1>5, <1>6

\* The handle is let go of with no child running.
LEMMA ReleaseHonest ==
  ASSUME StopsMeetNothing, HonestInv, NEW t \in Tasks, InStop(t), ReleaseHandle(t),
         kids \cap Ours = {},
         UNCHANGED <<machineVars, configVars, leftVars, starting, retryVars, awaiting>>
  PROVE  StopInv'
  <1> USE DEF HonestInv, DataOK, machineVars, leftVars, configVars, retryVars, StopsMeetNothing
  <1>1. panel = "down" => FALSE
    BY DEF CallsInv, DownIsIdle, Idle, InStop
  <1>2. CASE panel = "up"
    <2>1. /\ ~stopping' /\ child' = NoPid /\ ~adopted' /\ status' = "stopped"
          /\ \A u \in Tasks : u # t => task'[u] = task[u]
      BY DEF ReleaseHandle, StopTail, StopReturns, Return
    <2>2. task'[t].at \in {"none", "again"}
      BY DEF ReleaseHandle, StopReturns, Return, Idle, Call
    <2>3. ~starting /\ \A u \in Tasks : u # t => ~InStop(u)
      BY <1>2 DEF StopInv, StopsAlone
    <2>4. \A u \in Tasks : task[u].op # "start"
      BY <2>3 DEF CallsInv, OneStartInFlight
    <2>5. StopsAlone'
      BY <1>2, <2>1, <2>2, <2>3 DEF StopInv, StopsAlone, InStop
    <2>6. ChildSeen' /\ AdoptedSeen'
      BY <2>1 DEF ChildSeen, AdoptedSeen, Ours, Live
    <2>7. ~timer
      BY <1>2 DEF StopInv, StopsAlone
    <2>8. StatusTold'
      BY <1>2, <2>1, <2>2, <2>4, <2>7 DEF StatusTold, CallsInv, CallsWellFormed, StartSteps
    <2> QED
      BY <1>2, <2>5, <2>6, <2>8 DEF StopInv
  <1>3. CASE panel = "closing"
    BY <1>3 DEF StopInv
  <1> QED
    BY <1>1, <1>2, <1>3

-----------------------------------------------------------------------------

LEMMA StopStepHonest == StopsMeetNothing /\ HonestInv /\ [Next]_vars => StopInv'
  <1> SUFFICES ASSUME StopsMeetNothing, HonestInv, [Next]_vars PROVE StopInv'
    OBVIOUS
  <1> USE DEF HonestInv, DataOK, machineVars, leftVars, configVars, retryVars, handleVars, diskVars,
     entryVars
  <1>1. ASSUME NEW t \in Tasks, UserStart(t) PROVE StopInv'
    BY <1>1, BeginStartHonest DEF UserStart, MayBegin
  <1>2. ASSUME NEW t \in Tasks, UserStop(t) \/ Restart(t) PROVE StopInv'
    <2>1. CASE panel = "up"
      BY <1>2, <2>1, BeginStopHonest DEF UserStop, Restart, StopMayBegin, MayBegin,
         StopOps, StopsMeetNothing
    <2>2. CASE panel # "up"
      BY <1>2, <2>2 DEF UserStop, Restart, StopInv
    <2> QED
      BY <2>1, <2>2
  <1>3. ASSUME NEW t \in Tasks, Disable(t) PROVE StopInv'
    <2>1. CASE IsActive
      BY <1>3, <2>1, BeginStopHonest DEF Disable, StopMayBegin, MayBegin, StopOps, StopsMeetNothing
    <2>2. CASE ~IsActive
      BY <1>3, <2>2 DEF Disable, StopInv, StopsAlone, InStop, ChildSeen, AdoptedSeen, StatusTold,
         Ours, Live
    <2> QED
      BY <2>1, <2>2
  <1>4. ASSUME NEW t \in Tasks, RetryFires(t) PROVE StopInv'
    <2>1. CASE BeginStart(t, TRUE)
      BY <1>4, <2>1, BeginStartHonest DEF RetryFires
    <2>2. CASE /\ ~timer' /\ UNCHANGED <<proc, kids, left, panel, status, child, pid, adopted, starting,
                                        stopping, task>>
      BY <2>2 DEF StopInv, StopsAlone, InStop, ChildSeen, AdoptedSeen, StatusTold, Forgotten, Ours, Live
    <2> QED
      BY <1>4, <2>1, <2>2 DEF RetryFires
  <1>5. ASSUME NEW t \in Tasks, Dispose(t) PROVE StopInv'
    BY <1>5 DEF Dispose, StopInv
  <1>6. ASSUME NEW t \in Tasks, Boot(t) PROVE StopInv'
    <2>1. Forgotten /\ panel' = "up" /\ \A u \in Tasks : task[u] = Idle
      BY <1>6 DEF Boot, StopInv, CallsInv, DownIsIdle
    <2>2. \A u \in Tasks : task'[u].at \in {"none", "dependencies"}
      BY <1>6, <2>1 DEF Boot, Idle
    <2>3. UNCHANGED <<kids, child, status, adopted, stopping, timer>>
      BY <1>6 DEF Boot
    <2> QED
      BY <2>1, <2>2, <2>3 DEF StopInv, StopsAlone, InStop, ChildSeen, AdoptedSeen, StatusTold,
         Forgotten
  <1>7. ASSUME NEW t \in Tasks, StartStep(t) PROVE StopInv'
    <2>1. task[t].op = "start" /\ panel # "down"
      BY <1>7 DEF StartStep, StartAfterDependencies, StartAfterRecordedChild, StartAfterBootstrap,
         StartAfterPreflight, CallsInv, DownIsIdle, Idle
    <2>2. panel' = panel
      BY <1>7 DEF StartStep, StartAfterDependencies, StartAfterRecordedChild, StartAfterBootstrap,
         StartAfterPreflight
    <2>3. CASE panel = "closing"
      BY <2>2, <2>3 DEF StopInv
    <2>4. CASE panel = "up"
      <3>1. /\ starting /\ ~stopping /\ child = NoPid /\ ~adopted /\ kids \cap Ours = {}
            /\ \A u \in Tasks : ~InStop(u)
            /\ \A u \in Tasks : task[u].op = "start" => u = t
        <4>1. starting /\ \A u \in Tasks : task[u].op = "start" => u = t
          BY <2>1 DEF CallsInv, OneStartInFlight
        <4>2. child = NoPid /\ ~adopted /\ kids \cap Ours = {}
          BY <2>4, <4>1, ConstantsAssumption DEF StopInv, ChildSeen, AdoptedSeen
        <4>3. ~stopping /\ \A u \in Tasks : ~InStop(u)
          BY <2>4, <4>1 DEF StopInv, StopsAlone
        <4> QED
          BY <4>1, <4>2, <4>3
      <3>2. \A u \in Tasks \ {t} :
              task'[u] = task[u] /\ task[u].at \notin {"recorded", "bootstrap", "preflight"}
        BY <1>7, <3>1 DEF StartStep, StartAfterDependencies, StartAfterRecordedChild,
           StartAfterBootstrap, StartAfterPreflight, StartReturns, Return, Goto, CallsInv,
           CallsWellFormed, StartSteps
      <3>3. /\ task'[t].at \in {"none", "recorded", "bootstrap", "preflight"}
            /\ starting' \/ task'[t].at = "none"
        <4>1. \/ StartReturns(t)
              \/ UNCHANGED starting /\ \E a \in {"recorded", "bootstrap", "preflight"} : Goto(t, a)
          BY <1>7 DEF StartStep, StartAfterDependencies, StartAfterRecordedChild,
             StartAfterBootstrap, StartAfterPreflight
        <4>2. CASE StartReturns(t)
          BY <4>2 DEF StartReturns, Return, Idle
        <4>3. CASE UNCHANGED starting /\ \E a \in {"recorded", "bootstrap", "preflight"} : Goto(t, a)
          BY <3>1, <4>3 DEF Goto, Call
        <4> QED
          BY <4>1, <4>2, <4>3
      <3>4. stopping' = stopping
        BY <1>7 DEF StartStep, StartAfterDependencies, StartAfterRecordedChild,
           StartAfterBootstrap, StartAfterPreflight
      <3>5. StopsAlone'
        BY <2>2, <2>4, <3>1, <3>2, <3>3, <3>4 DEF StopInv, StopsAlone, InStop
      <3>6. ChildSeen' /\ AdoptedSeen' /\ StatusTold'
        <4> USE <2>1, <2>4, <3>1, <3>2, <3>3, <3>4 DEF StopInv, ChildSeen, AdoptedSeen, StatusTold
        <4>1. CASE StartAfterDependencies(t)
          <5>1. /\ task'[t].at \in {"recorded", "bootstrap", "preflight"} => status' = "starting"
                /\ UNCHANGED <<proc, kids, left, child, pid, adopted, timer, stopping>> /\ status' \in {status, "starting"}
            BY <4>1 DEF StartAfterDependencies, StartReturns, Return, Idle
          <5> QED
            BY <5>1 DEF Ours, Live
        <4>2. CASE StartAfterRecordedChild(t)
          <5>1. status = "starting" /\ ~timer /\ UNCHANGED <<proc, kids, left, timer, stopping>>
            BY <4>2 DEF StartAfterRecordedChild
          <5>2. CASE UNCHANGED <<status, handleVars>>
            BY <5>1, <5>2 DEF Ours, Live
          <5>3. CASE task'[t].at = "none" /\ UNCHANGED handleVars /\ status' = "conflict"
            BY <5>1, <5>3 DEF Ours, Live
          <5>4. CASE ~starting' /\ task'[t].at = "none" /\ AdoptEntry(lastChild) /\ lastChild \in Pids
            BY <5>1, <5>4, ConstantsAssumption DEF AdoptEntry, Ours, Live
          <5> QED
            BY <4>2, <5>2, <5>3, <5>4 DEF StartAfterRecordedChild, StartReturns, Return, Idle, Ours, Live
        <4>3. CASE StartAfterBootstrap(t)
          BY <4>3 DEF StartAfterBootstrap, StartReturns, Ours, Live
        <4>4. CASE StartAfterPreflight(t)
          <5>1. /\ status = "starting" /\ ~timer /\ ~starting' /\ task'[t].at = "none"
                /\ UNCHANGED left
            BY <4>4 DEF StartAfterPreflight, StartReturns, Return, Idle
          <5>2. CASE UNCHANGED retryVars /\ \E p \in Pids : Spawn(p)
            <6>1. PICK p \in Pids : Spawn(p)
              BY <5>2
            <6> QED
              BY <5>1, <5>2, <6>1 DEF Spawn, Ours, Live
          <5>3. CASE RefusePort \/ FailSpawn
            BY <5>1, <5>3 DEF RefusePort, FailSpawn, Ours, Live
          <5>4. CASE SpawnErrors
            BY <5>1, <5>4 DEF SpawnErrors, AfterExit, Ours, Live
          <5> QED
            BY <4>4, <5>2, <5>3, <5>4 DEF StartAfterPreflight
        <4> QED
          BY <1>7, <4>1, <4>2, <4>3, <4>4 DEF StartStep
      <3> QED
        BY <2>2, <2>4, <3>5, <3>6 DEF StopInv
    <2> QED
      BY <2>1, <2>3, <2>4
  <1>8. ASSUME NEW t \in Tasks, StopAfterSignal(t) PROVE StopInv'
    <2>1. CASE panel = "up"
      <3>1. kids \cap Ours = {}
        <4>1. kids \cap Ours \subseteq {task[t].victim}
          BY <1>8, <2>1, ConstantsAssumption DEF StopAfterSignal, StopInv, StopsAlone, ChildSeen
        <4>2. task[t].victim \notin kids
          BY <1>8 DEF StopAfterSignal, Terminated, StopsMeetNothing
        <4> QED
          BY <4>1, <4>2
      <3>2. CASE ReleaseHandle(t)
        BY <1>8, <3>1, <3>2, ReleaseHonest DEF StopAfterSignal, InStop
      <3>3. CASE Goto(t, "sweep") /\ UNCHANGED <<diskVars, status, handleVars, lastChild, restarts, stopping>>
        <4>1. task'[t].at = "sweep" /\ \A u \in Tasks : u # t => task'[u] = task[u]
          BY <3>3 DEF Goto, Call
        <4>2. UNCHANGED <<proc, kids, panel, status, child, pid, adopted, starting, stopping, timer>>
          BY <1>8, <3>3 DEF StopAfterSignal
        <4> QED
          BY <1>8, <2>1, <3>1, <4>1, <4>2 DEF StopAfterSignal, StopInv, StopsAlone, InStop,
             ChildSeen, AdoptedSeen, StatusTold, Ours, Live
      <3> QED
        BY <1>8, <3>2, <3>3 DEF StopAfterSignal
    <2>2. CASE panel # "up"
      BY <1>8, <2>2 DEF StopAfterSignal, StopInv, CallsInv, DownIsIdle, Idle
    <2> QED
      BY <2>1, <2>2
  <1>9. ASSUME NEW t \in Tasks, StopAfterSweep(t) PROVE StopInv'
    <2>1. CASE panel = "up"
      BY <1>9, <2>1, ReleaseHonest DEF StopAfterSweep, InStop, StopInv, StopsAlone
    <2>2. CASE panel # "up"
      BY <1>9, <2>2 DEF StopAfterSweep, StopInv, CallsInv, DownIsIdle, Idle
    <2> QED
      BY <2>1, <2>2
  <1>10. ASSUME NEW t \in Tasks, StopAfterCompose(t) \/ StopAfterComposeOnly(t) PROVE StopInv'
    BY <1>10 DEF StopAfterCompose, StopAfterComposeOnly, StopInv, StopsAlone, CallsInv, DownIsIdle, Idle
  <1>11. ASSUME NEW t \in Tasks, RestartStarts(t) PROVE StopInv'
    <2>1. CASE BeginStart(t, FALSE)
      BY <1>11, <2>1, BeginStartHonest DEF RestartStarts
    <2>2. CASE Return(t) /\ UNCHANGED <<machineVars, diskVars, configVars, entryVars>>
      BY <1>11, <2>2 DEF RestartStarts, Return, StopInv, StopsAlone, InStop, ChildSeen, AdoptedSeen,
         StatusTold, Forgotten, Ours, Live, Idle
    <2> QED
      BY <1>11, <2>1, <2>2 DEF RestartStarts
  <1>12. ASSUME NEW p \in Pids, HandleExit(p) PROVE StopInv'
    <2>1. /\ kids' = kids \ {p} /\ proc' = [proc EXCEPT ![p] = "free"] /\ panel # "down"
          /\ UNCHANGED <<panel, task, starting, stopping>> /\ kids' \cap Ours' \subseteq kids \cap Ours
      BY <1>12 DEF HandleExit, Ours, Live
    <2>2. CASE child = p
      <3>1. CASE panel = "up"
        <4>1. /\ child' = NoPid /\ ~adopted' /\ child # NoPid
              /\ IF stopping THEN status' = "stopped" /\ timer' = timer
                 ELSE \/ status' = "backoff"
                      \/ status' = "crashed" /\ timer' = timer
          BY <1>12, <2>2, ConstantsAssumption DEF HandleExit, ProcessGone, AfterExit
        <4>2. ~starting /\ kids \cap Ours \subseteq {p} /\ ~timer
          BY <2>2, <3>1, <4>1 DEF StopInv, ChildSeen, StatusTold
        <4>3. kids' \cap Ours' = {}
          BY <2>1, <4>2
        <4>4. \A u \in Tasks : task[u].at \notin {"recorded", "bootstrap", "preflight"}
          BY <4>2 DEF CallsInv, CallsWellFormed, OneStartInFlight, StartSteps
        <4>5. StopsAlone'
          BY <2>1, <3>1, <4>1, <4>2, <4>3 DEF StopInv, StopsAlone, InStop
        <4>6. ChildSeen' /\ AdoptedSeen' /\ StatusTold'
          BY <2>1, <3>1, <4>1, <4>2, <4>3, <4>4 DEF ChildSeen, AdoptedSeen, StatusTold
        <4> QED
          BY <2>1, <3>1, <4>5, <4>6 DEF StopInv
      <3>2. CASE panel # "up"
        BY <2>1, <3>2 DEF StopInv
      <3> QED
        BY <3>1, <3>2
    <2>3. CASE child # p
      BY <1>12, <2>1, <2>3 DEF HandleExit, StopInv, StopsAlone, InStop, ChildSeen, AdoptedSeen,
         StatusTold
    <2> QED
      BY <2>2, <2>3
  <1>13. ASSUME NEW p \in Pids, ProcessExits(p) \/ PidRecycled(p) PROVE StopInv'
    <2>1. /\ kids' \cap Ours' \subseteq kids \cap Ours
          /\ UNCHANGED <<kids, panel, status, child, pid, adopted, starting, stopping, timer, task>>
      BY <1>13 DEF ProcessExits, PidRecycled, Ours, Live
    <2> QED
      BY <2>1 DEF StopInv, StopsAlone, InStop, ChildSeen, AdoptedSeen, StatusTold, Forgotten
  <1>14. CASE AwaitReadiness
    <2>1. UNCHANGED <<proc, kids, left, panel, child, pid, adopted, starting, stopping, timer, task>>
      BY <1>14 DEF AwaitReadiness
    <2>2. status' = status \/ (child # NoPid /\ status = "starting" /\ status' = "running")
      BY <1>14 DEF AwaitReadiness
    <2> QED
      BY <2>1, <2>2 DEF StopInv, StopsAlone, InStop, ChildSeen, AdoptedSeen, StatusTold, Forgotten,
         Ours, Live,
         CallsInv, CallsWellFormed, OneStartInFlight, StartSteps
  <1>15. CASE TickAdoptedExit
    BY <1>15 DEF TickAdoptedExit, ProcessGone, AfterExit, StopInv, StopsAlone, InStop, ChildSeen,
       AdoptedSeen, StatusTold, Ours, Live, CallsInv, CallsWellFormed, OneStartInFlight, StartSteps
  <1>16. CASE Enable \/ UNCHANGED vars
    BY <1>16 DEF Enable, vars, StopInv, StopsAlone, InStop, ChildSeen, AdoptedSeen, StatusTold,
       Forgotten, Ours, Live
  <1>17. CASE PanelExits \/ PanelKilled
    BY <1>17 DEF PanelExits, PanelKilled, PanelGone, DropEntry, StopInv, Forgotten
  <1>18. ASSUME NEW t \in Tasks, Remove(t) PROVE StopInv'
    <2>1. /\ ~starting' /\ ~stopping' /\ child' = NoPid /\ ~adopted' /\ ~timer' /\ status' = "stopped"
          /\ panel' = "up"
      BY <1>18 DEF Remove, DropEntry
    <2>2. Ours' = {}
      BY <1>18 DEF Remove, Ours, Live
    <2>3. \A u \in Tasks : task[u].op \in {"none"} \cup GoneOps
      BY <1>18 DEF Remove, StopMayBegin, StopsMeetNothing
    <2>4. \A u \in Tasks : task'[u].at \in {"none", "gone"}
      BY <1>18, <2>3 DEF Remove, LeftBehind, GoneOps, CallsInv, CallsWellFormed
    <2> QED
      BY <2>1, <2>2, <2>4 DEF StopInv, StopsAlone, InStop, ChildSeen, AdoptedSeen, StatusTold
  <1>19. ASSUME NEW t \in Tasks, GoneStart(t) PROVE StopInv'
    <2>1. kids' \cap Ours' \subseteq kids \cap Ours
      BY <1>19 DEF GoneStart, Ours, Live
    <2>2. UNCHANGED <<panel, status, child, pid, adopted, starting, stopping, timer>>
      BY <1>19 DEF GoneStart
    <2>3. task'[t].at = "none" /\ \A u \in Tasks : u # t => task'[u] = task[u]
      BY <1>19 DEF GoneStart, Return, Idle
    <2>4. task[t].at = "gone" /\ panel # "down"
      BY <1>19 DEF GoneStart, CallsInv, CallsWellFormed, GoneOps, DownIsIdle, Idle
    <2> QED
      BY <2>1, <2>2, <2>3, <2>4 DEF StopInv, StopsAlone, InStop, ChildSeen, AdoptedSeen, StatusTold
  <1>20. ASSUME NEW t \in Tasks, GoneStop(t) PROVE StopInv'
    <2>1. CASE BeginStart(t, FALSE)
      BY <1>20, <2>1, BeginStartHonest DEF GoneStop
    <2>2. CASE Return(t) /\ UNCHANGED <<machineVars, diskVars, configVars, entryVars>>
      <3>1. task'[t].at = "none" /\ \A u \in Tasks : u # t => task'[u] = task[u]
        BY <2>2 DEF Return, Idle
      <3>2. task[t].at = "gone" /\ panel # "down"
        BY <1>20 DEF GoneStop, CallsInv, CallsWellFormed, GoneOps, DownIsIdle, Idle
      <3> QED
        BY <1>20, <2>2, <3>1, <3>2 DEF GoneStop, StopInv, StopsAlone, InStop, ChildSeen, AdoptedSeen,
           StatusTold, Ours, Live
    <2> QED
      BY <1>20, <2>1, <2>2 DEF GoneStop
  <1>21. ASSUME NEW t \in Tasks, LeftRetryFires(t) PROVE StopInv'
    <2>1. CASE BeginStart(t, TRUE)
      BY <1>21, <2>1, BeginStartHonest DEF LeftRetryFires
    <2>2. CASE UNCHANGED <<machineVars, diskVars, configVars, entryVars, task>>
      BY <1>21, <2>2 DEF LeftRetryFires, StopInv, StopsAlone, InStop, ChildSeen, AdoptedSeen, StatusTold,
         Forgotten, Ours, Live
    <2> QED
      BY <1>21, <2>1, <2>2 DEF LeftRetryFires
  <1>22. CASE ListedAgain
    BY <1>22 DEF ListedAgain, StopInv, StopsAlone, InStop, ChildSeen, AdoptedSeen, StatusTold, Ours, Live
  <1> QED
    BY <1>1, <1>2, <1>3, <1>4, <1>5, <1>6, <1>7, <1>8, <1>9, <1>10, <1>11, <1>12, <1>13, <1>14,
       <1>15, <1>16, <1>17, <1>18, <1>19, <1>20, <1>21, <1>22 DEF Next, StopStep, GoneStep

-----------------------------------------------------------------------------

\* With every call answered, an entry shown as stopped has no child of the panel running and no
\* retry pending (stopEntry, clearRetry), where no stop meets another call.
THEOREM StopIsStop == ASSUME StopsMeetNothing PROVE Spec => []HonestStop
  <1>1. Init => HonestInv
    BY CallIdle, ConstantsAssumption DEF Init, HonestInv, DataOK, Status, CallsInv, CallsWellFormed,
       OneStartInFlight, DownIsIdle, Idle, StartSteps, GoneOps, StopInv, StopsAlone, InStop, ChildSeen,
       AdoptedSeen, StatusTold
  <1>2. HonestInv /\ [Next]_vars => HonestInv'
    BY DataStep, CallsStep, StopStepHonest DEF HonestInv
  <1>3. HonestInv => HonestStop
    BY ConstantsAssumption DEF HonestInv, HonestStop, StopInv, ChildSeen, StatusTold, DataOK
  <1> QED
    BY <1>1, <1>2, <1>3, PTL DEF Spec
=============================================================================
