------------------------- MODULE HealthBudget_proofs -------------------------
(***************************************************************************)
(* The budget of forced restarts holds, and no process is forced down      *)
(* twice, for any number of processes, overlapping calls and late answers. *)
(***************************************************************************)
EXTENDS HealthBudget, TLAPS

\* What was forced since the last start somebody asked for is what the budget has paid for.
Paid == forced = healthRestarts

\* Running is said of a process.
RunsOn == status = "running" => child # NoProc

\* A process forced down is being stopped, and nothing takes it for serving again.
Condemned == child # NoProc /\ child = forcedOn => stopping /\ status \notin {"running", "starting"}

\* Where nothing happens while a probe is in flight, its answer finds what it asked.
Prompt == ~world.late /\ probing => status = "running"

IInv == TypeOK /\ Paid /\ RunsOn /\ Condemned /\ Prompt

\* TypeOK in three parts: the numbers, the calls, the rest.
Numbers == /\ restarts \in 0..MaxRetries /\ failures \in 0..Threshold
           /\ healthRestarts \in 0..MaxRetries
           /\ asks \in 0..MaxAsks /\ forced \in 0..MaxRetries + 1
Calls   == task \in [Tasks -> Call]
Bits    == /\ starting \in BOOLEAN /\ stopping \in BOOLEAN /\ since \in BOOLEAN
           /\ probing \in BOOLEAN /\ byPanel \in BOOLEAN /\ seasoned \in BOOLEAN
Names   == /\ world \in Worlds /\ live \in SUBSET Procs /\ child \in Procs \cup {NoProc}
           /\ status \in {"stopped", "starting", "running", "stopping", "backoff", "crashed", "conflict"}
           /\ health \in {"unknown", "healthy", "unhealthy"} /\ pending \in Cause
           /\ told \in {"none", "unhealthy", "recovered", "forced", "rss", "restart-ok", "crash"}
           /\ forcedOn \in Procs \cup {NoProc}
Fields  == Bits /\ Names

LEMMA Parts == TypeOK <=> Numbers /\ Calls /\ Fields
  BY DEF TypeOK, Numbers, Calls, Fields, Bits, Names

LEMMA PartsNext == TypeOK' <=> Numbers' /\ Calls' /\ Fields'
  BY DEF TypeOK, Numbers, Calls, Fields, Bits, Names

-----------------------------------------------------------------------------
(* What a call in flight may turn into. *)

LEMMA IdleCall == Idle \in Call
  BY DEF Idle, Call, Cause

LEMMA OwedCause ==
  ASSUME Calls, Fields, NEW t \in Tasks
  PROVE  OwedAgain(t) \in Cause /\ task[t].owed \in Cause /\ task[t].asked \in BOOLEAN
  BY DEF Calls, Fields, Names, OwedAgain, Call

LEMMA ReturnType ==
  ASSUME Calls, NEW t \in Tasks, Return(t)
  PROVE  Calls'
  BY IdleCall DEF Calls, Return

LEMMA MovesType ==
  ASSUME Calls, NEW t \in Tasks, NEW at \in {"spawn", "again"},
         task' = [task EXCEPT ![t].at = at]
  PROVE  Calls'
  BY DEF Calls, Call

LEMMA BeginStartType ==
  ASSUME Numbers, Calls, Fields, NEW t \in Tasks, NEW retry \in BOOLEAN, NEW a \in BOOLEAN,
         NEW owed \in Cause, BeginStart(t, retry, a, owed)
  PROVE  /\ Calls'
         /\ restarts' \in 0..MaxRetries /\ healthRestarts' \in 0..MaxRetries
         /\ failures' \in 0..Threshold /\ forced' \in 0..MaxRetries + 1
         /\ pending' \in Cause /\ starting' \in BOOLEAN /\ byPanel' \in BOOLEAN
         /\ health' \in {"unknown", "healthy", "unhealthy"}
         /\ since' \in BOOLEAN /\ probing' \in BOOLEAN
  <1>1. [Idle EXCEPT !.at = "dependencies"] \in Call
    BY DEF Idle, Call, Cause
  <1>2. Calls'
    BY <1>1 DEF Calls, BeginStart
  <1>3. 0 \in 0..MaxRetries /\ 0 \in 0..Threshold /\ 0 \in 0..MaxRetries + 1
    BY ConstantsAssumption
  <1>4. /\ restarts' \in 0..MaxRetries /\ healthRestarts' \in 0..MaxRetries
        /\ failures' \in 0..Threshold /\ forced' \in 0..MaxRetries + 1
    BY <1>3 DEF Numbers, BeginStart, ResetHealth, SetHealth, probeVars
  <1>5. /\ pending' \in Cause /\ starting' \in BOOLEAN /\ byPanel' \in BOOLEAN
        /\ health' \in {"unknown", "healthy", "unhealthy"}
        /\ since' \in BOOLEAN /\ probing' \in BOOLEAN
    BY DEF Fields, Bits, Names, BeginStart, ResetHealth, SetHealth, probeVars, Cause
  <1> QED BY <1>2, <1>4, <1>5

LEMMA BeginStopType ==
  ASSUME Calls, Fields, NEW t \in Tasks, NEW again \in BOOLEAN, NEW a \in BOOLEAN,
         NEW owed \in Cause, BeginStop(t, again, a, owed)
  PROVE  /\ Calls' /\ stopping' \in BOOLEAN /\ status' \in {"stopped", "stopping"}
  <1>1. /\ [at |-> "again", again |-> TRUE, asked |-> a, owed |-> owed, victim |-> NoProc] \in Call
        /\ [at |-> "signal", again |-> again, asked |-> a, owed |-> owed, victim |-> child] \in Call
    BY DEF Call, Fields, Names
  <1>2. Calls'
    BY <1>1 DEF Calls, BeginStop
  <1> QED BY <1>2 DEF BeginStop

-----------------------------------------------------------------------------
(* Every step keeps the invariant. *)

LEMMA UserStartKeeps ==
  ASSUME IInv, NEW t \in Tasks, Free /\ UserStart(t)
  PROVE  IInv'
  <1> USE DEF Free, callVars, probeVars, budgetVars, pastVars
  <1>0. Numbers /\ Calls /\ Fields
    BY Parts DEF IInv
  <1>1. Calls'
    BY <1>0, BeginStartType DEF UserStart, Fields, Names, Cause
  <1>2. Numbers'
    <2>1. asks' \in 0..MaxAsks
      BY <1>0, ConstantsAssumption DEF UserStart, Numbers
    <2>2. BeginStart(t, FALSE, TRUE, pending) /\ pending \in Cause
      BY <1>0 DEF UserStart, Fields, Names
    <2> QED BY <1>0, <2>1, <2>2, BeginStartType DEF Numbers
  <1>3. Fields'
    <2>1. Bits'
      BY <1>0, BeginStartType DEF UserStart, Fields, Bits, Names, Cause, BeginStart
    <2>2. Names'
      BY <1>0, BeginStartType DEF UserStart, Fields, Names, Cause, BeginStart
    <2> QED BY <2>1, <2>2 DEF Fields
  <1>4. (Paid /\ RunsOn /\ Condemned /\ Prompt)'
    BY ConstantsAssumption
       DEF IInv, TypeOK, Call, Cause, Paid, RunsOn, Condemned, Prompt, UserStart, BeginStart,
           StartAccepted, ResetHealth, SetHealth, Idle
  <1> QED BY <1>1, <1>2, <1>3, <1>4, PartsNext DEF IInv

LEMMA DependentStartKeeps ==
  ASSUME IInv, NEW t \in Tasks, Free /\ DependentStart(t)
  PROVE  IInv'
  <1> USE DEF Free, callVars, probeVars, budgetVars, pastVars
  <1>0. Numbers /\ Calls /\ Fields
    BY Parts DEF IInv
  <1>1. Calls'
    BY <1>0, BeginStartType DEF DependentStart, Fields, Names, Cause
  <1>2. Numbers'
    <2>1. asks' \in 0..MaxAsks
      BY <1>0, ConstantsAssumption DEF DependentStart, Numbers
    <2>2. BeginStart(t, FALSE, FALSE, pending) /\ pending \in Cause
      BY <1>0 DEF DependentStart, Fields, Names
    <2> QED BY <1>0, <2>1, <2>2, BeginStartType DEF Numbers
  <1>3. Fields'
    <2>1. Bits'
      BY <1>0, BeginStartType DEF DependentStart, Fields, Bits, Names, Cause, BeginStart
    <2>2. Names'
      BY <1>0, BeginStartType DEF DependentStart, Fields, Names, Cause, BeginStart
    <2> QED BY <2>1, <2>2 DEF Fields
  <1>4. (Paid /\ RunsOn /\ Condemned /\ Prompt)'
    BY ConstantsAssumption
       DEF IInv, TypeOK, Call, Cause, Paid, RunsOn, Condemned, Prompt, DependentStart, BeginStart,
           StartAccepted, ResetHealth, SetHealth, Idle
  <1> QED BY <1>1, <1>2, <1>3, <1>4, PartsNext DEF IInv

LEMMA RetryFiresKeeps ==
  ASSUME IInv, NEW t \in Tasks, Free /\ RetryFires(t)
  PROVE  IInv'
  <1> USE DEF Free, callVars, probeVars, budgetVars, pastVars
  <1>0. Numbers /\ Calls /\ Fields
    BY Parts DEF IInv
  <1>1. Calls'
    BY <1>0, BeginStartType DEF RetryFires, Fields, Names, Cause
  <1>2. Numbers'
    BY <1>0, BeginStartType, ConstantsAssumption DEF RetryFires, Numbers, Fields, Names, Cause
  <1>3. Fields'
    <2>1. Bits'
      BY <1>0, BeginStartType DEF RetryFires, Fields, Bits, Names, Cause, BeginStart
    <2>2. Names'
      BY <1>0, BeginStartType DEF RetryFires, Fields, Names, Cause, BeginStart
    <2> QED BY <2>1, <2>2 DEF Fields
  <1>4. (Paid /\ RunsOn /\ Condemned /\ Prompt)'
    BY ConstantsAssumption
       DEF IInv, TypeOK, Call, Cause, Paid, RunsOn, Condemned, Prompt, RetryFires, BeginStart,
           StartAccepted, ResetHealth, SetHealth, Idle
  <1> QED BY <1>1, <1>2, <1>3, <1>4, PartsNext DEF IInv

LEMMA StartAfterDependenciesKeeps ==
  ASSUME IInv, NEW t \in Tasks, Free /\ StartAfterDependencies(t)
  PROVE  IInv'
  <1> USE DEF Free, callVars, probeVars, budgetVars, pastVars
  <1>0. Numbers /\ Calls /\ Fields
    BY Parts DEF IInv
  <1>1. Calls'
    BY <1>0, ReturnType, MovesType DEF StartAfterDependencies
  <1>2. Numbers'
    BY <1>0, ConstantsAssumption DEF StartAfterDependencies, Numbers, ResetHealth, SetHealth
  <1>3. Fields'
    <2>1. Bits'
      BY <1>0 DEF StartAfterDependencies, Fields, Bits, Names, ResetHealth, SetHealth
    <2>2. Names'
      BY <1>0 DEF StartAfterDependencies, Fields, Names, ResetHealth, SetHealth
    <2> QED BY <2>1, <2>2 DEF Fields
  <1>4. (Paid /\ RunsOn /\ Condemned /\ Prompt)'
    BY ConstantsAssumption
       DEF IInv, TypeOK, Call, Cause, Paid, RunsOn, Condemned, Prompt, StartAfterDependencies,
           Return, ResetHealth, SetHealth, Idle
  <1> QED BY <1>1, <1>2, <1>3, <1>4, PartsNext DEF IInv

LEMMA StartSpawnsKeeps ==
  ASSUME IInv, NEW t \in Tasks, Free /\ StartSpawns(t)
  PROVE  IInv'
  <1> USE DEF Free, callVars, probeVars, budgetVars, pastVars
  <1>0. Numbers /\ Calls /\ Fields
    BY Parts DEF IInv
  <1>1. Calls'
    BY <1>0, ReturnType DEF StartSpawns
  <1>2. Numbers'
    BY <1>0, ConstantsAssumption DEF StartSpawns, Numbers, ResetHealth, SetHealth
  <1>3. Fields'
    <2>1. Bits'
      BY <1>0 DEF StartSpawns, Fields, Bits, Names, ResetHealth, SetHealth
    <2>2. Names'
      BY <1>0 DEF StartSpawns, Fields, Names, ResetHealth, SetHealth
    <2> QED BY <2>1, <2>2 DEF Fields
  <1>4. (Paid /\ RunsOn /\ Condemned /\ Prompt)'
    BY ConstantsAssumption
       DEF IInv, TypeOK, Call, Cause, Paid, RunsOn, Condemned, Prompt, StartSpawns, Return, Fresh,
           ResetHealth, SetHealth, Idle
  <1> QED BY <1>1, <1>2, <1>3, <1>4, PartsNext DEF IInv

LEMMA StopEndsKeeps ==
  ASSUME IInv, NEW t \in Tasks, Free /\ StopEnds(t)
  PROVE  IInv'
  <1> USE DEF Free, callVars, probeVars, budgetVars, pastVars
  <1>0. Numbers /\ Calls /\ Fields
    BY Parts DEF IInv
  <1>1. Calls'
    BY <1>0, ReturnType, MovesType DEF StopEnds
  <1>2. Numbers'
    BY <1>0, ConstantsAssumption DEF StopEnds, Numbers, ResetHealth, SetHealth
  <1>3. Fields'
    <2>1. Bits'
      BY <1>0 DEF StopEnds, Fields, Bits, Names, ResetHealth, SetHealth
    <2>2. Names'
      BY <1>0 DEF StopEnds, Fields, Names, ResetHealth, SetHealth
    <2> QED BY <2>1, <2>2 DEF Fields
  <1>4. (Paid /\ RunsOn /\ Condemned /\ Prompt)'
    BY ConstantsAssumption
       DEF IInv, TypeOK, Call, Cause, Paid, RunsOn, Condemned, Prompt, StopEnds, Return,
           ResetHealth, SetHealth, Idle
  <1> QED BY <1>1, <1>2, <1>3, <1>4, PartsNext DEF IInv

LEMMA UserStopKeeps ==
  ASSUME IInv, NEW t \in Tasks, Free /\ UserStop(t)
  PROVE  IInv'
  <1> USE DEF Free, callVars, probeVars, budgetVars, pastVars
  <1>0. Numbers /\ Calls /\ Fields
    BY Parts DEF IInv
  <1>1. Calls'
    BY <1>0, BeginStopType DEF UserStop, Fields, Names, Cause
  <1>2. Numbers'
    BY <1>0, ConstantsAssumption DEF UserStop, BeginStop, Numbers
  <1>3. Fields'
    <2>1. Bits'
      BY <1>0, BeginStopType DEF UserStop, BeginStop, Fields, Bits, Names, Cause
    <2>2. Names'
      BY <1>0, BeginStopType DEF UserStop, BeginStop, Fields, Names, Cause
    <2> QED BY <2>1, <2>2 DEF Fields
  <1>4. (Paid /\ RunsOn /\ Condemned /\ Prompt)'
    BY ConstantsAssumption
       DEF IInv, TypeOK, Call, Cause, Paid, RunsOn, Condemned, Prompt, UserStop, BeginStop, Idle
  <1> QED BY <1>1, <1>2, <1>3, <1>4, PartsNext DEF IInv

LEMMA UserRestartKeeps ==
  ASSUME IInv, NEW t \in Tasks, Free /\ UserRestart(t)
  PROVE  IInv'
  <1> USE DEF Free, callVars, probeVars, budgetVars, pastVars
  <1>0. Numbers /\ Calls /\ Fields
    BY Parts DEF IInv
  <1>1. Calls'
    BY <1>0, BeginStopType DEF UserRestart, Fields, Names, Cause
  <1>2. Numbers'
    BY <1>0, ConstantsAssumption DEF UserRestart, BeginStop, Numbers
  <1>3. Fields'
    <2>1. Bits'
      BY <1>0, BeginStopType DEF UserRestart, BeginStop, Fields, Bits, Names, Cause
    <2>2. Names'
      BY <1>0, BeginStopType DEF UserRestart, BeginStop, Fields, Names, Cause
    <2> QED BY <2>1, <2>2 DEF Fields
  <1>4. (Paid /\ RunsOn /\ Condemned /\ Prompt)'
    BY ConstantsAssumption
       DEF IInv, TypeOK, Call, Cause, Paid, RunsOn, Condemned, Prompt, UserRestart, BeginStop,
           Idle
  <1> QED BY <1>1, <1>2, <1>3, <1>4, PartsNext DEF IInv

LEMMA ForceRestartKeeps ==
  ASSUME IInv, NEW t \in Tasks, Free /\ ForceRestart(t)
  PROVE  IInv'
  <1> USE DEF Free, callVars, probeVars, budgetVars, pastVars
  <1>0. Numbers /\ Calls /\ Fields
    BY Parts DEF IInv
  <1>1. Calls'
    BY <1>0, BeginStopType DEF ForceRestart, Fields, Names, Cause
  <1>2. Numbers'
    BY <1>0, ConstantsAssumption DEF ForceRestart, BeginStop, Numbers, Unhealthy, BudgetLeft
  <1>3. Fields'
    <2>1. Bits'
      BY <1>0, BeginStopType DEF ForceRestart, BeginStop, Fields, Bits, Names, Cause
    <2>2. Names'
      BY <1>0, BeginStopType DEF ForceRestart, BeginStop, Fields, Names, Cause
    <2> QED BY <2>1, <2>2 DEF Fields
  <1>4. (Paid /\ RunsOn /\ Condemned /\ Prompt)'
    BY ConstantsAssumption
       DEF IInv, TypeOK, Call, Cause, Paid, RunsOn, Condemned, Prompt, ForceRestart, BeginStop,
           Idle, Unhealthy, BudgetLeft
  <1> QED BY <1>1, <1>2, <1>3, <1>4, PartsNext DEF IInv

LEMMA GiveUpKeeps ==
  ASSUME IInv, NEW t \in Tasks, Free /\ GiveUp(t)
  PROVE  IInv'
  <1> USE DEF Free, callVars, probeVars, budgetVars, pastVars
  <1>0. Numbers /\ Calls /\ Fields
    BY Parts DEF IInv
  <1>1. Calls'
    BY <1>0, BeginStopType DEF GiveUp, Fields, Names, Cause
  <1>2. Numbers'
    BY <1>0, ConstantsAssumption DEF GiveUp, BeginStop, Numbers, Unhealthy, BudgetLeft
  <1>3. Fields'
    <2>1. Bits'
      BY <1>0, BeginStopType DEF GiveUp, BeginStop, Fields, Bits, Names, Cause
    <2>2. Names'
      BY <1>0, BeginStopType DEF GiveUp, BeginStop, Fields, Names, Cause
    <2> QED BY <2>1, <2>2 DEF Fields
  <1>4. (Paid /\ RunsOn /\ Condemned /\ Prompt)'
    BY ConstantsAssumption
       DEF IInv, TypeOK, Call, Cause, Paid, RunsOn, Condemned, Prompt, GiveUp, BeginStop, Idle,
           Unhealthy, BudgetLeft
  <1> QED BY <1>1, <1>2, <1>3, <1>4, PartsNext DEF IInv

LEMMA MemoryLimitKeeps ==
  ASSUME IInv, NEW t \in Tasks, Free /\ MemoryLimit(t)
  PROVE  IInv'
  <1> USE DEF Free, callVars, probeVars, budgetVars, pastVars
  <1>0. Numbers /\ Calls /\ Fields
    BY Parts DEF IInv
  <1>1. Calls'
    BY <1>0, BeginStopType DEF MemoryLimit, Fields, Names, Cause
  <1>2. Numbers'
    BY <1>0, ConstantsAssumption DEF MemoryLimit, BeginStop, Numbers
  <1>3. Fields'
    <2>1. Bits'
      BY <1>0, BeginStopType DEF MemoryLimit, BeginStop, Fields, Bits, Names, Cause
    <2>2. Names'
      BY <1>0, BeginStopType DEF MemoryLimit, BeginStop, Fields, Names, Cause
    <2> QED BY <2>1, <2>2 DEF Fields
  <1>4. (Paid /\ RunsOn /\ Condemned /\ Prompt)'
    BY ConstantsAssumption
       DEF IInv, TypeOK, Call, Cause, Paid, RunsOn, Condemned, Prompt, MemoryLimit, BeginStop,
           Idle
  <1> QED BY <1>1, <1>2, <1>3, <1>4, PartsNext DEF IInv

LEMMA RestartStartsKeeps ==
  ASSUME IInv, NEW t \in Tasks, Free /\ RestartStarts(t)
  PROVE  IInv'
  <1> USE DEF Free, callVars, probeVars, budgetVars, pastVars
  <1>0. Numbers /\ Calls /\ Fields
    BY Parts DEF IInv
  <1>1. Calls'
    BY <1>0, OwedCause, BeginStartType, ReturnType DEF RestartStarts
  <1>2. Numbers'
    BY <1>0, OwedCause, BeginStartType, ConstantsAssumption DEF RestartStarts, Numbers
  <1>3. Fields'
    <2>1. Bits'
      BY <1>0, OwedCause, BeginStartType DEF RestartStarts, BeginStart, Fields, Bits, Names
    <2>2. Names'
      BY <1>0, OwedCause, BeginStartType DEF RestartStarts, BeginStart, Fields, Names
    <2> QED BY <2>1, <2>2 DEF Fields
  <1>4. (Paid /\ RunsOn /\ Condemned /\ Prompt)'
    BY ConstantsAssumption
       DEF IInv, TypeOK, Call, Cause, Paid, RunsOn, Condemned, Prompt, RestartStarts, OwedAgain,
           Return, BeginStart, StartAccepted, ResetHealth, SetHealth, Idle
  <1> QED BY <1>1, <1>2, <1>3, <1>4, PartsNext DEF IInv

LEMMA AwaitReadinessKeeps ==
  ASSUME IInv, Free /\ AwaitReadiness
  PROVE  IInv'
  <1> USE DEF Free, callVars, probeVars, budgetVars, pastVars
  <1>0. Numbers /\ Calls /\ Fields
    BY Parts DEF IInv
  <1>1. Calls'
    BY <1>0 DEF AwaitReadiness, Calls
  <1>2. Numbers'
    BY <1>0, ConstantsAssumption DEF AwaitReadiness, SetHealth, SettleRestart, Numbers, Fields
  <1>3. Fields'
    <2>1. Bits'
      BY <1>0 DEF AwaitReadiness, SetHealth, SettleRestart, Fields, Bits, Names, Cause
    <2>2. Names'
      BY <1>0 DEF AwaitReadiness, SetHealth, SettleRestart, Fields, Names, Cause
    <2> QED BY <2>1, <2>2 DEF Fields
  <1>4. (Paid /\ RunsOn /\ Condemned /\ Prompt)'
    BY ConstantsAssumption
       DEF IInv, TypeOK, Call, Cause, Paid, RunsOn, Condemned, Prompt, AwaitReadiness, SetHealth,
           SettleRestart
  <1> QED BY <1>1, <1>2, <1>3, <1>4, PartsNext DEF IInv

LEMMA GrowsOldKeeps ==
  ASSUME IInv, Free /\ GrowsOld
  PROVE  IInv'
  <1> USE DEF Free, callVars, probeVars, budgetVars, pastVars
  <1>0. Numbers /\ Calls /\ Fields
    BY Parts DEF IInv
  <1>1. Calls'
    BY <1>0 DEF GrowsOld, Calls
  <1>2. Numbers'
    BY <1>0, ConstantsAssumption DEF GrowsOld, Numbers, Fields
  <1>3. Fields'
    <2>1. Bits'
      BY <1>0 DEF GrowsOld, Fields, Bits, Names, Cause
    <2>2. Names'
      BY <1>0 DEF GrowsOld, Fields, Names, Cause
    <2> QED BY <2>1, <2>2 DEF Fields
  <1>4. (Paid /\ RunsOn /\ Condemned /\ Prompt)'
    BY ConstantsAssumption
       DEF IInv, TypeOK, Call, Cause, Paid, RunsOn, Condemned, Prompt, GrowsOld
  <1> QED BY <1>1, <1>2, <1>3, <1>4, PartsNext DEF IInv

LEMMA ProbeAsksKeeps ==
  ASSUME IInv, Free /\ ProbeAsks
  PROVE  IInv'
  <1> USE DEF Free, callVars, probeVars, budgetVars, pastVars
  <1>0. Numbers /\ Calls /\ Fields
    BY Parts DEF IInv
  <1>1. Calls'
    BY <1>0 DEF ProbeAsks, Calls
  <1>2. Numbers'
    BY <1>0, ConstantsAssumption DEF ProbeAsks, Numbers, Fields
  <1>3. Fields'
    <2>1. Bits'
      BY <1>0 DEF ProbeAsks, Fields, Bits, Names, Cause
    <2>2. Names'
      BY <1>0 DEF ProbeAsks, Fields, Names, Cause
    <2> QED BY <2>1, <2>2 DEF Fields
  <1>4. (Paid /\ RunsOn /\ Condemned /\ Prompt)'
    BY ConstantsAssumption
       DEF IInv, TypeOK, Call, Cause, Paid, RunsOn, Condemned, Prompt, ProbeAsks
  <1> QED BY <1>1, <1>2, <1>3, <1>4, PartsNext DEF IInv

LEMMA ProbeHealthyKeeps ==
  ASSUME IInv, UNCHANGED world /\ ProbeHealthy
  PROVE  IInv'
  <1> USE DEF Free, callVars, probeVars, budgetVars, pastVars
  <1>0. Numbers /\ Calls /\ Fields
    BY Parts DEF IInv
  <1>1. Calls'
    BY <1>0 DEF ProbeHealthy, Calls
  <1>2. Numbers'
    BY <1>0, ConstantsAssumption DEF ProbeHealthy, SetHealth, SettleRestart, Numbers, Fields
  <1>3. Fields'
    <2>1. Bits'
      BY <1>0 DEF ProbeHealthy, SetHealth, SettleRestart, Fields, Bits, Names, Cause
    <2>2. Names'
      BY <1>0 DEF ProbeHealthy, SetHealth, SettleRestart, Fields, Names, Cause
    <2> QED BY <2>1, <2>2 DEF Fields
  <1>4. (Paid /\ RunsOn /\ Condemned /\ Prompt)'
    BY ConstantsAssumption
       DEF IInv, TypeOK, Call, Cause, Paid, RunsOn, Condemned, Prompt, ProbeHealthy, SetHealth,
           SettleRestart
  <1> QED BY <1>1, <1>2, <1>3, <1>4, PartsNext DEF IInv

LEMMA ProbeFailsKeeps ==
  ASSUME IInv, UNCHANGED world /\ ProbeFails
  PROVE  IInv'
  <1> USE DEF Free, callVars, probeVars, budgetVars, pastVars
  <1>0. Numbers /\ Calls /\ Fields
    BY Parts DEF IInv
  <1>1. Calls'
    BY <1>0 DEF ProbeFails, Calls
  <1>2. Numbers'
    BY <1>0, ConstantsAssumption DEF ProbeFails, Numbers, Fields
  <1>3. Fields'
    <2>1. Bits'
      BY <1>0 DEF ProbeFails, Fields, Bits, Names, Cause
    <2>2. Names'
      BY <1>0 DEF ProbeFails, Fields, Names, Cause
    <2> QED BY <2>1, <2>2 DEF Fields
  <1>4. (Paid /\ RunsOn /\ Condemned /\ Prompt)'
    BY ConstantsAssumption
       DEF IInv, TypeOK, Call, Cause, Paid, RunsOn, Condemned, Prompt, ProbeFails
  <1> QED BY <1>1, <1>2, <1>3, <1>4, PartsNext DEF IInv

LEMMA HandleExitKeeps ==
  ASSUME IInv, NEW p \in Procs, Free /\ HandleExit(p)
  PROVE  IInv'
  <1> USE DEF Free, callVars, probeVars, budgetVars, pastVars
  <1>0. Numbers /\ Calls /\ Fields
    BY Parts DEF IInv
  <1>1. Calls'
    BY <1>0 DEF HandleExit, Calls
  <1>2. Numbers'
    BY <1>0, ConstantsAssumption
       DEF HandleExit, AfterExit, ResetHealth, SetHealth, Numbers, Fields
  <1>3. Fields'
    <2>1. Bits'
      BY <1>0 DEF HandleExit, AfterExit, ResetHealth, SetHealth, Fields, Bits, Names, Cause
    <2>2. Names'
      BY <1>0 DEF HandleExit, AfterExit, ResetHealth, SetHealth, Fields, Names, Cause
    <2> QED BY <2>1, <2>2 DEF Fields
  <1>4. (Paid /\ RunsOn /\ Condemned /\ Prompt)'
    BY ConstantsAssumption
       DEF IInv, TypeOK, Call, Cause, Paid, RunsOn, Condemned, Prompt, HandleExit, AfterExit,
           ResetHealth, SetHealth
  <1> QED BY <1>1, <1>2, <1>3, <1>4, PartsNext DEF IInv

LEMMA InitInv == Init => IInv
  <1> SUFFICES ASSUME Init PROVE IInv
    OBVIOUS
  <1>1. Calls
    BY IdleCall DEF Init, Calls
  <1>2. Numbers
    BY ConstantsAssumption DEF Init, Numbers
  <1>3. Fields
    BY DEF Init, Fields, Bits, Names, Cause
  <1>4. Paid /\ RunsOn /\ Condemned /\ Prompt
    BY DEF Init, Paid, RunsOn, Condemned, Prompt
  <1> QED BY <1>1, <1>2, <1>3, <1>4, Parts DEF IInv

LEMMA NextKeeps ==
  ASSUME IInv, [Next]_vars
  PROVE  IInv'
  <1>1. CASE UNCHANGED vars
    <2>1. TypeOK'
      BY <1>1, Parts, PartsNext
         DEF IInv, Numbers, Calls, Fields, Bits, Names, vars, callVars, probeVars, budgetVars,
             pastVars
    <2> QED
      BY <1>1, <2>1
         DEF IInv, Paid, RunsOn, Condemned, Prompt, vars, callVars, probeVars, budgetVars,
             pastVars
  <1>2. CASE ProbeAnswers
    BY <1>2, ProbeHealthyKeeps, ProbeFailsKeeps DEF ProbeAnswers
  <1>3. ASSUME NEW t \in Tasks, Free,
               \/ UserStart(t) \/ DependentStart(t) \/ UserStop(t) \/ UserRestart(t) \/ RetryFires(t)
               \/ CallStep(t) \/ TickStep(t) \/ MemoryLimit(t)
        PROVE  IInv'
    BY <1>3, UserStartKeeps, DependentStartKeeps, RetryFiresKeeps, StartAfterDependenciesKeeps,
       StartSpawnsKeeps, StopEndsKeeps, UserStopKeeps, UserRestartKeeps, RestartStartsKeeps, ForceRestartKeeps,
       GiveUpKeeps, MemoryLimitKeeps
       DEF CallStep, TickStep
  <1>4. ASSUME NEW p \in Procs, Free, HandleExit(p)
        PROVE  IInv'
    BY <1>4, HandleExitKeeps
  <1>5. CASE Free /\ (AwaitReadiness \/ GrowsOld \/ ProbeAsks)
    BY <1>5, AwaitReadinessKeeps, GrowsOldKeeps, ProbeAsksKeeps
  <1> QED
    BY <1>1, <1>2, <1>3, <1>4, <1>5 DEF Next

THEOREM Invariance == Spec => []IInv
  BY InitInv, NextKeeps, PTL DEF Spec

-----------------------------------------------------------------------------
\* Every variable keeps its type, the two counters that spend the budget included.
THEOREM TypeCorrect == Spec => []TypeOK
  <1>1. IInv => TypeOK
    BY DEF IInv
  <1> QED BY <1>1, Invariance, PTL

\* Between two starts somebody asked for, an entry that never serves resetAfterMs is force-restarted
\* at most maxRetries times (shouldForceRestart, start()).
THEOREM BudgetHolds == Spec => []BudgetBoundsRestarts
  <1>1. IInv => BudgetBoundsRestarts
    BY ConstantsAssumption DEF IInv, Paid, TypeOK, BudgetBoundsRestarts
  <1> QED BY <1>1, Invariance, PTL

\* Most steps force nothing and announce no server as serving again.
Quiet == /\ healthRestarts' \in {0, healthRestarts}
         /\ told' = "restart-ok" => told = "restart-ok"

JudgedOnce == /\ healthRestarts' > healthRestarts => forcedOn # child
              /\ told # "restart-ok" /\ told' = "restart-ok" /\ ~world.late
                    => child # NoProc /\ child # forcedOn

LEMMA QuietIsJudged ==
  ASSUME IInv, Quiet
  PROVE  JudgedOnce
  <1>1. healthRestarts \in Nat
    BY ConstantsAssumption DEF IInv, TypeOK
  <1>2. ~(healthRestarts' > healthRestarts)
    BY <1>1 DEF Quiet
  <1> QED BY <1>2 DEF Quiet, JudgedOnce

\* No two ticks force the same process down, and "it is serving again" is said of a process that
\* came after the one forced down (shouldForceRestart, settleRestart).
THEOREM NoneForcedTwice == Spec => ForcedOncePerProcess
  <1>1. ASSUME IInv, [Next]_vars
        PROVE  JudgedOnce
    <2>1. CASE UNCHANGED vars
      BY <1>1, <2>1, QuietIsJudged DEF Quiet, vars, budgetVars
    <2>2. CASE ProbeAnswers /\ ProbeHealthy
      <3>1. healthRestarts' \in {0, healthRestarts}
        BY <2>2 DEF ProbeHealthy
      <3>2. ~(healthRestarts' > healthRestarts)
        BY <1>1, <3>1, ConstantsAssumption DEF IInv, TypeOK
      <3>3. ~world.late => child # NoProc /\ child # forcedOn
        BY <1>1, <2>2 DEF ProbeHealthy, IInv, Prompt, RunsOn, Condemned
      <3> QED BY <3>2, <3>3 DEF JudgedOnce
    <2>3. CASE ProbeAnswers /\ ProbeFails
      BY <1>1, <2>3, QuietIsJudged DEF ProbeFails, Quiet
    <2>4. ASSUME NEW t \in Tasks, ForceRestart(t)
          PROVE  JudgedOnce
      <3>1. child # NoProc /\ child # forcedOn
        BY <1>1, <2>4 DEF ForceRestart, Unhealthy, IInv, RunsOn, Condemned
      <3> QED BY <2>4, <3>1 DEF ForceRestart, JudgedOnce
    <2>5. ASSUME NEW t \in Tasks,
                 \/ UserStart(t) \/ DependentStart(t) \/ UserStop(t) \/ UserRestart(t) \/ RetryFires(t)
                 \/ CallStep(t) \/ GiveUp(t) \/ MemoryLimit(t)
          PROVE  JudgedOnce
      <3>1. CASE UserStart(t) \/ DependentStart(t) \/ RetryFires(t)
        BY <1>1, <3>1, QuietIsJudged DEF UserStart, DependentStart, RetryFires, BeginStart, Quiet
      <3>2. CASE UserStop(t) \/ UserRestart(t) \/ GiveUp(t) \/ MemoryLimit(t)
        BY <1>1, <3>2, QuietIsJudged DEF UserStop, UserRestart, GiveUp, MemoryLimit, Quiet
      <3>3. CASE CallStep(t)
        BY <1>1, <3>3, QuietIsJudged

              DEF CallStep, StartAfterDependencies, StartSpawns, StopEnds, RestartStarts,
                  BeginStart, budgetVars, Quiet
      <3> QED BY <2>5, <3>1, <3>2, <3>3
    <2>6. CASE AwaitReadiness
      <3>1. child # NoProc /\ child # forcedOn
        BY <1>1, <2>6 DEF AwaitReadiness, IInv, Condemned
      <3>2. healthRestarts' = healthRestarts
        BY <2>6 DEF AwaitReadiness
      <3> QED BY <3>1, <3>2 DEF JudgedOnce
    <2>7. CASE GrowsOld \/ ProbeAsks \/ \E p \in Procs : HandleExit(p)
      BY <1>1, <2>7, QuietIsJudged
         DEF GrowsOld, ProbeAsks, HandleExit, AfterExit, budgetVars, Quiet
    <2> QED
      BY <1>1, <2>1, <2>2, <2>3, <2>4, <2>5, <2>6, <2>7 DEF Next, ProbeAnswers, TickStep
  <1>2. IInv /\ [Next]_vars => [JudgedOnce]_vars
    BY <1>1
  <1> QED BY <1>2, Invariance, PTL DEF Spec, ForcedOncePerProcess, JudgedOnce
=============================================================================
