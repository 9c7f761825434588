----------------------------- MODULE Nanny_proofs -----------------------------
(***************************************************************************)
(* Proofs about Nanny, for any number of nannies and panel boots and any   *)
(* stop policy: one server, no nanny that the panel does not know, every   *)
(* exit recorded, and a stop that is one, over the panel's death between   *)
(* any two steps.  The argument: as long as boot reattaches and SIGKILL    *)
(* ends a nanny, the file names the one nanny that works, and the panel    *)
(* holds the one the file names.                                           *)
(***************************************************************************)
EXTENDS Nanny, TLAPS

(* The inductive invariant *)

\* A panel that is gone, or has not looked for its nannies yet, has nothing in memory.
Forgotten ==
    panel \in {"down", "resuming"} =>
        /\ status = "stopped" /\ handle = NoNanny
        /\ startAt = "idle" /\ stopAt = "idle" /\ ~stopping /\ ~timer

\* A stop has whom it signals, and keeps hold of it until its end was seen; no start is beside it.
StopHolds ==
    /\ stopping <=> stopAt # "idle"
    /\ stopOf = NoNanny <=> stopAt = "idle"
    /\ stopAt # "idle" => startAt = "idle" /\ aimed[stopOf]
                          /\ (handle = stopOf \/ (handle = NoNanny /\ nanny[stopOf] = "dead"))

SweepHolds ==
    /\ sweepOf = NoNanny <=> sweepAt = "idle"
    /\ sweepAt # "idle" => panel = "down" /\ aimed[sweepOf]
    /\ sweepAt = "ended" => nanny[sweepOf] = "dead"

\* What the state file can say of the nanny it names.
RecordTells ==
    /\ record.of = NoNanny => record = NoRecord
    /\ record.of # NoNanny => nanny[record.of] \in {"running", "exiting", "dead"}
    /\ record.exit => nanny[record.of] \in {"exiting", "dead"}

\* A server is its nanny's child: there is none before the nanny runs, and none when it leaves.
ServerTells ==
    \A n \in Nannies : /\ nanny[n] \in {"unborn", "boot", "armed"} => server[n] = "none"
                       /\ nanny[n] = "exiting" => ~Serves(n)

\* Nobody holds, stops or sweeps a nanny that was never spawned.
Born == \A n \in {handle, stopOf, sweepOf} \ {NoNanny} : nanny[n] # "unborn"

BasicInv == TypeOK /\ Born /\ Forgotten /\ StopHolds /\ SweepHolds /\ RecordTells /\ ServerTells

\* One nanny at a time; it is on record from its server's first moment, and no other is.
OneOnRecord ==
    /\ \A m, n \in Nannies : IsAlive(m) /\ IsAlive(n) => m = n
    /\ \A n \in Nannies :
        /\ IsAlive(n) => record.of \in {n, NoNanny}
        /\ nanny[n] \in {"running", "exiting"} => record.of = n
        /\ nanny[n] = "exiting" => record.exit

\* A panel that has looked for it holds it, and no start is under way meanwhile.
PanelHolds ==
    /\ panel \in {"booting", "up"} => /\ \A n \in Nannies : IsAlive(n) => n = handle
                                      /\ record.of \in {handle, NoNanny}
    /\ panel = "resuming" => \A n \in Nannies : nanny[n] \notin {"boot", "armed"}
    /\ handle # NoNanny => (status = "running" \/ stopping) /\ startAt = "idle"
    /\ startAt = "bootstrap" => status = "starting"

\* Whoever ends it has ended it before going on, and nobody else is there.
EndersEnd ==
    /\ stopAt \in {"forced", "finish"} => nanny[stopOf] = "dead"
    /\ stopAt # "idle" => stopChild \in {stopOf, NoNanny}
    /\ sweepAt # "idle" => /\ \A n \in Nannies : IsAlive(n) => n = sweepOf
                           /\ record.of \in {sweepOf, NoNanny}
    /\ sweepAt = "forced" => nanny[sweepOf] = "dead"

\* What was told is over: its nanny is dead, held by nobody, and its record gone.
ToldIsOver ==
    \A n \in Nannies :
        /\ reported[n] # "twice"
        /\ reported[n] = "real" => nanny[n] = "dead" /\ handle # n /\ record.of # n

FollowedInv == Followed => OneOnRecord /\ PanelHolds /\ EndersEnd /\ ToldIsOver

\* Who can be left behind by a nanny that nobody killed alone, and for how long.
Orphans ==
    /\ \A n \in Nannies : nanny[n] = "dead" /\ Serves(n)
                            => ~world.killGroup /\ ~world.denied /\ aimed[n]
    /\ sweepAt = "signalled" /\ nanny[sweepOf] = "dead" /\ Serves(sweepOf) => ~world.trapped
    /\ sweepAt = "ended" => ~Serves(sweepOf)
    /\ Followed /\ stopAt = "finish" /\ stopChild # NoNanny => ~Serves(stopOf)

OrphansInv == ~world.hard => Orphans

\* An end nobody asked for is told, or still in the file.
EndKept ==
    Undisturbed => \A n \in Nannies :
        nanny[n] = "dead" /\ server[n] = "gone" /\ ~aimed[n]
            => reported[n] = "real" \/ (record.of = n /\ record.exit)

IInv == BasicInv /\ FollowedInv /\ OrphansInv /\ EndKept

-----------------------------------------------------------------------------
(* Helpers *)

\* The fields behind the types.
Shape ==
    /\ world \in World
    /\ record.of \in Nannies \cup {NoNanny} /\ record.server \in BOOLEAN /\ record.exit \in BOOLEAN
    /\ NoRecord \in [of : Nannies \cup {NoNanny}, server : BOOLEAN, exit : BOOLEAN]
    /\ NoRecord.of = NoNanny /\ NoRecord.server = FALSE /\ NoRecord.exit = FALSE

LEMMA Shapes == TypeOK => Shape
  BY ConstantsAssumption DEF TypeOK, ProcessesOK, FilesOK, NoRecord, Shape

LEMMA PoliteTypes ==
    ASSUME NEW n \in Nannies, TypeOK, Polite(n)
    PROVE  /\ nanny' \in [Nannies -> {"unborn", "boot", "armed", "running", "exiting", "dead"}]
           /\ server' \in [Nannies -> {"none", "alive", "leaving", "gone"}]
           /\ told' \in [Nannies -> BOOLEAN]
  BY ZenonT(60) DEF Polite, nannyVars, TypeOK, ProcessesOK, Serves

-----------------------------------------------------------------------------
(* One lemma per action *)

LEMMA TakesSpecKeeps == ASSUME NEW n \in Nannies, IInv, TakesSpec(n) PROVE IInv'
  <1>0. Shape
    BY Shapes DEF IInv, BasicInv
  <1> USE <1>0, ConstantsAssumption DEF Shape, IInv, BasicInv, TypeOK, ProcessesOK, FilesOK, EntryOK,
        StopsOK, IsAlive, TakesSpec, NannyFrame, panelVars, entryVars, stopVars, sweepVars
  <1>1. TypeOK'
    <2>1. ProcessesOK'
      OBVIOUS
    <2>2. FilesOK'
      OBVIOUS
    <2>3. EntryOK'
      OBVIOUS
    <2>4. StopsOK'
      OBVIOUS
    <2> QED
      BY <2>1, <2>2, <2>3, <2>4
  <1>2. Born' /\ Forgotten' /\ StopHolds' /\ SweepHolds' /\ RecordTells' /\ ServerTells'
    BY DEF Born, Forgotten, StopHolds, SweepHolds, RecordTells, ServerTells, Serves
  <1>3. FollowedInv'
    BY DEF FollowedInv, OneOnRecord, PanelHolds, EndersEnd, ToldIsOver, Followed
  <1>4. OrphansInv'
    BY DEF ServerTells, Followed, Serves, OrphansInv, Orphans
  <1>5. EndKept'
    BY DEF ServerTells, Followed, EndKept, Undisturbed, Orderly
  <1> QED
    BY <1>1, <1>2, <1>3, <1>4, <1>5

LEMMA NannyLeavesKeeps == ASSUME NEW n \in Nannies, IInv, NannyLeaves(n) PROVE IInv'
  <1>0. Shape
    BY Shapes DEF IInv, BasicInv
  <1> USE <1>0, ConstantsAssumption DEF Shape, IInv, BasicInv, TypeOK, ProcessesOK, FilesOK, EntryOK,
        StopsOK, IsAlive, NannyLeaves, NannyFrame, diskVars, panelVars, entryVars, stopVars, sweepVars
  <1>1. TypeOK'
    OBVIOUS
  <1>2. Born' /\ Forgotten' /\ StopHolds' /\ SweepHolds' /\ RecordTells' /\ ServerTells'
    BY DEF Born, Forgotten, StopHolds, SweepHolds, RecordTells, ServerTells, Serves
  <1>3. FollowedInv'
    BY DEF FollowedInv, OneOnRecord, PanelHolds, EndersEnd, ToldIsOver, Followed
  <1>4. OrphansInv'
    BY DEF ServerTells, Followed, Serves, OrphansInv, Orphans
  <1>5. EndKept'
    BY DEF FollowedInv, OneOnRecord, Followed, EndKept, Undisturbed, Orderly
  <1> QED
    BY <1>1, <1>2, <1>3, <1>4, <1>5

LEMMA HeartbeatKeeps == ASSUME NEW n \in Nannies, IInv, Heartbeat(n) PROVE IInv'
  <1>0. Shape
    BY Shapes DEF IInv, BasicInv
  <1> USE <1>0, ConstantsAssumption DEF Shape, IInv, BasicInv, TypeOK, ProcessesOK, FilesOK, EntryOK,
        StopsOK, IsAlive, Heartbeat, NannyFrame, nannyVars, panelVars, entryVars, stopVars, sweepVars
  <1>1. TypeOK'
    OBVIOUS
  <1>2. Born' /\ Forgotten' /\ StopHolds' /\ SweepHolds' /\ RecordTells' /\ ServerTells'
    BY DEF Born, Forgotten, StopHolds, SweepHolds, RecordTells, ServerTells, Serves
  <1>3. FollowedInv'
    BY DEF FollowedInv, OneOnRecord, PanelHolds, EndersEnd, ToldIsOver, Followed
  <1>4. OrphansInv'
    BY DEF Followed, Serves, OrphansInv, Orphans
  <1>5. EndKept'
    BY DEF FollowedInv, OneOnRecord, Followed, EndKept, Undisturbed, Orderly
  <1> QED
    BY <1>1, <1>2, <1>3, <1>4, <1>5

LEMMA KilledHardKeeps == ASSUME NEW n \in Nannies, IInv, KilledHard(n) PROVE IInv'
  <1>0. Shape
    BY Shapes DEF IInv, BasicInv
  <1> USE <1>0, ConstantsAssumption DEF Shape, IInv, BasicInv, TypeOK, ProcessesOK, FilesOK, EntryOK,
        StopsOK, IsAlive, KilledHard, NannyFrame, diskVars, panelVars, entryVars, stopVars, sweepVars
  <1>1. TypeOK'
    OBVIOUS
  <1>2. Born' /\ Forgotten' /\ StopHolds' /\ SweepHolds' /\ RecordTells' /\ ServerTells'
    BY DEF Born, Forgotten, StopHolds, SweepHolds, RecordTells, ServerTells, Serves
  <1>3. FollowedInv'
    BY DEF FollowedInv, OneOnRecord, PanelHolds, EndersEnd, ToldIsOver, Followed
  <1>4. OrphansInv'
    BY DEF OrphansInv
  <1>5. EndKept'
    BY DEF EndKept, Undisturbed, Orderly
  <1> QED
    BY <1>1, <1>2, <1>3, <1>4, <1>5

LEMMA ServerEndsKeeps == ASSUME NEW n \in Nannies, IInv, ServerEnds(n) PROVE IInv'
  <1>0. Shape
    BY Shapes DEF IInv, BasicInv
  <1> USE <1>0, ConstantsAssumption DEF Shape, IInv, BasicInv, TypeOK, ProcessesOK, FilesOK, EntryOK,
        StopsOK, IsAlive, ServerEnds, NannyFrame, diskVars, panelVars, entryVars, stopVars, sweepVars
  <1>1. TypeOK'
    OBVIOUS
  <1>2. Born' /\ Forgotten' /\ StopHolds' /\ SweepHolds' /\ RecordTells' /\ ServerTells'
    BY DEF Born, Forgotten, StopHolds, SweepHolds, RecordTells, ServerTells, Serves
  <1>3. FollowedInv'
    BY DEF FollowedInv, OneOnRecord, PanelHolds, EndersEnd, ToldIsOver, Followed
  <1>4. OrphansInv'
    BY DEF Followed, Serves, OrphansInv, Orphans
  <1>5. EndKept'
    BY DEF Followed, OrphansInv, Orphans, EndKept, Undisturbed, Orderly
  <1> QED
    BY <1>1, <1>2, <1>3, <1>4, <1>5

LEMMA SpawnsServerKeeps == ASSUME NEW n \in Nannies, IInv, SpawnsServer(n) PROVE IInv'
  <1>0. Shape
    BY Shapes DEF IInv, BasicInv
  <1> USE <1>0, ConstantsAssumption DEF Shape, IInv, BasicInv, TypeOK, ProcessesOK, FilesOK, EntryOK,
        StopsOK, IsAlive, SpawnsServer, NannyFrame, panelVars, entryVars, stopVars, sweepVars
  <1>1. TypeOK'
    <2>1. ProcessesOK'
      OBVIOUS
    <2>2. FilesOK'
      <3>1. CASE record' = [of |-> n, server |-> TRUE, exit |-> FALSE]
        BY <3>1
      <3>2. CASE record' = [of |-> n, server |-> FALSE, exit |-> TRUE]
        BY <3>2
      <3> QED
        BY <3>1, <3>2
    <2>3. EntryOK' /\ StopsOK'
      OBVIOUS
    <2> QED
      BY <2>1, <2>2, <2>3
  <1>2. Born' /\ Forgotten' /\ StopHolds' /\ SweepHolds' /\ RecordTells' /\ ServerTells'
    BY DEF Born, Forgotten, StopHolds, SweepHolds, RecordTells, ServerTells, Serves
  <1>3. FollowedInv'
    BY DEF StopHolds, FollowedInv, OneOnRecord, PanelHolds, EndersEnd, ToldIsOver, Followed
  <1>4. OrphansInv'
    BY DEF SweepHolds, FollowedInv, EndersEnd, Followed, Serves, OrphansInv, Orphans
  <1>5. EndKept'
    BY DEF FollowedInv, OneOnRecord, Followed, EndKept, Undisturbed, Orderly
  <1> QED
    BY <1>1, <1>2, <1>3, <1>4, <1>5

LEMMA ForcesServerKeeps == ASSUME NEW n \in Nannies, IInv, ForcesServer(n) PROVE IInv'
  <1>0. Shape
    BY Shapes DEF IInv, BasicInv
  <1> USE <1>0, ConstantsAssumption DEF Shape, IInv, BasicInv, TypeOK, ProcessesOK, FilesOK, EntryOK,
        StopsOK, IsAlive, ForcesServer, NannyFrame, diskVars, panelVars, entryVars, stopVars, sweepVars
  <1>1. TypeOK'
    OBVIOUS
  <1>2. Born' /\ Forgotten' /\ StopHolds' /\ SweepHolds' /\ RecordTells' /\ ServerTells'
    BY DEF Born, Forgotten, StopHolds, SweepHolds, RecordTells, ServerTells, Serves
  <1>3. FollowedInv'
    BY DEF FollowedInv, OneOnRecord, PanelHolds, EndersEnd, ToldIsOver, Followed
  <1>4. OrphansInv'
    BY DEF Followed, Serves, OrphansInv, Orphans
  <1>5. EndKept'
    BY DEF Followed, EndKept, Undisturbed, Orderly
  <1> QED
    BY <1>1, <1>2, <1>3, <1>4, <1>5

LEMMA SeesServerEndKeeps == ASSUME NEW n \in Nannies, IInv, SeesServerEnd(n) PROVE IInv'
  <1>0. Shape
    BY Shapes DEF IInv, BasicInv
  <1> USE <1>0, ConstantsAssumption DEF Shape, IInv, BasicInv, TypeOK, ProcessesOK, FilesOK, EntryOK,
        StopsOK, IsAlive, SeesServerEnd, NannyFrame, panelVars, entryVars, stopVars, sweepVars
  <1>1. TypeOK'
    OBVIOUS
  <1>2. Born' /\ Forgotten' /\ StopHolds' /\ SweepHolds' /\ RecordTells' /\ ServerTells'
    BY DEF Born, Forgotten, StopHolds, SweepHolds, RecordTells, ServerTells, Serves
  <1>3. FollowedInv'
    BY DEF FollowedInv, OneOnRecord, PanelHolds, EndersEnd, ToldIsOver, Followed
  <1>4. OrphansInv'
    BY DEF Followed, Serves, OrphansInv, Orphans
  <1>5. EndKept'
    BY DEF FollowedInv, OneOnRecord, Followed, EndKept, Undisturbed, Orderly
  <1> QED
    BY <1>1, <1>2, <1>3, <1>4, <1>5

LEMMA HandleExitKeeps == ASSUME IInv, HandleExit PROVE IInv'
  <1>0. Shape
    BY Shapes DEF IInv, BasicInv
  <1> USE <1>0, ConstantsAssumption DEF Shape, IInv, BasicInv, TypeOK, ProcessesOK, FilesOK, EntryOK,
        StopsOK, IsAlive, HandleExit, ConsumesExit, Report, AfterExit, nannyVars, panelVars, stopVars,
        sweepVars
  <1>1. TypeOK'
    BY ZenonT(60) DEF StopHolds, SweepHolds
  <1>2. Born' /\ Forgotten' /\ StopHolds' /\ SweepHolds' /\ RecordTells' /\ ServerTells'
    BY DEF Born, Forgotten, StopHolds, SweepHolds, RecordTells, ServerTells, Serves
  <1>3. FollowedInv'
    BY DEF Forgotten, FollowedInv, OneOnRecord, PanelHolds, EndersEnd, ToldIsOver, Followed
  <1>4. OrphansInv'
    BY DEF Followed, Serves, OrphansInv, Orphans
  <1>5. EndKept'
    <2> SUFFICES ASSUME Undisturbed, NEW n \in Nannies,
                        nanny[n] = "dead", server[n] = "gone", ~aimed[n]
                 PROVE  reported'[n] = "real"
      BY DEF EndKept, Undisturbed, Orderly, Followed
    <2>1. reported[n] = "real" \/ (record.of = n /\ record.exit)
      BY DEF EndKept
    <2>2. record.of \in {handle, NoNanny} /\ reported[handle] \in {"no", "blind"}
      BY DEF Undisturbed, Orderly, FollowedInv, PanelHolds, ToldIsOver, Forgotten
    <2>3. CASE n = handle
      BY <2>1, <2>2, <2>3
    <2>4. CASE n # handle
      BY <2>1, <2>2, <2>4
    <2> QED
      BY <2>3, <2>4
  <1> QED
    BY <1>1, <1>2, <1>3, <1>4, <1>5

LEMMA BeginsStartKeeps == ASSUME IInv, BeginsStart /\ panel \in {"booting", "up"} /\ UNCHANGED panel PROVE IInv'
  <1>0. Shape
    BY Shapes DEF IInv, BasicInv
  <1> USE <1>0, ConstantsAssumption DEF Shape, IInv, BasicInv, TypeOK, ProcessesOK, FilesOK, EntryOK,
        StopsOK, IsAlive, BeginsStart, StartAccepted, nannyVars, diskVars, stopVars, sweepVars
  <1>1. TypeOK'
    BY ZenonT(60)
    DEF Born, Forgotten, StopHolds, SweepHolds, RecordTells, ServerTells, NoRecord, Serves
  <1>2. Born' /\ Forgotten' /\ StopHolds' /\ SweepHolds' /\ RecordTells' /\ ServerTells'
    BY DEF Born, Forgotten, StopHolds, SweepHolds, RecordTells, ServerTells, Serves
  <1>3. FollowedInv'
    BY DEF FollowedInv, OneOnRecord, PanelHolds, EndersEnd, ToldIsOver, Followed
  <1>4. OrphansInv'
    BY DEF Followed, Serves, OrphansInv, Orphans
  <1>5. EndKept'
    BY DEF Followed, EndKept, Undisturbed, Orderly
  <1> QED
    BY <1>1, <1>2, <1>3, <1>4, <1>5

LEMMA RetryRefusedKeeps == ASSUME IInv, RetryRefused PROVE IInv'
  <1>0. Shape
    BY Shapes DEF IInv, BasicInv
  <1> USE <1>0, ConstantsAssumption DEF Shape, IInv, BasicInv, TypeOK, ProcessesOK, FilesOK, EntryOK,
        StopsOK, IsAlive, RetryRefused, nannyVars, diskVars, panelVars, stopVars, sweepVars
  <1>1. TypeOK'
    <2>1. ProcessesOK'
      OBVIOUS
    <2>2. FilesOK'
      OBVIOUS
    <2>3. EntryOK'
      OBVIOUS
    <2>4. StopsOK'
      OBVIOUS
    <2> QED
      BY <2>1, <2>2, <2>3, <2>4
  <1>2. Born' /\ Forgotten' /\ StopHolds' /\ SweepHolds' /\ RecordTells' /\ ServerTells'
    BY DEF Born, Forgotten, StopHolds, SweepHolds, RecordTells, ServerTells, Serves
  <1>3. FollowedInv'
    BY DEF FollowedInv, OneOnRecord, PanelHolds, EndersEnd, ToldIsOver, Followed
  <1>4. OrphansInv'
    BY DEF Followed, Serves, OrphansInv, Orphans
  <1>5. EndKept'
    BY DEF Followed, EndKept, Undisturbed, Orderly
  <1> QED
    BY <1>1, <1>2, <1>3, <1>4, <1>5

LEMMA StartResumesKeeps == ASSUME IInv, StartResumes PROVE IInv'
  <1>0. Shape
    BY Shapes DEF IInv, BasicInv
  <1> USE <1>0, ConstantsAssumption DEF Shape, IInv, BasicInv, TypeOK, ProcessesOK, FilesOK, EntryOK,
        StopsOK, IsAlive, StartResumes, Reattaches, StartReturns, Report, nannyVars, diskVars, panelVars,
        stopVars, sweepVars
  <1>1. TypeOK'
    BY ZenonT(60)
    DEF Born, Forgotten, StopHolds, SweepHolds, RecordTells, ServerTells, NoRecord, Serves
  <1>2. Born' /\ Forgotten' /\ StopHolds' /\ SweepHolds' /\ RecordTells' /\ ServerTells'
    BY ZenonT(60) DEF Born, Forgotten, StopHolds, SweepHolds, RecordTells, ServerTells, Serves
  <1>3. FollowedInv'
    <2>1. Followed' => OneOnRecord'
      BY DEF Forgotten, FollowedInv, OneOnRecord, PanelHolds, Followed
    <2>2. Followed' => PanelHolds'
      BY DEF Forgotten, RecordTells, FollowedInv, PanelHolds, Followed
    <2>3. Followed' => EndersEnd'
      BY DEF FollowedInv, EndersEnd, Followed
    <2>4. Followed' => ToldIsOver'
      <3>1. Followed => record = NoRecord
        BY DEF FollowedInv, PanelHolds, Forgotten, RecordTells
      <3>2. Followed => UNCHANGED <<nanny, reported, handle, record>>
        BY <3>1
      <3> QED
        BY <3>1, <3>2 DEF Followed, FollowedInv, ToldIsOver
    <2> QED
      BY <2>1, <2>2, <2>3, <2>4 DEF FollowedInv
  <1>4. OrphansInv'
    BY DEF Followed, Serves, OrphansInv, Orphans
  <1>5. EndKept'
    <2>1. Followed => record = NoRecord
      BY DEF FollowedInv, PanelHolds, Forgotten, RecordTells
    <2>2. Followed => UNCHANGED <<nanny, server, aimed, reported>> /\ record' = record
      BY <2>1
    <2> QED
      BY <2>2 DEF EndKept, Undisturbed, Orderly, Followed
  <1> QED
    BY <1>1, <1>2, <1>3, <1>4, <1>5

LEMMA StartSpawnsKeeps == ASSUME IInv, StartSpawns PROVE IInv'
  <1>0. Shape
    BY Shapes DEF IInv, BasicInv
  <1> USE <1>0, ConstantsAssumption DEF Shape, IInv, BasicInv, TypeOK, ProcessesOK, FilesOK, EntryOK,
        StopsOK, IsAlive, StartSpawns, SpawnsNanny, SpawnErrors, FailSpawn, StartReturns, AfterExit,
        nannyVars, diskVars, panelVars, stopVars, sweepVars
  <1>1. TypeOK'
    BY ZenonT(60)
    DEF Born, Forgotten, StopHolds, SweepHolds, RecordTells, ServerTells, NoRecord, Serves
  <1>2. Born' /\ Forgotten' /\ StopHolds' /\ SweepHolds' /\ RecordTells' /\ ServerTells'
    BY DEF Born, Forgotten, StopHolds, SweepHolds, RecordTells, ServerTells, Serves
  <1>3. FollowedInv'
    BY DEF Forgotten, StopHolds, SweepHolds, FollowedInv, OneOnRecord, PanelHolds, EndersEnd,
       ToldIsOver, Followed
  <1>4. OrphansInv'
    BY DEF SweepHolds, Followed, Serves, OrphansInv, Orphans
  <1>5. EndKept'
    <2>1. Undisturbed => record = NoRecord
      BY DEF Undisturbed, Orderly, FollowedInv, PanelHolds, Forgotten, RecordTells
    <2>2. CASE Undisturbed /\ \E n \in Nannies : SpawnsNanny(n)
      BY <2>1, <2>2 DEF EndKept, Undisturbed, Orderly, Followed
    <2>3. CASE UNCHANGED <<nanny, server, reported>>
      BY <2>1, <2>3 DEF EndKept, Undisturbed, Orderly, Followed
    <2> QED
      BY <2>2, <2>3 DEF EndKept, Undisturbed, Orderly, Followed
  <1> QED
    BY <1>1, <1>2, <1>3, <1>4, <1>5

LEMMA UserStopKeeps == ASSUME IInv, UserStop PROVE IInv'
  <1>0. Shape
    BY Shapes DEF IInv, BasicInv
  <1> USE <1>0, ConstantsAssumption DEF Shape, IInv, BasicInv, TypeOK, ProcessesOK, FilesOK, EntryOK,
        StopsOK, IsAlive, UserStop, BeginsStop, Polite, OutOfReach, Report, nannyVars, panelVars, stopVars,
        sweepVars
  <1>1. TypeOK'
    <2>1. ProcessesOK'
      <3>1. CASE UNCHANGED <<nannyVars, aimed>>
        BY <3>1
      <3>2. CASE \E n \in Nannies : Polite(n) /\ aimed' = [aimed EXCEPT ![n] = TRUE] /\ UNCHANGED reported
        <4>1. PICK n \in Nannies : Polite(n) /\ aimed' = [aimed EXCEPT ![n] = TRUE] /\ UNCHANGED reported
          BY <3>2
        <4> QED
          BY <4>1, PoliteTypes
      <3> QED
        BY <3>1, <3>2
    <2>2. FilesOK'
      BY DEF NoRecord
    <2>3. EntryOK'
      BY DEF Forgotten, StopHolds
    <2>4. StopsOK'
      BY DEF Forgotten
    <2> QED
      BY <2>1, <2>2, <2>3, <2>4
  <1>2. Born' /\ Forgotten' /\ StopHolds' /\ SweepHolds' /\ RecordTells' /\ ServerTells'
    BY DEF Born, Forgotten, StopHolds, SweepHolds, RecordTells, ServerTells, Serves
  <1>3. FollowedInv'
    BY DEF FollowedInv, OneOnRecord, PanelHolds, EndersEnd, ToldIsOver, Followed
  <1>4. OrphansInv'
    BY DEF SweepHolds, ServerTells, Serves, OrphansInv, Orphans
  <1>5. EndKept'
    BY DEF FollowedInv, ToldIsOver, Followed, EndKept, Undisturbed, Orderly
  <1> QED
    BY <1>1, <1>2, <1>3, <1>4, <1>5

LEMMA StopForcesKeeps == ASSUME IInv, StopForces PROVE IInv'
  <1>0. Shape
    BY Shapes DEF IInv, BasicInv
  <1> USE <1>0, ConstantsAssumption DEF Shape, IInv, BasicInv, TypeOK, ProcessesOK, FilesOK, EntryOK,
        StopsOK, IsAlive, StopForces, Sigkill, OutOfReach, nannyVars, diskVars, panelVars, entryVars,
        sweepVars
  <1>1. TypeOK'
    OBVIOUS
  <1>2. Born' /\ Forgotten' /\ StopHolds' /\ SweepHolds' /\ RecordTells' /\ ServerTells'
    BY DEF Born, Forgotten, StopHolds, SweepHolds, RecordTells, ServerTells, Serves
  <1>3. FollowedInv'
    BY DEF FollowedInv, OneOnRecord, PanelHolds, EndersEnd, ToldIsOver, Followed
  <1>4. OrphansInv'
    BY DEF StopHolds, SweepHolds, ServerTells, Serves, OrphansInv, Orphans
  <1>5. EndKept'
    BY DEF StopHolds, Followed, EndKept, Undisturbed, Orderly
  <1> QED
    BY <1>1, <1>2, <1>3, <1>4, <1>5

LEMMA StopEndsServerKeeps == ASSUME IInv, StopEndsServer PROVE IInv'
  <1>0. Shape
    BY Shapes DEF IInv, BasicInv
  <1> USE <1>0, ConstantsAssumption DEF Shape, IInv, BasicInv, TypeOK, ProcessesOK, FilesOK, EntryOK,
        StopsOK, IsAlive, StopEndsServer, EndServer, nannyVars, diskVars, panelVars, entryVars, sweepVars
  <1>1. TypeOK'
    OBVIOUS
  <1>2. Born' /\ Forgotten' /\ StopHolds' /\ SweepHolds' /\ RecordTells' /\ ServerTells'
    BY DEF Born, Forgotten, StopHolds, SweepHolds, RecordTells, ServerTells, Serves
  <1>3. FollowedInv'
    BY DEF Born, StopHolds, FollowedInv, OneOnRecord, PanelHolds, EndersEnd, ToldIsOver, Followed
  <1>4. OrphansInv'
    BY DEF SweepHolds, ServerTells, FollowedInv, EndersEnd, Followed, Serves, OrphansInv, Orphans
  <1>5. EndKept'
    BY DEF Followed, EndKept, Undisturbed, Orderly
  <1> QED
    BY <1>1, <1>2, <1>3, <1>4, <1>5

LEMMA StopFinishesKeeps == ASSUME IInv, StopFinishes PROVE IInv'
  <1>0. Shape
    BY Shapes DEF IInv, BasicInv
  <1> USE <1>0, ConstantsAssumption DEF Shape, IInv, BasicInv, TypeOK, ProcessesOK, FilesOK, EntryOK,
        StopsOK, IsAlive, StopFinishes, nannyVars, diskVars, panelVars, sweepVars
  <1>1. TypeOK'
    OBVIOUS
  <1>2. Born' /\ Forgotten' /\ StopHolds' /\ SweepHolds' /\ RecordTells' /\ ServerTells'
    BY DEF Born, Forgotten, StopHolds, SweepHolds, RecordTells, ServerTells, Serves
  <1>3. FollowedInv'
    BY DEF Forgotten, StopHolds, FollowedInv, OneOnRecord, PanelHolds, EndersEnd, ToldIsOver, Followed
  <1>4. OrphansInv'
    BY DEF Serves, OrphansInv, Orphans
  <1>5. EndKept'
    <2>1. Undisturbed => record.of \in {stopOf, NoNanny} /\ aimed[stopOf]
      BY DEF Undisturbed, Orderly, FollowedInv, PanelHolds, Forgotten, StopHolds
    <2> QED
      BY <2>1 DEF EndKept, Undisturbed, Orderly, Followed
  <1> QED
    BY <1>1, <1>2, <1>3, <1>4, <1>5

LEMMA PanelGoesKeeps == ASSUME IInv, PanelGoes PROVE IInv'
  <1>0. Shape
    BY Shapes DEF IInv, BasicInv
  <1> USE <1>0, ConstantsAssumption DEF Shape, IInv, BasicInv, TypeOK, ProcessesOK, FilesOK, EntryOK,
        StopsOK, IsAlive, PanelGoes, nannyVars, diskVars, sweepVars
  <1>1. TypeOK'
    OBVIOUS
  <1>2. Born' /\ Forgotten' /\ StopHolds' /\ SweepHolds' /\ RecordTells' /\ ServerTells'
    BY DEF Born, Forgotten, StopHolds, SweepHolds, RecordTells, ServerTells, Serves
  <1>3. FollowedInv'
    BY DEF FollowedInv, OneOnRecord, PanelHolds, EndersEnd, ToldIsOver, Followed
  <1>4. OrphansInv'
    BY DEF Serves, OrphansInv, Orphans
  <1>5. EndKept'
    BY DEF Followed, EndKept, Undisturbed, Orderly
  <1> QED
    BY <1>1, <1>2, <1>3, <1>4, <1>5

LEMMA DisabledMeanwhileKeeps == ASSUME IInv, DisabledMeanwhile PROVE IInv'
  <1>0. Shape
    BY Shapes DEF IInv, BasicInv
  <1> USE <1>0, ConstantsAssumption DEF Shape, IInv, BasicInv, TypeOK, ProcessesOK, FilesOK, EntryOK,
        StopsOK, IsAlive, DisabledMeanwhile, nannyVars, diskVars, panelVars, entryVars, stopVars, sweepVars
  <1>1. TypeOK'
    BY DEF Forgotten
  <1>2. Born' /\ Forgotten' /\ StopHolds' /\ SweepHolds' /\ RecordTells' /\ ServerTells'
    BY DEF Born, Forgotten, StopHolds, SweepHolds, RecordTells, ServerTells, Serves
  <1>3. FollowedInv'
    BY DEF FollowedInv, OneOnRecord, PanelHolds, EndersEnd, ToldIsOver, Followed
  <1>4. OrphansInv'
    BY DEF Followed, Serves, OrphansInv, Orphans
  <1>5. EndKept'
    BY DEF Followed, EndKept, Undisturbed, Orderly
  <1> QED
    BY <1>1, <1>2, <1>3, <1>4, <1>5

LEMMA PanelBootsKeeps == ASSUME IInv, PanelBoots PROVE IInv'
  <1>0. Shape
    BY Shapes DEF IInv, BasicInv
  <1> USE <1>0, ConstantsAssumption DEF Shape, IInv, BasicInv, TypeOK, ProcessesOK, FilesOK, EntryOK,
        StopsOK, IsAlive, PanelBoots, nannyVars, entryVars, stopVars, sweepVars
  <1>1. TypeOK'
    <2>1. ProcessesOK'
      OBVIOUS
    <2>2. FilesOK'
      OBVIOUS
    <2>3. EntryOK'
      OBVIOUS
    <2>4. StopsOK'
      OBVIOUS
    <2> QED
      BY <2>1, <2>2, <2>3, <2>4
  <1>2. Born' /\ Forgotten' /\ StopHolds' /\ SweepHolds' /\ RecordTells' /\ ServerTells'
    BY DEF Born, Forgotten, StopHolds, SweepHolds, RecordTells, ServerTells, Serves
  <1>3. FollowedInv'
    BY DEF FollowedInv, OneOnRecord, PanelHolds, EndersEnd, ToldIsOver, Followed
  <1>4. OrphansInv'
    BY DEF Followed, Serves, OrphansInv, Orphans
  <1>5. EndKept'
    BY DEF Followed, EndKept, Undisturbed, Orderly
  <1> QED
    BY <1>1, <1>2, <1>3, <1>4, <1>5

LEMMA BootResumesKeeps == ASSUME IInv, BootResumes PROVE IInv'
  <1>0. Shape
    BY Shapes DEF IInv, BasicInv
  <1> USE <1>0, ConstantsAssumption DEF Shape, IInv, BasicInv, TypeOK, ProcessesOK, FilesOK, EntryOK,
        StopsOK, IsAlive, BootResumes, IsActive, BeginsStop, Polite, OutOfReach, Report, Resumes, Reattaches,
        ReportsAwayExit, nannyVars, diskVars, stopVars, sweepVars
  <1>1. TypeOK'
    <2>1. ProcessesOK'
      <3>1. CASE UNCHANGED <<nannyVars, aimed>>
        BY <3>1
      <3>2. CASE \E n \in Nannies : Polite(n) /\ aimed' = [aimed EXCEPT ![n] = TRUE] /\ UNCHANGED reported
        <4>1. PICK n \in Nannies : Polite(n) /\ aimed' = [aimed EXCEPT ![n] = TRUE] /\ UNCHANGED reported
          BY <3>2
        <4> QED
          BY <4>1, PoliteTypes
      <3> QED
        BY <3>1, <3>2
    <2>2. FilesOK'
      BY DEF NoRecord
    <2>3. EntryOK'
      BY DEF Forgotten, StopHolds
    <2>4. StopsOK'
      BY DEF Forgotten
    <2> QED
      BY <2>1, <2>2, <2>3, <2>4
  <1>2. Born' /\ Forgotten' /\ StopHolds' /\ SweepHolds' /\ RecordTells' /\ ServerTells'
    BY DEF Born, Forgotten, StopHolds, SweepHolds, RecordTells, ServerTells, Serves
  <1>3. FollowedInv'
    BY DEF Forgotten, RecordTells, FollowedInv, OneOnRecord, PanelHolds, EndersEnd, ToldIsOver, Followed
  <1>4. OrphansInv'
    BY DEF SweepHolds, ServerTells, Followed, Serves, OrphansInv, Orphans
  <1>5. EndKept'
    BY DEF FollowedInv, ToldIsOver, Followed, EndKept, Undisturbed, Orderly
  <1> QED
    BY <1>1, <1>2, <1>3, <1>4, <1>5

LEMMA BootStartsKeeps == ASSUME IInv, BootStarts PROVE IInv'
  <1>0. Shape
    BY Shapes DEF IInv, BasicInv
  <1> USE <1>0, ConstantsAssumption DEF Shape, IInv, BasicInv, TypeOK, ProcessesOK, FilesOK, EntryOK,
        StopsOK, IsAlive, BootStarts, StartAccepted, nannyVars, diskVars, stopVars, sweepVars
  <1>1. TypeOK'
    <2>1. ProcessesOK'
      OBVIOUS
    <2>2. FilesOK'
      OBVIOUS
    <2>3. EntryOK'
      OBVIOUS
    <2>4. StopsOK'
      OBVIOUS
    <2> QED
      BY <2>1, <2>2, <2>3, <2>4
  <1>2. Born' /\ Forgotten' /\ StopHolds' /\ SweepHolds' /\ RecordTells' /\ ServerTells'
    BY DEF Born, Forgotten, StopHolds, SweepHolds, RecordTells, ServerTells, Serves
  <1>3. FollowedInv'
    BY DEF FollowedInv, OneOnRecord, PanelHolds, EndersEnd, ToldIsOver, Followed
  <1>4. OrphansInv'
    BY DEF Followed, Serves, OrphansInv, Orphans
  <1>5. EndKept'
    BY DEF Followed, EndKept, Undisturbed, Orderly
  <1> QED
    BY <1>1, <1>2, <1>3, <1>4, <1>5

LEMMA SweepBeginsKeeps == ASSUME IInv, SweepBegins PROVE IInv'
  <1>0. Shape
    BY Shapes DEF IInv, BasicInv
  <1> USE <1>0, ConstantsAssumption DEF Shape, IInv, BasicInv, TypeOK, ProcessesOK, FilesOK, EntryOK,
        StopsOK, IsAlive, SweepBegins, Polite, OutOfReach, SweepFrame, nannyVars, diskVars, panelVars,
        entryVars, stopVars
  <1>1. TypeOK'
    <2>1. ProcessesOK'
      <3>1. Polite(record.of) /\ record.of \in Nannies
        OBVIOUS
      <3> QED
        BY <3>1, PoliteTypes
    <2>2. FilesOK'
      BY DEF NoRecord
    <2>3. EntryOK'
      BY DEF Forgotten, StopHolds
    <2>4. StopsOK'
      BY DEF Forgotten
    <2> QED
      BY <2>1, <2>2, <2>3, <2>4
  <1>2. Born' /\ Forgotten' /\ StopHolds' /\ SweepHolds' /\ RecordTells' /\ ServerTells'
    BY DEF Born, Forgotten, StopHolds, SweepHolds, RecordTells, ServerTells, Serves
  <1>3. FollowedInv'
    BY DEF StopHolds, FollowedInv, OneOnRecord, PanelHolds, EndersEnd, ToldIsOver, Followed
  <1>4. OrphansInv'
    BY DEF ServerTells, FollowedInv, EndersEnd, Followed, Serves, OrphansInv, Orphans
  <1>5. EndKept'
    BY DEF Followed, EndKept, Undisturbed, Orderly
  <1> QED
    BY <1>1, <1>2, <1>3, <1>4, <1>5

LEMMA SweepForcesKeeps == ASSUME IInv, SweepForces PROVE IInv'
  <1>0. Shape
    BY Shapes DEF IInv, BasicInv
  <1> USE <1>0, ConstantsAssumption DEF Shape, IInv, BasicInv, TypeOK, ProcessesOK, FilesOK, EntryOK,
        StopsOK, IsAlive, SweepForces, Sigkill, OutOfReach, SweepFrame, nannyVars, diskVars, panelVars,
        entryVars, stopVars
  <1>1. TypeOK'
    OBVIOUS
  <1>2. Born' /\ Forgotten' /\ StopHolds' /\ SweepHolds' /\ RecordTells' /\ ServerTells'
    BY DEF Born, Forgotten, StopHolds, SweepHolds, RecordTells, ServerTells, Serves
  <1>3. FollowedInv'
    BY DEF StopHolds, FollowedInv, OneOnRecord, PanelHolds, EndersEnd, ToldIsOver, Followed
  <1>4. OrphansInv'
    BY DEF SweepHolds, ServerTells, FollowedInv, EndersEnd, Followed, Serves, OrphansInv, Orphans
  <1>5. EndKept'
    BY DEF SweepHolds, Followed, EndKept, Undisturbed, Orderly
  <1> QED
    BY <1>1, <1>2, <1>3, <1>4, <1>5

LEMMA SweepEndsServerKeeps == ASSUME IInv, SweepEndsServer PROVE IInv'
  <1>0. Shape
    BY Shapes DEF IInv, BasicInv
  <1> USE <1>0, ConstantsAssumption DEF Shape, IInv, BasicInv, TypeOK, ProcessesOK, FilesOK, EntryOK,
        StopsOK, IsAlive, SweepEndsServer, EndServer, SweepFrame, nannyVars, diskVars, panelVars, entryVars,
        stopVars
  <1>1. TypeOK'
    OBVIOUS
  <1>2. Born' /\ Forgotten' /\ StopHolds' /\ SweepHolds' /\ RecordTells' /\ ServerTells'
    BY DEF Born, Forgotten, StopHolds, SweepHolds, RecordTells, ServerTells, Serves
  <1>3. FollowedInv'
    BY DEF FollowedInv, OneOnRecord, PanelHolds, EndersEnd, ToldIsOver, Followed
  <1>4. OrphansInv'
    BY DEF SweepHolds, ServerTells, FollowedInv, EndersEnd, Followed, Serves, OrphansInv, Orphans
  <1>5. EndKept'
    BY DEF Followed, EndKept, Undisturbed, Orderly
  <1> QED
    BY <1>1, <1>2, <1>3, <1>4, <1>5

LEMMA SweepGivesUpKeeps == ASSUME IInv, SweepGivesUp PROVE IInv'
  <1>0. Shape
    BY Shapes DEF IInv, BasicInv
  <1> USE <1>0, ConstantsAssumption DEF Shape, IInv, BasicInv, TypeOK, ProcessesOK, FilesOK, EntryOK,
        StopsOK, IsAlive, SweepGivesUp, SweepFrame, nannyVars, diskVars, panelVars, entryVars, stopVars
  <1>1. TypeOK'
    OBVIOUS
  <1>2. Born' /\ Forgotten' /\ StopHolds' /\ SweepHolds' /\ RecordTells' /\ ServerTells'
    BY DEF Born, Forgotten, StopHolds, SweepHolds, RecordTells, ServerTells, Serves
  <1>3. FollowedInv'
    BY DEF FollowedInv, Followed
  <1>4. OrphansInv'
    BY DEF Followed, Serves, OrphansInv, Orphans
  <1>5. EndKept'
    BY DEF Followed, EndKept, Undisturbed, Orderly
  <1> QED
    BY <1>1, <1>2, <1>3, <1>4, <1>5

LEMMA SweepConsumesKeeps == ASSUME IInv, SweepConsumes PROVE IInv'
  <1>0. Shape
    BY Shapes DEF IInv, BasicInv
  <1> USE <1>0, ConstantsAssumption DEF Shape, IInv, BasicInv, TypeOK, ProcessesOK, FilesOK, EntryOK,
        StopsOK, IsAlive, SweepConsumes, SweepFrame, nannyVars, panelVars, entryVars, stopVars
  <1>1. TypeOK'
    BY DEF Forgotten, SweepHolds
  <1>2. Born' /\ Forgotten' /\ StopHolds' /\ SweepHolds' /\ RecordTells' /\ ServerTells'
    BY DEF Born, Forgotten, StopHolds, SweepHolds, RecordTells, ServerTells, Serves
  <1>3. FollowedInv'
    BY DEF SweepHolds, FollowedInv, OneOnRecord, PanelHolds, EndersEnd, ToldIsOver, Followed
  <1>4. OrphansInv'
    BY DEF Followed, Serves, OrphansInv, Orphans
  <1>5. EndKept'
    BY DEF SweepHolds, FollowedInv, EndersEnd, Followed, EndKept, Undisturbed, Orderly
  <1> QED
    BY <1>1, <1>2, <1>3, <1>4, <1>5

LEMMA StutterKeeps == ASSUME IInv, UNCHANGED vars PROVE IInv'
  <1> USE DEF IInv, vars, nannyVars, diskVars, panelVars, entryVars, stopVars, sweepVars
  <1>1. BasicInv'
    BY DEF BasicInv, TypeOK, ProcessesOK, FilesOK, EntryOK, StopsOK, Born, Forgotten, StopHolds,
           SweepHolds, RecordTells, ServerTells, NoRecord, Serves
  <1>2. FollowedInv'
    BY DEF FollowedInv, Followed, OneOnRecord, PanelHolds, EndersEnd, ToldIsOver, IsAlive, NoRecord
  <1>3. OrphansInv'
    BY DEF OrphansInv, Orphans, Followed, Serves
  <1>4. EndKept'
    BY DEF EndKept, Undisturbed, Orderly, Followed
  <1> QED
    BY <1>1, <1>2, <1>3, <1>4

LEMMA InitHolds == Init => IInv
  <1> SUFFICES ASSUME Init
               PROVE  IInv
    OBVIOUS
  <1> USE ConstantsAssumption DEF Init, NoRecord
  <1>1. BasicInv
    <2>1. ProcessesOK /\ FilesOK
      BY DEF ProcessesOK, FilesOK
    <2>2. EntryOK /\ StopsOK
      <3>1. 0 \in 0..MaxBoots
        OBVIOUS
      <3> QED
        BY <3>1 DEF EntryOK, StopsOK
    <2>3. Born /\ Forgotten /\ StopHolds /\ SweepHolds /\ RecordTells /\ ServerTells
      BY DEF Born, Forgotten, StopHolds, SweepHolds, RecordTells, ServerTells, Serves
    <2> QED
      BY <2>1, <2>2, <2>3 DEF BasicInv, TypeOK
  <1>2. FollowedInv
    BY DEF FollowedInv, OneOnRecord, PanelHolds, EndersEnd, ToldIsOver, IsAlive
  <1>3. OrphansInv
    BY DEF OrphansInv, Orphans, Serves
  <1>4. EndKept
    BY DEF EndKept
  <1> QED
    BY <1>1, <1>2, <1>3, <1>4 DEF IInv

LEMMA NextKeeps == IInv /\ [Next]_vars => IInv'
  <1> SUFFICES ASSUME IInv, [Next]_vars
               PROVE  IInv'
    OBVIOUS
  <1>1. ASSUME NEW n \in Nannies, NannyStep(n) \/ ServerEnds(n) \/ KilledHard(n)
        PROVE  IInv'
    BY <1>1, TakesSpecKeeps, SpawnsServerKeeps, HeartbeatKeeps, ForcesServerKeeps, SeesServerEndKeeps,
       NannyLeavesKeeps, ServerEndsKeeps, KilledHardKeeps DEF NannyStep
  <1>2. CASE UserStart \/ RetryStart
    <2>1. panel \in {"booting", "up"}
      BY <1>2 DEF UserStart, RetryStart, IInv, BasicInv, TypeOK, EntryOK, Forgotten
    <2> QED
      BY <1>2, <2>1, BeginsStartKeeps DEF UserStart, RetryStart
  <1>3. CASE HandleExit \/ RetryRefused \/ StartResumes \/ StartSpawns
    BY <1>3, HandleExitKeeps, RetryRefusedKeeps, StartResumesKeeps, StartSpawnsKeeps
  <1>4. CASE UserStop \/ StopForces \/ StopEndsServer \/ StopFinishes
    BY <1>4, UserStopKeeps, StopForcesKeeps, StopEndsServerKeeps, StopFinishesKeeps
  <1>5. CASE PanelGoes \/ DisabledMeanwhile \/ PanelBoots \/ BootResumes \/ BootStarts
    BY <1>5, PanelGoesKeeps, DisabledMeanwhileKeeps, PanelBootsKeeps, BootResumesKeeps, BootStartsKeeps
  <1>6. CASE SweepBegins \/ SweepStep
    BY <1>6, SweepBeginsKeeps, SweepForcesKeeps, SweepEndsServerKeeps, SweepGivesUpKeeps,
       SweepConsumesKeeps DEF SweepStep
  <1>7. CASE UNCHANGED vars
    BY <1>7, StutterKeeps
  <1> QED
    BY <1>1, <1>2, <1>3, <1>4, <1>5, <1>6, <1>7 DEF Next, PanelStep

THEOREM Inductive == Spec => []IInv
  BY InitHolds, NextKeeps, PTL DEF Spec

-----------------------------------------------------------------------------
(* The theorems *)

\* Every variable keeps its type, whatever is killed, cut short or brought back.
THEOREM TypeCorrect == Spec => []TypeOK
  <1>1. IInv => TypeOK
    BY DEF IInv, BasicInv
  <1> QED
    BY <1>1, Inductive, PTL

\* However often the panel dies and comes back, and whatever start, retry, stop or sweep it is
\* cut short in, no second nanny is spawned beside one that lives, nor does a second server run
\* (resumePersistent before spawnNanny, over the state file).
THEOREM OneServerEver == Spec => []OneServer
  <1>1. IInv => OneServer
    <2> SUFFICES ASSUME IInv, NEW m \in Nannies, NEW n \in Nannies,
                        (Followed /\ IsAlive(m) /\ IsAlive(n)) \/ (Undisturbed /\ Serves(m) /\ Serves(n))
                 PROVE  m = n
      BY DEF OneServer
    <2>1. ASSUME NEW k \in Nannies, Undisturbed, Serves(k)
          PROVE  IsAlive(k)
      BY <2>1, ConstantsAssumption DEF IInv, BasicInv, TypeOK, ProcessesOK, ServerTells, OrphansInv,
         Orphans,
         Undisturbed, Orderly, Serves, IsAlive
    <2> QED
      BY <2>1 DEF IInv, FollowedInv, OneOnRecord, Undisturbed, Orderly
  <1> QED
    BY <1>1, Inductive, PTL

\* A panel past its boot's first pass holds every nanny there is (startAll's reattachment).
THEOREM NobodyIsAStranger == Spec => []NoStranger
  <1>1. IInv => NoStranger
    BY DEF IInv, FollowedInv, PanelHolds, NoStranger
  <1> QED
    BY <1>1, Inductive, PTL

\* An exit nobody asked for reaches the history with its reason before the file that tells it
\* goes, and once (consumeNannyExit, resumePersistent, handleExit).
THEOREM EndsAreRecorded == Spec => []EndIsRecorded
  <1>1. IInv => EndIsRecorded
    BY DEF IInv, FollowedInv, ToldIsOver, EndKept, EndIsRecorded
  <1> QED
    BY <1>1, Inductive, PTL

\* Only these steps end a stop that has signalled, end a sweep, or take the record away.
LEMMA OnlyThese ==
    ASSUME IInv, [Next]_vars
    PROVE  \/ HandleExit \/ StartResumes \/ StartSpawns \/ UserStop \/ StopFinishes \/ BootResumes
           \/ SweepConsumes
           \/ /\ ~UserStop
              /\ stopAt = "finish" /\ panel' # "down" => stopAt' # "idle"
              /\ sweepAt = "ended" => sweepAt' # "idle"
              /\ record' = record \/ record' # NoRecord
  <1> USE DEF NoRecord
  <1>1. CASE \E n \in Nannies : NannyStep(n) \/ ServerEnds(n) \/ KilledHard(n)
    BY <1>1, ConstantsAssumption DEF NannyStep, TakesSpec, SpawnsServer, Heartbeat, ForcesServer,
       SeesServerEnd,
       NannyLeaves, ServerEnds, KilledHard, NannyFrame, stopVars, sweepVars, diskVars
  <1>2. CASE UserStart \/ RetryStart \/ RetryRefused \/ StopForces \/ StopEndsServer
    BY <1>2 DEF UserStart, RetryStart, BeginsStart, RetryRefused, StopForces, StopEndsServer, stopVars,
       sweepVars, diskVars
  <1>3. CASE PanelGoes \/ DisabledMeanwhile \/ PanelBoots \/ BootStarts
    BY <1>3 DEF PanelGoes, DisabledMeanwhile, PanelBoots, BootStarts, stopVars, sweepVars, diskVars
  <1>4. CASE SweepBegins \/ SweepForces \/ SweepEndsServer \/ SweepGivesUp
    BY <1>4 DEF SweepBegins, SweepForces, SweepEndsServer, SweepGivesUp, SweepFrame, stopVars, diskVars
  <1>5. CASE UNCHANGED vars
    BY <1>5 DEF vars, stopVars, sweepVars, diskVars
  <1> QED
    BY <1>1, <1>2, <1>3, <1>4, <1>5 DEF Next, PanelStep, SweepStep

LEMMA StopIsClean == ASSUME IInv, [Next]_vars PROVE StopLeavesNothing
  <1> SUFFICES ASSUME Orderly, sweepAt = "idle",
                      UserStop \/ (stopAt = "finish" /\ (world.killGroup \/ stopChild # NoNanny)),
                      panel' # "down", stopAt' = "idle", NEW n \in Nannies, n = stopOf \/ ~aimed[n]
               PROVE  ~Serves(n)'
    BY DEF StopLeavesNothing
  <1> USE DEF IInv, BasicInv
  <1>1. ~Serves(n) \/ IsAlive(n) \/ (n = stopOf /\ stopAt = "finish" /\ ~world.killGroup)
    BY ConstantsAssumption DEF ServerTells, OrphansInv, Orphans, Orderly, TypeOK, ProcessesOK, StopsOK,
       StopHolds,
       Serves, IsAlive, UserStop
  <1>2. CASE UserStop
    <2>1. handle = NoNanny /\ stopAt = "idle" /\ panel = "up" /\ UNCHANGED server
      BY <1>2 DEF UserStop, BeginsStop, nannyVars
    <2> QED
      BY <1>1, <2>1 DEF Serves, FollowedInv, PanelHolds, Orderly, IsAlive
  <1>3. CASE StopFinishes
    <2>1. stopAt = "finish" /\ UNCHANGED server
      BY <1>3 DEF StopFinishes, nannyVars
    <2>2. nanny[stopOf] = "dead" /\ handle \in {stopOf, NoNanny}
      BY <2>1 DEF FollowedInv, EndersEnd, StopHolds, Orderly
    <2>3. CASE n = stopOf
      BY <1>1, <1>2, <2>1, <2>2, <2>3 DEF Serves, IsAlive, Orderly, OrphansInv, Orphans, UserStop
    <2>4. CASE n # stopOf
      <3>1. panel \in {"booting", "up"}
        BY <2>1 DEF Forgotten, TypeOK, EntryOK
      <3> QED
        BY <1>1, <2>1, <2>2, <2>4, <3>1 DEF Serves, IsAlive, FollowedInv, PanelHolds, Orderly
    <2> QED
      BY <2>3, <2>4
  <1>4. CASE ~UserStop /\ ~StopFinishes
    <2>1. stopAt = "finish"
      BY <1>4
    <2>2. ~HandleExit /\ ~StartResumes /\ ~StartSpawns /\ ~SweepConsumes
      BY <2>1 DEF HandleExit, StartResumes, StartSpawns, SweepConsumes, stopVars
    <2>3. ~BootResumes
      BY <2>1 DEF BootResumes, Forgotten
    <2> QED
      BY <1>4, <2>1, <2>2, <2>3, OnlyThese
  <1> QED
    BY <1>2, <1>3, <1>4

LEMMA SweepIsClean == ASSUME IInv, [Next]_vars PROVE SweepLeavesNothing
  <1> SUFFICES ASSUME ~world.hard, sweepAt = "ended", sweepAt' = "idle"
               PROVE  server'[sweepOf] \notin {"alive", "leaving"}
    BY DEF SweepLeavesNothing
  <1>1. panel = "down" /\ ~Serves(sweepOf)
    BY DEF IInv, BasicInv, SweepHolds, OrphansInv, Orphans
  <1>2. SweepConsumes
    BY <1>1, OnlyThese DEF HandleExit, StartResumes, StartSpawns, UserStop, StopFinishes, BootResumes
  <1> QED
    BY <1>1, <1>2 DEF SweepConsumes, Serves, nannyVars

LEMMA RecordIsKept == ASSUME IInv, [Next]_vars PROVE RecordOutlives
  <1> SUFFICES ASSUME Followed \/ (startAt # "bootstrap" /\ record.of \in {handle, stopOf, sweepOf}),
                      record # NoRecord, record' = NoRecord
               PROVE  nanny'[record.of] = "dead"
    BY DEF RecordOutlives
  <1> USE ConstantsAssumption DEF IInv, BasicInv
  <1>1. record.of \in Nannies /\ nanny[record.of] # "unborn"
    BY Shapes DEF Shape, RecordTells
  <1>2. CASE HandleExit
    BY <1>1, <1>2 DEF HandleExit, nannyVars, FollowedInv, PanelHolds, Forgotten, StopHolds, SweepHolds,
       TypeOK, EntryOK
  <1>3. CASE StartResumes
    BY <1>1, <1>3 DEF StartResumes, Reattaches, nannyVars, diskVars, IsAlive
  <1>4. CASE StartSpawns
    BY <1>1, <1>4 DEF StartSpawns, FollowedInv, PanelHolds, Forgotten, TypeOK, EntryOK
  <1>5. CASE UserStop
    BY <1>1, <1>5 DEF UserStop, BeginsStop, nannyVars, IsAlive
  <1>6. CASE StopFinishes
    BY <1>1, <1>6 DEF StopFinishes, nannyVars, diskVars, IsAlive, StopHolds, SweepHolds, FollowedInv,
       PanelHolds, Forgotten, TypeOK, EntryOK
  <1>7. CASE BootResumes
    BY <1>1, <1>7 DEF BootResumes, BeginsStop, Resumes, Reattaches, ReportsAwayExit, nannyVars,
       diskVars, IsAlive
  <1>8. CASE SweepConsumes
    BY <1>1, <1>8 DEF SweepConsumes, SweepHolds, StopHolds, Forgotten, FollowedInv, EndersEnd, nannyVars
  <1> QED
    BY <1>1, <1>2, <1>3, <1>4, <1>5, <1>6, <1>7, <1>8, OnlyThese

\* A stop that answers "stopped", and the command line's sweep, leave no server of theirs, and the
\* state file outlives nobody's nanny (stopEntry, terminatePid, stopPersistentEntries).
THEOREM StopsAreReal == Spec => StopIsReal
  <1>1. IInv /\ [Next]_vars => StopLeavesNothing /\ SweepLeavesNothing /\ RecordOutlives
    BY StopIsClean, SweepIsClean, RecordIsKept
  <1> QED
    BY <1>1, Inductive, PTL DEF Spec, StopIsReal
=============================================================================
