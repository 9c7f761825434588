----------------------------- MODULE Panel_proofs -----------------------------
(***************************************************************************)
(* Proofs about the panel's process, for any number of panels and          *)
(* terminals: the port hands the servers over as a lock does, among panels *)
(* that have not given it up; the one that is up is on record; strangers   *)
(* are left alone.                                                         *)
(***************************************************************************)
EXTENDS Panel, TLAPS

(* The inductive invariant *)

HasPort(p)  == step[p] \in {"listening", "up", "stopping", "disposed", "half"}
Later       == {"up", "stopping", "disposed", "half", "dead"}
Offering(c) == cmd[c].at = "offering"
AtWork(c)   == cmd[c].at \in {"asking", "answered", "waiting", "forced"}
Signals(c)  == cmd[c].at \in {"asking", "waiting", "forced"}

PortIsHeld   == \A p \in Panels : HasPort(p) /\ p \notin closed => listener = p
RecordIsPast == record # NoRecord => step[record.pid] \in Later
TakenAreDead == \A p \in taken : step[p] = "dead"

\* Two panels that are past their listening at a time have met with a port given up.
MeetCrossed == \A p, q \in Panels : HasPort(p) /\ HasPort(q) /\ p # q => p \in crossed

\* A down is at work on a panel that was up: once that one is dead, those that are up came up
\* over it; and the pid it would signal is not another process if that can be told.
DownIsOnLast ==
    \A c \in Cmds :
        /\ AtWork(c) \/ Offering(c) => step[cmd[c].pid] \in Later
        /\ AtWork(c) /\ step[cmd[c].pid] = "dead" =>
              \A q \in Panels : step[q] = "up" => q \in crossed
        /\ cmd[c].at = "answered" => step[cmd[c].pid] # "up"
        /\ Signals(c) /\ births => cmd[c].pid \notin taken

IInv == /\ TypeOK /\ PortIsHeld /\ RecordIsPast /\ TakenAreDead /\ MeetCrossed /\ DownIsOnLast
        /\ UpIsRecorded /\ StrangersSpared

-----------------------------------------------------------------------------

LEMMA RecordPid ==
  ASSUME TypeOK, record # NoRecord
  PROVE  record \in Record /\ record.pid \in Panels
  BY DEF TypeOK, Record

LEMMA IdleType == Idle \in Command /\ Idle.at = "idle"
  BY DEF Idle, Command

\* What a command becomes when it ends, and when it goes on.
LEMMA EndsType ==
  ASSUME TypeOK, NEW c \in Cmds, Ends(c)
  PROVE  /\ cmd' \in [Cmds -> Command]
         /\ cmd'[c].at = "idle" /\ \A d \in Cmds \ {c} : cmd'[d] = cmd[d]
  BY DEF TypeOK, Ends, Idle, Command

LEMMA BeginsType ==
  ASSUME TypeOK, NEW c \in Cmds, NEW p \in Panels,
         NEW at \in {"starting", "asking", "offering"},
         cmd' = [cmd EXCEPT ![c] = [at |-> at, pid |-> p]]
  PROVE  /\ cmd' \in [Cmds -> Command]
         /\ cmd'[c].at = at /\ cmd'[c].pid = p /\ \A d \in Cmds \ {c} : cmd'[d] = cmd[d]
  BY DEF TypeOK, Command

LEMMA GoesOnType ==
  ASSUME TypeOK, NEW c \in Cmds, NEW at \in {"answered", "waiting", "forced"},
         cmd' = [cmd EXCEPT ![c].at = at]
  PROVE  /\ cmd' \in [Cmds -> Command]
         /\ cmd'[c].at = at /\ cmd'[c].pid = cmd[c].pid /\ \A d \in Cmds \ {c} : cmd'[d] = cmd[d]
  BY DEF TypeOK, Command

LEMMA CommandPid ==
  ASSUME TypeOK, NEW c \in Cmds
  PROVE  /\ cmd[c].pid \in Panels \cup {NoPanel}
         /\ cmd[c].at # "idle" => cmd[c].pid \in Panels
         /\ AtWork(c) \/ Offering(c) => cmd[c].pid \in Panels
  BY DEF TypeOK, Command, AtWork, Offering

\* Most steps move at most one panel, not to up and never back, delete the record or leave it,
\* and bring no down to work but by a panel's answer.
Forward ==
    \/ step' = step
    \/ \E p \in Panels, s \in Steps \ {"up"} :
          /\ step' = [step EXCEPT ![p] = s]
          /\ step[p] # "dead"
          /\ step[p] \in Later => s \in Later

NoneBegins ==
    \A c \in Cmds :
        /\ (AtWork(c) \/ Offering(c))' => (AtWork(c) \/ Offering(c)) /\ cmd'[c].pid = cmd[c].pid
        /\ AtWork(c)' => AtWork(c) \/ step'[cmd[c].pid] # "dead"
        /\ cmd'[c].at = "answered" => cmd[c].at = "answered" \/ step'[cmd[c].pid] # "up"
        /\ Signals(c)' => Signals(c)

LEMMA PastKept ==
  ASSUME IInv, Forward, NoneBegins, record' = record \/ record' = NoRecord,
         crossed \subseteq crossed', UNCHANGED <<births, taken>>
  PROVE  RecordIsPast' /\ TakenAreDead' /\ DownIsOnLast'
  <1>1. \A q \in Panels : step[q] \in Later => step'[q] \in Later
    BY DEF Forward, IInv, TypeOK
  <1>2. \A q \in Panels : step'[q] = "up" => step[q] = "up"
    BY DEF Forward, IInv, TypeOK
  <1>3. \A q \in Panels : step[q] = "dead" => step'[q] = "dead"
    BY DEF Forward, IInv, TypeOK
  <1>4. ASSUME NEW q \in Panels, step[q] \in Later, step[q] # "dead", step'[q] = "dead"
        PROVE  \A r \in Panels : step'[r] = "up" => r \in crossed
    <2>1. HasPort(q)
      BY <1>4 DEF Later, HasPort
    <2>2. ASSUME NEW r \in Panels, step'[r] = "up" PROVE r \in crossed
      <3>1. HasPort(r) /\ r # q
        BY <1>2, <1>4, <2>2 DEF HasPort
      <3> QED BY <2>1, <3>1 DEF IInv, MeetCrossed
    <2> QED BY <2>2
  <1>5. RecordIsPast'
    BY <1>1, RecordPid DEF IInv, RecordIsPast
  <1>6. TakenAreDead'
    BY <1>3 DEF IInv, TypeOK, TakenAreDead
  <1>7. DownIsOnLast'
    <2>1. ASSUME NEW c \in Cmds, (AtWork(c) \/ Offering(c))'
          PROVE  /\ cmd[c].pid \in Panels /\ cmd'[c].pid = cmd[c].pid
                 /\ step[cmd[c].pid] \in Later /\ step'[cmd[c].pid] \in Later
      BY <1>1, <2>1, CommandPid DEF NoneBegins, IInv, DownIsOnLast
    <2>2. ASSUME NEW c \in Cmds, AtWork(c)', step'[cmd'[c].pid] = "dead",
                 NEW q \in Panels, step'[q] = "up"
          PROVE  q \in crossed
      <3>1. cmd[c].pid \in Panels /\ cmd'[c].pid = cmd[c].pid /\ step[cmd[c].pid] \in Later
        BY <2>1, <2>2
      <3>2. AtWork(c)
        BY <2>2, <3>1 DEF NoneBegins
      <3>3. CASE step[cmd[c].pid] = "dead"
        BY <1>2, <2>2, <3>2, <3>3 DEF IInv, DownIsOnLast
      <3>4. CASE step[cmd[c].pid] # "dead"
        BY <1>4, <2>2, <3>1, <3>4
      <3> QED BY <3>3, <3>4
    <2>3. ASSUME NEW c \in Cmds, cmd'[c].at = "answered" PROVE step'[cmd'[c].pid] # "up"
      <3>1. cmd[c].pid \in Panels /\ cmd'[c].pid = cmd[c].pid
        BY <2>1, <2>3 DEF AtWork
      <3> QED BY <1>2, <2>3, <3>1 DEF NoneBegins, IInv, DownIsOnLast
    <2>4. ASSUME NEW c \in Cmds, Signals(c)', births' PROVE cmd'[c].pid \notin taken'
      <3>1. cmd'[c].pid = cmd[c].pid
        BY <2>1, <2>4 DEF AtWork, Signals
      <3> QED BY <2>4, <3>1 DEF NoneBegins, IInv, DownIsOnLast
    <2> QED BY <2>1, <2>2, <2>3, <2>4 DEF DownIsOnLast
  <1> QED BY <1>5, <1>6, <1>7

LEMMA ShutdownKeeps ==
  ASSUME IInv, NEW p \in Panels, NEW who \in {"signal", "call"},
         Shutdown(p, who) \/ Term(p, who), UNCHANGED crossed
  PROVE  /\ Forward
         /\ UpIsRecorded'
  <1>1. step' = step \/ \E s \in {"stopping", "dead"} :
          /\ step' = [step EXCEPT ![p] = s] /\ step[p] # "dead"
          /\ step[p] \in Later => s \in Later
    BY DEF Shutdown, Term, Exits, Later
  <1>2. Forward
    BY <1>1 DEF Forward, Steps
  <1>3. UpIsRecorded'
    BY DEF IInv, TypeOK, UpIsRecorded, MeetCrossed, HasPort, Shutdown, Term, Exits
  <1> QED BY <1>2, <1>3

-----------------------------------------------------------------------------
LEMMA InitIInv == Init => IInv
  <1> SUFFICES ASSUME Init PROVE IInv
    OBVIOUS
  <1>1. TypeOK
    BY IdleType DEF Init, TypeOK, Steps
  <1> QED BY <1>1, IdleType, PanelAssumption DEF Init, IInv, PortIsHeld, RecordIsPast, TakenAreDead,
     MeetCrossed, DownIsOnLast, UpIsRecorded, StrangersSpared, HasPort, AtWork, Offering, Signals

LEMMA BootChecksStep ==
  ASSUME IInv, NEW p \in Panels, BootChecks(p)
  PROVE  IInv'
  <1>1. TypeOK'
    BY PanelAssumption DEF IInv, TypeOK, BootChecks, Exits, Tidied, Steps, NoRecord, Record
  <1>2. Forward
    BY DEF IInv, TypeOK, Forward, BootChecks, Exits, Alive, Steps, Later
  <1>3. NoneBegins
    BY DEF NoneBegins, AtWork, Offering, Signals, BootChecks
  <1>4. record' = record \/ record' = NoRecord
    BY DEF BootChecks, Tidied
  <1>5. RecordIsPast' /\ TakenAreDead' /\ DownIsOnLast'
    BY <1>2, <1>3, <1>4, PastKept DEF BootChecks
  <1>6. PortIsHeld'
    BY <1>1, PanelAssumption DEF IInv, TypeOK, PortIsHeld, BootChecks, Exits, Tidied,
       LooksAlive, LooksGone, Liveness, Alive, HasPort
  <1>7. UpIsRecorded'
    BY <1>1, PanelAssumption DEF IInv, TypeOK, UpIsRecorded, BootChecks, Exits, Tidied,
       LooksAlive, LooksGone, Liveness, Alive, MeetCrossed, HasPort, NoRecord
  <1>8. StrangersSpared'
    BY <1>1, PanelAssumption DEF IInv, TypeOK, StrangersSpared, BootChecks, Exits, Tidied,
       LooksAlive, LooksGone, Liveness, Alive, TakenAreDead
  <1>9. MeetCrossed'
    BY <1>1, PanelAssumption DEF IInv, TypeOK, BootChecks, Exits, Tidied,
       LooksAlive, LooksGone, Liveness, Alive, MeetCrossed, HasPort
  <1> QED BY <1>1, <1>5, <1>6, <1>7, <1>8, <1>9 DEF IInv

LEMMA BootProbesStep ==
  ASSUME IInv, NEW p \in Panels, BootProbes(p)
  PROVE  IInv'
  <1>1. TypeOK'
    BY PanelAssumption DEF IInv, TypeOK, BootProbes, Exits, Steps, NoRecord, Record
  <1>2. Forward
    BY DEF IInv, TypeOK, Forward, BootProbes, Exits, Steps, Later
  <1>3. NoneBegins
    BY DEF NoneBegins, AtWork, Offering, Signals, BootProbes
  <1>4. record' = record \/ record' = NoRecord
    BY DEF BootProbes
  <1>5. RecordIsPast' /\ TakenAreDead' /\ DownIsOnLast'
    BY <1>2, <1>3, <1>4, PastKept DEF BootProbes
  <1>6. PortIsHeld'
    BY <1>1, PanelAssumption DEF IInv, TypeOK, PortIsHeld, BootProbes, Exits, HasPort
  <1>7. UpIsRecorded'
    BY <1>1, PanelAssumption DEF IInv, TypeOK, UpIsRecorded, BootProbes, Exits, MeetCrossed,
       HasPort, NoRecord
  <1>8. StrangersSpared'
    BY <1>1, PanelAssumption DEF IInv, TypeOK, StrangersSpared, BootProbes, Exits,
       TakenAreDead
  <1>9. MeetCrossed'
    BY <1>1, PanelAssumption DEF IInv, TypeOK, BootProbes, Exits, MeetCrossed,
       HasPort
  <1> QED BY <1>1, <1>5, <1>6, <1>7, <1>8, <1>9 DEF IInv

LEMMA ListensStep ==
  ASSUME IInv, NEW p \in Panels, Listens(p)
  PROVE  IInv'
  <1>1. TypeOK'
    BY PanelAssumption DEF IInv, TypeOK, Listens, Exits, Steps, NoRecord, Record
  <1>2. Forward
    BY DEF IInv, TypeOK, Forward, Listens, Exits, Steps, Later
  <1>3. NoneBegins
    BY DEF NoneBegins, AtWork, Offering, Signals, Listens
  <1>4. record' = record /\ crossed \subseteq crossed'
    BY DEF Listens
  <1>5. RecordIsPast' /\ TakenAreDead' /\ DownIsOnLast'
    BY <1>2, <1>3, <1>4, PastKept DEF Listens
  <1>6. PortIsHeld'
    BY <1>1, PanelAssumption DEF IInv, TypeOK, PortIsHeld, Listens, Exits, HasPort
  <1>7. UpIsRecorded'
    BY <1>1, <1>4 DEF IInv, TypeOK, UpIsRecorded, Listens, Exits
  <1>8. StrangersSpared'
    BY DEF IInv, StrangersSpared, Listens
  <1>9. MeetCrossed'
    <2>1. CASE listener # NoPanel
      BY <2>1 DEF IInv, TypeOK, MeetCrossed, Listens, Exits, HasPort
    <2>2. CASE listener = NoPanel
      <3>1. \A q \in Panels : HasPort(q) => q \in closed
        BY <2>2, PanelAssumption DEF IInv, PortIsHeld
      <3>2. \A q \in Panels \ {p} : HasPort(q)' => HasPort(q)
        BY <2>2 DEF IInv, TypeOK, Listens, HasPort
      <3>3. \A q \in Panels : q \in closed => q \in crossed' /\ p \in crossed'
        BY <2>2 DEF Listens
      <3>4. ASSUME NEW q \in Panels, NEW t \in Panels, HasPort(q)', HasPort(t)', q # t
            PROVE  q \in crossed'
        <4>1. CASE q = p
          BY <3>1, <3>2, <3>3, <3>4, <4>1
        <4>2. CASE q # p
          BY <3>1, <3>2, <3>3, <3>4, <4>2
        <4> QED BY <4>1, <4>2
      <3> QED BY <3>4 DEF MeetCrossed
    <2> QED BY <2>1, <2>2
  <1> QED BY <1>1, <1>5, <1>6, <1>7, <1>8, <1>9 DEF IInv

LEMMA ComesUpStep ==
  ASSUME IInv, NEW p \in Panels, ComesUp(p)
  PROVE  IInv'
  <1>0. crossed \subseteq crossed' /\ HasPort(p) /\ step' = [step EXCEPT ![p] = "up"]
    BY DEF ComesUp, HasPort
  <1>1. TypeOK'
    BY PanelAssumption DEF IInv, TypeOK, ComesUp, Steps, NoRecord, Record
  <1>a. \A q \in Panels : HasPort(q)' => HasPort(q)
    BY <1>0 DEF IInv, TypeOK, HasPort
  <1>2. PortIsHeld'
    BY <1>a DEF IInv, PortIsHeld, ComesUp
  <1>3. RecordIsPast'
    BY <1>1, PanelAssumption DEF IInv, TypeOK, RecordIsPast, ComesUp, Later
  <1>4. TakenAreDead'
    BY <1>1, PanelAssumption DEF IInv, TypeOK, TakenAreDead, ComesUp
  <1>5. DownIsOnLast'
    <2>1. \A q \in Panels : /\ step[q] \in Later => step'[q] = step[q]
                            /\ step'[q] = "dead" => step[q] = "dead"
      BY <1>0 DEF IInv, TypeOK, ComesUp, Later
    <2>2. cmd' = cmd /\ births' = births /\ taken' = taken
      BY DEF ComesUp
    <2>3. ASSUME NEW c \in Cmds, AtWork(c), step'[cmd[c].pid] = "dead",
                 NEW q \in Panels, step'[q] = "up"
          PROVE  q \in crossed'
      <3>1. cmd[c].pid \in Panels /\ step[cmd[c].pid] = "dead"
        BY <2>1, <2>3, CommandPid DEF IInv
      <3>2. CASE q = p
        BY <2>3, <3>1, <3>2 DEF ComesUp, WorksOn, AtWork
      <3>3. CASE q # p
        BY <1>0, <2>3, <3>1, <3>3 DEF IInv, TypeOK, DownIsOnLast
      <3> QED BY <3>2, <3>3
    <2>4. ASSUME NEW c \in Cmds, AtWork(c) \/ Offering(c)
          PROVE  /\ step'[cmd[c].pid] \in Later
                 /\ cmd[c].at = "answered" => step'[cmd[c].pid] # "up"
      BY <2>1, <2>4, CommandPid DEF IInv, DownIsOnLast
    <2>5. \A c \in Cmds : cmd[c].at = "answered" => AtWork(c)
      BY DEF AtWork
    <2>6. \A c \in Cmds : Signals(c) /\ births => cmd[c].pid \notin taken
      BY DEF IInv, DownIsOnLast
    <2> QED BY <2>2, <2>3, <2>4, <2>5, <2>6 DEF DownIsOnLast, AtWork, Offering, Signals
  <1>6. UpIsRecorded'
    <2> SUFFICES ASSUME NEW q \in Panels, step'[q] = "up", q \notin crossed'
                 PROVE  record'.pid = q
      BY DEF UpIsRecorded
    <2>1. CASE q = p
      BY <2>1 DEF ComesUp
    <2>2. CASE q # p
      <3>1. HasPort(q)
        BY <1>0, <2>2 DEF IInv, TypeOK, HasPort
      <3>2. q \in crossed
        BY <1>0, <2>2, <3>1 DEF IInv, MeetCrossed
      <3> QED BY <1>0, <3>2
    <2> QED BY <2>1, <2>2
  <1>7. StrangersSpared'
    BY DEF IInv, StrangersSpared, ComesUp
  <1>9. MeetCrossed'
    BY <1>0, <1>a DEF IInv, MeetCrossed
  <1> QED BY <1>1, <1>2, <1>3, <1>4, <1>5, <1>6, <1>7, <1>9 DEF IInv

LEMMA LetsGoStep ==
  ASSUME IInv, NEW p \in Panels, LetsGo(p) \/ Relistens(p)
  PROVE  IInv'
  <1>1. TypeOK'
    BY DEF IInv, TypeOK, LetsGo, Relistens
  <1>2. PortIsHeld'
    BY PanelAssumption DEF IInv, TypeOK, PortIsHeld, LetsGo, Relistens, HasPort
  <1>3. UNCHANGED <<births, step, record, taken, cmd, struck, crossed>>
    BY DEF LetsGo, Relistens
  <1> QED BY <1>1, <1>2, <1>3 DEF IInv, RecordIsPast, TakenAreDead, MeetCrossed, DownIsOnLast,
       UpIsRecorded, StrangersSpared, HasPort, AtWork, Offering, Signals

LEMMA DisposesStep ==
  ASSUME IInv, NEW p \in Panels, Disposes(p)
  PROVE  IInv'
  <1>1. TypeOK'
    BY PanelAssumption DEF IInv, TypeOK, Disposes, Steps, NoRecord, Record
  <1>2. Forward
    BY DEF IInv, TypeOK, Forward, Disposes, Steps, Later
  <1>3. NoneBegins
    BY DEF NoneBegins, AtWork, Offering, Signals, Disposes
  <1>4. record' = record \/ record' = NoRecord
    BY DEF Disposes
  <1>5. RecordIsPast' /\ TakenAreDead' /\ DownIsOnLast'
    BY <1>2, <1>3, <1>4, PastKept DEF Disposes
  <1>6. PortIsHeld'
    BY <1>1, PanelAssumption DEF IInv, TypeOK, PortIsHeld, Disposes, HasPort
  <1>7. UpIsRecorded'
    BY <1>1, PanelAssumption DEF IInv, TypeOK, UpIsRecorded, Disposes, MeetCrossed, HasPort,
       NoRecord
  <1>8. StrangersSpared'
    BY <1>1, PanelAssumption DEF IInv, TypeOK, StrangersSpared, Disposes, TakenAreDead
  <1>9. MeetCrossed'
    BY <1>1, PanelAssumption DEF IInv, TypeOK, Disposes, MeetCrossed, HasPort,
       NoRecord
  <1> QED BY <1>1, <1>5, <1>6, <1>7, <1>8, <1>9 DEF IInv

LEMMA DisposeFailsStep ==
  ASSUME IInv, NEW p \in Panels, DisposeFails(p)
  PROVE  IInv'
  <1>1. TypeOK'
    BY PanelAssumption DEF IInv, TypeOK, DisposeFails, Exits, Steps, NoRecord, Record
  <1>2. Forward
    BY DEF IInv, TypeOK, Forward, DisposeFails, Exits, Steps, Later
  <1>3. NoneBegins
    BY DEF NoneBegins, AtWork, Offering, Signals, DisposeFails
  <1>4. record' = record \/ record' = NoRecord
    BY DEF DisposeFails
  <1>5. RecordIsPast' /\ TakenAreDead' /\ DownIsOnLast'
    BY <1>2, <1>3, <1>4, PastKept DEF DisposeFails
  <1>6. PortIsHeld'
    BY <1>1, PanelAssumption DEF IInv, TypeOK, PortIsHeld, DisposeFails, Exits, HasPort
  <1>7. UpIsRecorded'
    BY <1>1, PanelAssumption DEF IInv, TypeOK, UpIsRecorded, DisposeFails, Exits,
       MeetCrossed, HasPort, NoRecord
  <1>8. StrangersSpared'
    BY <1>1, PanelAssumption DEF IInv, TypeOK, StrangersSpared, DisposeFails, Exits,
       TakenAreDead
  <1>9. MeetCrossed'
    BY <1>1, PanelAssumption DEF IInv, TypeOK, DisposeFails, Exits,
       MeetCrossed, HasPort
  <1> QED BY <1>1, <1>5, <1>6, <1>7, <1>8, <1>9 DEF IInv

LEMMA ClosesStep ==
  ASSUME IInv, NEW p \in Panels, Closes(p)
  PROVE  IInv'
  <1>1. TypeOK'
    BY PanelAssumption DEF IInv, TypeOK, Closes, Exits, Steps, NoRecord, Record
  <1>2. Forward
    BY DEF IInv, TypeOK, Forward, Closes, Exits, Steps, Later
  <1>3. NoneBegins
    BY DEF NoneBegins, AtWork, Offering, Signals, Closes
  <1>4. record' = record \/ record' = NoRecord
    BY DEF Closes
  <1>5. RecordIsPast' /\ TakenAreDead' /\ DownIsOnLast'
    BY <1>2, <1>3, <1>4, PastKept DEF Closes
  <1>6. PortIsHeld'
    BY <1>1, PanelAssumption DEF IInv, TypeOK, PortIsHeld, Closes, Exits, HasPort
  <1>7. UpIsRecorded'
    BY <1>1, PanelAssumption DEF IInv, TypeOK, UpIsRecorded, Closes, Exits, MeetCrossed,
       HasPort, NoRecord
  <1>8. StrangersSpared'
    BY <1>1, PanelAssumption DEF IInv, TypeOK, StrangersSpared, Closes, Exits, TakenAreDead
  <1>9. MeetCrossed'
    BY <1>1, PanelAssumption DEF IInv, TypeOK, Closes, Exits, MeetCrossed,
       HasPort
  <1> QED BY <1>1, <1>5, <1>6, <1>7, <1>8, <1>9 DEF IInv

LEMMA KilledStep ==
  ASSUME IInv, NEW p \in Panels, Killed(p)
  PROVE  IInv'
  <1>1. TypeOK'
    BY PanelAssumption DEF IInv, TypeOK, Killed, Exits, Steps, NoRecord, Record
  <1>2. Forward
    BY DEF IInv, TypeOK, Forward, Killed, Exits, Alive, Steps, Later
  <1>3. NoneBegins
    BY DEF NoneBegins, AtWork, Offering, Signals, Killed
  <1>4. record' = record \/ record' = NoRecord
    BY DEF Killed
  <1>5. RecordIsPast' /\ TakenAreDead' /\ DownIsOnLast'
    BY <1>2, <1>3, <1>4, PastKept DEF Killed
  <1>6. PortIsHeld'
    BY <1>1, PanelAssumption DEF IInv, TypeOK, PortIsHeld, Killed, Exits, Alive, HasPort
  <1>7. UpIsRecorded'
    BY <1>1, PanelAssumption DEF IInv, TypeOK, UpIsRecorded, Killed, Exits, Alive,
       MeetCrossed, HasPort, NoRecord
  <1>8. StrangersSpared'
    BY <1>1, PanelAssumption DEF IInv, TypeOK, StrangersSpared, Killed, Exits, Alive,
       TakenAreDead
  <1>9. MeetCrossed'
    BY <1>1, PanelAssumption DEF IInv, TypeOK, Killed, Exits, Alive,
       MeetCrossed, HasPort
  <1> QED BY <1>1, <1>5, <1>6, <1>7, <1>8, <1>9 DEF IInv

LEMMA InterruptedStep ==
  ASSUME IInv, NEW p \in Panels, Interrupted(p)
  PROVE  IInv'
  <1>1. TypeOK'
    BY PanelAssumption DEF IInv, TypeOK, Interrupted, Term, Exits, Shutdown, Steps,
       NoRecord, Record
  <1>2. Forward
    BY DEF IInv, TypeOK, Forward, Interrupted, Term, Answers, Exits, Shutdown, Alive, Steps,
       Later
  <1>3. NoneBegins
    BY DEF NoneBegins, AtWork, Offering, Signals, Interrupted
  <1>4. record' = record \/ record' = NoRecord
    BY DEF Interrupted, Term, Shutdown
  <1>5. RecordIsPast' /\ TakenAreDead' /\ DownIsOnLast'
    BY <1>2, <1>3, <1>4, PastKept DEF Interrupted
  <1>6. PortIsHeld'
    BY <1>1, PanelAssumption DEF IInv, TypeOK, PortIsHeld, Interrupted, Term, Answers,
       Exits, Shutdown, Alive, HasPort
  <1>7. UpIsRecorded'
    BY <1>1, PanelAssumption DEF IInv, TypeOK, UpIsRecorded, Interrupted, Term, Answers,
       Exits, Shutdown, Alive, MeetCrossed, HasPort, NoRecord
  <1>8. StrangersSpared'
    BY <1>1, PanelAssumption DEF IInv, TypeOK, StrangersSpared, Interrupted, Term, Answers,
       Exits, Shutdown, Alive, TakenAreDead
  <1>9. MeetCrossed'
    BY <1>1, PanelAssumption DEF IInv, TypeOK, Interrupted, Term, Answers,
       Exits, Shutdown, Alive, MeetCrossed, HasPort
  <1> QED BY <1>1, <1>5, <1>6, <1>7, <1>8, <1>9 DEF IInv

LEMMA WedgesStep ==
  ASSUME IInv, NEW p \in Panels, Wedges(p)
  PROVE  IInv'
  <1>1. TypeOK'
    BY PanelAssumption DEF IInv, TypeOK, Wedges, Steps, NoRecord, Record
  <1>2. Forward
    BY DEF IInv, TypeOK, Forward, Wedges, Steps, Later
  <1>3. NoneBegins
    BY DEF NoneBegins, AtWork, Offering, Signals, Wedges
  <1>4. record' = record \/ record' = NoRecord
    BY DEF Wedges
  <1>5. RecordIsPast' /\ TakenAreDead' /\ DownIsOnLast'
    BY <1>2, <1>3, <1>4, PastKept DEF Wedges
  <1>6. PortIsHeld'
    BY <1>1, PanelAssumption DEF IInv, TypeOK, PortIsHeld, Wedges, HasPort
  <1>7. UpIsRecorded'
    BY <1>1, PanelAssumption DEF IInv, TypeOK, UpIsRecorded, Wedges, MeetCrossed, HasPort,
       NoRecord
  <1>8. StrangersSpared'
    BY <1>1, PanelAssumption DEF IInv, TypeOK, StrangersSpared, Wedges, TakenAreDead
  <1>9. MeetCrossed'
    BY <1>1, PanelAssumption DEF IInv, TypeOK, Wedges, MeetCrossed, HasPort,
       NoRecord
  <1> QED BY <1>1, <1>5, <1>6, <1>7, <1>8, <1>9 DEF IInv

LEMMA PidReusedStep ==
  ASSUME IInv, NEW p \in Panels, PidReused(p)
  PROVE  IInv'
  <1>1. TypeOK'
    BY PanelAssumption DEF IInv, TypeOK, PidReused, Steps, NoRecord, Record
  <1>2. PortIsHeld'
    BY <1>1, PanelAssumption DEF IInv, TypeOK, PortIsHeld, PidReused, HasPort
  <1>3. RecordIsPast'
    BY <1>1, PanelAssumption DEF IInv, TypeOK, RecordIsPast, PidReused, Later
  <1>4. TakenAreDead'
    BY <1>1, PanelAssumption DEF IInv, TypeOK, TakenAreDead, PidReused
  <1>5. DownIsOnLast'
    BY <1>1, PanelAssumption DEF IInv, TypeOK, DownIsOnLast, PidReused, AtWork,
       Offering, Signals, Later
  <1>6. UpIsRecorded'
    BY <1>1, PanelAssumption DEF IInv, TypeOK, UpIsRecorded, PidReused, MeetCrossed, HasPort,
       NoRecord
  <1>7. StrangersSpared'
    BY <1>1, PanelAssumption DEF IInv, TypeOK, StrangersSpared, PidReused, TakenAreDead
  <1>9. MeetCrossed'
    BY <1>1, PanelAssumption DEF IInv, TypeOK, PidReused, MeetCrossed, HasPort,
       NoRecord
  <1> QED BY <1>1, <1>2, <1>3, <1>4, <1>5, <1>6, <1>7, <1>9 DEF IInv

LEMMA PidFreedStep ==
  ASSUME IInv, NEW p \in Panels, PidFreed(p)
  PROVE  IInv'
  <1>1. TypeOK'
    BY PanelAssumption DEF IInv, TypeOK, PidFreed, Steps, NoRecord, Record
  <1>2. PortIsHeld'
    BY <1>1, PanelAssumption DEF IInv, TypeOK, PortIsHeld, PidFreed, HasPort
  <1>3. RecordIsPast'
    BY <1>1, PanelAssumption DEF IInv, TypeOK, RecordIsPast, PidFreed, Later
  <1>4. TakenAreDead'
    BY <1>1, PanelAssumption DEF IInv, TypeOK, TakenAreDead, PidFreed
  <1>5. DownIsOnLast'
    BY <1>1, PanelAssumption DEF IInv, TypeOK, DownIsOnLast, PidFreed, AtWork,
       Offering, Signals, Later
  <1>6. UpIsRecorded'
    BY <1>1, PanelAssumption DEF IInv, TypeOK, UpIsRecorded, PidFreed, MeetCrossed, HasPort,
       NoRecord
  <1>7. StrangersSpared'
    BY <1>1, PanelAssumption DEF IInv, TypeOK, StrangersSpared, PidFreed, TakenAreDead
  <1>9. MeetCrossed'
    BY <1>1, PanelAssumption DEF IInv, TypeOK, PidFreed, MeetCrossed, HasPort,
       NoRecord
  <1> QED BY <1>1, <1>2, <1>3, <1>4, <1>5, <1>6, <1>7, <1>9 DEF IInv

LEMMA UpEndsStep ==
  ASSUME IInv, NEW c \in Cmds, UpEnds(c)
  PROVE  IInv'
  <1>0. /\ cmd' \in [Cmds -> Command]
        /\ cmd'[c].at = "idle" /\ \A d \in Cmds \ {c} : cmd'[d] = cmd[d]
    BY EndsType DEF IInv, UpEnds
  <1>1. TypeOK'
    BY PanelAssumption, <1>0 DEF IInv, TypeOK, UpEnds, Steps, NoRecord, Record
  <1>2. Forward
    BY <1>0 DEF IInv, TypeOK, Forward, UpEnds, Alive, Steps, Later
  <1>3. NoneBegins
    BY <1>0 DEF NoneBegins, AtWork, Offering, Signals, UpEnds
  <1>4. record' = record \/ record' = NoRecord
    BY DEF UpEnds
  <1>5. RecordIsPast' /\ TakenAreDead' /\ DownIsOnLast'
    BY <1>2, <1>3, <1>4, PastKept DEF UpEnds
  <1>6. PortIsHeld'
    BY <1>1, PanelAssumption, <1>0 DEF IInv, TypeOK, PortIsHeld, UpEnds, Alive, HasPort
  <1>7. UpIsRecorded'
    BY <1>1, PanelAssumption, <1>0 DEF IInv, TypeOK, UpIsRecorded, UpEnds, Alive,
       MeetCrossed, HasPort, NoRecord
  <1>8. StrangersSpared'
    BY <1>1, PanelAssumption, <1>0 DEF IInv, TypeOK, StrangersSpared, UpEnds, Alive,
       TakenAreDead
  <1>9. MeetCrossed'
    BY <1>1, PanelAssumption, <1>0 DEF IInv, TypeOK, UpEnds, Alive,
       MeetCrossed, HasPort
  <1> QED BY <1>1, <1>5, <1>6, <1>7, <1>8, <1>9 DEF IInv

LEMMA AsksStep ==
  ASSUME IInv, NEW c \in Cmds, Asks(c)
  PROVE  IInv'
  <1>0. /\ cmd' \in [Cmds -> Command]
        /\ cmd'[c].at = "waiting" /\ cmd'[c].pid = cmd[c].pid
        /\ \A d \in Cmds \ {c} : cmd'[d] = cmd[d]
    BY GoesOnType DEF IInv, Asks
  <1>a. cmd[c].pid \in Panels /\ AtWork(c) /\ Signals(c)
    BY CommandPid DEF IInv, Asks, AtWork, Signals
  <1>b. \/ Shutdown(cmd[c].pid, "call") \/ Term(cmd[c].pid, "signal")
        \/ UNCHANGED <<step, asked, record, listener, closed>>
    BY DEF Asks
  <1>1. TypeOK'
    BY ZenonT(60), PanelAssumption, <1>0, <1>a DEF IInv, TypeOK, Asks, Shutdown, Term, Exits, Steps,
       NoRecord, Record
  <1>2. Forward
    BY <1>a, <1>b, ShutdownKeeps DEF Forward, Asks
  <1>3. NoneBegins
    BY <1>0, <1>a DEF NoneBegins, AtWork, Offering, Signals, Asks
  <1>4. record' = record \/ record' = NoRecord
    BY DEF Asks, Shutdown, Term
  <1>5. RecordIsPast' /\ TakenAreDead' /\ DownIsOnLast'
    BY <1>2, <1>3, <1>4, PastKept DEF Asks
  <1>6. PortIsHeld'
    BY <1>1, PanelAssumption, <1>0, <1>a DEF IInv, TypeOK, PortIsHeld, Asks, Shutdown, Term,
       Hears, Alive, Exits, Answers, HasPort
  <1>7. UpIsRecorded'
    BY <1>a, <1>b, ShutdownKeeps DEF IInv, UpIsRecorded, Asks
  <1>8. StrangersSpared'
    BY <1>a DEF IInv, DownIsOnLast, StrangersSpared, Asks
  <1>9. MeetCrossed'
    BY <1>1, <1>a, <1>b DEF IInv, TypeOK, Asks, Shutdown, Term, Exits, MeetCrossed, HasPort
  <1> QED BY <1>1, <1>5, <1>6, <1>7, <1>8, <1>9 DEF IInv

LEMMA OffersStep ==
  ASSUME IInv, NEW c \in Cmds, Offers(c)
  PROVE  IInv'
  <1>a. cmd[c].pid \in Panels /\ Offering(c)
    BY CommandPid DEF IInv, Offers, Offering
  <1>0. /\ cmd' \in [Cmds -> Command]
        /\ \A d \in Cmds \ {c} : cmd'[d] = cmd[d]
        /\ \/ cmd'[c].at = "idle"
           \/ Hears(cmd[c].pid) /\ cmd'[c].at = "answered" /\ cmd'[c].pid = cmd[c].pid
    BY EndsType, GoesOnType DEF IInv, Offers
  <1>b. /\ Shutdown(cmd[c].pid, "call") \/ UNCHANGED <<step, asked, record, listener, closed>>
        /\ Hears(cmd[c].pid) => Shutdown(cmd[c].pid, "call")
        /\ UNCHANGED crossed
    BY DEF Offers
  <1>1. TypeOK'
    BY PanelAssumption, <1>0, <1>a DEF IInv, TypeOK, Offers, Shutdown, Steps, NoRecord, Record
  <1>2. Forward
    BY <1>a, <1>b, ShutdownKeeps DEF Forward
  <1>3. NoneBegins
    <2>1. Hears(cmd[c].pid) => step'[cmd[c].pid] \notin {"dead", "up"}
      BY <1>a, <1>b DEF IInv, TypeOK, Hears, Answers, Alive, Shutdown
    <2> QED BY <1>0, <1>a, <2>1 DEF NoneBegins, AtWork, Offering, Signals
  <1>4. record' = record \/ record' = NoRecord
    BY DEF Offers, Shutdown
  <1>5. RecordIsPast' /\ TakenAreDead' /\ DownIsOnLast'
    BY <1>2, <1>3, <1>4, PastKept DEF Offers
  <1>6. PortIsHeld'
    BY <1>1, PanelAssumption, <1>0 DEF IInv, TypeOK, PortIsHeld, Offers, Shutdown, Hears,
       Answers, Alive, HasPort
  <1>7. UpIsRecorded'
    BY <1>a, <1>b, ShutdownKeeps DEF IInv, UpIsRecorded
  <1>8. StrangersSpared'
    BY DEF IInv, StrangersSpared, Offers
  <1>9. MeetCrossed'
    BY <1>1, <1>a, <1>b DEF IInv, TypeOK, Shutdown, MeetCrossed, HasPort
  <1> QED BY <1>1, <1>5, <1>6, <1>7, <1>8, <1>9 DEF IInv

\* Whoever is up as an answered down deletes the record came up over the panel that answered, or
\* met it.
LEMMA ClearsStep ==
  ASSUME IInv, NEW c \in Cmds, Clears(c)
  PROVE  IInv'
  <1>0. /\ cmd' \in [Cmds -> Command]
        /\ cmd'[c].at = "idle" /\ \A d \in Cmds \ {c} : cmd'[d] = cmd[d]
    BY EndsType DEF IInv, Clears
  <1>a. cmd[c].pid \in Panels /\ AtWork(c) /\ cmd[c].at = "answered"
    BY CommandPid DEF IInv, Clears, AtWork
  <1>1. TypeOK'
    BY PanelAssumption, <1>0 DEF IInv, TypeOK, Clears
  <1>2. Forward
    BY DEF Forward, Clears
  <1>3. NoneBegins
    BY <1>0 DEF NoneBegins, AtWork, Offering, Signals, Clears
  <1>5. RecordIsPast' /\ TakenAreDead' /\ DownIsOnLast'
    BY <1>2, <1>3, PastKept DEF Clears
  <1>6. PortIsHeld'
    BY DEF IInv, PortIsHeld, Clears, HasPort
  <1>7. UpIsRecorded'
    <2> SUFFICES ASSUME NEW q \in Panels, step[q] = "up" PROVE q \in crossed
      BY DEF UpIsRecorded, Clears
    <2>1. step[cmd[c].pid] \in Later \ {"up"}
      BY <1>a DEF IInv, DownIsOnLast
    <2>2. CASE step[cmd[c].pid] = "dead"
      BY <1>a, <2>2 DEF IInv, DownIsOnLast
    <2>3. CASE step[cmd[c].pid] # "dead"
      <3>1. HasPort(cmd[c].pid) /\ HasPort(q) /\ q # cmd[c].pid
        BY <2>1, <2>3 DEF HasPort, Later
      <3> QED BY <1>a, <3>1 DEF IInv, MeetCrossed
    <2> QED BY <2>2, <2>3
  <1>8. StrangersSpared'
    BY DEF IInv, StrangersSpared, Clears
  <1>9. MeetCrossed'
    BY DEF IInv, MeetCrossed, Clears, HasPort
  <1> QED BY <1>1, <1>5, <1>6, <1>7, <1>8, <1>9 DEF IInv

LEMMA SeesExitStep ==
  ASSUME IInv, NEW c \in Cmds, SeesExit(c)
  PROVE  IInv'
  <1>0. /\ cmd' \in [Cmds -> Command]
        /\ cmd'[c].at = "idle" /\ \A d \in Cmds \ {c} : cmd'[d] = cmd[d]
    BY EndsType DEF IInv, SeesExit
  <1>a. cmd[c].pid \in Panels /\ AtWork(c)
    BY CommandPid DEF IInv, SeesExit, AtWork
  <1>b. step[cmd[c].pid] = "dead"
    BY <1>a DEF IInv, DownIsOnLast, SeesExit, PidIsThere, Alive, Later
  <1>1. TypeOK'
    BY PanelAssumption, <1>0 DEF IInv, TypeOK, SeesExit, Steps, NoRecord, Record
  <1>2. Forward
    BY <1>0 DEF IInv, TypeOK, Forward, SeesExit, Alive, Steps, Later
  <1>3. NoneBegins
    BY <1>0 DEF NoneBegins, AtWork, Offering, Signals, SeesExit
  <1>4. record' = record \/ record' = NoRecord
    BY DEF SeesExit
  <1>5. RecordIsPast' /\ TakenAreDead' /\ DownIsOnLast'
    BY <1>2, <1>3, <1>4, PastKept DEF SeesExit
  <1>6. PortIsHeld'
    BY <1>1, PanelAssumption, <1>0 DEF IInv, TypeOK, PortIsHeld, SeesExit, PidIsThere,
       Alive, HasPort
  <1>7. UpIsRecorded'
    BY <1>a, <1>b DEF IInv, DownIsOnLast, UpIsRecorded, SeesExit
  <1>8. StrangersSpared'
    BY <1>1, PanelAssumption, <1>0 DEF IInv, TypeOK, StrangersSpared, SeesExit, PidIsThere,
       Alive, TakenAreDead
  <1>9. MeetCrossed'
    BY DEF IInv, SeesExit, MeetCrossed, HasPort
  <1> QED BY <1>1, <1>5, <1>6, <1>7, <1>8, <1>9 DEF IInv

LEMMA ForcesStep ==
  ASSUME IInv, NEW c \in Cmds, Forces(c)
  PROVE  IInv'
  <1>0. /\ cmd' \in [Cmds -> Command]
        /\ cmd'[c].at = "forced" /\ cmd'[c].pid = cmd[c].pid
        /\ \A d \in Cmds \ {c} : cmd'[d] = cmd[d]
    BY GoesOnType DEF IInv, Forces
  <1>a. cmd[c].pid \in Panels /\ AtWork(c) /\ Signals(c)
    BY CommandPid DEF IInv, Forces, AtWork, Signals
  <1>1. TypeOK'
    BY PanelAssumption, <1>0 DEF IInv, TypeOK, Forces, Exits, Steps, NoRecord, Record
  <1>2. Forward
    BY <1>0 DEF IInv, TypeOK, Forward, Forces, Exits, Alive, Steps, Later
  <1>3. NoneBegins
    BY <1>0 DEF NoneBegins, AtWork, Offering, Signals, Forces
  <1>4. record' = record \/ record' = NoRecord
    BY DEF Forces
  <1>5. RecordIsPast' /\ TakenAreDead' /\ DownIsOnLast'
    BY <1>2, <1>3, <1>4, PastKept DEF Forces
  <1>6. PortIsHeld'
    BY <1>1, PanelAssumption, <1>0 DEF IInv, TypeOK, PortIsHeld, Forces, Exits, Alive,
       PidIsThere, HasPort
  <1>7. UpIsRecorded'
    BY <1>1, PanelAssumption, <1>0 DEF IInv, TypeOK, UpIsRecorded, Forces, Exits, Alive,
       PidIsThere, MeetCrossed, HasPort, NoRecord
  <1>8. StrangersSpared'
    BY <1>a DEF IInv, DownIsOnLast, StrangersSpared, Forces
  <1>9. MeetCrossed'
    BY <1>1, PanelAssumption, <1>0 DEF IInv, TypeOK, Forces, Exits, Alive,
       PidIsThere, MeetCrossed, HasPort
  <1> QED BY <1>1, <1>5, <1>6, <1>7, <1>8, <1>9 DEF IInv

LEMMA KeepsStep ==
  ASSUME IInv, NEW c \in Cmds, Keeps(c)
  PROVE  IInv'
  <1>0. /\ cmd' \in [Cmds -> Command]
        /\ cmd'[c].at = "idle" /\ \A d \in Cmds \ {c} : cmd'[d] = cmd[d]
    BY EndsType DEF IInv, Keeps
  <1>1. TypeOK'
    BY PanelAssumption, <1>0 DEF IInv, TypeOK, Keeps, Steps, NoRecord, Record
  <1>2. Forward
    BY <1>0 DEF IInv, TypeOK, Forward, Keeps, Alive, Steps, Later
  <1>3. NoneBegins
    BY <1>0 DEF NoneBegins, AtWork, Offering, Signals, Keeps
  <1>4. record' = record \/ record' = NoRecord
    BY DEF Keeps
  <1>5. RecordIsPast' /\ TakenAreDead' /\ DownIsOnLast'
    BY <1>2, <1>3, <1>4, PastKept DEF Keeps
  <1>6. PortIsHeld'
    BY <1>1, PanelAssumption, <1>0 DEF IInv, TypeOK, PortIsHeld, Keeps, PidIsThere, Alive,
       HasPort
  <1>7. UpIsRecorded'
    BY <1>1, PanelAssumption, <1>0 DEF IInv, TypeOK, UpIsRecorded, Keeps, PidIsThere, Alive,
       MeetCrossed, HasPort, NoRecord
  <1>8. StrangersSpared'
    BY <1>1, PanelAssumption, <1>0 DEF IInv, TypeOK, StrangersSpared, Keeps, PidIsThere,
       Alive, TakenAreDead
  <1>9. MeetCrossed'
    BY <1>1, PanelAssumption, <1>0 DEF IInv, TypeOK, Keeps, PidIsThere, Alive,
       MeetCrossed, HasPort
  <1> QED BY <1>1, <1>5, <1>6, <1>7, <1>8, <1>9 DEF IInv

LEMMA DownStep ==
  ASSUME IInv, NEW c \in Cmds, Down(c)
  PROVE  IInv'
  <1>0. /\ record # NoRecord /\ cmd' \in [Cmds -> Command]
        /\ \A d \in Cmds \ {c} : cmd'[d] = cmd[d]
        /\ \/ LooksGone /\ record' = NoRecord /\ cmd'[c] = Idle
           \/ /\ ~LooksGone /\ record' = record /\ cmd'[c].pid = record.pid
              /\ cmd'[c].at = IF LooksAlive THEN "asking" ELSE "offering"
    <2>1. CASE LooksGone
      BY <2>1, IdleType DEF IInv, TypeOK, Down, LooksGone, LooksAlive
    <2>2. CASE ~LooksGone /\ LooksAlive
      BY <2>2, BeginsType, RecordPid DEF IInv, Down
    <2>3. CASE ~LooksGone /\ ~LooksAlive
      BY <2>3, BeginsType, RecordPid DEF IInv, Down
    <2> QED BY <2>1, <2>2, <2>3
  <1>a. record \in Record /\ record.pid \in Panels
    BY <1>0, RecordPid DEF IInv
  <1>1. TypeOK'
    <2>1. \A d \in Cmds : cmd'[d].at # "idle" => cmd'[d].pid # NoPanel
      BY <1>0, <1>a, IdleType, PanelAssumption DEF IInv, TypeOK
    <2> QED BY <1>0, <2>1 DEF IInv, TypeOK, Down
  <1>2. PortIsHeld'
    BY <1>1, PanelAssumption, <1>0, <1>a DEF IInv, TypeOK, PortIsHeld, Down, LooksAlive,
       LooksGone, Liveness, Alive, HasPort
  <1>3. RecordIsPast'
    BY <1>1, PanelAssumption, <1>0, <1>a DEF IInv, TypeOK, RecordIsPast, Down, LooksAlive,
       LooksGone, Liveness, Alive, Later
  <1>4. TakenAreDead'
    BY <1>1, PanelAssumption, <1>0, <1>a DEF IInv, TypeOK, TakenAreDead, Down, LooksAlive,
       LooksGone, Liveness, Alive
  <1>5. DownIsOnLast'
    <2>0. UNCHANGED <<births, step, taken, crossed>>
      BY DEF Down
    <2>1. ASSUME NEW d \in Cmds, d # c
          PROVE  /\ cmd'[d] = cmd[d] /\ (AtWork(d)' <=> AtWork(d))
                 /\ (Offering(d)' <=> Offering(d)) /\ (Signals(d)' <=> Signals(d))
      BY <1>0, <2>1 DEF AtWork, Offering, Signals
    <2>2. AtWork(c)' \/ Offering(c)' => step[cmd'[c].pid] \in Later
      BY <1>0, IdleType DEF AtWork, Offering, IInv, RecordIsPast
    <2>3. AtWork(c)' => LooksAlive /\ cmd'[c].pid = record.pid /\ cmd'[c].at = "asking"
      BY <1>0, IdleType DEF AtWork
    <2>4. ASSUME AtWork(c)', step[cmd'[c].pid] = "dead", NEW q \in Panels, step[q] = "up"
          PROVE  q \in crossed
      BY <2>3, <2>4 DEF IInv, UpIsRecorded
    <2>5. cmd'[c].at # "answered"
      BY <1>0, IdleType
    <2>6. Signals(c)' /\ births => cmd'[c].pid \notin taken
      BY <2>3, <1>a DEF Signals, AtWork, LooksAlive, Liveness
    <2>7. ASSUME NEW d \in Cmds
          PROVE  /\ AtWork(d)' \/ Offering(d)' => step[cmd'[d].pid] \in Later
                 /\ AtWork(d)' /\ step[cmd'[d].pid] = "dead" =>
                       \A q \in Panels : step[q] = "up" => q \in crossed
                 /\ cmd'[d].at = "answered" => step[cmd'[d].pid] # "up"
                 /\ Signals(d)' /\ births => cmd'[d].pid \notin taken
      <3>1. CASE d = c
        BY <2>2, <2>4, <2>5, <2>6, <3>1
      <3>2. CASE d # c
        BY <2>1, <3>2 DEF IInv, DownIsOnLast
      <3> QED BY <3>1, <3>2
    <2> QED BY <2>0, <2>7 DEF DownIsOnLast
  <1>6. UpIsRecorded'
    BY <1>1, PanelAssumption, <1>0, <1>a DEF IInv, TypeOK, UpIsRecorded, Down, LooksAlive,
       LooksGone, Liveness, Alive, MeetCrossed, HasPort, NoRecord
  <1>7. StrangersSpared'
    BY <1>1, PanelAssumption, <1>0, <1>a DEF IInv, TypeOK, StrangersSpared, Down,
       LooksAlive, LooksGone, Liveness, Alive, TakenAreDead
  <1>9. MeetCrossed'
    BY <1>1, PanelAssumption, <1>0, <1>a DEF IInv, TypeOK, Down, LooksAlive,
       LooksGone, Liveness, Alive, MeetCrossed, HasPort
  <1> QED BY <1>1, <1>2, <1>3, <1>4, <1>5, <1>6, <1>7, <1>9 DEF IInv

LEMMA UpStep ==
  ASSUME IInv, NEW c \in Cmds, NEW p \in Panels, Up(c, p)
  PROVE  IInv'
  <1>0. /\ cmd' \in [Cmds -> Command]
        /\ cmd'[c].at = "starting" /\ cmd'[c].pid = p
        /\ \A d \in Cmds \ {c} : cmd'[d] = cmd[d]
    BY BeginsType DEF IInv, Up
  <1>1. TypeOK'
    BY PanelAssumption, <1>0 DEF IInv, TypeOK, Up, Tidied, Steps, NoRecord, Record
  <1>2. Forward
    BY <1>0 DEF IInv, TypeOK, Forward, Up, Alive, Steps, Later
  <1>3. NoneBegins
    BY <1>0 DEF NoneBegins, AtWork, Offering, Signals, Up
  <1>4. record' = record \/ record' = NoRecord
    BY DEF Up, Tidied
  <1>5. RecordIsPast' /\ TakenAreDead' /\ DownIsOnLast'
    BY <1>2, <1>3, <1>4, PastKept DEF Up
  <1>6. PortIsHeld'
    BY <1>1, PanelAssumption, <1>0 DEF IInv, TypeOK, PortIsHeld, Up, Tidied, LooksAlive,
       LooksGone, Liveness, Alive, HasPort
  <1>7. UpIsRecorded'
    BY <1>1, PanelAssumption, <1>0 DEF IInv, TypeOK, UpIsRecorded, Up, Tidied, LooksAlive,
       LooksGone, Liveness, Alive, MeetCrossed, HasPort, NoRecord
  <1>8. StrangersSpared'
    BY <1>1, PanelAssumption, <1>0 DEF IInv, TypeOK, StrangersSpared, Up, Tidied,
       LooksAlive, LooksGone, Liveness, Alive, TakenAreDead
  <1>9. MeetCrossed'
    BY <1>1, PanelAssumption, <1>0 DEF IInv, TypeOK, Up, Tidied, LooksAlive,
       LooksGone, Liveness, Alive, MeetCrossed, HasPort
  <1> QED BY <1>1, <1>5, <1>6, <1>7, <1>8, <1>9 DEF IInv

LEMMA TidiesStep ==
  ASSUME IInv, Tidies
  PROVE  IInv'
  <1>1. TypeOK'
    BY PanelAssumption DEF IInv, TypeOK, Tidies, Tidied, Steps, NoRecord, Record
  <1>2. Forward
    BY DEF IInv, TypeOK, Forward, Tidies, Alive, Steps, Later
  <1>3. NoneBegins
    BY DEF NoneBegins, AtWork, Offering, Signals, Tidies
  <1>4. record' = record \/ record' = NoRecord
    BY DEF Tidies, Tidied
  <1>5. RecordIsPast' /\ TakenAreDead' /\ DownIsOnLast'
    BY <1>2, <1>3, <1>4, PastKept DEF Tidies
  <1>6. PortIsHeld'
    BY <1>1, PanelAssumption DEF IInv, TypeOK, PortIsHeld, Tidies, Tidied, LooksGone,
       Liveness, Alive, HasPort
  <1>7. UpIsRecorded'
    BY <1>1, PanelAssumption DEF IInv, TypeOK, UpIsRecorded, Tidies, Tidied, LooksGone,
       Liveness, Alive, MeetCrossed, HasPort, NoRecord
  <1>8. StrangersSpared'
    BY <1>1, PanelAssumption DEF IInv, TypeOK, StrangersSpared, Tidies, Tidied, LooksGone,
       Liveness, Alive, TakenAreDead
  <1>9. MeetCrossed'
    BY <1>1, PanelAssumption DEF IInv, TypeOK, Tidies, Tidied, LooksGone,
       Liveness, Alive, MeetCrossed, HasPort
  <1> QED BY <1>1, <1>5, <1>6, <1>7, <1>8, <1>9 DEF IInv

LEMMA ClockStepsStep ==
  ASSUME IInv, ClockSteps
  PROVE  IInv'
  <1>1. TypeOK'
    BY PanelAssumption DEF IInv, TypeOK, ClockSteps, Steps, NoRecord, Record
  <1>2. PortIsHeld'
    BY <1>1, PanelAssumption DEF IInv, TypeOK, PortIsHeld, ClockSteps, HasPort
  <1>3. RecordIsPast'
    BY <1>1, PanelAssumption DEF IInv, TypeOK, RecordIsPast, ClockSteps, Later
  <1>4. TakenAreDead'
    BY <1>1, PanelAssumption DEF IInv, TypeOK, TakenAreDead, ClockSteps
  <1>5. DownIsOnLast'
    BY <1>1, PanelAssumption DEF IInv, TypeOK, DownIsOnLast, ClockSteps, AtWork,
       Offering, Signals, Later
  <1>6. UpIsRecorded'
    BY <1>1, PanelAssumption DEF IInv, TypeOK, UpIsRecorded, ClockSteps, MeetCrossed,
       HasPort, NoRecord
  <1>7. StrangersSpared'
    BY <1>1, PanelAssumption DEF IInv, TypeOK, StrangersSpared, ClockSteps, TakenAreDead
  <1>9. MeetCrossed'
    BY <1>1, PanelAssumption DEF IInv, TypeOK, ClockSteps, MeetCrossed,
       HasPort
  <1> QED BY <1>1, <1>2, <1>3, <1>4, <1>5, <1>6, <1>7, <1>9 DEF IInv

-----------------------------------------------------------------------------
LEMMA NextStep == ASSUME IInv, [Next]_vars PROVE IInv'
  <1>1. CASE UNCHANGED vars
    BY <1>1 DEF vars, IInv, TypeOK, PortIsHeld, RecordIsPast, TakenAreDead, MeetCrossed,
       DownIsOnLast, UpIsRecorded, StrangersSpared, HasPort, AtWork, Offering, Signals
  <1>2. ASSUME NEW p \in Panels, PanelStep(p) \/ LetsGo(p) \/ Relistens(p) \/ Killed(p)
                                 \/ Interrupted(p) \/ Wedges(p) \/ PidReused(p) \/ PidFreed(p)
        PROVE  IInv'
    BY <1>2, BootChecksStep, BootProbesStep, ListensStep, ComesUpStep, LetsGoStep, DisposesStep,
       DisposeFailsStep, ClosesStep, KilledStep, InterruptedStep, WedgesStep, PidReusedStep,
       PidFreedStep DEF PanelStep
  <1>3. ASSUME NEW c \in Cmds, CmdStep(c) \/ Down(c) \/ \E p \in Panels : Up(c, p)
        PROVE  IInv'
    BY <1>3, UpEndsStep, AsksStep, OffersStep, ClearsStep, SeesExitStep, ForcesStep,
       KeepsStep, DownStep, UpStep DEF CmdStep
  <1> QED BY <1>1, <1>2, <1>3, TidiesStep, ClockStepsStep DEF Next

THEOREM Invariance == Spec => []IInv
  <1>1. Init => IInv
    BY InitIInv
  <1>2. IInv /\ [Next]_vars => IInv'
    BY NextStep
  <1> QED BY <1>1, <1>2, PTL DEF Spec

\* Every state is of its type (TypeOK): what the files, the panels and the commands can be.
THEOREM TypeCorrect == Spec => []TypeOK
  <1>1. IInv => TypeOK
    BY DEF IInv
  <1> QED BY <1>1, Invariance, PTL

LEMMA OneHasPort == IInv => OneSupervisor /\ \A p, q \in Panels : Holds(p) /\ Holds(q) => p = q
  BY DEF IInv, PortIsHeld, HasPort, OneSupervisor, Holds, Supervises

\* Whatever commands cross and whichever panel dies, two panels have servers in hand only when one
\* of them has given up its port and not got it back.
THEOREM SupervisesAlone == Spec => []OneSupervisor
  <1>1. IInv => OneSupervisor
    BY OneHasPort
  <1> QED BY <1>1, Invariance, PTL

\* A panel that is up is the one run.json names, unless it crossed with one that gave up its port
\* or came up before a down was done with the one before.
THEOREM UpStaysOnRecord == Spec => []UpIsRecorded
  <1>1. IInv => UpIsRecorded
    BY DEF IInv
  <1> QED BY <1>1, Invariance, PTL

\* Where births can be read, no process that took over a pid is signalled.
THEOREM NoStrangerSignalled == Spec => []StrangersSpared
  <1>1. IInv => StrangersSpared
    BY DEF IInv
  <1> QED BY <1>1, Invariance, PTL

-----------------------------------------------------------------------------
(* The port is a lock.                                                     *)

OneHolds == \A p, q \in Panels : Holds(p) /\ Holds(q) => p = q

LEMMA OwnerHolds ==
  /\ OneHolds => \A p \in Panels : Holds(p) => Owner = p
  /\ (\A p \in Panels : ~Holds(p)) => Owner = NoPanel
  BY PanelAssumption DEF Owner, OneHolds

LEMMA OwnerHoldsNext ==
  /\ OneHolds' => \A p \in Panels : Holds(p)' => Owner' = p
  /\ (\A p \in Panels : ~Holds(p)') => Owner' = NoPanel
  BY PanelAssumption DEF Owner, OneHolds

\* What a step does to who holds the lock: nothing, one begins while nobody does, or one ends.
HandsOver ==
    \/ \A q \in Panels : Holds(q)' <=> Holds(q)
    \/ \E p \in Panels : (\A q \in Panels : ~Holds(q)) /\ (\A q \in Panels : Holds(q)' <=> q = p)
    \/ \A q \in Panels : ~Holds(q)'

LEMMA NobodyHolds == ASSUME IInv, listener = NoPanel PROVE \A q \in Panels : ~Holds(q)
  BY PanelAssumption DEF IInv, PortIsHeld, HasPort, Holds, Supervises

\* A step that moves one panel on, or ends it, gives nobody the lock.
LEMMA MovesOn ==
  ASSUME IInv, NEW p \in Panels, NEW s \in Steps, step' = [step EXCEPT ![p] = s],
         s \in {"listening", "up", "stopping", "half"} => Supervises(p),
         closed' = closed \/ (s = "dead" /\ closed' = closed \ {p})
  PROVE  HandsOver
  <1>1. \A q \in Panels \ {p} : Holds(q)' <=> Holds(q)
    BY DEF Holds, Supervises, IInv, TypeOK
  <1>2. Holds(p)' => Holds(p)
    BY DEF Holds, Supervises, IInv, TypeOK
  <1>3. CASE Holds(p)'
    BY <1>1, <1>2, <1>3 DEF HandsOver
  <1>4. CASE ~Holds(p)
    BY <1>1, <1>2, <1>4 DEF HandsOver
  <1>5. CASE ~Holds(p)' /\ Holds(p)
    BY <1>1, <1>5, OneHasPort DEF HandsOver
  <1> QED BY <1>3, <1>4, <1>5

LEMMA StaysAsItIs == ASSUME UNCHANGED <<step, closed>> PROVE HandsOver
  BY DEF HandsOver, Holds, Supervises

LEMMA EndsHandsOver ==
  ASSUME IInv, NEW p \in Panels, Exits(p) PROVE HandsOver
  BY MovesOn DEF Exits, Steps

LEMMA ShutdownHandsOver ==
  ASSUME IInv, NEW p \in Panels, NEW who, Shutdown(p, who) \/ Term(p, who) PROVE HandsOver
  <1>1. CASE Exits(p)
    BY <1>1, EndsHandsOver
  <1>2. CASE step' = [step EXCEPT ![p] = "stopping"] /\ step[p] = "up" /\ UNCHANGED closed
    BY <1>2, MovesOn DEF Supervises, Steps
  <1>3. CASE UNCHANGED <<step, closed>>
    BY <1>3, StaysAsItIs
  <1> QED BY <1>1, <1>2, <1>3 DEF Shutdown, Term

\* A panel that listens, at first or again, finds the lock free.
LEMMA TakesFree ==
  ASSUME IInv, NEW p \in Panels, listener = NoPanel,
         \A q \in Panels \ {p} : Holds(q)' => Holds(q)
  PROVE  HandsOver
  BY NobodyHolds DEF HandsOver

LEMMA StepHandsOver == ASSUME IInv, [Next]_vars PROVE HandsOver
  <1>1. ASSUME NEW p \in Panels, PanelStep(p) \/ Killed(p) PROVE HandsOver
    <2>1. CASE Exits(p)
      BY <2>1, EndsHandsOver
    <2>2. ASSUME NEW s \in Steps, step' = [step EXCEPT ![p] = s], UNCHANGED closed,
                 s \in {"listening", "up", "stopping", "half"} => Supervises(p)
          PROVE  HandsOver
      BY <2>2, MovesOn
    <2>3. CASE Listens(p) /\ ~Exits(p)
      <3>1. listener = NoPanel /\ step' = [step EXCEPT ![p] = "listening"] /\ closed' = closed
        BY <2>3 DEF Listens
      <3>2. \A q \in Panels \ {p} : Holds(q)' => Holds(q)
        BY <3>1 DEF Holds, Supervises, IInv, TypeOK
      <3> QED BY <3>1, <3>2, TakesFree
    <2>4. CASE BootChecks(p) /\ ~Exits(p)
      BY <2>2, <2>4 DEF BootChecks, Steps
    <2>5. CASE BootProbes(p) /\ ~Exits(p)
      BY <2>2, <2>5 DEF BootProbes, Steps
    <2>6. CASE ComesUp(p)
      BY <2>2, <2>6 DEF ComesUp, Steps, Supervises
    <2>7. CASE Disposes(p)
      BY <2>2, <2>7 DEF Disposes, Steps
    <2>8. CASE DisposeFails(p) /\ ~Exits(p)
      BY <2>2, <2>8 DEF DisposeFails, Steps, Supervises
    <2>9. CASE Closes(p) \/ Killed(p)
      BY <2>1, <2>9 DEF Closes, Killed
    <2> QED BY <1>1, <2>1, <2>3, <2>4, <2>5, <2>6, <2>7, <2>8, <2>9 DEF PanelStep
  <1>2. ASSUME NEW p \in Panels, LetsGo(p) PROVE HandsOver
    <2>2. \A q \in Panels \ {p} : Holds(q)' <=> Holds(q)
      BY <1>2 DEF LetsGo, Holds, Supervises
    <2>3. ~Holds(p)'
      BY <1>2 DEF LetsGo, Holds, IInv, TypeOK
    <2>4. CASE Holds(p)
      BY <2>2, <2>3, <2>4, OneHasPort DEF HandsOver
    <2>5. CASE ~Holds(p)
      BY <2>2, <2>3, <2>5 DEF HandsOver
    <2> QED BY <2>4, <2>5
  <1>3. ASSUME NEW p \in Panels, Relistens(p) PROVE HandsOver
    <2>1. \A q \in Panels \ {p} : Holds(q)' => Holds(q)
      BY <1>3 DEF Relistens, Holds, Supervises
    <2> QED BY <1>3, <2>1, TakesFree DEF Relistens
  <1>4. ASSUME NEW p \in Panels, Interrupted(p) PROVE HandsOver
    BY <1>4, ShutdownHandsOver DEF Interrupted
  <1>5. ASSUME NEW p \in Panels, Wedges(p) \/ PidReused(p) \/ PidFreed(p) PROVE HandsOver
    BY <1>5, StaysAsItIs DEF Wedges, PidReused, PidFreed
  <1>6. ASSUME NEW c \in Cmds, CmdStep(c) \/ Down(c) \/ \E p \in Panels : Up(c, p)
        PROVE  HandsOver
    <2>1. CASE UpEnds(c) \/ Clears(c) \/ SeesExit(c) \/ Keeps(c) \/ Down(c)
      BY <2>1, StaysAsItIs DEF UpEnds, Clears, SeesExit, Keeps, Down
    <2>2. CASE Asks(c) \/ Offers(c)
      <3>1. cmd[c].pid \in Panels
        BY <2>2, CommandPid DEF IInv, Asks, Offers
      <3> QED BY <2>2, <3>1, ShutdownHandsOver, StaysAsItIs DEF Asks, Offers
    <2>3. CASE Forces(c)
      <3>1. cmd[c].pid \in Panels
        BY <2>3, CommandPid DEF IInv, Forces
      <3> QED BY <2>3, <3>1, EndsHandsOver, StaysAsItIs DEF Forces
    <2>4. ASSUME NEW p \in Panels, Up(c, p) PROVE HandsOver
      BY <2>4, MovesOn DEF Up, Steps
    <2> QED BY <1>6, <2>1, <2>2, <2>3, <2>4 DEF CmdStep
  <1>7. CASE Tidies \/ ClockSteps \/ UNCHANGED vars
    BY <1>7, StaysAsItIs DEF Tidies, ClockSteps, vars
  <1> QED BY <1>1, <1>2, <1>3, <1>4, <1>5, <1>6, <1>7 DEF Next

\* The panel's processes implement an exclusive owner: the one that supervises and has not given
\* up its port.
THEOREM PortIsALock == Spec => IsALock
  <1>1. Init => Lock!Init
    BY OwnerHolds DEF Init, Lock!Init, Holds, Supervises
  <1>2. IInv /\ IInv' /\ [Next]_vars => [Lock!Next]_Owner
    <2> SUFFICES ASSUME IInv, IInv', [Next]_vars PROVE [Lock!Next]_Owner
      OBVIOUS
    <2>1. OneHolds /\ OneHolds'
      BY DEF IInv, PortIsHeld, HasPort, OneHolds, Holds, Supervises
    <2>2. CASE \A q \in Panels : Holds(q)' <=> Holds(q)
      <3>1. Owner' = Owner
        BY <2>1, <2>2, OwnerHolds, OwnerHoldsNext
      <3> QED BY <3>1
    <2>3. ASSUME NEW p \in Panels, \A q \in Panels : ~Holds(q),
                 \A q \in Panels : Holds(q)' <=> q = p
          PROVE  Lock!Takes(p)
      BY <2>1, <2>3, OwnerHolds, OwnerHoldsNext DEF Lock!Takes
    <2>4. CASE \A q \in Panels : ~Holds(q)'
      <3>1. Owner' = NoPanel
        BY <2>4, OwnerHoldsNext
      <3> QED BY <3>1 DEF Lock!Next, Lock!Leaves
    <2> QED BY <2>2, <2>3, <2>4, StepHandsOver DEF HandsOver, Lock!Next
  <1> QED BY <1>1, <1>2, Invariance, PTL DEF Spec, IsALock, Lock!Spec
=============================================================================
