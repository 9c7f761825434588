-------------------------------- MODULE Panel --------------------------------
(***************************************************************************)
(* The panel's process and the commands that start and stop it             *)
(* (index.ts, cli/up.ts, cli/down.ts, helpers/daemon.ts).  Nothing locks   *)
(* the state directory: a panel is found through run.json, which names a   *)
(* pid the kernel may hand to somebody else, and kept alone by the port it *)
(* listens on, which it gives up for a moment to listen anew with another  *)
(* certificate or setting.  Several up and down commands may be under way. *)
(*                                                                         *)
(* Assumed: every panel is started on the same port and nobody moves it to *)
(* another; the wall clock is stepped forward only; a pid is not reused    *)
(* while a down that read it is at work; nobody edits run.json.            *)
(***************************************************************************)
EXTENDS Naturals, FiniteSets

CONSTANTS
    Panels,    \* panel processes that may be started
    Cmds,      \* terminals a person types in
    NoPanel    \* nobody, no pid

ASSUME PanelAssumption == NoPanel \notin Panels

VARIABLES
    births,    \* whether the platform tells when a process was born
    step,      \* step[p]: where the panel is between its spawn and its exit
    asked,     \* asked[p]: what began its shutdown
    wedged,    \* wedged[p]: its event loop is blocked; or not even SIGKILL ends it
    listener,  \* the panel that listens on the port
    closed,    \* panels that gave the port up and have not got it back
    record,    \* run.json
    taken,     \* pids of dead panels that are other processes now
    cmd,       \* cmd[c]: the command under way in a terminal
    struck,    \* history: another process was signalled
    crossed    \* history: panels that shared the servers with one that had given up its port, or
               \* came up before a down was done with the one before

vars == <<births, step, asked, wedged, listener, closed, record, taken, cmd, struck, crossed>>

Steps == {"unborn", "boot", "checked", "probed", "listening", "up", "stopping", "disposed",
          "half", "dead"}

\* stepped: the clock was moved forward since the record was written.
NoRecord == [pid |-> NoPanel, stepped |-> FALSE]
Record   == [pid: Panels, stepped: BOOLEAN]

Idle    == [at |-> "idle", pid |-> NoPanel]
Command == [at: {"idle", "starting", "asking", "offering", "answered", "waiting", "forced"},
            pid: Panels \cup {NoPanel}]

Alive(p)    == step[p] \notin {"unborn", "dead"}
Answers(p)  == Alive(p) /\ wedged[p] = "no"
\* It has the engine or the servers in hand, and has not let them all go.
Supervises(p) == step[p] \in {"listening", "up", "stopping", "half"}

\* Slip: the pid alone is asked.
Liveness_Pid(r) == IF ~Alive(r.pid) /\ r.pid \notin taken THEN "gone" ELSE "live"

\* processLiveness: the pid, and if it can be read the birth of whoever has it now, which seems
\* to move with the clock.
Liveness(r) ==
    IF ~Alive(r.pid) /\ r.pid \notin taken THEN "gone"
    ELSE IF ~births THEN "unknown"
    ELSE IF r.pid \in taken \/ r.stepped THEN "recycled"
    ELSE "live"

LooksAlive == record # NoRecord /\ Liveness(record) \in {"live", "unknown"}
LooksGone  == record # NoRecord /\ Liveness(record) = "gone"

-----------------------------------------------------------------------------
Init ==
    /\ births \in BOOLEAN
    /\ step = [p \in Panels |-> "unborn"]
    /\ asked = [p \in Panels |-> "nobody"]
    /\ wedged = [p \in Panels |-> "no"]
    /\ listener = NoPanel
    /\ closed = {}
    /\ record = NoRecord
    /\ taken = {}
    /\ cmd = [c \in Cmds |-> Idle]
    /\ struck = FALSE
    /\ crossed = {}

-----------------------------------------------------------------------------
(* A panel boots, serves and shuts down.                                   *)

Exits(p) ==
    /\ step' = [step EXCEPT ![p] = "dead"]
    /\ listener' = IF listener = p THEN NoPanel ELSE listener
    /\ closed' = closed \ {p}

\* Slip: a record that does not look alive is deleted.
Tidied_IfNotAlive == IF LooksAlive THEN record ELSE NoRecord

\* A record is deleted only when nothing is behind its pid.
Tidied == IF LooksGone THEN NoRecord ELSE record

\* It gives up when a record names a panel that lives.
BootChecks(p) ==
    /\ step[p] = "boot"
    /\ IF LooksAlive THEN Exits(p) /\ UNCHANGED record
       ELSE /\ record' = Tidied
            /\ step' = [step EXCEPT ![p] = "checked"]
            /\ UNCHANGED <<listener, closed>>
    /\ UNCHANGED <<births, asked, wedged, taken, cmd, struck, crossed>>

\* isPortFree: an answer that is old when the panel listens.
BootProbes(p) ==
    /\ step[p] = "checked"
    /\ IF listener # NoPanel THEN Exits(p)
       ELSE step' = [step EXCEPT ![p] = "probed"] /\ UNCHANGED <<listener, closed>>
    /\ UNCHANGED <<births, asked, wedged, record, taken, cmd, struck, crossed>>

\* Slip: a listener that could not bind is taken for one that did.
Listens_Unbound(p) ==
    /\ step[p] = "probed"
    /\ step' = [step EXCEPT ![p] = "listening"]
    /\ listener' = IF listener = NoPanel THEN p ELSE listener
    /\ UNCHANGED <<births, asked, wedged, closed, record, taken, cmd, struck, crossed>>

\* It listens, and starts or finds the proxy's engine; or three tries find the port taken.  One
\* that gave the port up may still be there, with its servers.
Listens(p) ==
    /\ step[p] = "probed"
    /\ IF listener # NoPanel THEN Exits(p) /\ UNCHANGED crossed
       ELSE /\ step' = [step EXCEPT ![p] = "listening"]
            /\ listener' = p
            /\ crossed' = crossed \cup (IF closed = {} THEN {} ELSE closed \cup {p})
            /\ UNCHANGED closed
    /\ UNCHANGED <<births, asked, wedged, record, taken, cmd, struck>>

\* A down works on a panel: it waits for its exit, or has its answer, and deletes the record then.
WorksOn(c, p) == cmd[c].at \in {"asking", "answered", "waiting", "forced"} /\ cmd[c].pid = p

\* It writes its record over whatever is there, starts its servers and listens to signals.
ComesUp(p) ==
    /\ step[p] = "listening"
    /\ step' = [step EXCEPT ![p] = "up"]
    /\ record' = [pid |-> p, stepped |-> FALSE]
    /\ crossed' = IF \E c \in Cmds, q \in Panels : WorksOn(c, q) /\ step[q] = "dead"
                  THEN crossed \cup {p} ELSE crossed
    /\ UNCHANGED <<births, asked, wedged, listener, closed, taken, cmd, struck>>

\* restart(): the listener is closed, for a new certificate or setting ...
LetsGo(p) ==
    /\ Supervises(p) /\ Answers(p)
    /\ listener = p
    /\ listener' = NoPanel
    /\ closed' = closed \cup {p}
    /\ UNCHANGED <<births, step, asked, wedged, record, taken, cmd, struck, crossed>>

\* ... and bound again.  That may fail, for a port that is taken or a pair it cannot serve, and
\* is not tried again: the panel stays up and listens nowhere.
Relistens(p) ==
    /\ p \in closed /\ Answers(p)
    /\ listener = NoPanel
    /\ listener' = p
    /\ closed' = closed \ {p}
    /\ UNCHANGED <<births, step, asked, wedged, record, taken, cmd, struck, crossed>>

\* Slip: the port is given back before the servers are stopped.
Shutdown_ClosesFirst(p, who) ==
    IF step[p] = "up" /\ wedged[p] = "no"
    THEN /\ step' = [step EXCEPT ![p] = "stopping"]
         /\ asked' = [asked EXCEPT ![p] = who]
         /\ record' = NoRecord
         /\ listener' = NoPanel
         /\ UNCHANGED closed
    ELSE UNCHANGED <<step, asked, record, listener, closed>>

\* shutdown(): once; the record goes first, then the servers, then the port.
Shutdown(p, who) ==
    IF step[p] = "up" /\ wedged[p] = "no"
    THEN /\ step' = [step EXCEPT ![p] = "stopping"]
         /\ asked' = [asked EXCEPT ![p] = who]
         /\ record' = NoRecord
         /\ UNCHANGED <<listener, closed>>
    ELSE UNCHANGED <<step, asked, record, listener, closed>>

\* A SIGTERM before the handlers are there ends the process.
Term(p, who) ==
    IF step[p] \in {"boot", "checked", "probed", "listening"}
    THEN Exits(p) /\ UNCHANGED <<asked, record>>
    ELSE Shutdown(p, who)

\* Every server is stopped ...
Disposes(p) ==
    /\ step[p] = "stopping" /\ wedged[p] = "no"
    /\ step' = [step EXCEPT ![p] = "disposed"]
    /\ UNCHANGED <<births, asked, wedged, listener, closed, record, taken, cmd, struck, crossed>>

\* ... or that failed: a signal's shutdown ends the process all the same, a call's does not.
DisposeFails(p) ==
    /\ step[p] = "stopping" /\ wedged[p] = "no"
    /\ IF asked[p] = "signal" THEN Exits(p)
       ELSE step' = [step EXCEPT ![p] = "half"] /\ UNCHANGED <<listener, closed>>
    /\ UNCHANGED <<births, asked, wedged, record, taken, cmd, struck, crossed>>

\* The listener is closed, the process ends.
Closes(p) ==
    /\ step[p] = "disposed" /\ wedged[p] = "no"
    /\ Exits(p)
    /\ UNCHANGED <<births, asked, wedged, record, taken, cmd, struck, crossed>>

-----------------------------------------------------------------------------
(* The commands.  One that finds nothing to do changes nothing; what a     *)
(* command prints as it ends is left out.                                  *)

\* up spawns a detached panel unless the record names one that lives.
Up(c, p) ==
    /\ cmd[c].at = "idle"
    /\ ~LooksAlive
    /\ step[p] = "unborn"
    /\ record' = Tidied
    /\ step' = [step EXCEPT ![p] = "boot"]
    /\ cmd' = [cmd EXCEPT ![c] = [at |-> "starting", pid |-> p]]
    /\ UNCHANGED <<births, asked, wedged, listener, closed, taken, struck, crossed>>

Ends(c) == cmd' = [cmd EXCEPT ![c] = Idle]

\* waitForStartup: the record names the child; or the child is gone; or 20 s are over, and the
\* child is left to itself.
UpEnds(c) ==
    /\ cmd[c].at = "starting"
    /\ Ends(c)
    /\ UNCHANGED <<births, step, asked, wedged, listener, closed, record, taken, struck, crossed>>

\* down goes by the record's liveness.
Down(c) ==
    /\ cmd[c].at = "idle"
    /\ record # NoRecord
    /\ CASE LooksGone  -> record' = NoRecord /\ cmd' = [cmd EXCEPT ![c] = Idle]
         [] LooksAlive -> /\ cmd' = [cmd EXCEPT ![c] = [at |-> "asking", pid |-> record.pid]]
                          /\ UNCHANGED record
         [] OTHER      -> /\ cmd' = [cmd EXCEPT ![c] = [at |-> "offering", pid |-> record.pid]]
                          /\ UNCHANGED record
    /\ UNCHANGED <<births, step, asked, wedged, listener, closed, taken, struck, crossed>>

\* POST /_hh/shutdown with the record's token, which only the panel that wrote it honours.
Hears(p) == listener = p /\ Answers(p)

\* The pid answered as alive: asked by call, or else signalled.
Asks(c) ==
    LET p == cmd[c].pid
    IN  /\ cmd[c].at = "asking"
        /\ IF Hears(p) THEN Shutdown(p, "call") /\ UNCHANGED struck
           ELSE IF Alive(p) THEN Term(p, "signal") /\ UNCHANGED struck
           ELSE /\ struck' = (struck \/ p \in taken)
                /\ UNCHANGED <<step, asked, record, listener, closed>>
        /\ cmd' = [cmd EXCEPT ![c].at = "waiting"]
        /\ UNCHANGED <<births, wedged, taken, crossed>>

\* The pid looked recycled: asked by call, and left alone otherwise.
Offers(c) ==
    LET p == cmd[c].pid
    IN  /\ cmd[c].at = "offering"
        /\ IF Hears(p)
           THEN /\ Shutdown(p, "call")
                /\ cmd' = [cmd EXCEPT ![c].at = "answered"]
           ELSE /\ Ends(c)
                /\ UNCHANGED <<step, asked, listener, closed, record>>
        /\ UNCHANGED <<births, wedged, taken, struck, crossed>>

\* The call was answered: the record is deleted, whosever it is by now.
Clears(c) ==
    /\ cmd[c].at = "answered"
    /\ record' = NoRecord
    /\ Ends(c)
    /\ UNCHANGED <<births, step, asked, wedged, listener, closed, taken, struck, crossed>>

\* isProcessAlive.
PidIsThere(p) == Alive(p) \/ p \in taken

\* waitForExit saw the process gone: the record is deleted, whosever it is by now.
SeesExit(c) ==
    /\ cmd[c].at \in {"waiting", "forced"}
    /\ ~PidIsThere(cmd[c].pid)
    /\ record' = NoRecord
    /\ Ends(c)
    /\ UNCHANGED <<births, step, asked, wedged, listener, closed, taken, struck, crossed>>

\* Slip: nothing is forced; the command waits on.
Forces_Never(c) == FALSE

\* 20 s are over: SIGKILL.
Forces(c) ==
    LET p == cmd[c].pid
    IN  /\ cmd[c].at = "waiting"
        /\ PidIsThere(p)
        /\ IF Alive(p) /\ wedged[p] # "hard" THEN Exits(p) ELSE UNCHANGED <<step, listener, closed>>
        /\ struck' = (struck \/ p \in taken)
        /\ cmd' = [cmd EXCEPT ![c].at = "forced"]
        /\ UNCHANGED <<births, asked, wedged, record, taken, crossed>>

\* Slip: the forced stop's outcome is not asked for.
Keeps_Clears(c) ==
    /\ cmd[c].at = "forced"
    /\ PidIsThere(cmd[c].pid)
    /\ record' = NoRecord
    /\ Ends(c)
    /\ UNCHANGED <<births, step, asked, wedged, listener, closed, taken, struck, crossed>>

\* 5 s more: it is still there, so its record is kept and the command refuses.
Keeps(c) ==
    /\ cmd[c].at = "forced"
    /\ PidIsThere(cmd[c].pid)
    /\ Ends(c)
    /\ UNCHANGED <<births, step, asked, wedged, listener, closed, record, taken, struck, crossed>>

\* start, stop, usage and backup delete a record with nothing behind it too.
Tidies ==
    /\ LooksGone
    /\ record' = Tidied
    /\ UNCHANGED <<births, step, asked, wedged, listener, closed, taken, cmd, struck, crossed>>

-----------------------------------------------------------------------------
(* The surroundings.                                                       *)

\* kill -9, or the machine takes the process.
Killed(p) ==
    /\ Alive(p)
    /\ Exits(p)
    /\ UNCHANGED <<births, asked, wedged, record, taken, cmd, struck, crossed>>

\* ^C, or a service manager's SIGTERM.
Interrupted(p) ==
    /\ Answers(p)
    /\ Term(p, "signal")
    /\ UNCHANGED <<births, wedged, taken, cmd, struck, crossed>>

Wedges(p) ==
    /\ step[p] \in {"up", "stopping"} /\ wedged[p] = "no"
    /\ \E how \in {"loop", "hard"} : wedged' = [wedged EXCEPT ![p] = how]
    /\ UNCHANGED <<births, step, asked, listener, closed, record, taken, cmd, struck, crossed>>

\* The kernel hands out the pid in the record again; and that process ends.
PidReused(p) ==
    /\ step[p] = "dead" /\ record.pid = p /\ p \notin taken
    /\ \A c \in Cmds : cmd[c].at = "idle" \/ cmd[c].pid # p
    /\ taken' = taken \cup {p}
    /\ UNCHANGED <<births, step, asked, wedged, listener, closed, record, cmd, struck, crossed>>

PidFreed(p) ==
    /\ p \in taken
    /\ taken' = taken \ {p}
    /\ UNCHANGED <<births, step, asked, wedged, listener, closed, record, cmd, struck, crossed>>

ClockSteps ==
    /\ record # NoRecord /\ ~record.stepped
    /\ record' = [record EXCEPT !.stepped = TRUE]
    /\ UNCHANGED <<births, step, asked, wedged, listener, closed, taken, cmd, struck, crossed>>

-----------------------------------------------------------------------------
PanelStep(p) == BootChecks(p) \/ BootProbes(p) \/ Listens(p) \/ ComesUp(p) \/ Disposes(p)
                \/ DisposeFails(p) \/ Closes(p)
CmdStep(c)   == UpEnds(c) \/ Asks(c) \/ Offers(c) \/ Clears(c) \/ SeesExit(c) \/ Forces(c)
                \/ Keeps(c)

Next ==
    \/ \E p \in Panels : PanelStep(p) \/ LetsGo(p) \/ Relistens(p) \/ Killed(p) \/ Interrupted(p)
                         \/ Wedges(p) \/ PidReused(p) \/ PidFreed(p)
    \/ \E c \in Cmds : CmdStep(c) \/ Down(c) \/ \E p \in Panels : Up(c, p)
    \/ Tidies
    \/ ClockSteps

\* A process that is not wedged goes on, and so does a command; nobody has to type one, and a
\* listener need not come back.
Fairness == /\ \A p \in Panels : WF_vars(PanelStep(p))
            /\ \A c \in Cmds : WF_vars(CmdStep(c))

Spec == Init /\ [][Next]_vars /\ Fairness

-----------------------------------------------------------------------------
TypeOK ==
    /\ births \in BOOLEAN /\ struck \in BOOLEAN
    /\ step \in [Panels -> Steps]
    /\ asked \in [Panels -> {"nobody", "signal", "call"}]
    /\ wedged \in [Panels -> {"no", "loop", "hard"}]
    /\ listener \in Panels \cup {NoPanel}
    /\ closed \subseteq Panels /\ crossed \subseteq Panels
    /\ record \in Record \cup {NoRecord}
    /\ taken \subseteq Panels
    /\ cmd \in [Cmds -> Command]
    /\ \A c \in Cmds : cmd[c].at # "idle" => cmd[c].pid # NoPanel

WaitedOn(p) == \E c \in Cmds : cmd[c].at \in {"asking", "waiting", "forced"} /\ cmd[c].pid = p

\* Two panels have servers in hand only when one of them gave up its port and has not got it back
\* (control-server.ts restart): otherwise the next one listens, and so starts anything, only when
\* the one before has stopped them all or is dead (index.ts shutdown: dispose before close).
OneSupervisor ==
    \A p, q \in Panels : Supervises(p) /\ Supervises(q) => p = q \/ p \in closed \/ q \in closed

\* A panel that is up and not on its way down is named by run.json, whatever boots, hangs, dies or
\* is told to stop around it (helpers/daemon.ts: "Deleting its record over that would orphan a
\* running panel").  Two crossings are left out, since nobody compares the record's pid before
\* deleting it: with a panel that gave up its port, which writes or deletes the record as if it
\* were alone; and with a down that has not seen the end of the panel before (down.ts clearRuntime).
UpIsRecorded == \A p \in Panels : step[p] = "up" /\ p \notin crossed => record.pid = p

\* Where births can be read, no command signals a process that is not a panel.
StrangersSpared == births => ~struck

\* A panel a down waits on ends, unless the kernel does not let it: whether it hangs, was left
\* half stopped, or ignores the signal because a shutdown already began.
WaitedOnEnds ==
    \A p \in Panels : WaitedOn(p) ~> (step[p] = "dead" \/ wedged[p] = "hard")

\* The port is a lock: what Exclusive says of an owner holds of the panel that supervises, as long
\* as it has not given up the port: it loses the lock with it, and takes it again when nobody does.
Holds(p) == Supervises(p) /\ p \notin closed
Owner == CHOOSE p \in Panels \cup {NoPanel} :
             IF \E q \in Panels : Holds(q) THEN p \in Panels /\ Holds(p) ELSE p = NoPanel
Lock  == INSTANCE Exclusive WITH Members <- Panels, Nobody <- NoPanel, owner <- Owner
IsALock == Lock!Spec
=============================================================================
