------------------------------- MODULE ScanCycle -------------------------------
(***************************************************************************)
(* The program that services/st_generator.py writes for a plant, scan by   *)
(* scan: main.st runs the supervisors of the plant, the interlocks, the    *)
(* startup and shutdown sequences, the equipment, the loops and the alarms *)
(* in this order, over one memory that every block reads and writes.  The  *)
(* equipment, its commands and the steps of the sequences are those of     *)
(* services/logic_completion_engine.py.                                    *)
(*                                                                         *)
(* Equipment are numbers in the order of their tags.  An output is on when *)
(* it is beyond 0.1; what a PID computes is an input.  Of the alarms those *)
(* of faults are kept, which the program reads; a model has them only if   *)
(* it has a loop.                                                          *)
(***************************************************************************)
EXTENDS Integers, Sequences, FiniteSets, SequencesExt, PythonNone

CONSTANTS
    Equipment, \* devices with a routine
    Acts,      \* Acts[e]: classify_equipment_behavior of its type
    Inputs     \* what the program may find before a scan

ASSUME ScanAssumption ==
    /\ Equipment \subseteq Nat \ {0} /\ IsFiniteSet(Equipment)
    /\ Acts \in [Equipment -> {"open_close", "start_stop", "modulating"}]

VARIABLE plc \* the memory of the program

\* Boolean tags that the program writes: a command of a device, PROCESS_RUNNING and
\* PROCESS_STOPPED.  The command of a pump is its RUN_CMD.
Tag(e, name) == <<e, name>>
ProcessRunning == Tag(0, "running")
ProcessStopped == Tag(0, "stopped")
Written == Equipment \X {"cmd", "open", "close", "auto"} \cup {ProcessRunning, ProcessStopped}

ScanInit ==
    plc = [state |-> "stopped",     \* CURRENT_PLANT_STATE
           held |-> {},             \* the commands that the edge triggers saw last
           step |-> [start |-> 0, stop |-> 0],
           tags |-> [c \in Written |-> FALSE],
           on |-> [e \in Equipment |-> FALSE],   \* STATUS or RUN_STATUS
           out |-> [e \in Equipment |-> FALSE],  \* OUT of a control valve
           alarms |-> {}]           \* devices with a fault alarm

-----------------------------------------------------------------------------
(* The steps of the sequences. *)

Rank(e) == CASE Acts[e] = "open_close" -> 10 [] Acts[e] = "start_stop" -> 20 [] OTHER -> 30
Sooner(d, e) == Rank(d) < Rank(e) \/ (Rank(d) = Rank(e) /\ d < e)
StartupOrder ==
    [n \in 1..Cardinality(Equipment) |->
        CHOOSE e \in Equipment : Cardinality({d \in Equipment : Sooner(d, e)}) = n - 1]

\* A device gets its command, then the one its behaviour prefers.
Stepped(e, preferred) ==
    IF Acts[e] = "start_stop" THEN <<Tag(e, "cmd")>>
    ELSE <<Tag(e, "cmd"), Tag(e, IF Acts[e] = "modulating" THEN "auto" ELSE preferred)>>

StepsOf(order, preferred, last) ==
    FlattenSeq([i \in DOMAIN order |-> Stepped(order[i], preferred)]) \o <<last>>

Steps ==
    [start |-> StepsOf(StartupOrder, "open", ProcessRunning),
     stop |-> StepsOf(Reverse(StartupOrder), "close", ProcessStopped)]

FirstToStop == StartupOrder[Len(StartupOrder)]

-----------------------------------------------------------------------------
(* The blocks of a scan, in the order in which main.st calls them. *)

\* FB_R_TRIG: the state manager and the sequences have one each for the same command.
Rises(p, in, key) == key \in in.keys /\ key \notin p.held

\* FB_SYSTEM_FAULT_MANAGER and FB_SYSTEM_STATE_MANAGER: the alarms are those of the scan
\* before.
Supervised(p, in) ==
    LET faultActive == p.alarms # {} IN
    CASE p.state = "stopped" -> IF Rises(p, in, "start") THEN "starting" ELSE "stopped"
      [] p.state = "starting" ->
            IF faultActive THEN "fault"
            ELSE IF p.tags[ProcessRunning] THEN "running" ELSE "starting"
      [] p.state = "running" ->
            IF faultActive THEN "fault"
            ELSE IF Rises(p, in, "stop") THEN "stopping" ELSE "running"
      [] p.state = "stopping" -> IF p.tags[ProcessStopped] THEN "stopped" ELSE "stopping"
      [] OTHER -> IF faultActive THEN "fault" ELSE "stopped"

\* An operator who takes a control valve to or from automatic writes the tag that the
\* startup writes too.
Operated(p, in) ==
    [p EXCEPT !.tags = [c \in Written |->
        IF c[2] = "auto" /\ c[1] \in in.manual THEN FALSE
        ELSE p.tags[c] \/ (c[2] = "auto" /\ c[1] \in in.automatic)]]

\* An interlock whose measurement is beyond its limit takes the command of its device.
Interlocked(p, in) ==
    [p EXCEPT !.tags =
        [c \in Written |-> p.tags[c] /\ ~(c[2] = "cmd" /\ c[1] \in in.beyond)]]

\* The condition to go on from step n of a sequence.
Transition(p, in, key, n) ==
    LET device == Steps[key][n][1] IN
    IF n = Len(Steps[key]) THEN in.holds
    ELSE IF key = "start" THEN p.on[device]
    ELSE device = FirstToStop \/ in.confirmed

\* Mutant: a sequence keeps its step when the plant leaves the state it is for.
KeepsItsStep(p, in, key) ==
    LET n == p.step[key] IN
    IF p.state # (IF key = "start" THEN "starting" ELSE "stopping") \/ key \notin in.keys THEN n
    ELSE IF n = 0 THEN (IF Rises(p, in, key) THEN 1 ELSE 0)
    ELSE IF ~Transition(p, in, key, n) THEN n
    ELSE IF n = Len(Steps[key]) THEN 0 ELSE n + 1

\* The step a sequence is in after the scan, from the state of the plant in it.
StepAfter(p, in, key) ==
    LET n == p.step[key] IN
    IF p.state # (IF key = "start" THEN "starting" ELSE "stopping") \/ key \notin in.keys THEN 0
    ELSE IF n = 0 THEN (IF Rises(p, in, key) THEN 1 ELSE 0)
    ELSE IF ~Transition(p, in, key, n) THEN n
    ELSE IF n = Len(Steps[key]) THEN 0 ELSE n + 1

\* Startup and shutdown write the tag of the step they were in: startup sets it, shutdown
\* resets it but for the last.
Sequenced(p, in, key) ==
    LET n == p.step[key]
        active == n # 0 /\ key \in in.keys
                  /\ p.state = (IF key = "start" THEN "starting" ELSE "stopping") IN
    [p EXCEPT !.step[key] = StepAfter(p, in, key),
              !.tags = IF active
                       THEN [@ EXCEPT ![Steps[key][n]] = key = "start" \/ n = Len(Steps[key])]
                       ELSE @]

\* What the routine of a device makes its status.
Runs(p, in, e) ==
    /\ p.state \in {"running", "starting"}
    /\ e \notin in.faults
    /\ e \in in.permitted
    /\ CASE Acts[e] = "modulating" -> p.out[e] \/ e \in in.feedback
         [] Acts[e] = "open_close" ->
                e \notin in.manual /\ (p.tags[Tag(e, "open")] \/ p.tags[Tag(e, "cmd")])
         [] OTHER -> e \notin in.manual /\ p.tags[Tag(e, "cmd")]

\* Mutant: the routine of a pump leaves its command alone.
LeavesCommands(p, in) == [p EXCEPT !.on = [e \in Equipment |-> Runs(p, in, e)]]

\* The routine of a pump writes its command back; that of a control valve leaves the output
\* to the loop, whatever happens.
Driven(p, in) ==
    [p EXCEPT !.on = [e \in Equipment |-> Runs(p, in, e)],
              !.tags = [c \in Written |->
                  IF c[2] = "cmd" /\ Acts[c[1]] = "start_stop" THEN Runs(p, in, c[1])
                  ELSE p.tags[c]]]

\* The loop that owns an output writes it in every state of the plant.
Regulated(p, in) ==
    [p EXCEPT !.out = [e \in Equipment |->
        IF Acts[e] = "modulating" /\ in.demand # None /\ p.tags[Tag(e, "auto")]
        THEN in.demand ELSE p.out[e]]]

\* The alarm of a fault follows it.
Alarmed(p, in) == [p EXCEPT !.alarms = in.faults]

Scanned(p, in) ==
    LET supervised == [Operated(p, in) EXCEPT !.state = Supervised(p, in)]
        started == Sequenced(Interlocked(supervised, in), in, "start")
        stopped == Sequenced(started, in, "stop")
        regulated == Regulated(Driven(stopped, in), in)
    IN  [Alarmed(regulated, in) EXCEPT !.held = in.keys]

Scan(in) == plc' = Scanned(plc, in)

ScanNext == \E in \in Inputs : Scan(in)
ScanSpec == ScanInit /\ [][ScanNext]_plc

-----------------------------------------------------------------------------
Pumps == {e \in Equipment : Acts[e] = "start_stop"}

\* A pump that was stopped, by an interlock, a permissive, a fault, the operator or the state
\* of the plant, does not start by itself when the cause has gone: it starts only in its
\* step of a startup.  And none runs in the scan after a fault alarm, of any device.
PumpsAreSafe ==
    [][\A e \in Pumps : plc'.on[e] =>
        /\ plc.on[e] \/ (/\ plc'.state = "starting"
                         /\ plc.step.start # 0
                         /\ Steps.start[plc.step.start] = Tag(e, "cmd"))
        /\ plc.alarms = {}]_plc

\* Inputs with which nothing is wrong: each device in automatic, permitted and without
\* fault, the holds and the stop confirmed, and control valves that report to be on.
Good(keys) ==
    [keys |-> keys, holds |-> TRUE, confirmed |-> TRUE, beyond |-> {}, faults |-> {},
     permitted |-> Equipment, manual |-> {}, automatic |-> {}, feedback |-> Equipment,
     demand |-> None]

\* The memory n scans later, with good inputs.
After(p, keys, n) ==
    LET at[i \in 0..n] == IF i = 0 THEN p ELSE Scanned(at[i - 1], Good(keys)) IN at[n]

\* The first startup with good inputs ends with the plant running and every device on, whatever
\* earlier attempts have left; each shutdown ends with the plant stopped and every device
\* off, the first one with every command but OPEN reset.
StartsAndStopsEnd ==
    /\ plc.state = "stopped" /\ "start" \notin plc.held /\ plc.alarms = {} /\ ~plc.tags[ProcessRunning] =>
        LET p == After(plc, {"start"}, 2 * Len(Steps.start) + 1) IN
        p.state = "running" /\ \A e \in Equipment : p.on[e]
    /\ plc.state = "running" /\ "stop" \notin plc.held /\ plc.alarms = {} =>
        LET p == After(plc, {"stop"}, Len(Steps.stop) + 2) IN
        /\ p.state = "stopped" /\ \A e \in Equipment : ~p.on[e]
        /\ ~plc.tags[ProcessStopped] =>
            \A e \in Equipment, name \in {"cmd", "close"} : ~p.tags[Tag(e, name)]
================================================================================
