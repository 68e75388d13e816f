----------------------------- MODULE Measurement -----------------------------
(***************************************************************************)
(* One measurement run from its first command to its closed file: the      *)
(* sweep procedures (i2as/core/procedure.py, i2as/procedures), the gates   *)
(* (i2as/core/gates.py), the data file (i2as/core/data_manager.py), and    *)
(* the part of the engine's tick that drives them                          *)
(* (i2as/core/orchestrator.py).                                            *)
(*                                                                         *)
(* Three instruments: the axis that is swept, the meter that reads, and a  *)
(* path that a reading loop may set beside the meter's own parameters.     *)
(* One of them that is mute raises when it is called.  The commands of a   *)
(* tick are sent one by one; between them only instruments may fall silent *)
(* or speak again.  A field is a level; a ramp takes some ticks between    *)
(* two levels.  A declared settling time is Settle units of time.          *)
(***************************************************************************)
EXTENDS Naturals, Sequences

CONSTANTS Full,       \* the number of points of the declared sweep
          Plans,      \* the runs that are tried: a procedure ("field", "imaging" or
                      \* "temperature"), the points a probe keeps (None for a whole
                      \* run), and the two slots of the reading loop
          Settle,     \* init_wait and step_wait
          RampSteps,  \* the ticks of a ramp
          Troubles,   \* what may go wrong: "mute", "disk", "hold"
          None

ASSUME PlansAssumption ==
    /\ Full \in Nat \ {0}
    /\ Plans \subseteq [kind : {"field", "imaging", "temperature"}, probe : (Nat \ {0}) \cup {None},
                        slot : [1 .. 2 -> [vi : {"path", "meter"}, n : Nat]]]
ASSUME TimesAssumption == Settle \in Nat /\ RampSteps \in Nat \ {0} /\ None \notin Nat

VIs == {"axis", "meter", "path"}

\* Fields: zero, the points of the sweep, and saturation beyond them.
Zero == 0
Saturation == Full + 1

VARIABLES
    state,    \* of the engine
    run,      \* [on, owns, kind, sweep, slot]: the run in flight, and whether the
              \* axis is in its ramp scope
    index,    \* _index, from 1
    first,    \* _first_measurement
    wait,     \* [on, spent, back]: the wait clock, _pre_pause_state
    pausing,  \* _pause_requested
    wanted,   \* _last_system_targets: a level or None
    gates,    \* [left, commanded, since]: _pending_gates
    parked,   \* _standby_dispatched
    axis,     \* [goal, left, at] of the swept instrument
    armed,    \* the meter is armed
    setting,  \* of each slot the value last dispatched, 0 when it is off
    file,     \* [open, length, rows, stamped, last] of the data file
    grid,     \* the readings of the point that is being measured
    doing,    \* "none" between ticks, or what the commands of todo are for
    todo,     \* the commands that remain to be sent, in order
    final,    \* the state the engine ends in when the cleanup is done
    refused,  \* what has raised during the cleanup
    mute, full, held, \* instruments that raise, a disk that is full, a hold on the axis
    rest,     \* how long the axis has been at its level
    strayed   \* since the point was commanded, a hold moved the axis in a paused wait or gate

point    == <<index, strayed, grid>>
schedule == <<first, wait, gates, parked, pausing>>
cleanup  == <<final, refused>>
outside  == <<mute, full, held>>
vars == <<state, run, point, schedule, wanted, axis, rest, armed, setting, file,
          doing, todo, cleanup, outside>>
-----------------------------------------------------------------------------
(* What a procedure plans.                                                  *)

\* Python's round() takes a half to the even side.
Rounded(a, b) ==
    LET q == a \div b  r == 2 * (a % b)
    IN  IF r < b \/ (r = b /\ q % 2 = 0) THEN q ELSE q + 1
ProbeSubsample(values, n) ==
    LET total == Len(values)
    IN  IF total <= n THEN values
        ELSE IF n = 1 THEN <<values[1]>>
        ELSE [i \in 1 .. n |-> values[Rounded((i - 1) * (total - 1), n - 1) + 1]]

Sweep(probe) ==
    LET whole == [i \in 1 .. Full |-> i]
    IN  IF probe = None THEN whole ELSE ProbeSubsample(whole, probe)

Shape(s)   == IF run.slot[s].n = 0 THEN 1 ELSE run.slot[s].n
Loops(s)   == run.slot[s].n >= 2
Statics(v) == {s \in 1 .. 2 : run.slot[s].vi = v /\ run.slot[s].n = 1}
Cells      == (1 .. Shape(1)) \X (1 .. Shape(2))

Cmd(v, what, arg) == [vi |-> v, what |-> what, arg |-> arg]
Off(v)    == Cmd(v, "off", None)
Set(s, k) == Cmd(run.slot[s].vi, "set", <<s, k>>)
FirstValues(slots) == (IF 1 \in slots THEN <<Set(1, 1)>> ELSE <<>>)
                   \o (IF 2 \in slots THEN <<Set(2, 1)>> ELSE <<>>)

\* The plan of initiate(): claims, target, slots beside the meter, the arming,
\* the static slots of the meter.
Beside == {s \in 1 .. 2 : run.slot[s].n > 0 /\ run.slot[s].vi = "path"}
Level  == IF run.kind = "imaging" THEN Saturation ELSE run.sweep[1]
Opening ==
    <<Cmd("axis", "initiate", None), Cmd("meter", "initiate", None),
      Cmd("path", "initiate", None), Cmd("axis", "ramp", Level)>>
    \o FirstValues(Beside) \o <<Cmd("meter", "arm", None)>> \o FirstValues(Statics("meter"))

\* The reading loop of measure(), from one cell of the grid to the next; then the
\* axis is read back and the point saved.
Read(c)    == Cmd("meter", "read", c)
Inner(c)   == IF Loops(2) THEN <<Set(2, c[2])>> ELSE <<>>
Outer(c)   == IF Loops(1) /\ c[2] = 1 THEN <<Set(1, c[1])>> ELSE <<>>
AtCell_InnerOnce(c) == \* mutant: the inner slot is set once for each value of the outer one
    Outer(c) \o (IF c[2] = 1 THEN Inner(c) ELSE <<>>) \o <<Read(c)>>
AtCell(c)  == Outer(c) \o Inner(c) \o <<Read(c)>>
AfterCell(c) ==
    CASE c[2] < Shape(2)                     -> AtCell(<<c[1], c[2] + 1>>)
      [] c[2] = Shape(2) /\ c[1] < Shape(1) -> AtCell(<<c[1] + 1, 1>>)
      [] OTHER                               -> <<Cmd("axis", "save", None)>>

\* _safe_off_commands, and standby() of the magnet after them.
SafeOff_OnlyLooping == \* mutant: a static slot is not taken to have set the path
    <<Off("meter")>> \o (IF \E s \in Beside : Loops(s) THEN <<Off("path")>> ELSE <<>>)
SafeOff == <<Off("meter")>> \o (IF Beside # {} THEN <<Off("path")>> ELSE <<>>)
Parking == IF run.kind = "temperature" THEN SafeOff ELSE SafeOff \o <<Off("axis")>>
-----------------------------------------------------------------------------
(* The axis: a ramp that is started leaves its level at once; one that is   *)
(* stopped forgets its goal and stays where it is.                          *)

StartRamp(a, level) ==
    IF a.at = level THEN [goal |-> level, left |-> 0, at |-> level]
    ELSE [goal |-> level, left |-> RampSteps, at |-> None]
StopRamp(a) == [goal |-> None, left |-> 0, at |-> a.at]
Advance(a) ==
    IF a.left = 0 THEN a
    ELSE [a EXCEPT !.left = @ - 1, !.at = IF a.left = 1 THEN a.goal ELSE None]

RampDone_Reached(a) == a.left = 0 /\ a.goal # None \* mutant: IDLE is not done
RampDone(a) == a.left = 0
Reached(a)  == a.goal # None /\ a.left = 0

\* The axis moves to a; what it has settled is lost when it leaves its level.
Moves(a) == axis' = a /\ rest' = (IF a.at = axis.at /\ a.at # None THEN rest ELSE 0)
-----------------------------------------------------------------------------
(* The data file.                                                           *)

NewFile == [open |-> TRUE, length |-> Len(run'.sweep), rows |-> <<>>, stamped |-> {}, last |-> 0]
NoFile  == [open |-> FALSE, length |-> 0, rows |-> <<>>, stamped |-> {}, last |-> 0]

Row == [point |-> index, at |-> axis.at, rest |-> rest, strayed |-> strayed, cells |-> grid]

\* save_datapoint writes the columns, the timestamp, the snapshot; then the
\* point counts as saved and is flushed.  It can raise after each.
Columns_StampFirst == \* mutant: the timestamp is written before the columns
    [file EXCEPT !.stamped = @ \cup {index}]
Columns  == [file EXCEPT !.rows = [i \in (DOMAIN @) \cup {index} |->
                                     IF i = index THEN Row ELSE @[i]]]
Stamped  == [Columns EXCEPT !.stamped = @ \cup {index}]
Saved    == [Stamped EXCEPT !.last = index]

\* close() trims what was allocated and not saved, but never to nothing.
Trimmed(f) ==
    IF 0 < f.last /\ f.last < f.length
    THEN [f EXCEPT !.length = f.last, !.stamped = @ \cap (1 .. f.last)] ELSE f
Closed(f) == [Trimmed(f) EXCEPT !.open = FALSE]

\* The points a reader counts.
Readable == file.stamped \cap (1 .. file.length)
-----------------------------------------------------------------------------
NoSlot  == [vi |-> "meter", n |-> 0]
NoRun   == [on |-> FALSE, owns |-> FALSE, kind |-> "field", sweep |-> <<>>, slot |-> <<NoSlot, NoSlot>>]
NoWait  == [on |-> FALSE, spent |-> 0, back |-> "IDLE"]
NoGates == [left |-> {}, commanded |-> FALSE, since |-> None]

Init ==
    /\ state = "IDLE" /\ run = NoRun /\ index = 1 /\ first = TRUE /\ strayed = "no" /\ grid = <<>>
    /\ wait = NoWait /\ pausing = FALSE /\ wanted = None /\ gates = NoGates /\ parked = FALSE
    /\ axis = [goal |-> None, left |-> 0, at |-> Zero] /\ rest = 0
    /\ armed = FALSE /\ setting = <<0, 0>> /\ file = NoFile
    /\ doing = "none" /\ todo = <<>> /\ final = "IDLE" /\ refused = {}
    /\ mute = {} /\ full = FALSE /\ held = FALSE

Answers(v) == v \notin mute
Between    == doing = "none"
Active == state \in {"INITIATING", "RAMPING", "INITIATION_GATE", "MEASURING", "SWEEPING", "STANDBY"}

\* What a run starts with, and is left with when it has been torn down.
Forgotten ==
    first' = TRUE /\ wait' = NoWait /\ pausing' = FALSE /\ gates' = NoGates /\ parked' = FALSE
    /\ wanted' = None

\* _abort_active_procedure begins: the file is closed.  When that raises the
\* commands of the cleanup are never returned.
TearDown(end, f) ==
    /\ doing' = "ending" /\ final' = end
    /\ IF f.open /\ full
       THEN file' = f /\ todo' = <<>> /\ refused' = {"file"}
       ELSE file' = (IF f.open THEN Closed(f) ELSE f) /\ todo' = SafeOff /\ refused' = {}

\* _start_run: initiate() creates the file and plans the commands.
\* Bound: one run.
Start(p) ==
    /\ Between /\ state = "IDLE" /\ run = NoRun
    /\ run' = [on |-> TRUE, owns |-> ~full, kind |-> p.kind, sweep |-> Sweep(p.probe), slot |-> p.slot]
    /\ index' = 1 /\ strayed' = "no" /\ grid' = <<>> /\ Forgotten
    /\ IF full
       THEN /\ doing' = "ending" /\ final' = "ERROR" /\ refused' = {} /\ file' = NoFile
            /\ todo' = SafeOff'
       ELSE /\ doing' = "starting" /\ file' = NewFile /\ todo' = Opening' /\ UNCHANGED cleanup
    /\ UNCHANGED <<state, axis, rest, armed, setting, outside>>
-----------------------------------------------------------------------------
(* The commands of a tick, one by one.                                      *)

IsNext(what) == doing # "none" /\ todo # <<>> /\ Head(todo).what = what /\ Answers(Head(todo).vi)
Undisturbed  == UNCHANGED <<state, run, index, strayed, schedule, doing, cleanup, outside>>
Sends(what)  == IsNext(what) /\ todo' = Tail(todo) /\ Undisturbed

SendInitiate ==
    Sends("initiate") /\ UNCHANGED <<wanted, axis, rest, armed, setting, file, grid>>
SendRamp ==
    /\ Sends("ramp")
    /\ Moves(StartRamp(axis, Head(todo).arg)) /\ wanted' = Head(todo).arg
    /\ UNCHANGED <<armed, setting, file, grid>>
SendSet ==
    /\ Sends("set")
    /\ setting' = [setting EXCEPT ![Head(todo).arg[1]] = Head(todo).arg[2]]
    /\ UNCHANGED <<wanted, axis, rest, armed, file, grid>>
SendArm == Sends("arm") /\ armed' = TRUE /\ UNCHANGED <<wanted, axis, rest, setting, file, grid>>
SendOff ==
    /\ Sends("off")
    /\ armed' = (armed /\ Head(todo).vi # "meter")
    /\ setting' = [s \in 1 .. 2 |-> IF Head(todo).vi = "path" /\ run.slot[s].vi = "path"
                                    THEN 0 ELSE setting[s]]
    /\ IF Head(todo).vi = "axis" THEN Moves(StartRamp(axis, Zero)) ELSE UNCHANGED <<axis, rest>>
    /\ UNCHANGED <<wanted, file, grid>>
SendRead ==
    /\ IsNext("read") /\ todo' = AfterCell(Head(todo).arg) /\ Undisturbed
    /\ grid' = [c \in (DOMAIN grid) \cup {Head(todo).arg} |->
                  IF c = Head(todo).arg THEN [armed |-> armed, set |-> setting] ELSE grid[c]]
    /\ UNCHANGED <<wanted, axis, rest, armed, setting, file>>
SendSave ==
    /\ ~full /\ Sends("save") /\ file' = Saved /\ grid' = <<>>
    /\ UNCHANGED <<wanted, axis, rest, armed, setting>>

Raises == grid' = <<>> /\ UNCHANGED <<state, run, index, strayed, schedule, wanted, axis, rest,
                                      armed, setting, outside>>

\* A command raises: the run fails, and a cleanup goes on without its other commands.
SendRaises ==
    /\ doing # "none" /\ todo # <<>> /\ ~Answers(Head(todo).vi) /\ Raises
    /\ IF doing = "ending"
       THEN todo' = <<>> /\ refused' = refused \cup {Head(todo).vi} /\ UNCHANGED <<doing, final, file>>
       ELSE TearDown("ERROR", file)

\* The disk is full, or the point does not match the schema or the shape of a
\* column: what was written before that is in the file.
SaveRaises ==
    /\ doing # "none" /\ todo # <<>> /\ Head(todo).what = "save" /\ Answers("axis") /\ Raises
    /\ \E written \in (IF full THEN {file, Columns, Stamped, Saved} ELSE {file, Columns}) :
         TearDown("ERROR", written)

AllSent(what, next) ==
    /\ doing = what /\ todo = <<>> /\ doing' = "none" /\ state' = next
    /\ UNCHANGED <<point, first, wait, gates, armed, setting, file, todo, cleanup, outside>>
Unmoved == UNCHANGED <<wanted, axis, rest>>

Opened   == AllSent("starting", "INITIATING") /\ UNCHANGED <<run, pausing, parked>> /\ Unmoved
Measured == AllSent("measuring", "SWEEPING") /\ UNCHANGED <<run, pausing, parked>> /\ Unmoved
ParkingSent == AllSent("parking", "STANDBY") /\ parked' = TRUE /\ UNCHANGED <<run, pausing>> /\ Unmoved

\* The rest of _abort_active_procedure: the ramps of the run are held.
TornDown ==
    /\ doing = "ending" /\ todo = <<>> /\ doing' = "none" /\ state' = final
    /\ run' = [run EXCEPT !.on = FALSE]
    /\ IF run.owns THEN Moves(StopRamp(axis)) ELSE UNCHANGED <<axis, rest>>
    /\ Forgotten
    /\ UNCHANGED <<point, armed, setting, file, todo, cleanup, outside>>
-----------------------------------------------------------------------------
(* The ticks.                                                               *)

\* A run whose axis is held fails before the state machine is reached.
Ticks(s) == Between /\ state = s /\ ~held
Rest     == UNCHANGED <<run, armed, setting, grid, outside>>
Sent     == UNCHANGED <<doing, todo, file, cleanup>>

\* The axis is asked for its status while it has a ramp.
Followed == axis.goal = None \/ Answers("axis")
Steps    == Followed /\ Moves(Advance(axis))

TickInitiating ==
    /\ Ticks("INITIATING") /\ state' = "RAMPING"
    /\ UNCHANGED <<index, strayed, schedule>> /\ Unmoved /\ Rest /\ Sent

Gated == first /\ run.kind = "imaging"
Clock == IF wait.on THEN wait ELSE [wait EXCEPT !.on = TRUE, !.spent = 0]

TickRamping ==
    /\ Ticks("RAMPING") /\ Steps
    /\ \/ /\ ~RampDone(axis) \/ (~Gated /\ Clock.spent < Settle)
          /\ wait' = (IF RampDone(axis) THEN Clock ELSE wait)
          /\ UNCHANGED <<state, first, gates>>
       \/ /\ RampDone(axis) /\ Gated /\ state' = "INITIATION_GATE"
          /\ gates' = [NoGates EXCEPT !.left = {"from_saturation", "settle"}]
          /\ UNCHANGED <<first, wait>>
       \/ /\ RampDone(axis) /\ ~Gated /\ Clock.spent >= Settle
          /\ wait' = [Clock EXCEPT !.on = FALSE] /\ first' = FALSE
          /\ state' = "MEASURING" /\ UNCHANGED gates
    /\ UNCHANGED <<index, strayed, pausing, wanted, parked>> /\ Rest /\ Sent

\* Every pending gate is stepped; those that are satisfied are dropped.  The
\* one-shot action of from_saturation sends the axis to the first field.
Satisfied(since, a) ==
    {g \in gates.left : IF g = "from_saturation" THEN Reached(a) ELSE since >= Settle}
TickGate ==
    /\ Ticks("INITIATION_GATE") /\ Answers("axis")
    /\ LET a     == IF gates.commanded THEN Advance(axis) ELSE StartRamp(Advance(axis), run.sweep[1])
           since == IF gates.since = None THEN 0 ELSE gates.since
           left  == gates.left \ Satisfied(since, a)
       IN  /\ Moves(a)
           /\ gates' = [left |-> left, commanded |-> TRUE, since |-> since]
           /\ state' = IF left = {} THEN "MEASURING" ELSE state
           /\ first' = (first /\ left # {})
    /\ UNCHANGED <<index, strayed, wait, pausing, wanted, parked>> /\ Rest /\ Sent

TickMeasuring ==
    /\ Ticks("MEASURING") /\ Steps /\ doing' = "measuring" /\ todo' = AtCell(<<1, 1>>)
    /\ UNCHANGED <<state, index, strayed, schedule, wanted, file, cleanup>> /\ Rest

\* change_sweep_step.
TickSweeping ==
    /\ Ticks("SWEEPING") /\ ~pausing /\ Followed
    /\ index' = index + 1
    /\ IF index < Len(run.sweep)
       THEN /\ state' = "RAMPING" /\ wanted' = run.sweep[index'] /\ strayed' = "no"
            /\ Answers("axis") /\ Moves(StartRamp(Advance(axis), run.sweep[index']))
       ELSE state' = "STANDBY" /\ Moves(Advance(axis)) /\ UNCHANGED <<wanted, strayed>>
    /\ UNCHANGED schedule /\ Rest /\ Sent

\* The file is closed; the plan of standby() has commands and no targets.
TickStandby ==
    /\ Ticks("STANDBY") /\ ~parked /\ Steps
    /\ IF ~RampDone(axis) THEN Sent /\ UNCHANGED wanted
       ELSE IF full THEN TearDown("ERROR", file) /\ UNCHANGED wanted
       ELSE /\ doing' = "parking" /\ todo' = Parking /\ file' = Closed(file) /\ wanted' = None
            /\ UNCHANGED cleanup
    /\ UNCHANGED <<state, index, strayed, schedule>> /\ Rest

TickFinish ==
    /\ Ticks("STANDBY") /\ parked /\ Steps
    /\ IF RampDone(axis)
       THEN state' = "IDLE" /\ run' = [run EXCEPT !.on = FALSE] /\ parked' = FALSE /\ pausing' = FALSE
       ELSE UNCHANGED <<state, run, parked, pausing>>
    /\ UNCHANGED <<point, first, wait, gates, wanted, armed, setting, outside>> /\ Sent

\* The axis raises where its ramp is followed, or its readings go stale.
TickFails ==
    /\ Between /\ Active /\ ~Answers("axis")
    /\ \/ TearDown("IDLE", file)
       \/ (axis.goal # None \/ state \in {"INITIATION_GATE", "SWEEPING"}) /\ TearDown("ERROR", file)
    /\ UNCHANGED <<state, index, strayed, schedule>> /\ Unmoved /\ Rest

\* The hold stands the axis down, where that is due, and fails the run.
TickHeld ==
    /\ Between /\ Active /\ held
    /\ Unmoved \/ (Answers("axis") /\ Moves(StartRamp(axis, Zero)) /\ UNCHANGED wanted)
    /\ TearDown("IDLE", file)
    /\ UNCHANGED <<state, index, strayed, schedule>> /\ Rest
TickHeldPaused ==
    /\ Between /\ state = "PAUSED" /\ held /\ Answers("axis") /\ axis.goal # Zero
    /\ Moves(StartRamp(axis, Zero))
    /\ strayed' = IF wait.back = "INITIATION_GATE" THEN "gate"
                  ELSE IF wait.on /\ strayed = "no" THEN "wait" ELSE strayed
    /\ UNCHANGED <<state, index, schedule, wanted>> /\ Rest /\ Sent
-----------------------------------------------------------------------------
(* The operator, and the world.                                             *)

EnterPaused(a) ==
    /\ state' = "PAUSED" /\ pausing' = FALSE /\ wait' = [wait EXCEPT !.back = state]
    /\ Moves(StopRamp(a))
    /\ UNCHANGED <<index, strayed, first, gates, parked, wanted>> /\ Rest /\ Sent
TickPauseBoundary == Ticks("SWEEPING") /\ pausing /\ Followed /\ EnterPaused(Advance(axis))

Pause ==
    /\ Between /\ Active
    /\ IF state = "MEASURING"
       THEN pausing' = TRUE /\ UNCHANGED <<state, index, strayed, first, wait, gates, parked>>
            /\ Unmoved /\ Rest /\ Sent
       ELSE EnterPaused(axis)

\* Only a state that was about to ramp gets its target again.
Redispatched == wait.back \in {"INITIATING", "RAMPING", "STANDBY"} /\ wanted # None
Resume ==
    /\ Between /\ (state = "PAUSED" \/ pausing)
    /\ IF state = "PAUSED"
       THEN /\ state' = wait.back /\ UNCHANGED pausing
            /\ IF Redispatched
               THEN Answers("axis") /\ Moves(StartRamp(axis, wanted)) ELSE UNCHANGED <<axis, rest>>
       ELSE pausing' = FALSE /\ UNCHANGED <<state, axis, rest>>
    /\ UNCHANGED <<index, strayed, first, wait, gates, parked, wanted>> /\ Rest /\ Sent

Abort ==
    /\ Between /\ (Active \/ state = "PAUSED") /\ TearDown("IDLE", file)
    /\ UNCHANGED <<state, index, strayed, schedule>> /\ Unmoved /\ Rest
Recover ==
    /\ Between /\ state = "ERROR" /\ state' = "IDLE"
    /\ UNCHANGED <<index, strayed, schedule>> /\ Unmoved /\ Rest /\ Sent

World == UNCHANGED <<state, run, point, pausing, first, parked, wanted, axis, armed, setting,
                     file, doing, todo, cleanup>>
\* Bound: one trouble at a time.
Calm       == mute = {} /\ ~full /\ ~held
Silence(v) == /\ Calm /\ "mute" \in Troubles /\ mute' = {v} /\ UNCHANGED <<full, held, rest, wait, gates>> /\ World
Speak(v)   == /\ v \in mute /\ mute' = {} /\ UNCHANGED <<full, held, rest, wait, gates>> /\ World
DiskFills  == Between /\ "disk" \in Troubles /\ (Calm \/ full) /\ full' = ~full /\ UNCHANGED <<mute, held, rest, wait, gates>> /\ World
HoldTurns  == Between /\ "hold" \in Troubles /\ (Calm \/ held) /\ held' = ~held /\ UNCHANGED <<mute, full, rest, wait, gates>> /\ World

\* Time passes between two ticks.  The wait clock is frozen while the run is
\* paused; the clock of a gate is not.
Later(t) == IF t < Settle THEN t + 1 ELSE t
Elapse ==
    /\ Between
    /\ rest' = (IF axis.at # None THEN Later(rest) ELSE 0)
    /\ wait' = (IF wait.on /\ state # "PAUSED" THEN [wait EXCEPT !.spent = Later(@)] ELSE wait)
    /\ gates' = (IF gates.left # {} /\ gates.since # None THEN [gates EXCEPT !.since = Later(@)] ELSE gates)
    /\ UNCHANGED outside /\ World
-----------------------------------------------------------------------------
Sending ==
    \/ SendInitiate \/ SendRamp \/ SendSet \/ SendArm \/ SendOff \/ SendRead \/ SendSave
    \/ SendRaises \/ SaveRaises \/ Opened \/ Measured \/ ParkingSent \/ TornDown
Ticking ==
    \/ TickInitiating \/ TickRamping \/ TickGate \/ TickMeasuring \/ TickSweeping \/ TickStandby
    \/ TickFinish \/ TickPauseBoundary \/ TickFails \/ TickHeld

Next ==
    \/ \E p \in Plans : Start(p)
    \/ Sending \/ Ticking \/ TickHeldPaused
    \/ Pause \/ Resume \/ Abort \/ Recover \/ Elapse
    \/ \E v \in VIs : Silence(v) \/ Speak(v)
    \/ DiskFills \/ HoldTurns

Spec == Init /\ [][Next]_vars
\* Commands are sent and ticks come as long as the engine lives, and time passes.
FairSpec == Spec /\ WF_vars(Sending) /\ WF_vars(Ticking) /\ WF_vars(Elapse)
-----------------------------------------------------------------------------
(* Properties.                                                              *)

\* Every variable has its type.
States   == {"IDLE", "INITIATING", "RAMPING", "INITIATION_GATE", "MEASURING", "SWEEPING",
             "STANDBY", "PAUSED", "ERROR"}
Commands == [vi : VIs, what : {"initiate", "arm", "save", "off"}, arg : {None}]
                \cup [vi : VIs, what : {"ramp"}, arg : Nat]
                \cup [vi : VIs, what : {"set", "read"}, arg : Nat \X Nat]
Levels   == Nat \cup {None}
TypeOK ==
    /\ state \in States
    /\ run \in [on : BOOLEAN, owns : BOOLEAN, kind : {"field", "imaging", "temperature"},
                sweep : Seq(Nat), slot : [1 .. 2 -> [vi : {"path", "meter"}, n : Nat]]]
    /\ index \in Nat \ {0} /\ first \in BOOLEAN /\ strayed \in {"no", "wait", "gate"}
    /\ wait \in [on : BOOLEAN, spent : 0 .. Settle, back : States]
    /\ pausing \in BOOLEAN /\ parked \in BOOLEAN /\ wanted \in Levels
    /\ gates \in [left : SUBSET {"from_saturation", "settle"}, commanded : BOOLEAN,
                  since : 0 .. Settle \cup {None}]
    /\ axis \in [goal : Levels, left : 0 .. RampSteps, at : Levels] /\ rest \in 0 .. Settle
    /\ armed \in BOOLEAN /\ setting \in [1 .. 2 -> Nat]
    /\ DOMAIN file = {"open", "length", "rows", "stamped", "last"}
    /\ file.open \in BOOLEAN /\ {file.length, file.last} \subseteq Nat /\ file.stamped \subseteq Nat
    /\ DOMAIN file.rows \subseteq Nat /\ DOMAIN grid \subseteq Nat \X Nat
    /\ doing \in {"none", "starting", "measuring", "parking", "ending"}
    /\ todo \in Seq(Commands) /\ final \in {"IDLE", "ERROR"}
    /\ refused \subseteq VIs \cup {"file"} /\ mute \subseteq VIs
    /\ full \in BOOLEAN /\ held \in BOOLEAN

\* Each cell of a saved point was read by an armed meter with the values of its
\* own place in the loops, static slots included.
CellsAreTheirOwn(r) ==
    /\ DOMAIN r.cells = Cells
    /\ \A c \in Cells : r.cells[c].armed /\ \A s \in 1 .. 2 :
          run.slot[s].n = 0 \/ r.cells[c].set[s] = c[s]

\* A point is read at the field it stands for, and not before that field has been
\* there for the declared time; but for a hold that moves the axis while the run is
\* paused.  The gates of an imaging run are stepped side by side: its first point
\* has settled from the moment the gates began, not from its arrival.
ReadInPlace(r) ==
    /\ r.strayed = "gate" \/ r.at = run.sweep[r.point]
    /\ r.strayed # "no" \/ (run.kind = "imaging" /\ r.point = 1) \/ r.rest = Settle

\* Each row of the data file is the point it says it is.
RowsAreTheirPoints == \A i \in DOMAIN file.rows :
    LET r == file.rows[i] IN r.point = i /\ CellsAreTheirOwn(r) /\ ReadInPlace(r)

\* What a reader counts are the points that were saved, from the first one and
\* without a gap, and in a file that is open at most the one whose save has raised
\* after its timestamp.
FilesHoldWholePoints ==
    /\ Readable \in {1 .. file.last, 1 .. file.last + 1}
    /\ ~file.open => Readable = 1 .. file.last

\* A run leaves the meter disarmed and the path off, unless its file could not be
\* closed or an instrument refused; and a run that is done leaves a magnet at
\* zero, unless a pause has stopped its way there.
LeftSafe ==
    [][run.on /\ ~run'.on =>
        /\ armed => refused \cap {"file", "meter"} # {}
        /\ (\E s \in 1 .. 2 : run.slot[s].vi = "path" /\ setting[s] # 0) => refused # {}
        /\ (state = "STANDBY" /\ doing = "none" /\ run.kind # "temperature") =>
              axis.at = Zero \/ axis.goal = None]_vars

\* A run that is not left paused comes to its end, but for one that was paused
\* on its way from saturation: nothing sends the axis on again.
Stranded == state = "INITIATION_GATE" /\ axis.goal = None
RunsEnd  == run.on ~> (~run.on \/ state = "PAUSED" \/ Stranded)

\* A run that has been resumed goes on from its gates.
GateOpens == state = "INITIATION_GATE" ~> state # "INITIATION_GATE"
=============================================================================
