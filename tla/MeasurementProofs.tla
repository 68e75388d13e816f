------------------------- MODULE MeasurementProofs -------------------------
(***************************************************************************)
(* Proofs about a measurement run, for every sweep, plan, settling time    *)
(* and duration of a ramp.                                                 *)
(*                                                                         *)
(* That a row of the data file is the point it says it is has two halves.  *)
(* Its cells are their own because the reading loop stands before one cell *)
(* of the grid (AtWork) with the slots that change set to that cell's      *)
(* values and the others to their only one (Prepared), so that each        *)
(* reading that is taken is right when it is taken (ReadingsAreTheirOwn).  *)
(* It is read in place because the axis is where the index says and its    *)
(* rest is at least what the wait clock has counted (InPlace), which needs *)
(* a ramp to be either under way or at its goal (AxisIsSomewhere) and the  *)
(* engine to do in each state only what belongs there (InItsState).        *)
(*                                                                         *)
(* That files hold whole points is the count of the index against the      *)
(* points saved and stamped (Points).  That a run leaves the instruments   *)
(* safe follows from what the commands that remain will still switch off   *)
(* (SwitchedOff), which is what the opening may have switched on           *)
(* (OnlyItsSlots).                                                         *)
(***************************************************************************)
EXTENDS Measurement, SequenceTheorems, TLAPS
-----------------------------------------------------------------------------
(***************************************************************************)
(* Sweeps, and what is taken from them for a probe.                        *)
(***************************************************************************)

\* What is smaller b-fold is smaller.
LEMMA Divides ==
    ASSUME NEW b \in Nat \ {0}, NEW q \in Nat, NEW T \in Nat, b * q <= b * T
    PROVE  q <= T
<1> SUFFICES ASSUME q >= T + 1 PROVE FALSE
  OBVIOUS
<1>1. PICK k \in Nat : q = T + 1 + k
  <2> WITNESS q - T - 1 \in Nat
  <2> QED OBVIOUS
<1>2. b * q = b * T + b + b * k
  BY <1>1
<1>3. b * k >= 0
  OBVIOUS
<1> QED BY <1>2, <1>3

\* What is strictly smaller b-fold is strictly smaller.
LEMMA DividesStrictly ==
    ASSUME NEW b \in Nat \ {0}, NEW q \in Nat, NEW T \in Nat, b * q < b * T
    PROVE  q < T
<1>1. q <= T
  BY Divides
<1> QED BY <1>1

\* Rounding does not leave a range with whole bounds.
LEMMA RoundedInRange ==
    ASSUME NEW b \in Nat \ {0}, NEW T \in Nat, NEW a \in Nat, a <= b * T
    PROVE  Rounded(a, b) \in 0 .. T
<1> DEFINE q == a \div b
           m == a % b
<1>1. q \in Nat /\ m \in Nat /\ m < b /\ a = b * q + m
  OBVIOUS
<1> HIDE DEF q, m
<1>2. q <= T
  <2>1. b * q \in Nat /\ b * T \in Nat
    BY <1>1
  <2>2. b * q <= b * T
    BY <1>1, <2>1
  <2> QED BY <2>2, <1>1, Divides
<1>3. CASE m = 0
  <2>1. Rounded(a, b) = q
    BY <1>1, <1>3 DEF Rounded, q, m
  <2> QED BY <2>1, <1>1, <1>2
<1>4. CASE m # 0
  <2>1. b * q \in Nat /\ b * T \in Nat
    BY <1>1
  <2>2. b * q < b * T
    BY <1>1, <1>4, <2>1
  <2>3. q < T
    BY <2>2, <1>1, DividesStrictly
  <2>4. Rounded(a, b) \in {q, q + 1}
    BY DEF Rounded, q
  <2> QED BY <2>3, <2>4, <1>1
<1> QED BY <1>1, <1>3, <1>4

\* A function on an initial segment of the numbers is a sequence.
LEMMA FunctionIsSequence ==
    ASSUME NEW n \in Nat, NEW S, NEW s \in [1 .. n -> S]
    PROVE  s \in Seq(S) /\ Len(s) = n
OBVIOUS

\* A sweep has points, each of the declared ones: a probe does not leave the
\* range of the sweep it thins out.
LEMMA SweepHasPoints ==
    ASSUME NEW p \in Plans
    PROVE  Sweep(p.probe) \in Seq(1 .. Full) /\ Sweep(p.probe) # <<>>
<1> DEFINE whole == [i \in 1 .. Full |-> i]
<1>1. Full \in Nat \ {0} /\ p.probe \in (Nat \ {0}) \cup {None}
  BY PlansAssumption
<1>2. whole \in Seq(1 .. Full) /\ Len(whole) = Full /\ \A i \in 1 .. Full : whole[i] = i
  BY <1>1
<1>3. whole # <<>>
  BY <1>1, <1>2
<1>4. CASE p.probe = None
  BY <1>2, <1>3, <1>4 DEF Sweep
<1>5. ASSUME p.probe \in Nat \ {0}, p.probe # None
      PROVE  Sweep(p.probe) \in Seq(1 .. Full) /\ Sweep(p.probe) # <<>>
  <2> DEFINE n == p.probe
  <2>1. Sweep(n) = ProbeSubsample(whole, n)
    BY <1>5 DEF Sweep
  <2> HIDE DEF whole
  <2>2. CASE Full <= n
    BY <2>1, <2>2, <1>2, <1>3 DEF ProbeSubsample
  <2>3. CASE n = 1 /\ ~(Full <= n)
    <3>1. Sweep(n) = <<whole[1]>>
      BY <2>1, <2>3, <1>2 DEF ProbeSubsample
    <3>2. whole[1] = 1 /\ 1 \in 1 .. Full
      BY <1>1, <1>2
    <3>3. Sweep(n) = <<1>>
      BY <3>1, <3>2
    <3> QED BY <3>2, <3>3
  <2>4. CASE n # 1 /\ ~(Full <= n)
    <3> DEFINE place(i) == Rounded((i - 1) * (Full - 1), n - 1)
    <3>1. Sweep(n) = [i \in 1 .. n |-> whole[place(i) + 1]]
      BY <2>1, <2>4, <1>2 DEF ProbeSubsample
    <3>2. ASSUME NEW i \in 1 .. n
          PROVE  place(i) + 1 \in 1 .. Full
      <4> DEFINE a == (i - 1) * (Full - 1)
                 b == n - 1
                 T == Full - 1
      <4>1. n \in Nat /\ b \in Nat \ {0} /\ T \in Nat /\ i - 1 \in Nat
        BY <1>1, <1>5, <2>4
      <4>2. a \in Nat /\ a <= b * T
        <5>1. PICK k \in Nat : b = (i - 1) + k
          <6>1. b - (i - 1) \in Nat /\ b = (i - 1) + (b - (i - 1))
            BY <4>1
          <6> QED BY <6>1
        <5>2. b * T = (i - 1) * T + k * T
          BY <5>1, <4>1
        <5>3. k * T \in Nat /\ (i - 1) * T \in Nat
          BY <4>1
        <5> QED BY <5>2, <5>3
      <4> HIDE DEF a, b, T
      <4>3. Rounded(a, b) \in 0 .. T
        BY <4>1, <4>2, RoundedInRange
      <4>4. place(i) \in 0 .. Full - 1
        BY <4>3 DEF a, b, T
      <4> QED BY <4>4, <1>1
    <3> HIDE DEF place
    <3>3. Sweep(n) \in [1 .. n -> 1 .. Full] /\ n \in Nat /\ n # 0
      BY <3>1, <3>2, <1>2, <1>5
    <3> DEFINE s == Sweep(n)
    <3>4. s \in Seq(1 .. Full) /\ Len(s) = n
      <4> HIDE DEF s
      <4>1. s \in [1 .. n -> 1 .. Full]
        BY <3>3 DEF s
      <4>2. n \in Nat
        BY <3>3
      <4> QED BY <4>1, <4>2, FunctionIsSequence
    <3> QED BY <3>3, <3>4
  <2> QED BY <2>2, <2>3, <2>4
<1> QED BY <1>1, <1>4, <1>5
-----------------------------------------------------------------------------
(***************************************************************************)
(* The invariant.                                                          *)
(***************************************************************************)

\* The members of a sequence, the state a run will be resumed in, and the point
\* the index stands at.
Among(s) == {s[i] : i \in DOMAIN s}
Phase == IF state = "PAUSED" THEN wait.back ELSE state
Here  == run.sweep[index]

\* A ramp that is under way has left its level and not reached the next.
Somewhere(a) ==
    /\ a.goal # None => a.at = (IF a.left = 0 THEN a.goal ELSE None)
    /\ a.goal = None => a.left = 0
AxisIsSomewhere == Somewhere(axis)

\* Before the first start there is nothing.
NothingYet ==
    run = NoRun => file = NoFile /\ armed = FALSE /\ setting = <<0, 0>> /\ doing = "none"
                   /\ index = 1 /\ grid = <<>>

\* What the engine is doing, and in which state.
InItsState ==
    /\ run.sweep = <<>> => run = NoRun
    /\ doing # "none" => run # NoRun
    /\ doing = "starting" => state = "IDLE"
    /\ doing = "measuring" => state = "MEASURING"
    /\ doing = "parking" => state = "STANDBY" /\ ~parked
    /\ doing \in {"starting", "measuring", "parking"} => run.on
    /\ doing = "none" => (run.on <=> Active \/ state = "PAUSED")
    /\ state = "PAUSED" =>
          wait.back \in {"INITIATING", "RAMPING", "INITIATION_GATE", "SWEEPING", "STANDBY"}
    /\ pausing /\ doing # "ending" => state \in {"MEASURING", "SWEEPING"}
    /\ parked /\ doing # "ending" => Phase = "STANDBY"

\* Only slots of the reading loop are set.
OnlyItsSlots == \A s \in 1 .. 2 : setting[s] # 0 => run.slot[s].n > 0

\* The index, the file and the state count the same points.
Points ==
    /\ file.last <= file.length
    /\ run # NoRun => file.length <= Len(run.sweep)
    /\ file.stamped \in {1 .. file.last, 1 .. file.last + 1}
    /\ ~file.open => file.stamped = 1 .. file.last
    /\ file.open => file.length = Len(run.sweep)
    /\ run.on /\ doing # "ending" =>
         /\ file.stamped = 1 .. file.last
         /\ file.open \/ parked \/ doing = "parking"
         /\ (\/ Phase \in {"IDLE", "INITIATING", "RAMPING", "INITIATION_GATE"}
             \/ Phase = "MEASURING" /\ (doing = "none" \/ todo # <<>>)) =>
               file.last = index - 1 /\ index <= Len(run.sweep)
         /\ (Phase = "SWEEPING" \/ (doing = "measuring" /\ todo = <<>>)) =>
               file.last = index /\ index <= Len(run.sweep)

Opens == {Cmd(v, "initiate", None) : v \in VIs}
            \cup {Cmd("axis", "ramp", Level), Cmd("meter", "arm", None)}
            \cup {Set(s, 1) : s \in {x \in 1 .. 2 : run.slot[x].n > 0}}
Offs  == {Off(v) : v \in VIs}

\* Meter and path are prepared, or will be by the commands of todo.
Prepared ==
    /\ doing = "starting" =>
        /\ todo \in Seq(Opens)
        /\ armed \/ Cmd("meter", "arm", None) \in Among(todo)
        /\ \A s \in 1 .. 2 : run.slot[s].n = 1 => setting[s] = 1 \/ Set(s, 1) \in Among(todo)
        /\ (axis.goal = Level /\ wanted = Level) \/ Cmd("axis", "ramp", Level) \in Among(todo)
    /\ doing = "measuring" \/ (doing = "none" /\ run.on /\ ~parked) =>
        /\ armed /\ \A s \in 1 .. 2 : run.slot[s].n = 1 => setting[s] = 1

\* What is armed or set is off, or will be by the commands of todo.
SwitchedOff ==
    /\ doing \in {"parking", "ending"} =>
        /\ todo \in Seq(Offs)
        /\ \A i \in DOMAIN todo : todo[i] = Off("meter") => i = 1
        /\ armed => \/ Off("meter") \in Among(todo)
                    \/ doing = "ending" /\ refused \cap {"file", "meter"} # {}
        /\ (\E s \in 1 .. 2 : run.slot[s].vi = "path" /\ setting[s] # 0) =>
              Off("path") \in Among(todo) \/ (doing = "ending" /\ refused # {})
        /\ (doing = "parking" /\ run.kind # "temperature") =>
              axis.goal = Zero \/ Off("axis") \in Among(todo)
        /\ doing = "parking" => wanted = None
    /\ doing = "none" /\ run.on /\ parked =>
        /\ ~armed /\ wanted = None
        /\ \A s \in 1 .. 2 : run.slot[s].vi = "path" => setting[s] = 0
        /\ run.kind = "temperature" \/ axis.goal \in {Zero, None}

\* The reading loop stands before one cell, has read those before it, and has
\* set what does not change before that reading.
Before(c) == {d \in Cells : d[1] < c[1] \/ (d[1] = c[1] /\ d[2] < c[2])}
Looking(s, c) == Loops(s) => setting[s] = c[s]
AtWork ==
    doing = "measuring" /\ todo # <<>> =>
        \/ todo = <<Cmd("axis", "save", None)>> /\ DOMAIN grid = Cells
        \/ \E c \in Cells :
             /\ DOMAIN grid = Before(c)
             /\ \/ todo = AtCell(c) /\ (c[2] = 1 \/ Looking(1, c))
                \/ todo = Inner(c) \o <<Read(c)>> /\ Looking(1, c)
                \/ todo = <<Read(c)>> /\ Looking(1, c) /\ Looking(2, c)
ReadingsAreTheirOwn ==
    /\ DOMAIN grid # {} => doing = "measuring" /\ todo # <<>>
    /\ \A c \in DOMAIN grid :
        grid[c].armed /\ \A s \in 1 .. 2 : run.slot[s].n = 0 \/ grid[c].set[s] = c[s]

\* Where the axis is on its way to a point, and how long it has been there.
Settled == strayed # "no" \/ (run.kind = "imaging" /\ index = 1) \/ rest = Settle
InPlace ==
    /\ (doing # "ending" /\ run.on) =>
        /\ doing = "starting" => first /\ strayed = "no"
        /\ Phase \in {"IDLE", "INITIATING", "RAMPING"} => (first <=> index = 1)
        /\ Phase = "INITIATION_GATE" => (index = 1 /\ run.kind = "imaging")
        /\ Phase \in {"MEASURING", "SWEEPING"} => ~first
        /\ wait.on => (Phase = "RAMPING" /\ ~Gated)
        /\ (doing = "none" /\ Phase \in {"INITIATING", "RAMPING"}) =>
              /\ wanted = (IF Gated THEN Saturation ELSE Here)
              /\ state # "PAUSED" => axis.goal = wanted
              /\ (wait.on /\ strayed = "no") => axis.at = Here /\ rest >= wait.spent
              /\ strayed \in {"no", "wait"}
        /\ (Phase = "INITIATION_GATE" /\ strayed # "gate") =>
              /\ gates.commanded => axis.goal \in {Here, None}
              /\ "from_saturation" \notin gates.left => gates.commanded /\ axis.at = Here
        /\ (doing = "measuring" \/ state = "MEASURING") =>
              /\ strayed = "gate" \/ axis.at = Here
              /\ Settled
Ind ==
    /\ AxisIsSomewhere /\ NothingYet /\ InItsState /\ OnlyItsSlots
    /\ Points /\ Prepared /\ SwitchedOff
    /\ AtWork /\ ReadingsAreTheirOwn /\ InPlace /\ RowsAreTheirPoints

-----------------------------------------------------------------------------
(***************************************************************************)
(* Two actions in plain words.                                             *)
(***************************************************************************)
Started(p) ==
    /\ doing = "none" /\ state = "IDLE" /\ run = NoRun
    /\ index' = 1 /\ strayed' = "no" /\ grid' = <<>> /\ Forgotten
    /\ \/ /\ doing' = "ending" /\ final' = "ERROR" /\ refused' = {} /\ file' = NoFile
          /\ todo' = SafeOff'
       \/ /\ doing' = "starting" /\ file' = NewFile /\ todo' = Opening'
          /\ final' = final /\ refused' = refused
    /\ state' = state /\ axis' = axis /\ rest' = rest /\ armed' = armed /\ setting' = setting
    /\ mute' = mute /\ full' = full /\ held' = held
StartedRun(p, o) ==
    run' = [on |-> TRUE, owns |-> o, kind |-> p.kind, sweep |-> Sweep(p.probe), slot |-> p.slot]

\* _start_run, whether or not initiate() could create the file.
LEMMA StartFacts ==
    ASSUME NEW p \in Plans, Start(p)
    PROVE  \E o \in BOOLEAN : Started(p) /\ StartedRun(p, o)
<1> DEFINE o == ~full
<1>1. o \in BOOLEAN
  OBVIOUS
<1>2. Started(p) /\ StartedRun(p, o)
  BY Zenon DEF Start, Started, StartedRun, Between, cleanup, outside
<1> QED BY <1>1, <1>2, Zenon

\* resume_procedure, of a run that is paused and of one that was to be.
LEMMA ResumeFacts ==
    ASSUME Resume
    PROVE  /\ doing = "none"
           /\ \/ /\ state = "PAUSED" /\ state' = wait.back /\ pausing' = pausing
                 /\ \/ Redispatched /\ Moves(StartRamp(axis, wanted))
                    \/ ~Redispatched /\ axis' = axis /\ rest' = rest
              \/ /\ state # "PAUSED" /\ pausing /\ pausing' = FALSE /\ state' = state
                 /\ axis' = axis /\ rest' = rest
           /\ index' = index /\ strayed' = strayed /\ first' = first /\ wait' = wait
           /\ gates' = gates /\ parked' = parked /\ wanted' = wanted
           /\ Rest /\ Sent
BY Zenon DEF Resume, Between

\* The disk and the hold turn without anything else.
LEMMA TurnsFacts ==
    ASSUME DiskFills \/ HoldTurns
    PROVE  /\ full' \in BOOLEAN \/ full' = full
           /\ held' \in BOOLEAN \/ held' = held
           /\ mute' = mute /\ rest' = rest /\ wait' = wait /\ gates' = gates /\ World
BY Zenon DEF DiskFills, HoldTurns

\* Only a run that was started has a sweep to walk through.
LEMMA SweepIsThere ==
    ASSUME TypeOK, InItsState, doing = "none", Active \/ state = "PAUSED"
    PROVE  run.on /\ run # NoRun /\ run.sweep # <<>> /\ run.sweep[1] \in Nat
<1>1. run.on
  BY Zenon DEF InItsState
<1>2. run # NoRun
  BY <1>1 DEF NoRun
<1>3. run.sweep # <<>>
  BY <1>2 DEF InItsState
<1>4. run.sweep \in Seq(Nat)
  BY DEF TypeOK
<1> QED BY <1>1, <1>2, <1>3, <1>4

-----------------------------------------------------------------------------
Axes == {a \in [goal : Levels, left : 0 .. RampSteps, at : Levels] : Somewhere(a)}
PlainTypes ==
    /\ state \in States
    /\ index \in Nat \ {0} /\ first \in BOOLEAN /\ strayed \in {"no", "wait", "gate"}
    /\ pausing \in BOOLEAN /\ parked \in BOOLEAN /\ armed \in BOOLEAN
    /\ doing \in {"none", "starting", "measuring", "parking", "ending"}
    /\ final \in {"IDLE", "ERROR"} /\ refused \subseteq VIs \cup {"file"} /\ mute \subseteq VIs
    /\ full \in BOOLEAN /\ held \in BOOLEAN
RunTypes ==
    run \in [on : BOOLEAN, owns : BOOLEAN, kind : {"field", "imaging", "temperature"},
            sweep : Seq(Nat), slot : [1 .. 2 -> [vi : {"path", "meter"}, n : Nat]]]
ClockTypes ==
    /\ wait \in [on : BOOLEAN, spent : 0 .. Settle, back : States]
    /\ gates \in [left : SUBSET {"from_saturation", "settle"}, commanded : BOOLEAN,
                  since : 0 .. Settle \cup {None}]
AxisTypes ==
    /\ axis \in Axes /\ rest \in 0 .. Settle /\ wanted \in Levels
MeterTypes ==
    setting \in [1 .. 2 -> Nat] /\ DOMAIN grid \subseteq Nat \X Nat
FileTypes ==
    /\ DOMAIN file = {"open", "length", "rows", "stamped", "last"}
    /\ file.open \in BOOLEAN /\ {file.length, file.last} \subseteq Nat /\ file.stamped \subseteq Nat
    /\ DOMAIN file.rows \subseteq Nat
TodoTypes ==
    todo \in Seq(Commands)

\* The types in parts, with the axis that is somewhere as one of them.
LEMMA TypeParts ==
    TypeOK /\ AxisIsSomewhere <=> PlainTypes /\ RunTypes /\ ClockTypes /\ AxisTypes
      /\ MeterTypes /\ FileTypes /\ TodoTypes
BY DEF TypeOK, Axes, AxisIsSomewhere, PlainTypes, RunTypes, ClockTypes, AxisTypes, MeterTypes,
   FileTypes, TodoTypes

\* Each action keeps the types of the plain variables.
LEMMA PlainTypesStep ==
    ASSUME TypeOK, AxisIsSomewhere, InItsState, Next
    PROVE  PlainTypes'
<1>1. ASSUME NEW p \in Plans, NEW o \in BOOLEAN, Started(p), StartedRun(p, o) PROVE PlainTypes'
  <2>1. /\ state' = state /\ index' = 1 /\ first' = TRUE /\ strayed' = "no"
        /\ pausing' = FALSE /\ parked' = FALSE /\ armed' = armed /\ mute' = mute /\ full' = full
        /\ held' = held
    BY <1>1 DEF Started, Forgotten
  <2>2. \/ doing' = "ending" /\ final' = "ERROR" /\ refused' = {}
        \/ doing' = "starting" /\ final' = final /\ refused' = refused
    BY <1>1, Zenon DEF Started
  <2>3. PlainTypes
    BY TypeParts
  <2>4. state' \in States /\ mute' \subseteq VIs /\ index' \in Nat \ {0}
    BY <2>1, <2>3 DEF PlainTypes, States, VIs
  <2>7. refused' \subseteq VIs \cup {"file"}
    BY <2>2, <2>3 DEF PlainTypes, VIs
  <2>5. first' \in BOOLEAN /\ pausing' \in BOOLEAN /\ parked' \in BOOLEAN /\ armed' \in BOOLEAN
        /\ full' \in BOOLEAN /\ held' \in BOOLEAN
    BY <2>1, <2>3, Zenon DEF PlainTypes
  <2>6. doing' \in {"none", "starting", "measuring", "parking", "ending"}
          /\ final' \in {"IDLE", "ERROR"}
    BY <2>2, <2>3 DEF PlainTypes
  <2> QED BY <2>1, <2>4, <2>5, <2>6, <2>7 DEF PlainTypes, VIs
<1>2. CASE SendInitiate
  BY <1>2, TypeParts DEF SendInitiate, Sends, IsNext, Undisturbed, schedule, cleanup, outside,
     point, PlainTypes, States, VIs, Active, Between
<1>3. CASE SendRamp
  BY <1>3, TypeParts DEF SendRamp, Sends, IsNext, Undisturbed, Moves, schedule, cleanup,
     outside, point, PlainTypes, States, VIs, Active, Between
<1>4. CASE SendSet
  BY <1>4, TypeParts DEF SendSet, Sends, IsNext, Undisturbed, schedule, cleanup, outside,
     point, PlainTypes, States, VIs, Active, Between
<1>5. CASE SendArm
  BY <1>5, TypeParts DEF SendArm, Sends, IsNext, Undisturbed, schedule, cleanup, outside,
     point, PlainTypes, States, VIs, Active, Between
<1>6. CASE SendOff
  BY <1>6, TypeParts DEF SendOff, Sends, IsNext, Undisturbed, Moves, schedule, cleanup,
     outside, point, PlainTypes, States, VIs, Active, Between
<1>7. CASE SendRead
  BY <1>7, TypeParts DEF SendRead, IsNext, Undisturbed, schedule, cleanup, outside, point,
     PlainTypes, States, VIs, Active, Between
<1>8. CASE SendSave
  BY <1>8, TypeParts DEF SendSave, Sends, IsNext, Undisturbed, schedule, cleanup, outside,
     point, PlainTypes, States, VIs, Active, Between
<1>9. CASE SendRaises
  BY <1>9, TypeParts DEF SendRaises, Raises, TearDown, schedule, cleanup, outside, point,
     PlainTypes, States, VIs, Active, Between, TodoTypes, Commands
<1>10. CASE SaveRaises
  BY <1>10, TypeParts DEF SaveRaises, Raises, TearDown, schedule, cleanup, outside, point,
     PlainTypes, States, VIs, Active, Between
<1>11. CASE Opened
  BY <1>11, TypeParts DEF Opened, AllSent, Unmoved, schedule, cleanup, outside, point,
     PlainTypes, States, VIs, Active, Between
<1>12. CASE Measured
  BY <1>12, TypeParts DEF Measured, AllSent, Unmoved, schedule, cleanup, outside, point,
     PlainTypes, States, VIs, Active, Between
<1>13. CASE ParkingSent
  BY <1>13, TypeParts DEF ParkingSent, AllSent, Unmoved, schedule, cleanup, outside, point,
     PlainTypes, States, VIs, Active, Between
<1>14. CASE TornDown
  BY <1>14, TypeParts DEF TornDown, Forgotten, Moves, schedule, cleanup, outside, point,
     PlainTypes, States, VIs, Active, Between
<1>15. CASE TickInitiating
  BY <1>15, TypeParts DEF TickInitiating, Ticks, Unmoved, Rest, Sent, schedule, cleanup,
     outside, point, PlainTypes, States, VIs, Active, Between
<1>16. CASE TickRamping
  BY <1>16, TypeParts DEF TickRamping, Ticks, Steps, Followed, Moves, Rest, Sent, schedule,
     cleanup, outside, point, PlainTypes, States, VIs, Active, Between
<1>17. CASE TickGate
  BY <1>17, TypeParts DEF TickGate, Ticks, Moves, Rest, Sent, schedule, cleanup, outside,
     point, PlainTypes, States, VIs, Active, Between
<1>18. CASE TickMeasuring
  BY <1>18, TypeParts DEF TickMeasuring, Ticks, Steps, Followed, Moves, Rest, schedule,
     cleanup, outside, point, PlainTypes, States, VIs, Active, Between
<1>19. CASE TickSweeping
  BY <1>19, TypeParts DEF TickSweeping, Ticks, Followed, Moves, Rest, Sent, schedule, cleanup,
     outside, point, PlainTypes, States, VIs, Active, Between
<1>20. CASE TickStandby
  BY <1>20, TypeParts DEF TickStandby, Ticks, Steps, Followed, Moves, Rest, Sent, TearDown,
     schedule, cleanup, outside, point, PlainTypes, States, VIs, Active, Between
<1>21. CASE TickFinish
  BY <1>21, TypeParts DEF TickFinish, Ticks, Steps, Followed, Moves, Sent, schedule, cleanup,
     outside, point, PlainTypes, States, VIs, Active, Between
<1>22. CASE TickPauseBoundary
  BY <1>22, TypeParts DEF TickPauseBoundary, EnterPaused, Ticks, Followed, Moves, Rest, Sent,
     schedule, cleanup, outside, point, PlainTypes, States, VIs, Active, Between
<1>23. CASE TickFails
  BY <1>23, TypeParts DEF TickFails, TearDown, Unmoved, Rest, schedule, cleanup, outside,
     point, PlainTypes, States, VIs, Active, Between
<1>24. CASE TickHeld
  BY <1>24, TypeParts DEF TickHeld, TearDown, Unmoved, Moves, Rest, schedule, cleanup, outside,
     point, PlainTypes, States, VIs, Active, Between
<1>25. CASE TickHeldPaused
  BY <1>25, TypeParts DEF TickHeldPaused, Moves, Rest, Sent, schedule, cleanup, outside, point,
     PlainTypes, States, VIs, Active, Between
<1>26. CASE Pause
  BY <1>26, TypeParts DEF Pause, EnterPaused, Moves, Unmoved, Rest, Sent, schedule, cleanup,
     outside, point, PlainTypes, States, VIs, Active, Between
<1>27. CASE Resume
  <2>1. wait.back \in States
    BY TypeParts DEF ClockTypes
  <2> QED BY <1>27, <2>1, ResumeFacts, TypeParts DEF Rest, Sent, PlainTypes, schedule,
     cleanup, outside
<1>28. CASE Abort
  BY <1>28, TypeParts DEF Abort, TearDown, Unmoved, Rest, schedule, cleanup, outside, point,
     PlainTypes, States, VIs, Active, Between
<1>29. CASE Recover
  BY <1>29, TypeParts DEF Recover, Unmoved, Rest, Sent, schedule, cleanup, outside, point,
     PlainTypes, States, VIs, Active, Between
<1>30. CASE Elapse
  BY <1>30, TypeParts DEF Elapse, World, schedule, cleanup, outside, point, PlainTypes, States,
     VIs, Active, Between
<1>31. CASE \E v \in VIs : Silence(v) \/ Speak(v)
  BY <1>31, TypeParts DEF Silence, Speak, World, Calm, schedule, cleanup, outside, point,
     PlainTypes, States, VIs, Active, Between
<1>32. CASE DiskFills \/ HoldTurns
  BY <1>32, TurnsFacts, TypeParts DEF World, schedule, cleanup, outside, point, PlainTypes,
     States, VIs, Active, Between
<1> QED BY <1>1, <1>2, <1>3, <1>4, <1>5, <1>6, <1>7, <1>8, <1>9, <1>10, <1>11, <1>12, <1>13,
       <1>14, <1>15, <1>16, <1>17, <1>18, <1>19, <1>20, <1>21, <1>22, <1>23, <1>24, <1>25,
       <1>26, <1>27, <1>28, <1>29, <1>30, <1>31, <1>32, StartFacts DEF Next, Sending, Ticking

\* Each action keeps the type of the run.
LEMMA RunTypesStep ==
    ASSUME TypeOK, AxisIsSomewhere, InItsState, Next
    PROVE  RunTypes'
<1>1. ASSUME NEW p \in Plans, NEW o \in BOOLEAN, Started(p), StartedRun(p, o) PROVE RunTypes'
  <2>1. Sweep(p.probe) \in Seq(1 .. Full) /\ Full \in Nat
    BY SweepHasPoints, PlansAssumption
  <2>2. Sweep(p.probe) \in Seq(Nat)
    BY <2>1
  <2> QED BY <1>1, <2>2, PlansAssumption DEF StartedRun, RunTypes
<1>2. CASE SendInitiate
  BY <1>2, TypeParts DEF SendInitiate, Sends, IsNext, Undisturbed, schedule, cleanup, outside,
     point, RunTypes
<1>3. CASE SendRamp
  BY <1>3, TypeParts DEF SendRamp, Sends, IsNext, Undisturbed, Moves, schedule, cleanup,
     outside, point, RunTypes
<1>4. CASE SendSet
  BY <1>4, TypeParts DEF SendSet, Sends, IsNext, Undisturbed, schedule, cleanup, outside,
     point, RunTypes
<1>5. CASE SendArm
  BY <1>5, TypeParts DEF SendArm, Sends, IsNext, Undisturbed, schedule, cleanup, outside,
     point, RunTypes
<1>6. CASE SendOff
  BY <1>6, TypeParts DEF SendOff, Sends, IsNext, Undisturbed, Moves, schedule, cleanup,
     outside, point, RunTypes
<1>7. CASE SendRead
  BY <1>7, TypeParts DEF SendRead, IsNext, Undisturbed, schedule, cleanup, outside, point,
     RunTypes
<1>8. CASE SendSave
  BY <1>8, TypeParts DEF SendSave, Sends, IsNext, Undisturbed, schedule, cleanup, outside,
     point, RunTypes
<1>9. CASE SendRaises
  BY <1>9, TypeParts DEF SendRaises, Raises, TearDown, schedule, cleanup, outside, point,
     RunTypes
<1>10. CASE SaveRaises
  BY <1>10, TypeParts DEF SaveRaises, Raises, TearDown, schedule, cleanup, outside, point,
     RunTypes
<1>11. CASE Opened
  BY <1>11, TypeParts DEF Opened, AllSent, Unmoved, schedule, cleanup, outside, point, RunTypes
<1>12. CASE Measured
  BY <1>12, TypeParts DEF Measured, AllSent, Unmoved, schedule, cleanup, outside, point,
     RunTypes
<1>13. CASE ParkingSent
  BY <1>13, TypeParts DEF ParkingSent, AllSent, Unmoved, schedule, cleanup, outside, point,
     RunTypes
<1>14. CASE TornDown
  BY <1>14, TypeParts DEF TornDown, Forgotten, Moves, schedule, cleanup, outside, point,
     RunTypes
<1>15. CASE TickInitiating
  BY <1>15, TypeParts DEF TickInitiating, Ticks, Unmoved, Rest, Sent, schedule, cleanup,
     outside, point, RunTypes
<1>16. CASE TickRamping
  BY <1>16, TypeParts DEF TickRamping, Ticks, Steps, Followed, Moves, Rest, Sent, schedule,
     cleanup, outside, point, RunTypes
<1>17. CASE TickGate
  BY <1>17, TypeParts DEF TickGate, Ticks, Moves, Rest, Sent, schedule, cleanup, outside,
     point, RunTypes
<1>18. CASE TickMeasuring
  BY <1>18, TypeParts DEF TickMeasuring, Ticks, Steps, Followed, Moves, Rest, schedule,
     cleanup, outside, point, RunTypes
<1>19. CASE TickSweeping
  BY <1>19, TypeParts DEF TickSweeping, Ticks, Followed, Moves, Rest, Sent, schedule, cleanup,
     outside, point, RunTypes
<1>20. CASE TickStandby
  BY <1>20, TypeParts DEF TickStandby, Ticks, Steps, Followed, Moves, Rest, Sent, TearDown,
     schedule, cleanup, outside, point, RunTypes
<1>21. CASE TickFinish
  BY <1>21, TypeParts DEF TickFinish, Ticks, Steps, Followed, Moves, Sent, schedule, cleanup,
     outside, point, RunTypes
<1>22. CASE TickPauseBoundary
  BY <1>22, TypeParts DEF TickPauseBoundary, EnterPaused, Ticks, Followed, Moves, Rest, Sent,
     schedule, cleanup, outside, point, RunTypes
<1>23. CASE TickFails
  BY <1>23, TypeParts DEF TickFails, TearDown, Unmoved, Rest, schedule, cleanup, outside,
     point, RunTypes
<1>24. CASE TickHeld
  BY <1>24, TypeParts DEF TickHeld, TearDown, Unmoved, Moves, Rest, schedule, cleanup, outside,
     point, RunTypes
<1>25. CASE TickHeldPaused
  BY <1>25, TypeParts DEF TickHeldPaused, Moves, Rest, Sent, schedule, cleanup, outside, point,
     RunTypes
<1>26. CASE Pause
  BY <1>26, TypeParts DEF Pause, EnterPaused, Moves, Unmoved, Rest, Sent, schedule, cleanup,
     outside, point, RunTypes
<1>27. CASE Resume
  BY <1>27, ResumeFacts, TypeParts DEF Rest, Sent, Moves, schedule, cleanup, outside, point,
     RunTypes
<1>28. CASE Abort
  BY <1>28, TypeParts DEF Abort, TearDown, Unmoved, Rest, schedule, cleanup, outside, point,
     RunTypes
<1>29. CASE Recover
  BY <1>29, TypeParts DEF Recover, Unmoved, Rest, Sent, schedule, cleanup, outside, point,
     RunTypes
<1>30. CASE Elapse
  BY <1>30, TypeParts DEF Elapse, World, schedule, cleanup, outside, point, RunTypes
<1>31. CASE \E v \in VIs : Silence(v) \/ Speak(v)
  BY <1>31, TypeParts DEF Silence, Speak, World, Calm, schedule, cleanup, outside, point,
     RunTypes
<1>32. CASE DiskFills \/ HoldTurns
  BY <1>32, TurnsFacts, TypeParts DEF World, schedule, cleanup, outside, point, RunTypes
<1> QED BY <1>1, <1>2, <1>3, <1>4, <1>5, <1>6, <1>7, <1>8, <1>9, <1>10, <1>11, <1>12, <1>13,
       <1>14, <1>15, <1>16, <1>17, <1>18, <1>19, <1>20, <1>21, <1>22, <1>23, <1>24, <1>25,
       <1>26, <1>27, <1>28, <1>29, <1>30, <1>31, <1>32, StartFacts DEF Next, Sending, Ticking

\* Each action keeps the types of the clocks: none runs beyond Settle.
LEMMA ClockTypesStep ==
    ASSUME TypeOK, AxisIsSomewhere, InItsState, Next
    PROVE  ClockTypes'
<1>1. ASSUME NEW p \in Plans, NEW o \in BOOLEAN, Started(p), StartedRun(p, o) PROVE ClockTypes'
  BY <1>1, TypeParts, TimesAssumption DEF Started, Forgotten, schedule, cleanup, outside,
     point, PlainTypes, ClockTypes, States, Clock, Later, NoWait, NoGates, Satisfied
<1>2. CASE SendInitiate
  BY <1>2, TypeParts, TimesAssumption DEF SendInitiate, Sends, IsNext, Undisturbed, schedule,
     cleanup, outside, point, PlainTypes, ClockTypes, States, Clock, Later, NoWait, NoGates,
     Satisfied
<1>3. CASE SendRamp
  BY <1>3, TypeParts, TimesAssumption DEF SendRamp, Sends, IsNext, Undisturbed, Moves,
     schedule, cleanup, outside, point, PlainTypes, ClockTypes, States, Clock, Later, NoWait,
     NoGates, Satisfied
<1>4. CASE SendSet
  BY <1>4, TypeParts, TimesAssumption DEF SendSet, Sends, IsNext, Undisturbed, schedule,
     cleanup, outside, point, PlainTypes, ClockTypes, States, Clock, Later, NoWait, NoGates,
     Satisfied
<1>5. CASE SendArm
  BY <1>5, TypeParts, TimesAssumption DEF SendArm, Sends, IsNext, Undisturbed, schedule,
     cleanup, outside, point, PlainTypes, ClockTypes, States, Clock, Later, NoWait, NoGates,
     Satisfied
<1>6. CASE SendOff
  BY <1>6, TypeParts, TimesAssumption DEF SendOff, Sends, IsNext, Undisturbed, Moves, schedule,
     cleanup, outside, point, PlainTypes, ClockTypes, States, Clock, Later, NoWait, NoGates,
     Satisfied
<1>7. CASE SendRead
  BY <1>7, TypeParts, TimesAssumption DEF SendRead, IsNext, Undisturbed, schedule, cleanup,
     outside, point, PlainTypes, ClockTypes, States, Clock, Later, NoWait, NoGates, Satisfied
<1>8. CASE SendSave
  BY <1>8, TypeParts, TimesAssumption DEF SendSave, Sends, IsNext, Undisturbed, schedule,
     cleanup, outside, point, PlainTypes, ClockTypes, States, Clock, Later, NoWait, NoGates,
     Satisfied
<1>9. CASE SendRaises
  BY <1>9, TypeParts, TimesAssumption DEF SendRaises, Raises, TearDown, schedule, cleanup,
     outside, point, PlainTypes, ClockTypes, States, Clock, Later, NoWait, NoGates, Satisfied
<1>10. CASE SaveRaises
  BY <1>10, TypeParts, TimesAssumption DEF SaveRaises, Raises, TearDown, schedule, cleanup,
     outside, point, PlainTypes, ClockTypes, States, Clock, Later, NoWait, NoGates, Satisfied
<1>11. CASE Opened
  BY <1>11, TypeParts, TimesAssumption DEF Opened, AllSent, Unmoved, schedule, cleanup,
     outside, point, PlainTypes, ClockTypes, States, Clock, Later, NoWait, NoGates, Satisfied
<1>12. CASE Measured
  BY <1>12, TypeParts, TimesAssumption DEF Measured, AllSent, Unmoved, schedule, cleanup,
     outside, point, PlainTypes, ClockTypes, States, Clock, Later, NoWait, NoGates, Satisfied
<1>13. CASE ParkingSent
  BY <1>13, TypeParts, TimesAssumption DEF ParkingSent, AllSent, Unmoved, schedule, cleanup,
     outside, point, PlainTypes, ClockTypes, States, Clock, Later, NoWait, NoGates, Satisfied
<1>14. CASE TornDown
  BY <1>14, TypeParts, TimesAssumption DEF TornDown, Forgotten, Moves, schedule, cleanup,
     outside, point, PlainTypes, ClockTypes, States, Clock, Later, NoWait, NoGates, Satisfied
<1>15. CASE TickInitiating
  BY <1>15, TypeParts, TimesAssumption DEF TickInitiating, Ticks, Unmoved, Rest, Sent,
     schedule, cleanup, outside, point, PlainTypes, ClockTypes, States, Clock, Later, NoWait,
     NoGates, Satisfied
<1>16. CASE TickRamping
  <2>0. 0 \in 0 .. Settle
    BY TimesAssumption
  <2>1. Clock \in [on : BOOLEAN, spent : 0 .. Settle, back : States]
    BY <2>0, TypeParts DEF ClockTypes, Clock
  <2>2. wait' \in {wait, Clock, [Clock EXCEPT !.on = FALSE]}
    BY <1>16 DEF TickRamping
  <2>3. gates' \in {gates, [NoGates EXCEPT !.left = {"from_saturation", "settle"}]}
    BY <1>16 DEF TickRamping
  <2> QED BY <2>1, <2>2, <2>3, TypeParts, TimesAssumption DEF ClockTypes, NoGates
<1>17. CASE TickGate
  BY <1>17, TypeParts, TimesAssumption DEF TickGate, Ticks, Moves, Rest, Sent, schedule,
     cleanup, outside, point, PlainTypes, ClockTypes, States, Clock, Later, NoWait, NoGates,
     Satisfied
<1>18. CASE TickMeasuring
  BY <1>18, TypeParts, TimesAssumption DEF TickMeasuring, Ticks, Steps, Followed, Moves, Rest,
     schedule, cleanup, outside, point, PlainTypes, ClockTypes, States, Clock, Later, NoWait,
     NoGates, Satisfied
<1>19. CASE TickSweeping
  BY <1>19, TypeParts, TimesAssumption DEF TickSweeping, Ticks, Followed, Moves, Rest, Sent,
     schedule, cleanup, outside, point, PlainTypes, ClockTypes, States, Clock, Later, NoWait,
     NoGates, Satisfied
<1>20. CASE TickStandby
  BY <1>20, TypeParts, TimesAssumption DEF TickStandby, Ticks, Steps, Followed, Moves, Rest,
     Sent, TearDown, schedule, cleanup, outside, point, PlainTypes, ClockTypes, States, Clock,
     Later, NoWait, NoGates, Satisfied
<1>21. CASE TickFinish
  BY <1>21, TypeParts, TimesAssumption DEF TickFinish, Ticks, Steps, Followed, Moves, Sent,
     schedule, cleanup, outside, point, PlainTypes, ClockTypes, States, Clock, Later, NoWait,
     NoGates, Satisfied
<1>22. CASE TickPauseBoundary
  BY <1>22, TypeParts, TimesAssumption DEF TickPauseBoundary, EnterPaused, Ticks, Followed,
     Moves, Rest, Sent, schedule, cleanup, outside, point, PlainTypes, ClockTypes, States,
     Clock, Later, NoWait, NoGates, Satisfied
<1>23. CASE TickFails
  BY <1>23, TypeParts, TimesAssumption DEF TickFails, TearDown, Unmoved, Rest, schedule,
     cleanup, outside, point, PlainTypes, ClockTypes, States, Clock, Later, NoWait, NoGates,
     Satisfied
<1>24. CASE TickHeld
  BY <1>24, TypeParts, TimesAssumption DEF TickHeld, TearDown, Unmoved, Moves, Rest, schedule,
     cleanup, outside, point, PlainTypes, ClockTypes, States, Clock, Later, NoWait, NoGates,
     Satisfied
<1>25. CASE TickHeldPaused
  BY <1>25, TypeParts, TimesAssumption DEF TickHeldPaused, Moves, Rest, Sent, schedule,
     cleanup, outside, point, PlainTypes, ClockTypes, States, Clock, Later, NoWait, NoGates,
     Satisfied
<1>26. CASE Pause
  BY <1>26, TypeParts, TimesAssumption DEF Pause, EnterPaused, Moves, Unmoved, Rest, Sent,
     schedule, cleanup, outside, point, PlainTypes, ClockTypes, States, Clock, Later, NoWait,
     NoGates, Satisfied
<1>27. CASE Resume
  BY <1>27, ResumeFacts, TypeParts, TimesAssumption DEF Rest, Sent, Moves, schedule, cleanup,
     outside, point, PlainTypes, ClockTypes, States, Clock, Later, NoWait, NoGates, Satisfied
<1>28. CASE Abort
  BY <1>28, TypeParts, TimesAssumption DEF Abort, TearDown, Unmoved, Rest, schedule, cleanup,
     outside, point, PlainTypes, ClockTypes, States, Clock, Later, NoWait, NoGates, Satisfied
<1>29. CASE Recover
  BY <1>29, TypeParts, TimesAssumption DEF Recover, Unmoved, Rest, Sent, schedule, cleanup,
     outside, point, PlainTypes, ClockTypes, States, Clock, Later, NoWait, NoGates, Satisfied
<1>30. CASE Elapse
  BY <1>30, TypeParts, TimesAssumption DEF Elapse, World, schedule, cleanup, outside, point,
     PlainTypes, ClockTypes, States, Clock, Later, NoWait, NoGates, Satisfied
<1>31. CASE \E v \in VIs : Silence(v) \/ Speak(v)
  BY <1>31, TypeParts, TimesAssumption DEF Silence, Speak, World, Calm, schedule, cleanup,
     outside, point, PlainTypes, ClockTypes, States, Clock, Later, NoWait, NoGates, Satisfied
<1>32. CASE DiskFills \/ HoldTurns
  BY <1>32, TurnsFacts, TypeParts, TimesAssumption DEF World, schedule, cleanup, outside,
     point, PlainTypes, ClockTypes, States, Clock, Later, NoWait, NoGates, Satisfied
<1> QED BY <1>1, <1>2, <1>3, <1>4, <1>5, <1>6, <1>7, <1>8, <1>9, <1>10, <1>11, <1>12, <1>13,
       <1>14, <1>15, <1>16, <1>17, <1>18, <1>19, <1>20, <1>21, <1>22, <1>23, <1>24, <1>25,
       <1>26, <1>27, <1>28, <1>29, <1>30, <1>31, <1>32, StartFacts DEF Next, Sending, Ticking

\* A ramp that is started, stopped or stepped is somewhere.
LEMMA RampsKeepTheirType ==
    ASSUME NEW a \in Axes
    PROVE  /\ \A level \in Nat : StartRamp(a, level) \in Axes
           /\ StopRamp(a) \in Axes /\ Advance(a) \in Axes
<1>1. StopRamp(a) \in Axes
  BY TimesAssumption DEF Axes, StopRamp, Levels, Somewhere
<1>2. Advance(a) \in Axes
  <2>1. a.left # 0 => a.left - 1 \in 0 .. RampSteps
    BY TimesAssumption DEF Axes
  <2>2. (IF a.left = 1 THEN a.goal ELSE None) \in Levels
    BY DEF Axes, Levels
  <2>3. Somewhere(a) /\ a.goal \in Levels /\ a.left \in 0 .. RampSteps /\ a.at \in Levels
    BY DEF Axes
  <2>4. a.left # 0 => (a.left - 1 = 0 <=> a.left = 1) /\ a.goal # None
    BY <2>3, TimesAssumption DEF Somewhere
  <2>5. Advance(a) \in [goal : Levels, left : 0 .. RampSteps, at : Levels]
    BY <2>1, <2>2 DEF Axes, Advance
  <2>6. Somewhere(Advance(a))
    <3>1. CASE a.left = 0
      BY <2>3, <3>1 DEF Advance
    <3>2. CASE a.left # 0
      <4>1. Advance(a) = [goal |-> a.goal, left |-> a.left - 1, at |-> IF a.left = 1 THEN a.goal
              ELSE None]
        BY <3>2 DEF Advance, Axes
      <4> QED BY <2>4, <3>2, <4>1 DEF Somewhere
    <3> QED BY <3>1, <3>2
  <2> QED BY <2>5, <2>6 DEF Axes
<1>3. ASSUME NEW level \in Nat PROVE StartRamp(a, level) \in Axes
  BY TimesAssumption DEF Axes, StartRamp, Levels, Somewhere
<1> QED BY <1>1, <1>2, <1>3

\* An axis that moves somewhere keeps its type.
LEMMA MovesToItsType ==
    ASSUME AxisTypes, NEW a \in Axes, Moves(a), wanted' \in Levels
    PROVE  AxisTypes'
BY TimesAssumption DEF AxisTypes, Moves, Axes

Typed(f) ==
    /\ DOMAIN f = {"open", "length", "rows", "stamped", "last"}
    /\ f.open \in BOOLEAN /\ {f.length, f.last} \subseteq Nat /\ f.stamped \subseteq Nat
    /\ DOMAIN f.rows \subseteq Nat

\* However far a save comes it leaves a file.
LEMMA WrittenTypes ==
    ASSUME TypeOK
    PROVE  \A f \in {file, Columns, Stamped, Saved} : Typed(f)
<1>0. index \in Nat
  BY DEF TypeOK
<1>1. Typed(file)
  BY DEF TypeOK, Typed
<1>2. Typed(Columns)
  BY <1>0, <1>1 DEF Typed, Columns
<1>3. Typed(Stamped)
  BY <1>0, <1>2 DEF Typed, Stamped
<1>4. Typed(Saved)
  BY <1>0, <1>3 DEF Typed, Saved
<1> QED BY <1>1, <1>2, <1>3, <1>4

\* A file that is closed is a file.
LEMMA ClosedTypes ==
    ASSUME NEW f, Typed(f)
    PROVE  Typed(Closed(f))
BY DEF Typed, Closed, Trimmed

\* Each action keeps the axis somewhere.
LEMMA AxisTypesStep ==
    ASSUME TypeOK, AxisIsSomewhere, InItsState, Next
    PROVE  AxisTypes'
<1>1. ASSUME NEW p \in Plans, NEW o \in BOOLEAN, Started(p), StartedRun(p, o) PROVE AxisTypes'
  BY <1>1, TypeParts, TimesAssumption DEF Started, Forgotten, schedule, cleanup, outside,
     point, AxisTypes, StartRamp, StopRamp, Advance, Later, Levels, Zero
<1>2. CASE SendInitiate
  BY <1>2, TypeParts, TimesAssumption DEF SendInitiate, Sends, IsNext, Undisturbed, schedule,
     cleanup, outside, point, AxisTypes, StartRamp, StopRamp, Advance, Later, Levels, Zero
<1>3. CASE SendRamp
  <2>1. axis \in Axes /\ wanted \in Levels
    BY TypeParts DEF AxisTypes, Axes
  <2>2. Advance(axis) \in Axes /\ Zero \in Nat
    BY <2>1, RampsKeepTheirType DEF Zero
  <2>3. todo \in Seq(Commands) /\ todo # <<>> /\ Head(todo).what = "ramp"
    BY <1>3, TypeParts DEF SendRamp, Sends, IsNext, TodoTypes
  <2>4. Head(todo) \in Commands
    BY <2>3
  <2>5. Head(todo).arg \in Nat
    BY <2>3, <2>4 DEF Commands
  <2>6. Moves(StartRamp(axis, Head(todo).arg)) /\ wanted' = Head(todo).arg
    BY <1>3 DEF SendRamp
  <2>7. StartRamp(axis, Head(todo).arg) \in Axes
    BY <2>1, <2>5, RampsKeepTheirType
  <2> QED BY <2>5, <2>6, <2>7, MovesToItsType, TypeParts DEF Levels
<1>4. CASE SendSet
  BY <1>4, TypeParts, TimesAssumption DEF SendSet, Sends, IsNext, Undisturbed, schedule,
     cleanup, outside, point, AxisTypes, StartRamp, StopRamp, Advance, Later, Levels, Zero
<1>5. CASE SendArm
  BY <1>5, TypeParts, TimesAssumption DEF SendArm, Sends, IsNext, Undisturbed, schedule,
     cleanup, outside, point, AxisTypes, StartRamp, StopRamp, Advance, Later, Levels, Zero
<1>6. CASE SendOff
  <2>1. axis \in Axes /\ wanted \in Levels
    BY TypeParts DEF AxisTypes, Axes
  <2>2. Advance(axis) \in Axes /\ Zero \in Nat
    BY <2>1, RampsKeepTheirType DEF Zero
  <2>3. wanted' = wanted /\ (Moves(StartRamp(axis, Zero)) \/ UNCHANGED <<axis, rest>>)
    BY <1>6 DEF SendOff
  <2>4. CASE Moves(StartRamp(axis, Zero))
    BY <2>1, <2>2, <2>3, <2>4, RampsKeepTheirType, MovesToItsType, TypeParts
  <2> QED BY <2>3, <2>4, TypeParts DEF AxisTypes
<1>7. CASE SendRead
  BY <1>7, TypeParts, TimesAssumption DEF SendRead, IsNext, Undisturbed, schedule, cleanup,
     outside, point, AxisTypes, StartRamp, StopRamp, Advance, Later, Levels, Zero
<1>8. CASE SendSave
  BY <1>8, TypeParts, TimesAssumption DEF SendSave, Sends, IsNext, Undisturbed, schedule,
     cleanup, outside, point, AxisTypes, StartRamp, StopRamp, Advance, Later, Levels, Zero
<1>9. CASE SendRaises
  BY <1>9, TypeParts, TimesAssumption DEF SendRaises, Raises, TearDown, schedule, cleanup,
     outside, point, AxisTypes, StartRamp, StopRamp, Advance, Later, Levels, Zero
<1>10. CASE SaveRaises
  BY <1>10, TypeParts, TimesAssumption DEF SaveRaises, Raises, TearDown, schedule, cleanup,
     outside, point, AxisTypes, StartRamp, StopRamp, Advance, Later, Levels, Zero
<1>11. CASE Opened
  BY <1>11, TypeParts, TimesAssumption DEF Opened, AllSent, Unmoved, schedule, cleanup,
     outside, point, AxisTypes, StartRamp, StopRamp, Advance, Later, Levels, Zero
<1>12. CASE Measured
  BY <1>12, TypeParts, TimesAssumption DEF Measured, AllSent, Unmoved, schedule, cleanup,
     outside, point, AxisTypes, StartRamp, StopRamp, Advance, Later, Levels, Zero
<1>13. CASE ParkingSent
  BY <1>13, TypeParts, TimesAssumption DEF ParkingSent, AllSent, Unmoved, schedule, cleanup,
     outside, point, AxisTypes, StartRamp, StopRamp, Advance, Later, Levels, Zero
<1>14. CASE TornDown
  <2>1. axis \in Axes /\ wanted \in Levels
    BY TypeParts DEF AxisTypes, Axes
  <2>2. Advance(axis) \in Axes /\ Zero \in Nat
    BY <2>1, RampsKeepTheirType DEF Zero
  <2>3. wanted' = None /\ (Moves(StopRamp(axis)) \/ UNCHANGED <<axis, rest>>)
    BY <1>14 DEF TornDown, Forgotten
  <2>4. CASE Moves(StopRamp(axis))
    BY <2>1, <2>3, <2>4, RampsKeepTheirType, MovesToItsType, TypeParts DEF Levels
  <2> QED BY <2>3, <2>4, TypeParts DEF AxisTypes, Levels
<1>15. CASE TickInitiating
  BY <1>15, TypeParts, TimesAssumption DEF TickInitiating, Ticks, Unmoved, Rest, Sent,
     schedule, cleanup, outside, point, AxisTypes, StartRamp, StopRamp, Advance, Later, Levels,
     Zero
<1>16. CASE TickRamping
  <2>1. axis \in Axes /\ wanted \in Levels
    BY TypeParts DEF AxisTypes, Axes
  <2>2. Advance(axis) \in Axes /\ Zero \in Nat
    BY <2>1, RampsKeepTheirType DEF Zero
  <2>3. Moves(Advance(axis)) /\ wanted' = wanted
    BY <1>16 DEF TickRamping, Steps, schedule, EnterPaused, Unmoved
  <2>4. Advance(axis) \in Axes
    BY <2>1, <2>2, RampsKeepTheirType
  <2> QED BY <2>1, <2>3, <2>4, MovesToItsType, TypeParts
<1>17. CASE TickGate
  <2>1. axis \in Axes /\ wanted \in Levels
    BY TypeParts DEF AxisTypes, Axes
  <2>2. Advance(axis) \in Axes /\ Zero \in Nat
    BY <2>1, RampsKeepTheirType DEF Zero
  <2>3. run.sweep[1] \in Nat
    BY <1>17, SweepIsThere DEF TickGate, Ticks, Between, Active
  <2>4. PICK a \in Axes : Moves(a)
    BY <1>17, <2>1, <2>2, <2>3, RampsKeepTheirType DEF TickGate
  <2>5. wanted' = wanted
    BY <1>17 DEF TickGate
  <2> QED BY <2>1, <2>4, <2>5, MovesToItsType, TypeParts
<1>18. CASE TickMeasuring
  <2>1. axis \in Axes /\ wanted \in Levels
    BY TypeParts DEF AxisTypes, Axes
  <2>2. Advance(axis) \in Axes /\ Zero \in Nat
    BY <2>1, RampsKeepTheirType DEF Zero
  <2>3. Moves(Advance(axis)) /\ wanted' = wanted
    BY <1>18 DEF TickMeasuring, Steps, schedule, EnterPaused, Unmoved
  <2>4. Advance(axis) \in Axes
    BY <2>1, <2>2, RampsKeepTheirType
  <2> QED BY <2>1, <2>3, <2>4, MovesToItsType, TypeParts
<1>19. CASE TickSweeping
  <2>1. axis \in Axes /\ wanted \in Levels
    BY TypeParts DEF AxisTypes, Axes
  <2>2. Advance(axis) \in Axes /\ Zero \in Nat
    BY <2>1, RampsKeepTheirType DEF Zero
  <2>3. CASE index < Len(run.sweep)
    <3>1. run.sweep[index'] \in Nat /\ wanted' = run.sweep[index']
      BY <1>19, <2>3, TypeParts DEF TickSweeping, PlainTypes, RunTypes
    <3>2. Moves(StartRamp(Advance(axis), run.sweep[index']))
      BY <1>19, <2>3 DEF TickSweeping
    <3> QED BY <2>2, <3>1, <3>2, RampsKeepTheirType, MovesToItsType, TypeParts DEF Levels
  <2>4. CASE ~(index < Len(run.sweep))
    <3>1. Moves(Advance(axis)) /\ wanted' = wanted
      BY <1>19, <2>4 DEF TickSweeping
    <3> QED BY <2>1, <2>2, <3>1, MovesToItsType, TypeParts
  <2> QED BY <2>3, <2>4
<1>20. CASE TickStandby
  <2>1. axis \in Axes /\ wanted \in Levels
    BY TypeParts DEF AxisTypes, Axes
  <2>2. Advance(axis) \in Axes /\ Zero \in Nat
    BY <2>1, RampsKeepTheirType DEF Zero
  <2>3. Moves(Advance(axis)) /\ wanted' \in {wanted, None}
    BY <1>20 DEF TickStandby, Steps
  <2> QED BY <2>1, <2>2, <2>3, MovesToItsType, TypeParts DEF Levels
<1>21. CASE TickFinish
  <2>1. axis \in Axes /\ wanted \in Levels
    BY TypeParts DEF AxisTypes, Axes
  <2>2. Advance(axis) \in Axes /\ Zero \in Nat
    BY <2>1, RampsKeepTheirType DEF Zero
  <2>3. Moves(Advance(axis)) /\ wanted' = wanted
    BY <1>21 DEF TickFinish, Steps, schedule, EnterPaused, Unmoved
  <2>4. Advance(axis) \in Axes
    BY <2>1, <2>2, RampsKeepTheirType
  <2> QED BY <2>1, <2>3, <2>4, MovesToItsType, TypeParts
<1>22. CASE TickPauseBoundary
  <2>1. axis \in Axes /\ wanted \in Levels
    BY TypeParts DEF AxisTypes, Axes
  <2>2. Advance(axis) \in Axes /\ Zero \in Nat
    BY <2>1, RampsKeepTheirType DEF Zero
  <2>3. Moves(StopRamp(Advance(axis))) /\ wanted' = wanted
    BY <1>22 DEF TickPauseBoundary, EnterPaused
  <2>4. StopRamp(Advance(axis)) \in Axes
    BY <2>1, <2>2, RampsKeepTheirType
  <2> QED BY <2>1, <2>3, <2>4, MovesToItsType, TypeParts
<1>23. CASE TickFails
  BY <1>23, TypeParts, TimesAssumption DEF TickFails, TearDown, Unmoved, Rest, schedule,
     cleanup, outside, point, AxisTypes, StartRamp, StopRamp, Advance, Later, Levels, Zero
<1>24. CASE TickHeld
  <2>1. axis \in Axes /\ wanted \in Levels
    BY TypeParts DEF AxisTypes, Axes
  <2>2. Advance(axis) \in Axes /\ Zero \in Nat
    BY <2>1, RampsKeepTheirType DEF Zero
  <2>3. wanted' = wanted /\ (Moves(StartRamp(axis, Zero)) \/ UNCHANGED <<axis, rest>>)
    BY <1>24 DEF TickHeld, Unmoved
  <2>4. CASE Moves(StartRamp(axis, Zero))
    BY <2>1, <2>2, <2>3, <2>4, RampsKeepTheirType, MovesToItsType, TypeParts
  <2> QED BY <2>3, <2>4, TypeParts DEF AxisTypes
<1>25. CASE TickHeldPaused
  <2>1. axis \in Axes /\ wanted \in Levels
    BY TypeParts DEF AxisTypes, Axes
  <2>2. Advance(axis) \in Axes /\ Zero \in Nat
    BY <2>1, RampsKeepTheirType DEF Zero
  <2>3. Moves(StartRamp(axis, Zero)) /\ wanted' = wanted
    BY <1>25 DEF TickHeldPaused, Steps, schedule, EnterPaused, Unmoved
  <2>4. StartRamp(axis, Zero) \in Axes
    BY <2>1, <2>2, RampsKeepTheirType
  <2> QED BY <2>1, <2>3, <2>4, MovesToItsType, TypeParts
<1>26. CASE Pause
  <2>1. axis \in Axes /\ wanted \in Levels
    BY TypeParts DEF AxisTypes, Axes
  <2>2. Advance(axis) \in Axes /\ Zero \in Nat
    BY <2>1, RampsKeepTheirType DEF Zero
  <2>3. wanted' = wanted /\ (Moves(StopRamp(axis)) \/ UNCHANGED <<axis, rest>>)
    BY <1>26 DEF Pause, EnterPaused, Unmoved
  <2>4. CASE Moves(StopRamp(axis))
    BY <2>1, <2>3, <2>4, RampsKeepTheirType, MovesToItsType, TypeParts
  <2> QED BY <2>3, <2>4, TypeParts DEF AxisTypes
<1>27. CASE Resume
  <2>1. axis \in Axes /\ wanted \in Levels
    BY TypeParts DEF AxisTypes, Axes
  <2>2. Advance(axis) \in Axes /\ Zero \in Nat
    BY <2>1, RampsKeepTheirType DEF Zero
  <2>3. wanted' = wanted
    BY <1>27, ResumeFacts
  <2>4. CASE Redispatched /\ Moves(StartRamp(axis, wanted))
    <3>1. wanted \in Nat
      BY <2>1, <2>4 DEF Redispatched, Levels
    <3> QED BY <2>1, <2>3, <2>4, <3>1, RampsKeepTheirType, MovesToItsType, TypeParts
  <2>5. CASE axis' = axis /\ rest' = rest
    BY <2>3, <2>5, TypeParts DEF AxisTypes
  <2> QED BY <1>27, <2>4, <2>5, ResumeFacts
<1>28. CASE Abort
  BY <1>28, TypeParts, TimesAssumption DEF Abort, TearDown, Unmoved, Rest, schedule, cleanup,
     outside, point, AxisTypes, StartRamp, StopRamp, Advance, Later, Levels, Zero
<1>29. CASE Recover
  BY <1>29, TypeParts, TimesAssumption DEF Recover, Unmoved, Rest, Sent, schedule, cleanup,
     outside, point, AxisTypes, StartRamp, StopRamp, Advance, Later, Levels, Zero
<1>30. CASE Elapse
  BY <1>30, TypeParts, TimesAssumption DEF Elapse, World, schedule, cleanup, outside, point,
     AxisTypes, StartRamp, StopRamp, Advance, Later, Levels, Zero
<1>31. CASE \E v \in VIs : Silence(v) \/ Speak(v)
  BY <1>31, TypeParts, TimesAssumption DEF Silence, Speak, World, Calm, schedule, cleanup,
     outside, point, AxisTypes, StartRamp, StopRamp, Advance, Later, Levels, Zero
<1>32. CASE DiskFills \/ HoldTurns
  BY <1>32, TurnsFacts, TypeParts, TimesAssumption DEF World, schedule, cleanup, outside,
     point, AxisTypes, StartRamp, StopRamp, Advance, Later, Levels, Zero
<1> QED BY <1>1, <1>2, <1>3, <1>4, <1>5, <1>6, <1>7, <1>8, <1>9, <1>10, <1>11, <1>12, <1>13,
       <1>14, <1>15, <1>16, <1>17, <1>18, <1>19, <1>20, <1>21, <1>22, <1>23, <1>24, <1>25,
       <1>26, <1>27, <1>28, <1>29, <1>30, <1>31, <1>32, StartFacts DEF Next, Sending, Ticking

\* Each action keeps the types of what is set and read.
LEMMA MeterTypesStep ==
    ASSUME TypeOK, AxisIsSomewhere, InItsState, Next
    PROVE  MeterTypes'
<1>1. ASSUME NEW p \in Plans, NEW o \in BOOLEAN, Started(p), StartedRun(p, o) PROVE MeterTypes'
  BY <1>1, TypeParts DEF Started, Forgotten, schedule, cleanup, outside, point, MeterTypes,
     TodoTypes, Commands
<1>2. CASE SendInitiate
  BY <1>2, TypeParts DEF SendInitiate, Sends, IsNext, Undisturbed, schedule, cleanup, outside,
     point, MeterTypes, TodoTypes, Commands
<1>3. CASE SendRamp
  BY <1>3, TypeParts DEF SendRamp, Sends, IsNext, Undisturbed, Moves, schedule, cleanup,
     outside, point, MeterTypes, TodoTypes, Commands
<1>4. CASE SendSet
  <2>1. todo \in Seq(Commands) /\ todo # <<>> /\ Head(todo).what = "set"
    BY <1>4, TypeParts DEF SendSet, Sends, IsNext, TodoTypes
  <2>2. Head(todo) \in Commands
    BY <2>1
  <2>3. Head(todo).arg[2] \in Nat
    BY <2>1, <2>2 DEF Commands
  <2>4. setting' = [setting EXCEPT ![Head(todo).arg[1]] = Head(todo).arg[2]] /\ grid' = grid
    BY <1>4 DEF SendSet
  <2> QED BY <2>3, <2>4, TypeParts DEF MeterTypes
<1>5. CASE SendArm
  BY <1>5, TypeParts DEF SendArm, Sends, IsNext, Undisturbed, schedule, cleanup, outside,
     point, MeterTypes, TodoTypes, Commands
<1>6. CASE SendOff
  BY <1>6, TypeParts DEF SendOff, Sends, IsNext, Undisturbed, Moves, schedule, cleanup,
     outside, point, MeterTypes, TodoTypes, Commands
<1>7. CASE SendRead
  BY <1>7, TypeParts, SMTT(40) DEF SendRead, IsNext, Undisturbed, schedule, cleanup, outside, point,
     MeterTypes, TodoTypes, Commands
<1>8. CASE SendSave
  BY <1>8, TypeParts DEF SendSave, Sends, IsNext, Undisturbed, schedule, cleanup, outside,
     point, MeterTypes, TodoTypes, Commands
<1>9. CASE SendRaises
  BY <1>9, TypeParts DEF SendRaises, Raises, TearDown, schedule, cleanup, outside, point,
     MeterTypes, TodoTypes, Commands
<1>10. CASE SaveRaises
  BY <1>10, TypeParts DEF SaveRaises, Raises, TearDown, schedule, cleanup, outside, point,
     MeterTypes, TodoTypes, Commands
<1>11. CASE Opened
  BY <1>11, TypeParts DEF Opened, AllSent, Unmoved, schedule, cleanup, outside, point,
     MeterTypes, TodoTypes, Commands
<1>12. CASE Measured
  BY <1>12, TypeParts DEF Measured, AllSent, Unmoved, schedule, cleanup, outside, point,
     MeterTypes, TodoTypes, Commands
<1>13. CASE ParkingSent
  BY <1>13, TypeParts DEF ParkingSent, AllSent, Unmoved, schedule, cleanup, outside, point,
     MeterTypes, TodoTypes, Commands
<1>14. CASE TornDown
  BY <1>14, TypeParts DEF TornDown, Forgotten, Moves, schedule, cleanup, outside, point,
     MeterTypes, TodoTypes, Commands
<1>15. CASE TickInitiating
  BY <1>15, TypeParts DEF TickInitiating, Ticks, Unmoved, Rest, Sent, schedule, cleanup,
     outside, point, MeterTypes, TodoTypes, Commands
<1>16. CASE TickRamping
  BY <1>16, TypeParts DEF TickRamping, Ticks, Steps, Followed, Moves, Rest, Sent, schedule,
     cleanup, outside, point, MeterTypes, TodoTypes, Commands
<1>17. CASE TickGate
  BY <1>17, TypeParts DEF TickGate, Ticks, Moves, Rest, Sent, schedule, cleanup, outside,
     point, MeterTypes, TodoTypes, Commands
<1>18. CASE TickMeasuring
  BY <1>18, TypeParts DEF TickMeasuring, Ticks, Steps, Followed, Moves, Rest, schedule,
     cleanup, outside, point, MeterTypes, TodoTypes, Commands
<1>19. CASE TickSweeping
  BY <1>19, TypeParts DEF TickSweeping, Ticks, Followed, Moves, Rest, Sent, schedule, cleanup,
     outside, point, MeterTypes, TodoTypes, Commands
<1>20. CASE TickStandby
  BY <1>20, TypeParts DEF TickStandby, Ticks, Steps, Followed, Moves, Rest, Sent, TearDown,
     schedule, cleanup, outside, point, MeterTypes, TodoTypes, Commands
<1>21. CASE TickFinish
  BY <1>21, TypeParts DEF TickFinish, Ticks, Steps, Followed, Moves, Sent, schedule, cleanup,
     outside, point, MeterTypes, TodoTypes, Commands
<1>22. CASE TickPauseBoundary
  BY <1>22, TypeParts DEF TickPauseBoundary, EnterPaused, Ticks, Followed, Moves, Rest, Sent,
     schedule, cleanup, outside, point, MeterTypes, TodoTypes, Commands
<1>23. CASE TickFails
  BY <1>23, TypeParts DEF TickFails, TearDown, Unmoved, Rest, schedule, cleanup, outside,
     point, MeterTypes, TodoTypes, Commands
<1>24. CASE TickHeld
  BY <1>24, TypeParts DEF TickHeld, TearDown, Unmoved, Moves, Rest, schedule, cleanup, outside,
     point, MeterTypes, TodoTypes, Commands
<1>25. CASE TickHeldPaused
  BY <1>25, TypeParts DEF TickHeldPaused, Moves, Rest, Sent, schedule, cleanup, outside, point,
     MeterTypes, TodoTypes, Commands
<1>26. CASE Pause
  BY <1>26, TypeParts DEF Pause, EnterPaused, Moves, Unmoved, Rest, Sent, schedule, cleanup,
     outside, point, MeterTypes, TodoTypes, Commands
<1>27. CASE Resume
  BY <1>27, ResumeFacts, TypeParts DEF Rest, Sent, Moves, schedule, cleanup, outside, point,
     MeterTypes, TodoTypes, Commands
<1>28. CASE Abort
  BY <1>28, TypeParts DEF Abort, TearDown, Unmoved, Rest, schedule, cleanup, outside, point,
     MeterTypes, TodoTypes, Commands
<1>29. CASE Recover
  BY <1>29, TypeParts DEF Recover, Unmoved, Rest, Sent, schedule, cleanup, outside, point,
     MeterTypes, TodoTypes, Commands
<1>30. CASE Elapse
  BY <1>30, TypeParts DEF Elapse, World, schedule, cleanup, outside, point, MeterTypes,
     TodoTypes, Commands
<1>31. CASE \E v \in VIs : Silence(v) \/ Speak(v)
  BY <1>31, TypeParts DEF Silence, Speak, World, Calm, schedule, cleanup, outside, point,
     MeterTypes, TodoTypes, Commands
<1>32. CASE DiskFills \/ HoldTurns
  BY <1>32, TurnsFacts, TypeParts DEF World, schedule, cleanup, outside, point, MeterTypes,
     TodoTypes, Commands
<1> QED BY <1>1, <1>2, <1>3, <1>4, <1>5, <1>6, <1>7, <1>8, <1>9, <1>10, <1>11, <1>12, <1>13,
       <1>14, <1>15, <1>16, <1>17, <1>18, <1>19, <1>20, <1>21, <1>22, <1>23, <1>24, <1>25,
       <1>26, <1>27, <1>28, <1>29, <1>30, <1>31, <1>32, StartFacts DEF Next, Sending, Ticking

\* Each action keeps the type of the file.
LEMMA FileTypesStep ==
    ASSUME TypeOK, AxisIsSomewhere, InItsState, Next
    PROVE  FileTypes'
<1>1. ASSUME NEW p \in Plans, NEW o \in BOOLEAN, Started(p), StartedRun(p, o) PROVE FileTypes'
  <2>1. Len(run'.sweep) \in Nat
    <3>1. RunTypes'
      BY RunTypesStep, <1>1
    <3> QED BY <3>1 DEF RunTypes
  <2>2. file' \in {NoFile, NewFile}
    BY <1>1 DEF Started
  <2>3. DOMAIN <<>> \subseteq Nat
    OBVIOUS
  <2>4. Typed(NoFile) /\ Typed(NewFile)
    BY <2>1, <2>3 DEF Typed, NewFile, NoFile
  <2> QED BY <2>2, <2>4 DEF FileTypes, Typed
<1>2. CASE SendInitiate
  BY <1>2, TypeParts DEF SendInitiate, Sends, IsNext, Undisturbed, schedule, cleanup, outside,
     point, FileTypes, PlainTypes, Closed, Trimmed, Stamped, Columns, Saved, NewFile, NoFile
<1>3. CASE SendRamp
  BY <1>3, TypeParts DEF SendRamp, Sends, IsNext, Undisturbed, Moves, schedule, cleanup,
     outside, point, FileTypes, PlainTypes, Closed, Trimmed, Stamped, Columns, Saved, NewFile,
     NoFile
<1>4. CASE SendSet
  BY <1>4, TypeParts DEF SendSet, Sends, IsNext, Undisturbed, schedule, cleanup, outside,
     point, FileTypes, PlainTypes, Closed, Trimmed, Stamped, Columns, Saved, NewFile, NoFile
<1>5. CASE SendArm
  BY <1>5, TypeParts DEF SendArm, Sends, IsNext, Undisturbed, schedule, cleanup, outside,
     point, FileTypes, PlainTypes, Closed, Trimmed, Stamped, Columns, Saved, NewFile, NoFile
<1>6. CASE SendOff
  BY <1>6, TypeParts DEF SendOff, Sends, IsNext, Undisturbed, Moves, schedule, cleanup,
     outside, point, FileTypes, PlainTypes, Closed, Trimmed, Stamped, Columns, Saved, NewFile,
     NoFile
<1>7. CASE SendRead
  BY <1>7, TypeParts DEF SendRead, IsNext, Undisturbed, schedule, cleanup, outside, point,
     FileTypes, PlainTypes, Closed, Trimmed, Stamped, Columns, Saved, NewFile, NoFile
<1>8. CASE SendSave
  BY <1>8, TypeParts DEF SendSave, Sends, IsNext, Undisturbed, schedule, cleanup, outside,
     point, FileTypes, PlainTypes, Closed, Trimmed, Stamped, Columns, Saved, NewFile, NoFile
<1>9. CASE SendRaises
  BY <1>9, TypeParts, ZenonT(60) DEF SendRaises, Raises, TearDown, schedule, cleanup, outside, point,
     FileTypes, PlainTypes, Closed, Trimmed, Stamped, Columns, Saved, NewFile, NoFile
<1>10. CASE SaveRaises
  <2>1. PICK f \in {file, Columns, Stamped, Saved} : TearDown("ERROR", f)
    BY <1>10 DEF SaveRaises
  <2>2. Typed(f)
    BY <2>1, WrittenTypes
  <2>3. file' \in {f, Closed(f)}
    BY <2>1 DEF TearDown
  <2> QED BY <2>2, <2>3, ClosedTypes DEF FileTypes, Typed
<1>11. CASE Opened
  BY <1>11, TypeParts DEF Opened, AllSent, Unmoved, schedule, cleanup, outside, point,
     FileTypes, PlainTypes, Closed, Trimmed, Stamped, Columns, Saved, NewFile, NoFile
<1>12. CASE Measured
  BY <1>12, TypeParts DEF Measured, AllSent, Unmoved, schedule, cleanup, outside, point,
     FileTypes, PlainTypes, Closed, Trimmed, Stamped, Columns, Saved, NewFile, NoFile
<1>13. CASE ParkingSent
  BY <1>13, TypeParts DEF ParkingSent, AllSent, Unmoved, schedule, cleanup, outside, point,
     FileTypes, PlainTypes, Closed, Trimmed, Stamped, Columns, Saved, NewFile, NoFile
<1>14. CASE TornDown
  BY <1>14, TypeParts DEF TornDown, Forgotten, Moves, schedule, cleanup, outside, point,
     FileTypes, PlainTypes, Closed, Trimmed, Stamped, Columns, Saved, NewFile, NoFile
<1>15. CASE TickInitiating
  BY <1>15, TypeParts DEF TickInitiating, Ticks, Unmoved, Rest, Sent, schedule, cleanup,
     outside, point, FileTypes, PlainTypes, Closed, Trimmed, Stamped, Columns, Saved, NewFile,
     NoFile
<1>16. CASE TickRamping
  BY <1>16, TypeParts DEF TickRamping, Ticks, Steps, Followed, Moves, Rest, Sent, schedule,
     cleanup, outside, point, FileTypes, PlainTypes, Closed, Trimmed, Stamped, Columns, Saved,
     NewFile, NoFile
<1>17. CASE TickGate
  BY <1>17, TypeParts DEF TickGate, Ticks, Moves, Rest, Sent, schedule, cleanup, outside,
     point, FileTypes, PlainTypes, Closed, Trimmed, Stamped, Columns, Saved, NewFile, NoFile
<1>18. CASE TickMeasuring
  BY <1>18, TypeParts DEF TickMeasuring, Ticks, Steps, Followed, Moves, Rest, schedule,
     cleanup, outside, point, FileTypes, PlainTypes, Closed, Trimmed, Stamped, Columns, Saved,
     NewFile, NoFile
<1>19. CASE TickSweeping
  BY <1>19, TypeParts DEF TickSweeping, Ticks, Followed, Moves, Rest, Sent, schedule, cleanup,
     outside, point, FileTypes, PlainTypes, Closed, Trimmed, Stamped, Columns, Saved, NewFile,
     NoFile
<1>20. CASE TickStandby
  BY <1>20, TypeParts, ZenonT(60) DEF TickStandby, Ticks, Steps, Followed, Moves, Rest, Sent, TearDown,
     schedule, cleanup, outside, point, FileTypes, PlainTypes, Closed, Trimmed, Stamped,
     Columns, Saved, NewFile, NoFile
<1>21. CASE TickFinish
  BY <1>21, TypeParts DEF TickFinish, Ticks, Steps, Followed, Moves, Sent, schedule, cleanup,
     outside, point, FileTypes, PlainTypes, Closed, Trimmed, Stamped, Columns, Saved, NewFile,
     NoFile
<1>22. CASE TickPauseBoundary
  BY <1>22, TypeParts DEF TickPauseBoundary, EnterPaused, Ticks, Followed, Moves, Rest, Sent,
     schedule, cleanup, outside, point, FileTypes, PlainTypes, Closed, Trimmed, Stamped,
     Columns, Saved, NewFile, NoFile
<1>23. CASE TickFails
  BY <1>23, TypeParts, ZenonT(60) DEF TickFails, TearDown, Unmoved, Rest, schedule, cleanup, outside,
     point, FileTypes, PlainTypes, Closed, Trimmed, Stamped, Columns, Saved, NewFile, NoFile
<1>24. CASE TickHeld
  <2>1. TearDown("IDLE", file)
    BY <1>24 DEF TickHeld
  <2> QED BY <2>1, TypeParts DEF TearDown, FileTypes, Closed, Trimmed
<1>25. CASE TickHeldPaused
  BY <1>25, TypeParts DEF TickHeldPaused, Moves, Rest, Sent, schedule, cleanup, outside, point,
     FileTypes, PlainTypes, Closed, Trimmed, Stamped, Columns, Saved, NewFile, NoFile
<1>26. CASE Pause
  BY <1>26, TypeParts DEF Pause, EnterPaused, Moves, Unmoved, Rest, Sent, schedule, cleanup,
     outside, point, FileTypes, PlainTypes, Closed, Trimmed, Stamped, Columns, Saved, NewFile,
     NoFile
<1>27. CASE Resume
  BY <1>27, ResumeFacts, TypeParts DEF Rest, Sent, Moves, schedule, cleanup, outside, point,
     FileTypes, PlainTypes, Closed, Trimmed, Stamped, Columns, Saved, NewFile, NoFile
<1>28. CASE Abort
  BY <1>28, TypeParts, ZenonT(60) DEF Abort, TearDown, Unmoved, Rest, schedule, cleanup, outside, point,
     FileTypes, PlainTypes, Closed, Trimmed, Stamped, Columns, Saved, NewFile, NoFile
<1>29. CASE Recover
  BY <1>29, TypeParts DEF Recover, Unmoved, Rest, Sent, schedule, cleanup, outside, point,
     FileTypes, PlainTypes, Closed, Trimmed, Stamped, Columns, Saved, NewFile, NoFile
<1>30. CASE Elapse
  BY <1>30, TypeParts DEF Elapse, World, schedule, cleanup, outside, point, FileTypes,
     PlainTypes, Closed, Trimmed, Stamped, Columns, Saved, NewFile, NoFile
<1>31. CASE \E v \in VIs : Silence(v) \/ Speak(v)
  BY <1>31, TypeParts DEF Silence, Speak, World, Calm, schedule, cleanup, outside, point,
     FileTypes, PlainTypes, Closed, Trimmed, Stamped, Columns, Saved, NewFile, NoFile
<1>32. CASE DiskFills \/ HoldTurns
  BY <1>32, TurnsFacts, TypeParts DEF World, schedule, cleanup, outside, point, FileTypes,
     PlainTypes, Closed, Trimmed, Stamped, Columns, Saved, NewFile, NoFile
<1> QED BY <1>1, <1>2, <1>3, <1>4, <1>5, <1>6, <1>7, <1>8, <1>9, <1>10, <1>11, <1>12, <1>13,
       <1>14, <1>15, <1>16, <1>17, <1>18, <1>19, <1>20, <1>21, <1>22, <1>23, <1>24, <1>25,
       <1>26, <1>27, <1>28, <1>29, <1>30, <1>31, <1>32, StartFacts DEF Next, Sending, Ticking


\* The commands of every plan are commands.
LEMMA PlansAreCommands ==
    ASSUME RunTypes
    PROVE  /\ SafeOff \in Seq(Commands) /\ Parking \in Seq(Commands)
           /\ \A c \in Nat \X Nat : AtCell(c) \in Seq(Commands) /\ AfterCell(c) \in Seq(Commands)
<1>1. Off("meter") \in Commands /\ Off("path") \in Commands /\ Off("axis") \in Commands
  BY DEF Off, Cmd, Commands, VIs
<1>2. \A s \in 1 .. 2, k \in Nat : Set(s, k) \in Commands
  BY DEF Set, Cmd, Commands, VIs, RunTypes
<1>3. \A c \in Nat \X Nat : Read(c) \in Commands
  BY DEF Read, Cmd, Commands, VIs
<1>4. Cmd("axis", "save", None) \in Commands
  BY DEF Cmd, Commands, VIs
<1>5. SafeOff \in Seq(Commands)
  BY <1>1 DEF SafeOff
<1>6. Parking \in Seq(Commands)
  BY <1>1, <1>5 DEF Parking
<1>7. ASSUME NEW c \in Nat \X Nat PROVE AtCell(c) \in Seq(Commands)
  <2>1. Set(1, c[1]) \in Commands /\ Set(2, c[2]) \in Commands
    BY <1>2
  <2>2. Inner(c) \in Seq(Commands) /\ Outer(c) \in Seq(Commands)
    BY <2>1 DEF Inner, Outer
  <2>3. <<Read(c)>> \in Seq(Commands)
    BY <1>3
  <2> QED BY <2>2, <2>3 DEF AtCell
<1>8. ASSUME NEW c \in Nat \X Nat PROVE AfterCell(c) \in Seq(Commands)
  <2>1. AtCell(<<c[1], c[2] + 1>>) \in Seq(Commands) /\ AtCell(<<c[1] + 1, 1>>) \in Seq(Commands)
    <3>1. <<c[1], c[2] + 1>> \in Nat \X Nat /\ <<c[1] + 1, 1>> \in Nat \X Nat
      OBVIOUS
    <3> QED BY <3>1, <1>7
  <2>2. <<Cmd("axis", "save", None)>> \in Seq(Commands)
    BY <1>4
  <2> QED BY <2>1, <2>2 DEF AfterCell
<1> QED BY <1>5, <1>6, <1>7, <1>8

\* The commands of initiate() are commands.
LEMMA OpeningIsCommands ==
    ASSUME RunTypes, run.sweep # <<>>
    PROVE  Opening \in Seq(Commands)
<1>1. Level \in Nat
  BY PlansAssumption DEF Level, Saturation, RunTypes
<1>2. \A v \in VIs : Cmd(v, "initiate", None) \in Commands
  BY DEF Cmd, Commands, VIs
<1>3. Cmd("axis", "ramp", Level) \in Commands /\ Cmd("meter", "arm", None) \in Commands
  BY <1>1 DEF Cmd, Commands, VIs
<1>4. Set(1, 1) \in Commands /\ Set(2, 1) \in Commands
  BY DEF Set, Cmd, Commands, VIs, RunTypes
<1>5. ASSUME NEW slots PROVE FirstValues(slots) \in Seq(Commands)
  BY <1>4 DEF FirstValues
<1>6. FirstValues(Beside) \in Seq(Commands) /\ FirstValues(Statics("meter")) \in Seq(Commands)
  BY <1>5
<1>7. <<Cmd("axis", "initiate", None), Cmd("meter", "initiate", None),
        Cmd("path", "initiate", None), Cmd("axis", "ramp", Level)>> \in Seq(Commands)
  BY <1>2, <1>3 DEF VIs
<1>8. <<Cmd("meter", "arm", None)>> \in Seq(Commands)
  BY <1>3
<1> QED BY <1>6, <1>7, <1>8 DEF Opening

\* What is planned for a run that starts is made of commands.
LEMMA PlansAtStart ==
    /\ RunTypes => SafeOff \in Seq(Commands)
    /\ RunTypes /\ run.sweep # <<>> => Opening \in Seq(Commands)
BY PlansAreCommands, OpeningIsCommands

\* Each action leaves commands to send.
LEMMA TodoTypesStep ==
    ASSUME TypeOK, AxisIsSomewhere, InItsState, Next
    PROVE  TodoTypes'
<1>1. ASSUME NEW p \in Plans, NEW o \in BOOLEAN, Started(p), StartedRun(p, o) PROVE TodoTypes'
  <2>1. RunTypes'
    BY RunTypesStep
  <2>2. run'.sweep # <<>>
    BY <1>1, SweepHasPoints DEF StartedRun
  <2>3. (RunTypes => SafeOff \in Seq(Commands))' /\ (RunTypes /\ run.sweep # <<>>
          => Opening \in Seq(Commands))'
    BY PlansAtStart, PTL
  <2>4. todo' \in {SafeOff', Opening'}
    BY <1>1 DEF Started
  <2> QED BY <2>1, <2>2, <2>3, <2>4 DEF TodoTypes
<1>2. CASE SendInitiate
  BY <1>2, TypeParts DEF SendInitiate, Sends, IsNext, Undisturbed, schedule, cleanup, outside,
     point, TodoTypes
<1>3. CASE SendRamp
  BY <1>3, TypeParts DEF SendRamp, Sends, IsNext, Undisturbed, Moves, schedule, cleanup,
     outside, point, TodoTypes
<1>4. CASE SendSet
  BY <1>4, TypeParts DEF SendSet, Sends, IsNext, Undisturbed, schedule, cleanup, outside,
     point, TodoTypes
<1>5. CASE SendArm
  BY <1>5, TypeParts DEF SendArm, Sends, IsNext, Undisturbed, schedule, cleanup, outside,
     point, TodoTypes
<1>6. CASE SendOff
  BY <1>6, TypeParts DEF SendOff, Sends, IsNext, Undisturbed, Moves, schedule, cleanup,
     outside, point, TodoTypes
<1>7. CASE SendRead
  <2>1. todo \in Seq(Commands) /\ todo # <<>> /\ Head(todo).what = "read"
    BY <1>7, TypeParts DEF SendRead, IsNext, TodoTypes
  <2>2. Head(todo) \in Commands
    BY <2>1
  <2>3. Head(todo).arg \in Nat \X Nat
    BY <2>1, <2>2 DEF Commands
  <2>4. AfterCell(Head(todo).arg) \in Seq(Commands)
    BY <2>3, PlansAreCommands, TypeParts
  <2> QED BY <1>7, <2>4 DEF SendRead, TodoTypes
<1>8. CASE SendSave
  BY <1>8, TypeParts DEF SendSave, Sends, IsNext, Undisturbed, schedule, cleanup, outside,
     point, TodoTypes
<1>9. CASE SendRaises
  <2>1. todo' \in {todo, <<>>, SafeOff, Parking}
    BY <1>9 DEF SendRaises, TearDown, Sent, Undisturbed, Moves
  <2>2. SafeOff \in Seq(Commands) /\ Parking \in Seq(Commands)
    BY PlansAreCommands, TypeParts
  <2>3. <<>> \in Seq(Commands) /\ todo \in Seq(Commands)
    BY TypeParts DEF TodoTypes
  <2> QED BY <2>1, <2>2, <2>3 DEF TodoTypes
<1>10. CASE SaveRaises
  <2>1. todo' \in {todo, <<>>, SafeOff, Parking}
    BY <1>10 DEF SaveRaises, TearDown, Sent, Undisturbed, Moves
  <2>2. SafeOff \in Seq(Commands) /\ Parking \in Seq(Commands)
    BY PlansAreCommands, TypeParts
  <2>3. <<>> \in Seq(Commands) /\ todo \in Seq(Commands)
    BY TypeParts DEF TodoTypes
  <2> QED BY <2>1, <2>2, <2>3 DEF TodoTypes
<1>11. CASE Opened
  BY <1>11, TypeParts DEF Opened, AllSent, Unmoved, schedule, cleanup, outside, point, TodoTypes
<1>12. CASE Measured
  BY <1>12, TypeParts DEF Measured, AllSent, Unmoved, schedule, cleanup, outside, point,
     TodoTypes
<1>13. CASE ParkingSent
  BY <1>13, TypeParts DEF ParkingSent, AllSent, Unmoved, schedule, cleanup, outside, point,
     TodoTypes
<1>14. CASE TornDown
  BY <1>14, TypeParts DEF TornDown, Forgotten, Moves, schedule, cleanup, outside, point,
     TodoTypes
<1>15. CASE TickInitiating
  BY <1>15, TypeParts DEF TickInitiating, Ticks, Unmoved, Rest, Sent, schedule, cleanup,
     outside, point, TodoTypes
<1>16. CASE TickRamping
  BY <1>16, TypeParts DEF TickRamping, Ticks, Steps, Followed, Moves, Rest, Sent, schedule,
     cleanup, outside, point, TodoTypes
<1>17. CASE TickGate
  BY <1>17, TypeParts DEF TickGate, Ticks, Moves, Rest, Sent, schedule, cleanup, outside,
     point, TodoTypes
<1>18. CASE TickMeasuring
  <2>1. <<1, 1>> \in Nat \X Nat
    OBVIOUS
  <2>2. AtCell(<<1, 1>>) \in Seq(Commands)
    BY <2>1, PlansAreCommands, TypeParts
  <2> QED BY <1>18, <2>2 DEF TickMeasuring, TodoTypes
<1>19. CASE TickSweeping
  BY <1>19, TypeParts DEF TickSweeping, Ticks, Followed, Moves, Rest, Sent, schedule, cleanup,
     outside, point, TodoTypes
<1>20. CASE TickStandby
  <2>1. todo' \in {todo, <<>>, SafeOff, Parking}
    BY <1>20 DEF TickStandby, TearDown, Sent, Undisturbed, Moves
  <2>2. SafeOff \in Seq(Commands) /\ Parking \in Seq(Commands)
    BY PlansAreCommands, TypeParts
  <2>3. <<>> \in Seq(Commands) /\ todo \in Seq(Commands)
    BY TypeParts DEF TodoTypes
  <2> QED BY <2>1, <2>2, <2>3 DEF TodoTypes
<1>21. CASE TickFinish
  BY <1>21, TypeParts DEF TickFinish, Ticks, Steps, Followed, Moves, Sent, schedule, cleanup,
     outside, point, TodoTypes
<1>22. CASE TickPauseBoundary
  BY <1>22, TypeParts DEF TickPauseBoundary, EnterPaused, Ticks, Followed, Moves, Rest, Sent,
     schedule, cleanup, outside, point, TodoTypes
<1>23. CASE TickFails
  <2>1. todo' \in {todo, <<>>, SafeOff, Parking}
    BY <1>23 DEF TickFails, TearDown, Sent, Undisturbed, Moves
  <2>2. SafeOff \in Seq(Commands) /\ Parking \in Seq(Commands)
    BY PlansAreCommands, TypeParts
  <2>3. <<>> \in Seq(Commands) /\ todo \in Seq(Commands)
    BY TypeParts DEF TodoTypes
  <2> QED BY <2>1, <2>2, <2>3 DEF TodoTypes
<1>24. CASE TickHeld
  <2>1. todo' \in {todo, <<>>, SafeOff, Parking}
    BY <1>24 DEF TickHeld, TearDown, Sent, Undisturbed, Moves
  <2>2. SafeOff \in Seq(Commands) /\ Parking \in Seq(Commands)
    BY PlansAreCommands, TypeParts
  <2>3. <<>> \in Seq(Commands) /\ todo \in Seq(Commands)
    BY TypeParts DEF TodoTypes
  <2> QED BY <2>1, <2>2, <2>3 DEF TodoTypes
<1>25. CASE TickHeldPaused
  BY <1>25, TypeParts DEF TickHeldPaused, Moves, Rest, Sent, schedule, cleanup, outside, point,
     TodoTypes
<1>26. CASE Pause
  BY <1>26, TypeParts DEF Pause, EnterPaused, Moves, Unmoved, Rest, Sent, schedule, cleanup,
     outside, point, TodoTypes
<1>27. CASE Resume
  BY <1>27, ResumeFacts, TypeParts DEF Rest, Sent, Moves, schedule, cleanup, outside, point,
     TodoTypes
<1>28. CASE Abort
  <2>1. todo' \in {todo, <<>>, SafeOff, Parking}
    BY <1>28 DEF Abort, TearDown, Sent, Undisturbed, Moves
  <2>2. SafeOff \in Seq(Commands) /\ Parking \in Seq(Commands)
    BY PlansAreCommands, TypeParts
  <2>3. <<>> \in Seq(Commands) /\ todo \in Seq(Commands)
    BY TypeParts DEF TodoTypes
  <2> QED BY <2>1, <2>2, <2>3 DEF TodoTypes
<1>29. CASE Recover
  BY <1>29, TypeParts DEF Recover, Unmoved, Rest, Sent, schedule, cleanup, outside, point,
     TodoTypes
<1>30. CASE Elapse
  BY <1>30, TypeParts DEF Elapse, World, schedule, cleanup, outside, point, TodoTypes
<1>31. CASE \E v \in VIs : Silence(v) \/ Speak(v)
  BY <1>31, TypeParts DEF Silence, Speak, World, Calm, schedule, cleanup, outside, point,
     TodoTypes
<1>32. CASE DiskFills \/ HoldTurns
  BY <1>32, TurnsFacts, TypeParts DEF World, schedule, cleanup, outside, point, TodoTypes
<1> QED BY <1>1, <1>2, <1>3, <1>4, <1>5, <1>6, <1>7, <1>8, <1>9, <1>10, <1>11, <1>12, <1>13,
       <1>14, <1>15, <1>16, <1>17, <1>18, <1>19, <1>20, <1>21, <1>22, <1>23, <1>24, <1>25,
       <1>26, <1>27, <1>28, <1>29, <1>30, <1>31, <1>32, StartFacts DEF Next, Sending, Ticking

\* Every action keeps every type.
LEMMA TypeStep ==
    ASSUME TypeOK, AxisIsSomewhere, InItsState, Next
    PROVE  (TypeOK /\ AxisIsSomewhere)'
<1>1. (TypeOK /\ AxisIsSomewhere <=> PlainTypes /\ RunTypes /\ ClockTypes /\ AxisTypes
        /\ MeterTypes /\ FileTypes /\ TodoTypes)'
  BY TypeParts, PTL
<1> QED BY <1>1, PlainTypesStep, RunTypesStep, ClockTypesStep, AxisTypesStep, MeterTypesStep,
           FileTypesStep, TodoTypesStep

\* A stuttering step keeps every type.
LEMMA TypeStutter ==
    ASSUME TypeOK, UNCHANGED vars
    PROVE  TypeOK'
BY DEF TypeOK, vars, point, schedule, cleanup, outside

\* Where nothing was started nothing is done.
LEMMA NothingIsDone ==
    ASSUME TypeOK, NothingYet, InItsState, run = NoRun
    PROVE  doing = "none" /\ ~Active /\ state # "PAUSED" /\ ~run.on
<1>1. doing = "none" /\ ~run.on
  BY DEF NothingYet, NoRun
<1> QED BY <1>1, Zenon DEF InItsState

\* A run that ends has been one.
LEMMA NothingBecomesNothing ==
    ASSUME TypeOK, NothingYet, InItsState, TornDown \/ TickFinish
    PROVE  run' # NoRun
<1>1. run.sweep # <<>>
  <2>1. run # NoRun
    BY NothingIsDone DEF TornDown, TickFinish, Ticks, Active
  <2> QED BY <2>1 DEF InItsState
<1>2. run'.sweep = run.sweep
  BY DEF TornDown, TickFinish, TypeOK
<1> QED BY <1>1, <1>2 DEF NoRun

\* NothingYet is kept by each action.
LEMMA NothingStep ==
    ASSUME TypeOK, AxisIsSomewhere, NothingYet, InItsState, Next
    PROVE  NothingYet'
<1>1. ASSUME NEW p \in Plans, NEW o \in BOOLEAN, Started(p), StartedRun(p, o) PROVE NothingYet'
  <2>1. run'.on
    BY <1>1 DEF StartedRun
  <2> QED BY <2>1 DEF NothingYet, NoRun
<1>2. CASE SendInitiate
  BY <1>2, NothingIsDone DEF SendInitiate, Sends, IsNext, Undisturbed, schedule, cleanup,
     outside, point, NothingYet, Active, Between
<1>3. CASE SendRamp
  BY <1>3, NothingIsDone DEF SendRamp, Sends, IsNext, Undisturbed, Moves, schedule, cleanup,
     outside, point, NothingYet, Active, Between
<1>4. CASE SendSet
  BY <1>4, NothingIsDone DEF SendSet, Sends, IsNext, Undisturbed, schedule, cleanup, outside,
     point, NothingYet, Active, Between
<1>5. CASE SendArm
  BY <1>5, NothingIsDone DEF SendArm, Sends, IsNext, Undisturbed, schedule, cleanup, outside,
     point, NothingYet, Active, Between
<1>6. CASE SendOff
  BY <1>6, NothingIsDone DEF SendOff, Sends, IsNext, Undisturbed, Moves, schedule, cleanup,
     outside, point, NothingYet, Active, Between
<1>7. CASE SendRead
  BY <1>7, NothingIsDone DEF SendRead, IsNext, Undisturbed, schedule, cleanup, outside, point,
     NothingYet, Active, Between
<1>8. CASE SendSave
  BY <1>8, NothingIsDone DEF SendSave, Sends, IsNext, Undisturbed, schedule, cleanup, outside,
     point, NothingYet, Active, Between
<1>9. CASE SendRaises
  BY <1>9, NothingIsDone DEF SendRaises, Raises, TearDown, schedule, cleanup, outside, point,
     NothingYet, Active, Between
<1>10. CASE SaveRaises
  BY <1>10, NothingIsDone DEF SaveRaises, Raises, TearDown, schedule, cleanup, outside, point,
     NothingYet, Active, Between
<1>11. CASE Opened
  BY <1>11, NothingIsDone DEF Opened, AllSent, Unmoved, schedule, cleanup, outside, point,
     NothingYet, Active, Between
<1>12. CASE Measured
  BY <1>12, NothingIsDone DEF Measured, AllSent, Unmoved, schedule, cleanup, outside, point,
     NothingYet, Active, Between
<1>13. CASE ParkingSent
  BY <1>13, NothingIsDone DEF ParkingSent, AllSent, Unmoved, schedule, cleanup, outside, point,
     NothingYet, Active, Between
<1>14. CASE TornDown
  BY <1>14, NothingIsDone, NothingBecomesNothing DEF TornDown, Forgotten, Moves, schedule,
     cleanup, outside, point, NothingYet, Active, Between
<1>15. CASE TickInitiating
  BY <1>15, NothingIsDone DEF TickInitiating, Ticks, Unmoved, Rest, Sent, schedule, cleanup,
     outside, point, NothingYet, Active, Between
<1>16. CASE TickRamping
  BY <1>16, NothingIsDone DEF TickRamping, Ticks, Steps, Followed, Moves, Rest, Sent, schedule,
     cleanup, outside, point, NothingYet, Active, Between
<1>17. CASE TickGate
  BY <1>17, NothingIsDone DEF TickGate, Ticks, Moves, Rest, Sent, schedule, cleanup, outside,
     point, NothingYet, Active, Between
<1>18. CASE TickMeasuring
  BY <1>18, NothingIsDone DEF TickMeasuring, Ticks, Steps, Followed, Moves, Rest, schedule,
     cleanup, outside, point, NothingYet, Active, Between
<1>19. CASE TickSweeping
  BY <1>19, NothingIsDone DEF TickSweeping, Ticks, Followed, Moves, Rest, Sent, schedule,
     cleanup, outside, point, NothingYet, Active, Between
<1>20. CASE TickStandby
  BY <1>20, NothingIsDone DEF TickStandby, Ticks, Steps, Followed, Moves, Rest, Sent, TearDown,
     schedule, cleanup, outside, point, NothingYet, Active, Between
<1>21. CASE TickFinish
  BY <1>21, NothingIsDone, NothingBecomesNothing DEF TickFinish, Ticks, Steps, Followed, Moves,
     Sent, schedule, cleanup, outside, point, NothingYet, Active, Between
<1>22. CASE TickPauseBoundary
  BY <1>22, NothingIsDone DEF TickPauseBoundary, EnterPaused, Ticks, Followed, Moves, Rest,
     Sent, schedule, cleanup, outside, point, NothingYet, Active, Between
<1>23. CASE TickFails
  BY <1>23, NothingIsDone DEF TickFails, TearDown, Unmoved, Rest, schedule, cleanup, outside,
     point, NothingYet, Active, Between
<1>24. CASE TickHeld
  BY <1>24, NothingIsDone DEF TickHeld, TearDown, Unmoved, Moves, Rest, schedule, cleanup,
     outside, point, NothingYet, Active, Between
<1>25. CASE TickHeldPaused
  BY <1>25, NothingIsDone DEF TickHeldPaused, Moves, Rest, Sent, schedule, cleanup, outside,
     point, NothingYet, Active, Between
<1>26. CASE Pause
  BY <1>26, NothingIsDone DEF Pause, EnterPaused, Moves, Unmoved, Rest, Sent, schedule,
     cleanup, outside, point, NothingYet, Active, Between
<1>27. CASE Resume
  BY <1>27, ResumeFacts, NothingIsDone DEF Rest, Sent, Moves, schedule, cleanup, outside,
     point, NothingYet, Active, Between
<1>28. CASE Abort
  BY <1>28, NothingIsDone DEF Abort, TearDown, Unmoved, Rest, schedule, cleanup, outside,
     point, NothingYet, Active, Between
<1>29. CASE Recover
  BY <1>29, NothingIsDone DEF Recover, Unmoved, Rest, Sent, schedule, cleanup, outside, point,
     NothingYet, Active, Between
<1>30. CASE Elapse
  BY <1>30, NothingIsDone DEF Elapse, World, schedule, cleanup, outside, point, NothingYet,
     Active, Between
<1>31. CASE \E v \in VIs : Silence(v) \/ Speak(v)
  BY <1>31, NothingIsDone DEF Silence, Speak, World, Calm, schedule, cleanup, outside, point,
     NothingYet, Active, Between
<1>32. CASE DiskFills \/ HoldTurns
  BY <1>32, TurnsFacts, NothingIsDone DEF World, schedule, cleanup, outside, point, NothingYet,
     Active, Between
<1> QED BY <1>1, <1>2, <1>3, <1>4, <1>5, <1>6, <1>7, <1>8, <1>9, <1>10, <1>11, <1>12, <1>13,
       <1>14, <1>15, <1>16, <1>17, <1>18, <1>19, <1>20, <1>21, <1>22, <1>23, <1>24, <1>25,
       <1>26, <1>27, <1>28, <1>29, <1>30, <1>31, <1>32, StartFacts DEF Next, Sending, Ticking

\* InItsState is kept by each action.
LEMMA StateStep ==
    ASSUME TypeOK, AxisIsSomewhere, InItsState, Next
    PROVE  InItsState'
<1>1. ASSUME NEW p \in Plans, NEW o \in BOOLEAN, Started(p), StartedRun(p, o) PROVE InItsState'
  <2>1. run'.sweep # <<>> /\ run'.on
    BY <1>1, SweepHasPoints DEF StartedRun
  <2>2. /\ doing' \in {"starting", "ending"} /\ state' = "IDLE" /\ parked' = FALSE
             /\ pausing' = FALSE
    BY <1>1 DEF Started, Forgotten
  <2> QED BY <2>1, <2>2 DEF InItsState, NoRun, Phase
<1>2. CASE SendInitiate
  BY <1>2, TypeParts DEF SendInitiate, Sends, IsNext, Undisturbed, schedule, cleanup, outside,
     point, InItsState, PlainTypes, RunTypes, Active, Between, States, Phase, NoRun
<1>3. CASE SendRamp
  BY <1>3, TypeParts DEF SendRamp, Sends, IsNext, Undisturbed, Moves, schedule, cleanup,
     outside, point, InItsState, PlainTypes, RunTypes, Active, Between, States, Phase, NoRun
<1>4. CASE SendSet
  BY <1>4, TypeParts DEF SendSet, Sends, IsNext, Undisturbed, schedule, cleanup, outside,
     point, InItsState, PlainTypes, RunTypes, Active, Between, States, Phase, NoRun
<1>5. CASE SendArm
  BY <1>5, TypeParts DEF SendArm, Sends, IsNext, Undisturbed, schedule, cleanup, outside,
     point, InItsState, PlainTypes, RunTypes, Active, Between, States, Phase, NoRun
<1>6. CASE SendOff
  BY <1>6, TypeParts DEF SendOff, Sends, IsNext, Undisturbed, Moves, schedule, cleanup,
     outside, point, InItsState, PlainTypes, RunTypes, Active, Between, States, Phase, NoRun
<1>7. CASE SendRead
  BY <1>7, TypeParts DEF SendRead, IsNext, Undisturbed, schedule, cleanup, outside, point,
     InItsState, PlainTypes, RunTypes, Active, Between, States, Phase, NoRun
<1>8. CASE SendSave
  BY <1>8, TypeParts DEF SendSave, Sends, IsNext, Undisturbed, schedule, cleanup, outside,
     point, InItsState, PlainTypes, RunTypes, Active, Between, States, Phase, NoRun
<1>9. CASE SendRaises
  BY <1>9, TypeParts DEF SendRaises, Raises, TearDown, schedule, cleanup, outside, point,
     InItsState, PlainTypes, RunTypes, Active, Between, States, Phase, NoRun
<1>10. CASE SaveRaises
  BY <1>10, TypeParts DEF SaveRaises, Raises, TearDown, schedule, cleanup, outside, point,
     InItsState, PlainTypes, RunTypes, Active, Between, States, Phase, NoRun
<1>11. CASE Opened
  BY <1>11, TypeParts DEF Opened, AllSent, Unmoved, schedule, cleanup, outside, point,
     InItsState, PlainTypes, RunTypes, Active, Between, States, Phase, NoRun
<1>12. CASE Measured
  BY <1>12, TypeParts DEF Measured, AllSent, Unmoved, schedule, cleanup, outside, point,
     InItsState, PlainTypes, RunTypes, Active, Between, States, Phase, NoRun
<1>13. CASE ParkingSent
  BY <1>13, TypeParts DEF ParkingSent, AllSent, Unmoved, schedule, cleanup, outside, point,
     InItsState, PlainTypes, RunTypes, Active, Between, States, Phase, NoRun
<1>14. CASE TornDown
  BY <1>14, TypeParts DEF TornDown, Forgotten, Moves, schedule, cleanup, outside, point,
     InItsState, PlainTypes, RunTypes, Active, Between, States, Phase, NoRun
<1>15. CASE TickInitiating
  BY <1>15, TypeParts DEF TickInitiating, Ticks, Unmoved, Rest, Sent, schedule, cleanup,
     outside, point, InItsState, PlainTypes, RunTypes, Active, Between, States, Phase, NoRun
<1>16. CASE TickRamping
  BY <1>16, TypeParts DEF TickRamping, Ticks, Steps, Followed, Moves, Rest, Sent, schedule,
     cleanup, outside, point, InItsState, PlainTypes, RunTypes, Active, Between, States, Phase,
     NoRun
<1>17. CASE TickGate
  BY <1>17, TypeParts DEF TickGate, Ticks, Moves, Rest, Sent, schedule, cleanup, outside,
     point, InItsState, PlainTypes, RunTypes, Active, Between, States, Phase, NoRun
<1>18. CASE TickMeasuring
  BY <1>18, TypeParts DEF TickMeasuring, Ticks, Steps, Followed, Moves, Rest, schedule,
     cleanup, outside, point, InItsState, PlainTypes, RunTypes, Active, Between, States, Phase,
     NoRun
<1>19. CASE TickSweeping
  BY <1>19, TypeParts DEF TickSweeping, Ticks, Followed, Moves, Rest, Sent, schedule, cleanup,
     outside, point, InItsState, PlainTypes, RunTypes, Active, Between, States, Phase, NoRun
<1>20. CASE TickStandby
  BY <1>20, TypeParts DEF TickStandby, Ticks, Steps, Followed, Moves, Rest, Sent, TearDown,
     schedule, cleanup, outside, point, InItsState, PlainTypes, RunTypes, Active, Between,
     States, Phase, NoRun
<1>21. CASE TickFinish
  BY <1>21, TypeParts, SweepIsThere DEF TickFinish, Ticks, Steps, Followed, Moves, Sent,
     schedule, cleanup, outside, point, InItsState, PlainTypes, RunTypes, Active, Between,
     States, Phase, NoRun
<1>22. CASE TickPauseBoundary
  BY <1>22, TypeParts DEF TickPauseBoundary, EnterPaused, Ticks, Followed, Moves, Rest, Sent,
     schedule, cleanup, outside, point, InItsState, PlainTypes, RunTypes, Active, Between,
     States, Phase, NoRun
<1>23. CASE TickFails
  BY <1>23, TypeParts DEF TickFails, TearDown, Unmoved, Rest, schedule, cleanup, outside,
     point, InItsState, PlainTypes, RunTypes, Active, Between, States, Phase, NoRun
<1>24. CASE TickHeld
  BY <1>24, TypeParts DEF TickHeld, TearDown, Unmoved, Moves, Rest, schedule, cleanup, outside,
     point, InItsState, PlainTypes, RunTypes, Active, Between, States, Phase, NoRun
<1>25. CASE TickHeldPaused
  BY <1>25, TypeParts DEF TickHeldPaused, Moves, Rest, Sent, schedule, cleanup, outside, point,
     InItsState, PlainTypes, RunTypes, Active, Between, States, Phase, NoRun
<1>26. CASE Pause
  <2>1. wait \in [on : BOOLEAN, spent : 0 .. Settle, back : States]
    BY TypeParts DEF ClockTypes
  <2>2. CASE state = "MEASURING"
    BY <1>26, <2>2, Zenon DEF Pause, Between, Unmoved, Rest, Sent, InItsState, Phase, NoRun,
       Active
  <2>3. CASE state # "MEASURING"
    <3>1. wait'.back = state
      BY <1>26, <2>1, <2>3 DEF Pause, EnterPaused
    <3>2. /\ doing = "none" /\ Active /\ state' = "PAUSED" /\ pausing' = FALSE
          /\ run' = run /\ doing' = doing /\ parked' = parked
      BY <1>26, <2>3 DEF Pause, EnterPaused, Between, Rest, Sent
    <3> QED BY <2>3, <3>1, <3>2 DEF InItsState, Phase, NoRun, Active
  <2> QED BY <2>2, <2>3
<1>27. CASE Resume
  <2>1. CASE state = "PAUSED"
    <3>1. /\ state' = wait.back /\ doing = "none" /\ doing' = doing /\ ~pausing
               /\ pausing' = pausing
          /\ run' = run /\ parked' = parked /\ wait' = wait /\ run.on
      BY <1>27, <2>1, ResumeFacts, Zenon DEF Rest, Sent, InItsState
    <3>2. wait.back \in {"INITIATING", "RAMPING", "INITIATION_GATE", "SWEEPING", "STANDBY"}
      BY <2>1 DEF InItsState
    <3> QED BY <2>1, <3>1, <3>2 DEF InItsState, Phase, NoRun, Active
  <2>2. CASE state # "PAUSED"
    <3>1. /\ state' = state /\ doing' = doing /\ pausing' = FALSE
          /\ run' = run /\ parked' = parked /\ wait' = wait
      BY <1>27, <2>2, ResumeFacts, Zenon DEF Rest, Sent
    <3> QED BY <2>2, <3>1 DEF InItsState, Phase, NoRun, Active
  <2> QED BY <2>1, <2>2
<1>28. CASE Abort
  BY <1>28, TypeParts DEF Abort, TearDown, Unmoved, Rest, schedule, cleanup, outside, point,
     InItsState, PlainTypes, RunTypes, Active, Between, States, Phase, NoRun
<1>29. CASE Recover
  BY <1>29, TypeParts DEF Recover, Unmoved, Rest, Sent, schedule, cleanup, outside, point,
     InItsState, PlainTypes, RunTypes, Active, Between, States, Phase, NoRun
<1>30. CASE Elapse
  BY <1>30, TypeParts DEF Elapse, World, schedule, cleanup, outside, point, InItsState,
     PlainTypes, RunTypes, Active, Between, States, Phase, NoRun
<1>31. CASE \E v \in VIs : Silence(v) \/ Speak(v)
  BY <1>31, TypeParts DEF Silence, Speak, World, Calm, schedule, cleanup, outside, point,
     InItsState, PlainTypes, RunTypes, Active, Between, States, Phase, NoRun
<1>32. CASE DiskFills \/ HoldTurns
  BY <1>32, TurnsFacts, TypeParts DEF World, schedule, cleanup, outside, point, InItsState,
     PlainTypes, RunTypes, Active, Between, States, Phase, NoRun
<1> QED BY <1>1, <1>2, <1>3, <1>4, <1>5, <1>6, <1>7, <1>8, <1>9, <1>10, <1>11, <1>12, <1>13,
       <1>14, <1>15, <1>16, <1>17, <1>18, <1>19, <1>20, <1>21, <1>22, <1>23, <1>24, <1>25,
       <1>26, <1>27, <1>28, <1>29, <1>30, <1>31, <1>32, StartFacts DEF Next, Sending, Ticking

-----------------------------------------------------------------------------
\* What is among a sequence.
LEMMA AmongTail ==
    ASSUME NEW S, NEW s \in Seq(S), s # <<>>
    PROVE  /\ Head(s) \in S /\ Tail(s) \in Seq(S)
           /\ \A x : x \in Among(s) <=> x = Head(s) \/ x \in Among(Tail(s))
<1>1. Head(s) \in S /\ Tail(s) \in Seq(S) /\ Len(s) \in Nat \ {0} /\ DOMAIN s = 1 .. Len(s)
  OBVIOUS
<1>2. Len(Tail(s)) = Len(s) - 1 /\ \A i \in 1 .. Len(s) - 1 : Tail(s)[i] = s[i + 1]
  OBVIOUS
<1>3. DOMAIN Tail(s) = 1 .. Len(s) - 1
  BY <1>1, <1>2
<1>4. ASSUME NEW x \in Among(s) PROVE x = Head(s) \/ x \in Among(Tail(s))
  <2>1. PICK i \in 1 .. Len(s) : x = s[i]
    BY <1>1, <1>4 DEF Among
  <2>2. CASE i = 1
    BY <2>1, <2>2
  <2>3. CASE i # 1
    <3>1. i - 1 \in 1 .. Len(s) - 1 /\ Tail(s)[i - 1] = x
      BY <1>1, <1>2, <2>1, <2>3
    <3> QED BY <1>3, <3>1 DEF Among
  <2> QED BY <2>2, <2>3
<1>5. ASSUME NEW x \in Among(Tail(s)) PROVE x \in Among(s)
  <2>1. PICK i \in 1 .. Len(s) - 1 : x = Tail(s)[i]
    BY <1>3, <1>5 DEF Among
  <2>2. i + 1 \in 1 .. Len(s) /\ s[i + 1] = x
    BY <1>1, <1>2, <2>1
  <2> QED BY <1>1, <2>2 DEF Among
<1>6. Head(s) \in Among(s)
  <2>1. 1 \in DOMAIN s /\ Head(s) = s[1]
    BY <1>1
  <2> QED BY <2>1 DEF Among
<1> QED BY <1>1, <1>4, <1>5, <1>6

\* What is among two sequences put together.
LEMMA AmongBoth ==
    ASSUME NEW S, NEW s \in Seq(S), NEW t \in Seq(S)
    PROVE  s \o t \in Seq(S) /\ Among(s) \subseteq Among(s \o t) /\ Among(t) \subseteq Among(s \o t)
<1>1. s \o t \in Seq(S) /\ Len(s \o t) = Len(s) + Len(t) /\ DOMAIN (s \o t) = 1 .. Len(s) + Len(t)
      /\ Len(s) \in Nat /\ Len(t) \in Nat /\ DOMAIN s = 1 .. Len(s) /\ DOMAIN t = 1 .. Len(t)
  OBVIOUS
<1>2. ASSUME NEW i \in 1 .. Len(s) PROVE s[i] \in Among(s \o t)
  <2>1. i \in DOMAIN (s \o t) /\ (s \o t)[i] = s[i]
    BY <1>1
  <2> QED BY <2>1 DEF Among
<1>3. ASSUME NEW i \in 1 .. Len(t) PROVE t[i] \in Among(s \o t)
  <2>1. Len(s) + i \in DOMAIN (s \o t) /\ (s \o t)[Len(s) + i] = t[i]
    BY <1>1
  <2> QED BY <2>1 DEF Among
<1> QED BY <1>1, <1>2, <1>3 DEF Among

\* What is among a sequence of a few.
LEMMA AmongFew ==
    /\ Among(<<>>) = {}
    /\ \A x : Among(<<x>>) = {x}
    /\ \A x, y : Among(<<x, y>>) = {x, y}
    /\ \A x, y, z : Among(<<x, y, z>>) = {x, y, z}
    /\ \A x, y, z, w : Among(<<x, y, z, w>>) = {x, y, z, w}
BY DEF Among

\* Short sequences put together.
LEMMA TwoJoined == ASSUME NEW x, NEW y PROVE <<x>> \o <<y>> = <<x, y>>
<1> DEFINE S == {x, y}
<1>1. <<x>> \in Seq(S) /\ <<y>> \in Seq(S) /\ <<x, y>> \in Seq(S)
  OBVIOUS
<1>2. <<x>> \o <<y>> \in Seq(S) /\ Len(<<x>> \o <<y>>) = 2 /\ Len(<<x, y>>) = 2
  OBVIOUS
<1>3. \A i \in 1 .. 2 : (<<x>> \o <<y>>)[i] = <<x, y>>[i]
  OBVIOUS
<1> QED BY <1>1, <1>2, <1>3, SeqEqual

\* Two and one put together.
LEMMA ThreeJoined == ASSUME NEW x, NEW y, NEW z PROVE <<x, y>> \o <<z>> = <<x, y, z>>
<1> DEFINE S == {x, y, z}
<1>1. <<x, y>> \in Seq(S) /\ <<z>> \in Seq(S) /\ <<x, y, z>> \in Seq(S)
  OBVIOUS
<1>2. <<x, y>> \o <<z>> \in Seq(S) /\ Len(<<x, y>> \o <<z>>) = 3 /\ Len(<<x, y, z>>) = 3
  OBVIOUS
<1>3. \A i \in 1 .. 3 : (<<x, y>> \o <<z>>)[i] = <<x, y, z>>[i]
  OBVIOUS
<1> QED BY <1>1, <1>2, <1>3, SeqEqual

\* One and two put together.
LEMMA Joined ==
    /\ <<>> \o <<>> = <<>>
    /\ \A x : <<>> \o <<x>> = <<x>> /\ <<x>> \o <<>> = <<x>>
    /\ \A x, y : <<x>> \o <<y>> = <<x, y>>
BY TwoJoined

\* What the reading loop puts together.
LEMMA JoinedUp ==
    ASSUME NEW x, NEW y, NEW z
    PROVE  /\ <<x>> \o <<y>> \o <<z>> = <<x, y, z>> /\ <<x>> \o <<>> \o <<z>> = <<x, z>>
           /\ <<>> \o <<y>> \o <<z>> = <<y, z>> /\ <<>> \o <<>> \o <<z>> = <<z>>
           /\ <<y>> \o <<z>> = <<y, z>> /\ <<>> \o <<z>> = <<z>>
           /\ Head(<<x, y, z>>) = x /\ Tail(<<x, y, z>>) = <<y, z>> /\ <<x, y, z>> # <<>>
           /\ Head(<<y, z>>) = y /\ Tail(<<y, z>>) = <<z>> /\ <<y, z>> # <<>>
<1>1. <<x>> \o <<y>> = <<x, y>> /\ <<x, y>> \o <<z>> = <<x, y, z>> /\ <<x>> \o <<z>> = <<x, z>>
      /\ <<y>> \o <<z>> = <<y, z>>
  BY TwoJoined, ThreeJoined
<1>2. <<x>> \o <<>> = <<x>> /\ <<>> \o <<y>> = <<y>> /\ <<>> \o <<z>> = <<z>> /\ <<>> \o <<>> = <<>>
  BY Joined
<1>3. /\ Head(<<x, y, z>>) = x /\ Tail(<<x, y, z>>) = <<y, z>> /\ <<x, y, z>> # <<>>
      /\ Head(<<y, z>>) = y /\ Tail(<<y, z>>) = <<z>> /\ <<y, z>> # <<>>
  OBVIOUS
<1>4. <<x>> \o <<y>> \o <<z>> = <<x, y, z>> /\ <<x>> \o <<>> \o <<z>> = <<x, z>>
      /\ <<>> \o <<y>> \o <<z>> = <<y, z>> /\ <<>> \o <<>> \o <<z>> = <<z>>
  BY <1>1, <1>2, Zenon
<1> QED BY <1>1, <1>2, <1>3, <1>4, Zenon

\* The commands with which a run opens.
LEMMA OpeningPrepares ==
    ASSUME RunTypes, run.sweep # <<>>
    PROVE  /\ Opening \in Seq(Opens)
           /\ Cmd("meter", "arm", None) \in Among(Opening)
           /\ Cmd("axis", "ramp", Level) \in Among(Opening)
           /\ \A s \in 1 .. 2 : run.slot[s].n = 1 => Set(s, 1) \in Among(Opening)
<1> DEFINE Claims == <<Cmd("axis", "initiate", None), Cmd("meter", "initiate", None),
                       Cmd("path", "initiate", None), Cmd("axis", "ramp", Level)>>
           Arm    == <<Cmd("meter", "arm", None)>>
           S1     == FirstValues(Beside)
           S2     == FirstValues(Statics("meter"))
<1>1. \A s \in 1 .. 2 : run.slot[s].n \in Nat /\ run.slot[s].vi \in {"path", "meter"}
  BY DEF RunTypes
<1>2. \A s \in Beside \cup Statics("meter") : s \in 1 .. 2 /\ run.slot[s].n > 0
  BY <1>1 DEF Beside, Statics
<1>3. \A s \in 1 .. 2 : run.slot[s].n = 1 => s \in Beside \cup Statics("meter")
  BY <1>1 DEF Beside, Statics
<1>4. \A s \in 1 .. 2 : run.slot[s].n > 0 => Set(s, 1) \in Opens
  BY DEF Opens
<1>5. ASSUME NEW slots \in SUBSET (Beside \cup Statics("meter"))
      PROVE  FirstValues(slots) \in Seq(Opens)
               /\ \A s \in slots : Set(s, 1) \in Among(FirstValues(slots))
  <2>1. 1 \in slots => Set(1, 1) \in Opens
    BY <1>2, <1>4
  <2>2. 2 \in slots => Set(2, 1) \in Opens
    BY <1>2, <1>4
  <2>3. \A s \in slots : s = 1 \/ s = 2
    BY <1>2
  <2>4. CASE 1 \in slots /\ 2 \in slots
    <3>1. FirstValues(slots) = <<Set(1, 1), Set(2, 1)>>
      BY <2>4, Joined, Zenon DEF FirstValues
    <3> QED BY <2>1, <2>2, <2>3, <2>4, <3>1, AmongFew
  <2>5. CASE 1 \in slots /\ 2 \notin slots
    <3>1. FirstValues(slots) = <<Set(1, 1)>>
      BY <2>5, Joined, Zenon DEF FirstValues
    <3> QED BY <2>1, <2>3, <2>5, <3>1, AmongFew
  <2>6. CASE 1 \notin slots /\ 2 \in slots
    <3>1. FirstValues(slots) = <<Set(2, 1)>>
      BY <2>6, Joined, Zenon DEF FirstValues
    <3> QED BY <2>2, <2>3, <2>6, <3>1, AmongFew
  <2>7. CASE 1 \notin slots /\ 2 \notin slots
    <3>1. FirstValues(slots) = <<>>
      BY <2>7, Joined, Zenon DEF FirstValues
    <3> QED BY <2>3, <2>7, <3>1
  <2> QED BY <2>4, <2>5, <2>6, <2>7
<1>6. /\ S1 \in Seq(Opens) /\ \A s \in Beside : Set(s, 1) \in Among(S1)
      /\ S2 \in Seq(Opens) /\ \A s \in Statics("meter") : Set(s, 1) \in Among(S2)
  BY <1>5
<1>7. Claims \in Seq(Opens) /\ Arm \in Seq(Opens)
  BY DEF Opens, VIs
<1>8. Cmd("axis", "ramp", Level) \in Among(Claims) /\ Cmd("meter", "arm", None) \in Among(Arm)
  BY AmongFew
<1>9. Opening = Claims \o S1 \o Arm \o S2
  BY DEF Opening
<1> HIDE DEF Claims, Arm, S1, S2
<1>10. Claims \o S1 \in Seq(Opens) /\ Among(Claims) \subseteq Among(Claims \o S1)
         /\ Among(S1) \subseteq Among(Claims \o S1)
  BY <1>6, <1>7, AmongBoth
<1>11. Claims \o S1 \o Arm \in Seq(Opens)
         /\ Among(Claims \o S1) \subseteq Among(Claims \o S1 \o Arm)
       /\ Among(Arm) \subseteq Among(Claims \o S1 \o Arm)
  BY <1>7, <1>10, AmongBoth
<1>12. Opening \in Seq(Opens) /\ Among(Claims \o S1 \o Arm) \subseteq Among(Opening)
         /\ Among(S2) \subseteq Among(Opening)
  BY <1>6, <1>9, <1>11, AmongBoth
<1> QED BY <1>3, <1>6, <1>8, <1>10, <1>11, <1>12

\* The commands that switch off.
LEMMA OffsSwitchOff ==
    ASSUME RunTypes
    PROVE  /\ SafeOff \in Seq(Offs) /\ Parking \in Seq(Offs)
           /\ \A i \in DOMAIN SafeOff : SafeOff[i] = Off("meter") => i = 1
           /\ \A i \in DOMAIN Parking : Parking[i] = Off("meter") => i = 1
           /\ Off("meter") \in Among(SafeOff) /\ Off("meter") \in Among(Parking)
           /\ Beside # {} => Off("path") \in Among(SafeOff) /\ Off("path") \in Among(Parking)
           /\ run.kind # "temperature" => Off("axis") \in Among(Parking)
<1>1. Off("meter") # Off("path") /\ Off("meter") # Off("axis") /\ \A v \in VIs : Off(v) \in Offs
  BY DEF Off, Cmd, Offs
<1>2. SafeOff \in {<<Off("meter")>>, <<Off("meter"), Off("path")>>}
      /\ (Beside # {} => SafeOff = <<Off("meter"), Off("path")>>)
  BY Joined, Zenon DEF SafeOff
<1>3. Parking \in {SafeOff, SafeOff \o <<Off("axis")>>} /\ (run.kind # "temperature"
        => Parking = SafeOff \o <<Off("axis")>>)
  BY DEF Parking
<1>4. Parking \in {<<Off("meter")>>, <<Off("meter"), Off("path")>>, <<Off("meter"), Off("axis")>>,
                   <<Off("meter"), Off("path"), Off("axis")>>}
      /\ (Beside # {} => Parking \in {<<Off("meter"), Off("path")>>, <<Off("meter"), Off("path"), Off("axis")>>})
      /\ (run.kind # "temperature"
           => Parking \in {<<Off("meter"), Off("axis")>>, <<Off("meter"), Off("path"), Off("axis")>>})
  <2>1. \A x, y, z : <<x>> \o <<z>> = <<x, z>> /\ <<x, y>> \o <<z>> = <<x, y, z>>
    BY TwoJoined, ThreeJoined
  <2>2. CASE SafeOff = <<Off("meter")>> /\ Beside = {}
    BY <1>3, <2>1, <2>2
  <2>3. CASE SafeOff = <<Off("meter"), Off("path")>>
    BY <1>3, <2>1, <2>3
  <2> QED BY <1>2, <2>2, <2>3
<1>5. \A i \in DOMAIN SafeOff : SafeOff[i] = Off("meter") => i = 1
  BY <1>1, <1>2
<1>6. \A i \in DOMAIN Parking : Parking[i] = Off("meter") => i = 1
  BY <1>1, <1>4
<1>7. SafeOff \in Seq(Offs) /\ Parking \in Seq(Offs)
  <2>1. Off("meter") \in Offs /\ Off("path") \in Offs /\ Off("axis") \in Offs
    BY <1>1 DEF VIs
  <2>2. \A x, y, z \in Offs : <<x>> \in Seq(Offs) /\ <<x, y>> \in Seq(Offs)
          /\ <<x, y, z>> \in Seq(Offs)
    OBVIOUS
  <2> QED BY <1>2, <1>4, <2>1, <2>2, Zenon
<1>8. Off("meter") \in Among(SafeOff) /\ (Beside # {} => Off("path") \in Among(SafeOff))
  BY <1>2, AmongFew
<1>9. Off("meter") \in Among(Parking) /\ (Beside # {} => Off("path") \in Among(Parking))
      /\ (run.kind # "temperature" => Off("axis") \in Among(Parking))
  BY <1>4, AmongFew
<1> QED BY <1>5, <1>6, <1>7, <1>8, <1>9

\* The way through one cell of the reading loop.
LEMMA ThroughTheCell ==
    ASSUME RunTypes, NEW c \in Nat \X Nat
    PROVE  /\ IF Loops(1) /\ c[2] = 1
              THEN AtCell(c) # <<>> /\ Head(AtCell(c)) = Set(1, c[1])
                /\ Tail(AtCell(c)) = Inner(c) \o <<Read(c)>>
              ELSE AtCell(c) = Inner(c) \o <<Read(c)>>
           /\ IF Loops(2)
              THEN Head(Inner(c) \o <<Read(c)>>) = Set(2, c[2])
                /\ Tail(Inner(c) \o <<Read(c)>>) = <<Read(c)>>
              ELSE Inner(c) \o <<Read(c)>> = <<Read(c)>>
           /\ Inner(c) \o <<Read(c)>> # <<>>
<1> DEFINE a == Set(1, c[1])  b == Set(2, c[2])  r == Read(c)
<1> HIDE DEF a, b, r
<1>5. /\ <<a>> \o <<b>> \o <<r>> = <<a, b, r>> /\ <<a>> \o <<>> \o <<r>> = <<a, r>>
      /\ <<>> \o <<b>> \o <<r>> = <<b, r>> /\ <<>> \o <<>> \o <<r>> = <<r>>
      /\ <<b>> \o <<r>> = <<b, r>> /\ <<>> \o <<r>> = <<r>>
      /\ Head(<<a, b, r>>) = a /\ Tail(<<a, b, r>>) = <<b, r>> /\ <<a, b, r>> # <<>>
      /\ Head(<<b, r>>) = b /\ Tail(<<b, r>>) = <<r>> /\ <<b, r>> # <<>>
  BY JoinedUp
<1>6. Head(<<a, r>>) = a /\ Tail(<<a, r>>) = <<r>> /\ <<a, r>> # <<>> /\ <<r>> # <<>>
  OBVIOUS
<1>1. CASE (Loops(1) /\ c[2] = 1) /\ Loops(2)
  <2>1. Outer(c) = <<a>> /\ Inner(c) = <<b>>
    BY <1>1, Zenon DEF Outer, Inner, a, b
  <2>2. AtCell(c) = <<a>> \o <<b>> \o <<r>>
    BY <2>1, Zenon DEF AtCell, r
  <2>3. AtCell(c) = <<a, b, r>> /\ Inner(c) \o <<r>> = <<b, r>>
    BY <2>1, <2>2, <1>5, <1>6, Zenon
  <2>4. AtCell(c) # <<>> /\ Head(AtCell(c)) = a /\ Tail(AtCell(c)) = Inner(c) \o <<r>>
    BY <2>3, <1>5, <1>6, Zenon
  <2>5. Head(Inner(c) \o <<r>>) = b /\ Tail(Inner(c) \o <<r>>) = <<r>>
    BY <2>3, <1>5, <1>6, Zenon
  <2>6. Inner(c) \o <<r>> # <<>>
    BY <2>3
  <2> QED BY <1>1, <2>4, <2>5, <2>6, Zenon DEF a, b, r
<1>2. CASE (Loops(1) /\ c[2] = 1) /\ ~Loops(2)
  <2>1. Outer(c) = <<a>> /\ Inner(c) = <<>>
    BY <1>2, Zenon DEF Outer, Inner, a, b
  <2>2. AtCell(c) = <<a>> \o <<>> \o <<r>>
    BY <2>1, Zenon DEF AtCell, r
  <2>3. AtCell(c) = <<a, r>> /\ Inner(c) \o <<r>> = <<r>>
    BY <2>1, <2>2, <1>5, <1>6, Zenon
  <2>4. AtCell(c) # <<>> /\ Head(AtCell(c)) = a /\ Tail(AtCell(c)) = Inner(c) \o <<r>>
    BY <2>3, <1>5, <1>6, Zenon
  <2>5. Inner(c) \o <<r>> = <<r>>
    BY <2>3, <1>5, <1>6, Zenon
  <2>6. Inner(c) \o <<r>> # <<>>
    BY <2>3
  <2> QED BY <1>2, <2>4, <2>5, <2>6, Zenon DEF a, b, r
<1>3. CASE ~(Loops(1) /\ c[2] = 1) /\ Loops(2)
  <2>1. Outer(c) = <<>> /\ Inner(c) = <<b>>
    BY <1>3, Zenon DEF Outer, Inner, a, b
  <2>2. AtCell(c) = <<>> \o <<b>> \o <<r>>
    BY <2>1, Zenon DEF AtCell, r
  <2>3. AtCell(c) = <<b, r>> /\ Inner(c) \o <<r>> = <<b, r>>
    BY <2>1, <2>2, <1>5, <1>6, Zenon
  <2>4. AtCell(c) = Inner(c) \o <<r>>
    BY <2>3, <1>5, <1>6, Zenon
  <2>5. Head(Inner(c) \o <<r>>) = b /\ Tail(Inner(c) \o <<r>>) = <<r>>
    BY <2>3, <1>5, <1>6, Zenon
  <2>6. Inner(c) \o <<r>> # <<>>
    BY <2>3
  <2> QED BY <1>3, <2>4, <2>5, <2>6, Zenon DEF a, b, r
<1>4. CASE ~(Loops(1) /\ c[2] = 1) /\ ~Loops(2)
  <2>1. Outer(c) = <<>> /\ Inner(c) = <<>>
    BY <1>4, Zenon DEF Outer, Inner, a, b
  <2>2. AtCell(c) = <<>> \o <<>> \o <<r>>
    BY <2>1, Zenon DEF AtCell, r
  <2>3. AtCell(c) = <<r>> /\ Inner(c) \o <<r>> = <<r>>
    BY <2>1, <2>2, <1>5, <1>6, Zenon
  <2>4. AtCell(c) = Inner(c) \o <<r>>
    BY <2>3, <1>5, <1>6, Zenon
  <2>5. Inner(c) \o <<r>> = <<r>>
    BY <2>3, <1>5, <1>6, Zenon
  <2>6. Inner(c) \o <<r>> # <<>>
    BY <2>3
  <2> QED BY <1>4, <2>4, <2>5, <2>6, Zenon DEF a, b, r
<1> QED BY <1>1, <1>2, <1>3, <1>4

-----------------------------------------------------------------------------
\* A cell of the grid is a pair of numbers within the shape of the loops.
LEMMA CellsAreNumbered ==
    ASSUME RunTypes
    PROVE  /\ \A s \in 1 .. 2 : Shape(s) \in Nat \ {0} /\ run.slot[s].n \in Nat
                               /\ run.slot[s].vi \in {"path", "meter"}
           /\ \A c \in Cells : c \in Nat \X Nat /\ c[1] \in 1 .. Shape(1) /\ c[2] \in 1 .. Shape(2)
                               /\ c = <<c[1], c[2]>>
<1>1. \A s \in 1 .. 2 : run.slot[s].n \in Nat /\ run.slot[s].vi \in {"path", "meter"}
  BY DEF RunTypes
<1>2. \A s \in 1 .. 2 : Shape(s) \in Nat \ {0}
  BY <1>1 DEF Shape
<1>3. \A c \in Cells : c[1] \in 1 .. Shape(1) /\ c[2] \in 1 .. Shape(2) /\ c = <<c[1], c[2]>>
  BY DEF Cells
<1> QED BY <1>1, <1>2, <1>3

\* What is before the reading loop.
Ahead(c) ==
    \/ /\ Loops(1) /\ c[2] = 1 /\ Head(todo) = Set(1, c[1])
       /\ Tail(todo) = Inner(c) \o <<Read(c)>>
    \/ /\ Loops(2) /\ Looking(1, c) /\ Head(todo) = Set(2, c[2]) /\ Tail(todo) = <<Read(c)>>
    \/ Looking(1, c) /\ Looking(2, c) /\ todo = <<Read(c)>>
SaveIt == Cmd("axis", "save", None)

\* AtWork, read as what is sent next.
LEMMA WorkAhead ==
    ASSUME TypeOK, AxisIsSomewhere, AtWork, doing = "measuring", todo # <<>>
    PROVE  \/ todo = <<SaveIt>> /\ DOMAIN grid = Cells
           \/ \E c \in Cells : DOMAIN grid = Before(c) /\ Ahead(c)
<1>0. RunTypes
  BY TypeParts
<1> SUFFICES ASSUME ~(todo = <<SaveIt>> /\ DOMAIN grid = Cells)
    PROVE  \E c \in Cells : DOMAIN grid = Before(c) /\ Ahead(c)
  OBVIOUS
<1>1. PICK c \in Cells :
         /\ DOMAIN grid = Before(c)
         /\ \/ todo = AtCell(c) /\ (c[2] = 1 \/ Looking(1, c))
            \/ todo = Inner(c) \o <<Read(c)>> /\ Looking(1, c)
            \/ todo = <<Read(c)>> /\ Looking(1, c) /\ Looking(2, c)
  BY Zenon DEF AtWork, SaveIt
<1>2. c \in Nat \X Nat
  BY <1>0, CellsAreNumbered
<1>3. ASSUME todo = Inner(c) \o <<Read(c)>>, Looking(1, c) PROVE Ahead(c)
  <2>1. CASE Loops(2)
    BY <1>0, <1>2, <1>3, <2>1, ThroughTheCell, Zenon DEF Ahead
  <2>2. CASE ~Loops(2)
    BY <1>0, <1>2, <1>3, <2>2, ThroughTheCell, Zenon DEF Ahead, Looking
  <2> QED BY <2>1, <2>2
<1>4. ASSUME todo = AtCell(c), c[2] = 1 \/ Looking(1, c) PROVE Ahead(c)
  <2>1. CASE Loops(1) /\ c[2] = 1
    BY <1>0, <1>2, <1>4, <2>1, ThroughTheCell, Zenon DEF Ahead
  <2>2. CASE ~(Loops(1) /\ c[2] = 1)
    <3>1. Looking(1, c)
      BY <1>4, <2>2 DEF Looking
    <3>2. todo = Inner(c) \o <<Read(c)>>
      BY <1>0, <1>2, <1>4, <2>2, ThroughTheCell, Zenon
    <3> QED BY <1>3, <3>1, <3>2
  <2> QED BY <2>1, <2>2
<1>5. ASSUME todo = <<Read(c)>>, Looking(1, c), Looking(2, c) PROVE Ahead(c)
  BY <1>5 DEF Ahead
<1> QED BY <1>1, <1>3, <1>4, <1>5

\* Which command is sent when.
LEMMA WhatIsSent ==
    ASSUME TypeOK, AxisIsSomewhere, Prepared, SwitchedOff, AtWork, doing # "none", todo # <<>>
    PROVE  /\ doing = "starting" => Head(todo) \in Opens /\ Tail(todo) \in Seq(Opens)
           /\ doing \in {"parking", "ending"} => Head(todo) \in Offs /\ Tail(todo) \in Seq(Offs)
           /\ Head(todo).what \in {"initiate", "ramp", "arm"} => doing = "starting"
           /\ Head(todo).what = "off" => doing \in {"parking", "ending"}
           /\ Head(todo).what \in {"read", "save"} => doing = "measuring"
           /\ Head(todo).what = "set" => doing \in {"starting", "measuring"}
<1>1. doing = "starting" => Head(todo) \in Opens /\ Tail(todo) \in Seq(Opens)
  BY AmongTail DEF Prepared
<1>2. doing \in {"parking", "ending"} => Head(todo) \in Offs /\ Tail(todo) \in Seq(Offs)
  BY AmongTail DEF SwitchedOff
<1>3. \A x \in Opens : x.what \in {"initiate", "ramp", "arm", "set"}
  BY DEF Opens, Cmd, Set
<1>4. \A x \in Offs : x.what = "off"
  BY DEF Offs, Off, Cmd
<1>5. doing = "measuring" => Head(todo).what \in {"set", "read", "save"}
  <2> SUFFICES ASSUME doing = "measuring" PROVE Head(todo).what \in {"set", "read", "save"}
    OBVIOUS
  <2>1. CASE todo = <<SaveIt>>
    BY <2>1 DEF SaveIt, Cmd
  <2>2. CASE todo # <<SaveIt>>
    <3>1. PICK c \in Cells : Ahead(c)
      BY <2>2, WorkAhead
    <3>2. Head(todo) \in {Set(1, c[1]), Set(2, c[2]), Read(c)}
      BY <3>1 DEF Ahead
    <3> QED BY <3>2 DEF Set, Read, Cmd
  <2> QED BY <2>1, <2>2
<1>6. doing \in {"starting", "measuring", "parking", "ending"}
  BY TypeParts DEF PlainTypes
<1> QED BY <1>1, <1>2, <1>3, <1>4, <1>5, <1>6

\* A slot that is set is one of the reading loop.
LEMMA SetsItsSlot ==
    ASSUME TypeOK, AxisIsSomewhere, Prepared, SwitchedOff, AtWork, SendSet
    PROVE  \E s \in 1 .. 2, k \in Nat :
              /\ Head(todo) = Set(s, k) /\ setting' = [setting EXCEPT ![s] = k]
              /\ \/ doing = "starting" /\ k = 1 /\ run.slot[s].n > 0
                 \/ doing = "measuring" /\ Loops(s)
<1>1. /\ doing # "none" /\ todo # <<>> /\ Head(todo).what = "set"
      /\ setting' = [setting EXCEPT ![Head(todo).arg[1]] = Head(todo).arg[2]]
  BY DEF SendSet, Sends, IsNext
<1>2. \A s, k : Set(s, k).arg[1] = s /\ Set(s, k).arg[2] = k
  BY DEF Set, Cmd
<1>3. CASE doing = "starting"
  <2>1. Head(todo) \in Opens
    BY <1>1, <1>3, WhatIsSent
  <2>2. PICK s \in 1 .. 2 : run.slot[s].n > 0 /\ Head(todo) = Set(s, 1)
    BY <1>1, <2>1 DEF Opens, Cmd
  <2>3. Head(todo).arg[1] = s /\ Head(todo).arg[2] = 1
    BY <1>2, <2>2
  <2>4. setting' = [setting EXCEPT ![s] = 1]
    BY <1>1, <2>3
  <2> QED BY <1>3, <2>2, <2>4
<1>4. CASE doing = "measuring"
  <2>1. todo # <<SaveIt>>
    BY <1>1 DEF SaveIt, Cmd
  <2>2. PICK c \in Cells : Ahead(c)
    BY <1>1, <1>4, <2>1, WorkAhead
  <2>3. c[1] \in Nat /\ c[2] \in Nat
    BY CellsAreNumbered, TypeParts
  <2>4. todo # <<Read(c)>>
    BY <1>1 DEF Read, Cmd
  <2>5. \/ Head(todo) = Set(1, c[1]) /\ Loops(1)
        \/ Head(todo) = Set(2, c[2]) /\ Loops(2)
    BY <2>2, <2>4 DEF Ahead
  <2>6. CASE Head(todo) = Set(1, c[1]) /\ Loops(1)
    <3>1. Head(todo).arg[1] = 1 /\ Head(todo).arg[2] = c[1]
      BY <1>2, <2>6
    <3>2. setting' = [setting EXCEPT ![1] = c[1]]
      BY <1>1, <3>1
    <3>3. 1 \in 1 .. 2
      OBVIOUS
    <3> QED BY <1>4, <2>3, <2>6, <3>2, <3>3, Zenon
  <2>7. CASE Head(todo) = Set(2, c[2]) /\ Loops(2)
    <3>1. Head(todo).arg[1] = 2 /\ Head(todo).arg[2] = c[2]
      BY <1>2, <2>7
    <3>2. setting' = [setting EXCEPT ![2] = c[2]]
      BY <1>1, <3>1
    <3>3. 2 \in 1 .. 2
      OBVIOUS
    <3> QED BY <1>4, <2>3, <2>7, <3>2, <3>3, Zenon
  <2> QED BY <2>5, <2>6, <2>7
<1> QED BY <1>1, <1>3, <1>4, WhatIsSent

\* OnlyItsSlots is kept by each action.
LEMMA SlotsStep ==
    ASSUME TypeOK, Ind, Next
    PROVE  OnlyItsSlots'
<1>1. PlainTypes /\ RunTypes /\ ClockTypes /\ AxisTypes /\ MeterTypes /\ FileTypes /\ TodoTypes
  BY TypeParts DEF Ind
<1>2. ASSUME NEW p \in Plans, NEW o \in BOOLEAN, Started(p), StartedRun(p, o) PROVE OnlyItsSlots'
  <2>1. \A s \in 1 .. 2 : setting'[s] = 0
    BY <1>2 DEF Started, Ind, NothingYet
  <2> QED BY <2>1 DEF OnlyItsSlots
<1>3. CASE SendInitiate
  BY <1>3, <1>1 DEF SendInitiate, Sends, IsNext, Undisturbed, schedule, cleanup, outside,
     point, OnlyItsSlots, MeterTypes, Ind
<1>4. CASE SendRamp
  BY <1>4, <1>1 DEF SendRamp, Sends, IsNext, Undisturbed, Moves, schedule, cleanup, outside,
     point, OnlyItsSlots, MeterTypes, Ind
<1>5. CASE SendSet
  <2>1. PICK s \in 1 .. 2, k \in Nat : setting' = [setting EXCEPT ![s] = k]
                                       /\ (run.slot[s].n > 0 \/ Loops(s))
    BY <1>5, SetsItsSlot DEF Ind
  <2>2. run.slot[s].n > 0
    BY <2>1, CellsAreNumbered, <1>1 DEF Loops
  <2>3. run' = run
    BY <1>5 DEF SendSet, Sends, Undisturbed
  <2>4. OnlyItsSlots
    BY DEF Ind
  <2> QED BY <2>1, <2>2, <2>3, <2>4, <1>1 DEF OnlyItsSlots, MeterTypes
<1>6. CASE SendArm
  BY <1>6, <1>1 DEF SendArm, Sends, IsNext, Undisturbed, schedule, cleanup, outside, point,
     OnlyItsSlots, MeterTypes, Ind
<1>7. CASE SendOff
  BY <1>7, <1>1 DEF SendOff, Sends, IsNext, Undisturbed, Moves, schedule, cleanup, outside,
     point, OnlyItsSlots, MeterTypes, Ind
<1>8. CASE SendRead
  BY <1>8, <1>1 DEF SendRead, IsNext, Undisturbed, schedule, cleanup, outside, point,
     OnlyItsSlots, MeterTypes, Ind
<1>9. CASE SendSave
  BY <1>9, <1>1 DEF SendSave, Sends, IsNext, Undisturbed, schedule, cleanup, outside, point,
     OnlyItsSlots, MeterTypes, Ind
<1>10. CASE SendRaises
  BY <1>10, <1>1 DEF SendRaises, Raises, TearDown, schedule, cleanup, outside, point,
     OnlyItsSlots, MeterTypes, Ind
<1>11. CASE SaveRaises
  BY <1>11, <1>1 DEF SaveRaises, Raises, TearDown, schedule, cleanup, outside, point,
     OnlyItsSlots, MeterTypes, Ind
<1>12. CASE Opened
  BY <1>12, <1>1 DEF Opened, AllSent, Unmoved, schedule, cleanup, outside, point, OnlyItsSlots,
     MeterTypes, Ind
<1>13. CASE Measured
  BY <1>13, <1>1 DEF Measured, AllSent, Unmoved, schedule, cleanup, outside, point,
     OnlyItsSlots, MeterTypes, Ind
<1>14. CASE ParkingSent
  BY <1>14, <1>1 DEF ParkingSent, AllSent, Unmoved, schedule, cleanup, outside, point,
     OnlyItsSlots, MeterTypes, Ind
<1>15. CASE TornDown
  BY <1>15, <1>1 DEF TornDown, Forgotten, Moves, schedule, cleanup, outside, point,
     OnlyItsSlots, MeterTypes, Ind
<1>16. CASE TickInitiating
  BY <1>16, <1>1 DEF TickInitiating, Ticks, Unmoved, Rest, Sent, schedule, cleanup, outside,
     point, OnlyItsSlots, MeterTypes, Ind
<1>17. CASE TickRamping
  BY <1>17, <1>1 DEF TickRamping, Ticks, Steps, Followed, Moves, Rest, Sent, schedule, cleanup,
     outside, point, OnlyItsSlots, MeterTypes, Ind
<1>18. CASE TickGate
  BY <1>18, <1>1 DEF TickGate, Ticks, Moves, Rest, Sent, schedule, cleanup, outside, point,
     OnlyItsSlots, MeterTypes, Ind
<1>19. CASE TickMeasuring
  BY <1>19, <1>1 DEF TickMeasuring, Ticks, Steps, Followed, Moves, Rest, schedule, cleanup,
     outside, point, OnlyItsSlots, MeterTypes, Ind
<1>20. CASE TickSweeping
  BY <1>20, <1>1 DEF TickSweeping, Ticks, Followed, Moves, Rest, Sent, schedule, cleanup,
     outside, point, OnlyItsSlots, MeterTypes, Ind
<1>21. CASE TickStandby
  BY <1>21, <1>1 DEF TickStandby, Ticks, Steps, Followed, Moves, Rest, Sent, TearDown,
     schedule, cleanup, outside, point, OnlyItsSlots, MeterTypes, Ind
<1>22. CASE TickFinish
  <2>1. setting' = setting /\ run' \in {run, [run EXCEPT !.on = FALSE]}
    BY <1>22 DEF TickFinish
  <2>2. run'.slot = run.slot
    BY <2>1, <1>1 DEF RunTypes
  <2> QED BY <2>1, <2>2 DEF OnlyItsSlots, Ind
<1>23. CASE TickPauseBoundary
  BY <1>23, <1>1 DEF TickPauseBoundary, EnterPaused, Ticks, Followed, Moves, Rest, Sent,
     schedule, cleanup, outside, point, OnlyItsSlots, MeterTypes, Ind
<1>24. CASE TickFails
  BY <1>24, <1>1 DEF TickFails, TearDown, Unmoved, Rest, schedule, cleanup, outside, point,
     OnlyItsSlots, MeterTypes, Ind
<1>25. CASE TickHeld
  BY <1>25, <1>1 DEF TickHeld, TearDown, Unmoved, Moves, Rest, schedule, cleanup, outside,
     point, OnlyItsSlots, MeterTypes, Ind
<1>26. CASE TickHeldPaused
  BY <1>26, <1>1 DEF TickHeldPaused, Moves, Rest, Sent, schedule, cleanup, outside, point,
     OnlyItsSlots, MeterTypes, Ind
<1>27. CASE Pause
  BY <1>27, <1>1 DEF Pause, EnterPaused, Moves, Unmoved, Rest, Sent, schedule, cleanup,
     outside, point, OnlyItsSlots, MeterTypes, Ind
<1>28. CASE Resume
  BY <1>28, ResumeFacts, <1>1 DEF Rest, Sent, Moves, schedule, cleanup, outside, point,
     OnlyItsSlots, MeterTypes, Ind
<1>29. CASE Abort
  BY <1>29, <1>1 DEF Abort, TearDown, Unmoved, Rest, schedule, cleanup, outside, point,
     OnlyItsSlots, MeterTypes, Ind
<1>30. CASE Recover
  BY <1>30, <1>1 DEF Recover, Unmoved, Rest, Sent, schedule, cleanup, outside, point,
     OnlyItsSlots, MeterTypes, Ind
<1>31. CASE Elapse
  BY <1>31, <1>1 DEF Elapse, World, schedule, cleanup, outside, point, OnlyItsSlots,
     MeterTypes, Ind
<1>32. CASE \E v \in VIs : Silence(v) \/ Speak(v)
  BY <1>32, <1>1 DEF Silence, Speak, World, Calm, schedule, cleanup, outside, point,
     OnlyItsSlots, MeterTypes, Ind
<1>33. CASE DiskFills \/ HoldTurns
  BY <1>33, TurnsFacts, <1>1 DEF World, schedule, cleanup, outside, point, OnlyItsSlots,
     MeterTypes, Ind
<1> QED BY <1>2, <1>3, <1>4, <1>5, <1>6, <1>7, <1>8, <1>9, <1>10, <1>11, <1>12, <1>13, <1>14,
       <1>15, <1>16, <1>17, <1>18, <1>19, <1>20, <1>21, <1>22, <1>23, <1>24, <1>25, <1>26,
       <1>27, <1>28, <1>29, <1>30, <1>31, <1>32, <1>33, StartFacts DEF Next, Sending, Ticking

-----------------------------------------------------------------------------
\* What a reading is taken with.
Taken == [armed |-> armed, set |-> setting]

\* A reading is taken with the values of its cell, by an armed meter.
LEMMA WhatIsRead ==
    ASSUME TypeOK, Ind, SendRead
    PROVE  \E c \in Cells :
              /\ DOMAIN grid = Before(c) /\ Looking(1, c) /\ Looking(2, c) /\ todo' = AfterCell(c)
              /\ grid' = [d \in (DOMAIN grid) \cup {c} |-> IF d = c THEN Taken ELSE grid[d]]
              /\ armed /\ \A s \in 1 .. 2 : run.slot[s].n = 0 \/ setting[s] = c[s]
<1>1. /\ doing # "none" /\ todo # <<>> /\ Head(todo).what = "read"
           /\ todo' = AfterCell(Head(todo).arg)
      /\ grid' = [d \in (DOMAIN grid) \cup {Head(todo).arg} |-> IF d = Head(todo).arg THEN Taken
           ELSE grid[d]]
  BY DEF SendRead, IsNext, Taken
<1>2. doing = "measuring"
  BY <1>1, WhatIsSent DEF Ind
<1>3. todo # <<SaveIt>>
  BY <1>1 DEF SaveIt, Cmd
<1>4. PICK c \in Cells : DOMAIN grid = Before(c) /\ Ahead(c)
  BY <1>1, <1>2, <1>3, WorkAhead DEF Ind
<1>5. Looking(1, c) /\ Looking(2, c) /\ todo = <<Read(c)>>
  BY <1>1, <1>4 DEF Ahead, Set, Cmd
<1>6. Head(todo).arg = c
  BY <1>5 DEF Read, Cmd
<1>7. armed /\ \A s \in 1 .. 2 : run.slot[s].n = 1 => setting[s] = 1
  BY <1>2 DEF Ind, Prepared
<1>8. RunTypes
  BY TypeParts DEF Ind
<1>9. ASSUME NEW s \in 1 .. 2, run.slot[s].n # 0 PROVE setting[s] = c[s]
  <2>1. CASE Loops(s)
    BY <1>5, <2>1 DEF Looking
  <2>2. CASE ~Loops(s)
    <3>1. run.slot[s].n = 1
      BY <1>8, <1>9, <2>2, CellsAreNumbered DEF Loops
    <3>2. Shape(s) = 1
      BY <3>1 DEF Shape
    <3>3. c[s] = 1
      BY <1>8, <3>2, CellsAreNumbered
    <3> QED BY <1>7, <3>1, <3>3
  <2> QED BY <2>1, <2>2
<1> QED BY <1>1, <1>4, <1>5, <1>6, <1>7, <1>9

\* The cells are those of the run.
LEMMA SameCells ==
    ASSUME run' = run
    PROVE  /\ Cells' = Cells
           /\ \A c : AtCell(c)' = AtCell(c) /\ Inner(c)' = Inner(c) /\ Read(c)' = Read(c)
                /\ Before(c)' = Before(c)
           /\ \A s : Loops(s)' = Loops(s)
BY DEF Cells, Shape, AtCell, Inner, Outer, Loops, Set, Read, Cmd, Before

\* From one cell to the next.
LEMMA NextCell ==
    ASSUME RunTypes, NEW c \in Cells
    PROVE  \/ AfterCell(c) = <<SaveIt>> /\ Before(c) \cup {c} = Cells
           \/ \E d \in Cells : /\ AfterCell(c) = AtCell(d) /\ (d[2] = 1 \/ d[1] = c[1])
                               /\ Before(c) \cup {c} = Before(d)
<1>1. /\ c[1] \in 1 .. Shape(1) /\ c[2] \in 1 .. Shape(2) /\ c = <<c[1], c[2]>>
      /\ Shape(1) \in Nat /\ Shape(2) \in Nat
  BY CellsAreNumbered
<1>2. \A d \in Cells : d[1] \in 1 .. Shape(1) /\ d[2] \in 1 .. Shape(2) /\ d = <<d[1], d[2]>>
  BY CellsAreNumbered
<1>3. CASE c[2] < Shape(2)
  <2> DEFINE d == <<c[1], c[2] + 1>>
  <2>1. d \in Cells
    BY <1>1, <1>3 DEF Cells
  <2>2. AfterCell(c) = AtCell(d)
    BY <1>1, <1>3 DEF AfterCell
  <2>3. ASSUME NEW x \in Cells PROVE x \in Before(c) \cup {c} <=> x \in Before(d)
    BY <1>1, <1>2 DEF Before
  <2>4. Before(c) \cup {c} = Before(d)
    BY <2>3 DEF Before
  <2>5. d[1] = c[1]
    OBVIOUS
  <2> QED BY <2>1, <2>2, <2>4, <2>5
<1>4. CASE c[2] = Shape(2) /\ c[1] < Shape(1)
  <2> DEFINE d == <<c[1] + 1, 1>>
  <2>1. d \in Cells
    BY <1>1, <1>4 DEF Cells
  <2>2. AfterCell(c) = AtCell(d)
    BY <1>1, <1>4 DEF AfterCell
  <2>3. ASSUME NEW x \in Cells PROVE x \in Before(c) \cup {c} <=> x \in Before(d)
    BY <1>1, <1>2, <1>4 DEF Before
  <2>4. Before(c) \cup {c} = Before(d)
    BY <2>3 DEF Before
  <2>5. d[2] = 1
    OBVIOUS
  <2> QED BY <2>1, <2>2, <2>4, <2>5
<1>5. CASE c[2] = Shape(2) /\ c[1] = Shape(1)
  <2>1. AfterCell(c) = <<SaveIt>>
    BY <1>1, <1>5 DEF AfterCell, SaveIt
  <2>2. ASSUME NEW x \in Cells PROVE x \in Before(c) \cup {c}
    BY <1>1, <1>2, <1>5 DEF Before
  <2>3. Before(c) \cup {c} = Cells
    BY <2>2 DEF Before
  <2> QED BY <2>1, <2>3
<1> QED BY <1>1, <1>3, <1>4, <1>5

\* The reading loop stands before the first cell of what AtCell begins.
LEMMA AtWorkAgain ==
    ASSUME run' = run, NEW c \in Cells, DOMAIN grid' = Before(c),
           \/ todo' = AtCell(c) /\ (c[2] = 1 \/ (Loops(1) => setting'[1] = c[1]))
           \/ todo' = Inner(c) \o <<Read(c)>> /\ (Loops(1) => setting'[1] = c[1])
           \/ todo' = <<Read(c)>> /\ (Loops(1) => setting'[1] = c[1]) /\ (Loops(2)
                => setting'[2] = c[2])
    PROVE  AtWork'
<1>1. c \in Cells' /\ DOMAIN grid' = Before(c)'
  BY SameCells
<1>2. /\ Looking(1, c)' = (Loops(1) => setting'[1] = c[1])
      /\ Looking(2, c)' = (Loops(2) => setting'[2] = c[2])
  BY SameCells DEF Looking
<1>3. \/ todo' = AtCell(c)' /\ (c[2] = 1 \/ Looking(1, c)')
      \/ todo' = Inner(c)' \o <<Read(c)'>> /\ Looking(1, c)'
      \/ todo' = <<Read(c)'>> /\ Looking(1, c)' /\ Looking(2, c)'
  BY <1>2, SameCells
<1> QED BY <1>1, <1>3 DEF AtWork

\* The reading loop stays where it is when nothing of it changes.
LEMMA AtWorkStill ==
    ASSUME AtWork, UNCHANGED <<run, todo, doing, grid, setting>>
    PROVE  AtWork'
<1>1. CASE doing # "measuring" \/ todo = <<>>
  BY <1>1 DEF AtWork
<1>2. CASE todo = <<SaveIt>> /\ DOMAIN grid = Cells
  <2>1. todo' = <<SaveIt>> /\ DOMAIN grid' = Cells'
    BY <1>2, SameCells
  <2> QED BY <2>1 DEF AtWork, SaveIt
<1>3. CASE \E c \in Cells :
             /\ DOMAIN grid = Before(c)
             /\ \/ todo = AtCell(c) /\ (c[2] = 1 \/ Looking(1, c))
                \/ todo = Inner(c) \o <<Read(c)>> /\ Looking(1, c)
                \/ todo = <<Read(c)>> /\ Looking(1, c) /\ Looking(2, c)
  <2>1. PICK c \in Cells :
             /\ DOMAIN grid = Before(c)
             /\ \/ todo = AtCell(c) /\ (c[2] = 1 \/ Looking(1, c))
                \/ todo = Inner(c) \o <<Read(c)>> /\ Looking(1, c)
                \/ todo = <<Read(c)>> /\ Looking(1, c) /\ Looking(2, c)
    BY <1>3
  <2> QED BY <2>1, AtWorkAgain DEF Looking
<1> QED BY <1>1, <1>2, <1>3, Zenon DEF AtWork, SaveIt

\* AtWork is kept by each action.
LEMMA WorkStep ==
    ASSUME TypeOK, Ind, Next
    PROVE  AtWork'
<1>1. PlainTypes /\ RunTypes /\ ClockTypes /\ AxisTypes /\ MeterTypes /\ FileTypes /\ TodoTypes
  BY TypeParts DEF Ind
<1>2. ASSUME NEW p \in Plans, NEW o \in BOOLEAN, Started(p), StartedRun(p, o) PROVE AtWork'
  <2>1. doing' # "measuring"
    BY <1>2 DEF Started
  <2> QED BY <2>1 DEF AtWork
<1>3. CASE SendInitiate
  <2>1. doing' # "measuring"
    BY <1>3, WhatIsSent, <1>1 DEF SendInitiate, Sends, IsNext, Undisturbed, TearDown, AllSent,
       Sent, Between, Ticks, Ind, Active
  <2> QED BY <2>1 DEF AtWork
<1>4. CASE SendRamp
  <2>1. doing' # "measuring"
    BY <1>4, WhatIsSent, <1>1 DEF SendRamp, Sends, IsNext, Undisturbed, TearDown, AllSent,
       Sent, Between, Ticks, Ind, Active
  <2> QED BY <2>1 DEF AtWork
<1>5. CASE SendSet
  <2>1. /\ run' = run /\ doing' = doing /\ grid' = grid /\ todo' = Tail(todo) /\ todo # <<>>
             /\ doing # "none"
        /\ Head(todo).what = "set"
             /\ setting' = [setting EXCEPT ![Head(todo).arg[1]] = Head(todo).arg[2]]
    BY <1>5 DEF SendSet, Sends, IsNext, Undisturbed
  <2>2. CASE doing # "measuring"
    BY <2>1, <2>2 DEF AtWork
  <2>3. CASE doing = "measuring"
    <3>1. todo # <<SaveIt>>
      BY <2>1 DEF SaveIt, Cmd
    <3>2. PICK c \in Cells : DOMAIN grid = Before(c) /\ Ahead(c)
      BY <2>1, <2>3, <3>1, WorkAhead DEF Ind
    <3>3. setting \in [1 .. 2 -> Nat]
      BY <1>1 DEF MeterTypes
    <3>4. CASE Head(todo) = Set(1, c[1]) /\ Tail(todo) = Inner(c) \o <<Read(c)>>
      <4>1. Head(todo).arg[1] = 1 /\ Head(todo).arg[2] = c[1]
        BY <3>4 DEF Set, Cmd
      <4>2. setting'[1] = c[1]
        BY <2>1, <3>3, <4>1
      <4> QED BY <2>1, <3>2, <3>4, <4>2, AtWorkAgain
    <3>5. CASE Looking(1, c) /\ Head(todo) = Set(2, c[2]) /\ Tail(todo) = <<Read(c)>>
      <4>1. Head(todo).arg[1] = 2 /\ Head(todo).arg[2] = c[2]
        BY <3>5 DEF Set, Cmd
      <4>2. setting'[2] = c[2] /\ setting'[1] = setting[1]
        BY <2>1, <3>3, <4>1
      <4> QED BY <2>1, <3>2, <3>5, <4>2, AtWorkAgain DEF Looking
    <3>6. todo # <<Read(c)>>
      BY <2>1 DEF Read, Cmd
    <3> QED BY <3>2, <3>4, <3>5, <3>6 DEF Ahead
  <2> QED BY <2>2, <2>3
<1>6. CASE SendArm
  <2>1. doing' # "measuring"
    BY <1>6, WhatIsSent, <1>1 DEF SendArm, Sends, IsNext, Undisturbed, TearDown, AllSent,
       Sent, Between, Ticks, Ind, Active
  <2> QED BY <2>1 DEF AtWork
<1>7. CASE SendOff
  <2>1. doing' # "measuring"
    BY <1>7, WhatIsSent, <1>1 DEF SendOff, Sends, IsNext, Undisturbed, TearDown, AllSent,
       Sent, Between, Ticks, Ind, Active
  <2> QED BY <2>1 DEF AtWork
<1>8. CASE SendRead
  <2>1. PICK c \in Cells :
          /\ DOMAIN grid = Before(c) /\ Looking(1, c) /\ Looking(2, c) /\ todo' = AfterCell(c)
          /\ grid' = [d \in (DOMAIN grid) \cup {c} |-> IF d = c THEN Taken ELSE grid[d]]
    BY <1>8, WhatIsRead
  <2>2. run' = run /\ setting' = setting /\ DOMAIN grid' = Before(c) \cup {c}
    BY <1>8, <2>1 DEF SendRead, Undisturbed
  <2>3. CASE AfterCell(c) = <<SaveIt>> /\ Before(c) \cup {c} = Cells
    <3>1. todo' = <<SaveIt>> /\ DOMAIN grid' = Cells'
      BY <2>1, <2>2, <2>3, SameCells
    <3> QED BY <3>1 DEF AtWork, SaveIt
  <2>4. CASE \E d \in Cells : /\ AfterCell(c) = AtCell(d) /\ (d[2] = 1 \/ d[1] = c[1])
                               /\ Before(c) \cup {c} = Before(d)
    <3>1. PICK d \in Cells : /\ AfterCell(c) = AtCell(d) /\ (d[2] = 1 \/ d[1] = c[1])
                            /\ Before(c) \cup {c} = Before(d)
      BY <2>4
    <3>2. todo' = AtCell(d) /\ (d[2] = 1 \/ (Loops(1) => setting'[1] = d[1]))
      BY <2>1, <2>2, <3>1 DEF Looking
    <3> QED BY <2>2, <3>1, <3>2, AtWorkAgain
  <2> QED BY <2>3, <2>4, NextCell, <1>1
<1>9. CASE SendSave
  <2>1. doing = "measuring" /\ todo # <<>> /\ Head(todo).what = "save" /\ todo' = Tail(todo)
    BY <1>9, WhatIsSent DEF SendSave, Sends, IsNext, Ind
  <2>2. todo = <<SaveIt>>
    <3> SUFFICES ASSUME todo # <<SaveIt>> PROVE FALSE
      OBVIOUS
    <3>1. PICK c \in Cells : Ahead(c)
      BY <2>1, WorkAhead DEF Ind
    <3> QED BY <2>1, <3>1 DEF Ahead, Set, Read, Cmd
  <2>3. todo' = <<>>
    BY <2>1, <2>2
  <2> QED BY <2>3 DEF AtWork
<1>10. CASE SendRaises
  <2>1. CASE doing = "ending"
    BY <1>10, <2>1 DEF SendRaises, AtWork
  <2>2. CASE doing # "ending"
    BY <1>10, <2>2 DEF SendRaises, TearDown, AtWork
  <2> QED BY <2>1, <2>2
<1>11. CASE SaveRaises
  <2>1. doing' # "measuring"
    BY <1>11, WhatIsSent, <1>1 DEF SaveRaises, Sends, IsNext, Undisturbed, TearDown, AllSent,
       Sent, Between, Ticks, Ind, Active
  <2> QED BY <2>1 DEF AtWork
<1>12. CASE Opened
  <2>1. doing' # "measuring"
    BY <1>12, WhatIsSent, <1>1 DEF Opened, Sends, IsNext, Undisturbed, TearDown, AllSent,
       Sent, Between, Ticks, Ind, Active
  <2> QED BY <2>1 DEF AtWork
<1>13. CASE Measured
  <2>1. doing' # "measuring"
    BY <1>13, WhatIsSent, <1>1 DEF Measured, Sends, IsNext, Undisturbed, TearDown, AllSent,
       Sent, Between, Ticks, Ind, Active
  <2> QED BY <2>1 DEF AtWork
<1>14. CASE ParkingSent
  <2>1. doing' # "measuring"
    BY <1>14, WhatIsSent, <1>1 DEF ParkingSent, Sends, IsNext, Undisturbed, TearDown, AllSent,
       Sent, Between, Ticks, Ind, Active
  <2> QED BY <2>1 DEF AtWork
<1>15. CASE TornDown
  <2>1. doing' # "measuring"
    BY <1>15, WhatIsSent, <1>1 DEF TornDown, Sends, IsNext, Undisturbed, TearDown, AllSent,
       Sent, Between, Ticks, Ind, Active
  <2> QED BY <2>1 DEF AtWork
<1>16. CASE TickInitiating
  <2>1. doing' # "measuring"
    BY <1>16, WhatIsSent, <1>1 DEF TickInitiating, Sends, IsNext, Undisturbed, TearDown,
       AllSent, Sent, Between, Ticks, Ind, Active
  <2> QED BY <2>1 DEF AtWork
<1>17. CASE TickRamping
  <2>1. doing' # "measuring"
    BY <1>17, WhatIsSent, <1>1 DEF TickRamping, Sends, IsNext, Undisturbed, TearDown, AllSent,
       Sent, Between, Ticks, Ind, Active
  <2> QED BY <2>1 DEF AtWork
<1>18. CASE TickGate
  <2>1. doing' # "measuring"
    BY <1>18, WhatIsSent, <1>1 DEF TickGate, Sends, IsNext, Undisturbed, TearDown, AllSent,
       Sent, Between, Ticks, Ind, Active
  <2> QED BY <2>1 DEF AtWork
<1>19. CASE TickMeasuring
  <2>1. run' = run /\ grid' = grid /\ todo' = AtCell(<<1, 1>>) /\ DOMAIN grid = {}
    BY <1>19 DEF TickMeasuring, Rest, Ticks, Between, Ind, ReadingsAreTheirOwn
  <2>2. <<1, 1>> \in Cells /\ Before(<<1, 1>>) = {}
    BY CellsAreNumbered, <1>1 DEF Cells, Before
  <2> QED BY <2>1, <2>2, AtWorkAgain
<1>20. CASE TickSweeping
  <2>1. doing' # "measuring"
    BY <1>20, WhatIsSent, <1>1 DEF TickSweeping, Sends, IsNext, Undisturbed, TearDown,
       AllSent, Sent, Between, Ticks, Ind, Active
  <2> QED BY <2>1 DEF AtWork
<1>21. CASE TickStandby
  <2>1. doing' # "measuring"
    BY <1>21, WhatIsSent, <1>1 DEF TickStandby, Sends, IsNext, Undisturbed, TearDown, AllSent,
       Sent, Between, Ticks, Ind, Active
  <2> QED BY <2>1 DEF AtWork
<1>22. CASE TickFinish
  <2>1. doing' # "measuring"
    BY <1>22, WhatIsSent, <1>1 DEF TickFinish, Sends, IsNext, Undisturbed, TearDown, AllSent,
       Sent, Between, Ticks, Ind, Active
  <2> QED BY <2>1 DEF AtWork
<1>23. CASE TickPauseBoundary
  <2>1. doing' # "measuring"
    BY <1>23, WhatIsSent, <1>1 DEF TickPauseBoundary, Sends, IsNext, Undisturbed, TearDown,
       AllSent, Sent, Between, Ticks, Ind, Active, EnterPaused
  <2> QED BY <2>1 DEF AtWork
<1>24. CASE TickFails
  <2>1. doing' # "measuring"
    BY <1>24, WhatIsSent, <1>1 DEF TickFails, Sends, IsNext, Undisturbed, TearDown, AllSent,
       Sent, Between, Ticks, Ind, Active
  <2> QED BY <2>1 DEF AtWork
<1>25. CASE TickHeld
  <2>1. doing' # "measuring"
    BY <1>25, WhatIsSent, <1>1 DEF TickHeld, Sends, IsNext, Undisturbed, TearDown, AllSent,
       Sent, Between, Ticks, Ind, Active
  <2> QED BY <2>1 DEF AtWork
<1>26. CASE TickHeldPaused
  <2>1. doing' # "measuring"
    BY <1>26, WhatIsSent, <1>1 DEF TickHeldPaused, Sends, IsNext, Undisturbed, TearDown,
       AllSent, Sent, Between, Ticks, Ind, Active
  <2> QED BY <2>1 DEF AtWork
<1>27. CASE Pause
  <2>1. doing' # "measuring"
    BY <1>27, WhatIsSent, <1>1 DEF Pause, Sends, IsNext, Undisturbed, TearDown, AllSent, Sent,
       Between, Ticks, Ind, Active, EnterPaused
  <2> QED BY <2>1 DEF AtWork
<1>28. CASE Resume
  <2>1. doing' # "measuring"
    BY <1>28, ResumeFacts DEF Sent
  <2> QED BY <2>1 DEF AtWork
<1>29. CASE Abort
  <2>1. doing' # "measuring"
    BY <1>29, WhatIsSent, <1>1 DEF Abort, Sends, IsNext, Undisturbed, TearDown, AllSent, Sent,
       Between, Ticks, Ind, Active
  <2> QED BY <2>1 DEF AtWork
<1>30. CASE Recover
  <2>1. doing' # "measuring"
    BY <1>30, WhatIsSent, <1>1 DEF Recover, Sends, IsNext, Undisturbed, TearDown, AllSent,
       Sent, Between, Ticks, Ind, Active
  <2> QED BY <2>1 DEF AtWork
<1>31. CASE Elapse
  <2>1. UNCHANGED <<run, todo, doing, grid, setting>>
    BY <1>31 DEF Elapse, World, point
  <2> QED BY <2>1, AtWorkStill DEF Ind
<1>32. CASE \E v \in VIs : Silence(v) \/ Speak(v)
  <2>1. UNCHANGED <<run, todo, doing, grid, setting>>
    BY <1>32 DEF Silence, Speak, World, point
  <2> QED BY <2>1, AtWorkStill DEF Ind
<1>33. CASE DiskFills \/ HoldTurns
  <2>1. UNCHANGED <<run, todo, doing, grid, setting>>
    BY <1>33, TurnsFacts DEF World, point
  <2> QED BY <2>1, AtWorkStill DEF Ind
<1> QED BY <1>2, <1>3, <1>4, <1>5, <1>6, <1>7, <1>8, <1>9, <1>10, <1>11, <1>12, <1>13, <1>14,
       <1>15, <1>16, <1>17, <1>18, <1>19, <1>20, <1>21, <1>22, <1>23, <1>24, <1>25, <1>26,
       <1>27, <1>28, <1>29, <1>30, <1>31, <1>32, <1>33, StartFacts DEF Next, Sending, Ticking

\* ReadingsAreTheirOwn is kept by each action.
LEMMA ReadingsStep ==
    ASSUME TypeOK, Ind, Next
    PROVE  ReadingsAreTheirOwn'
<1>1. PlainTypes /\ RunTypes /\ ClockTypes /\ AxisTypes /\ MeterTypes /\ FileTypes /\ TodoTypes
  BY TypeParts DEF Ind
<1>2. ASSUME NEW p \in Plans, NEW o \in BOOLEAN, Started(p), StartedRun(p, o)
               PROVE ReadingsAreTheirOwn'
  <2>1. grid' = <<>>
    BY <1>2 DEF Started
  <2> QED BY <2>1 DEF ReadingsAreTheirOwn
<1>3. CASE SendInitiate
  <2>1. UNCHANGED <<grid, run, doing>> /\ doing # "measuring"
    BY <1>3, WhatIsSent DEF SendInitiate, Undisturbed, Sends, IsNext, Ind
  <2> QED BY <2>1 DEF ReadingsAreTheirOwn, Ind
<1>4. CASE SendRamp
  <2>1. UNCHANGED <<grid, run, doing>> /\ doing # "measuring"
    BY <1>4, WhatIsSent DEF SendRamp, Undisturbed, Sends, IsNext, Ind
  <2> QED BY <2>1 DEF ReadingsAreTheirOwn, Ind
<1>5. CASE SendSet
  <2>1. UNCHANGED <<grid, run, doing>> /\ todo' = Tail(todo) /\ todo # <<>>
          /\ Head(todo).what = "set"
        /\ doing # "none"
    BY <1>5 DEF SendSet, Undisturbed, Sends, IsNext
  <2>2. doing = "measuring" => todo' # <<>>
    <3> SUFFICES ASSUME doing = "measuring" PROVE todo' # <<>>
      OBVIOUS
    <3>1. todo # <<SaveIt>>
      BY <2>1 DEF SaveIt, Cmd
    <3>2. PICK c \in Cells : Ahead(c)
      BY <2>1, <3>1, WorkAhead DEF Ind
    <3>3. todo # <<Read(c)>>
      BY <2>1 DEF Read, Cmd
    <3>4. Inner(c) \o <<Read(c)>> # <<>> /\ <<Read(c)>> # <<>>
      BY ThroughTheCell, CellsAreNumbered, <1>1
    <3> QED BY <2>1, <3>2, <3>3, <3>4 DEF Ahead
  <2> QED BY <2>1, <2>2 DEF ReadingsAreTheirOwn, Ind
<1>6. CASE SendArm
  <2>1. UNCHANGED <<grid, run, doing>> /\ doing # "measuring"
    BY <1>6, WhatIsSent DEF SendArm, Undisturbed, Sends, IsNext, Ind
  <2> QED BY <2>1 DEF ReadingsAreTheirOwn, Ind
<1>7. CASE SendOff
  <2>1. UNCHANGED <<grid, run, doing>> /\ doing # "measuring"
    BY <1>7, WhatIsSent DEF SendOff, Undisturbed, Sends, IsNext, Ind
  <2> QED BY <2>1 DEF ReadingsAreTheirOwn, Ind
<1>8. CASE SendRead
  <2>1. PICK c \in Cells :
          /\ todo' = AfterCell(c)
          /\ grid' = [d \in (DOMAIN grid) \cup {c} |-> IF d = c THEN Taken ELSE grid[d]]
          /\ armed /\ \A s \in 1 .. 2 : run.slot[s].n = 0 \/ setting[s] = c[s]
    BY <1>8, WhatIsRead
  <2>2. run' = run /\ doing' = "measuring"
    BY <1>8, WhatIsSent DEF SendRead, Undisturbed, IsNext, Ind
  <2>3. todo' # <<>>
    <3>1. AfterCell(c) = <<SaveIt>> \/ \E d \in Cells : AfterCell(c) = AtCell(d)
      BY NextCell, <1>1
    <3>2. \A d \in Cells : AtCell(d) # <<>>
      BY ThroughTheCell, CellsAreNumbered, <1>1
    <3>3. <<SaveIt>> # <<>>
      OBVIOUS
    <3> QED BY <2>1, <3>1, <3>2, <3>3, Zenon
  <2>4. ASSUME NEW d \in DOMAIN grid'
        PROVE  grid'[d].armed /\ \A s \in 1 .. 2 : run.slot[s].n = 0 \/ grid'[d].set[s] = d[s]
    <3>1. CASE d = c
      BY <2>1, <3>1 DEF Taken
    <3>2. CASE d # c
      BY <2>1, <2>4, <3>2 DEF Ind, ReadingsAreTheirOwn
    <3> QED BY <3>1, <3>2
  <2> QED BY <2>2, <2>3, <2>4 DEF ReadingsAreTheirOwn
<1>9. CASE SendSave
  <2>1. grid' = <<>>
    BY <1>9 DEF SendSave, Raises
  <2> QED BY <2>1 DEF ReadingsAreTheirOwn
<1>10. CASE SendRaises
  <2>1. grid' = <<>>
    BY <1>10 DEF SendRaises, Raises
  <2> QED BY <2>1 DEF ReadingsAreTheirOwn
<1>11. CASE SaveRaises
  <2>1. grid' = <<>>
    BY <1>11 DEF SaveRaises, Raises
  <2> QED BY <2>1 DEF ReadingsAreTheirOwn
<1>12. CASE Opened
  <2>1. grid' = grid /\ DOMAIN grid = {}
    BY <1>12 DEF Opened, Rest, Ticks, Between, Ind, ReadingsAreTheirOwn, AllSent, point,
       Moves, World
  <2> QED BY <2>1 DEF ReadingsAreTheirOwn
<1>13. CASE Measured
  <2>1. grid' = grid /\ DOMAIN grid = {}
    BY <1>13 DEF Measured, Rest, Ticks, Between, Ind, ReadingsAreTheirOwn, AllSent, point,
       Moves, World
  <2> QED BY <2>1 DEF ReadingsAreTheirOwn
<1>14. CASE ParkingSent
  <2>1. grid' = grid /\ DOMAIN grid = {}
    BY <1>14 DEF ParkingSent, Rest, Ticks, Between, Ind, ReadingsAreTheirOwn, AllSent, point,
       Moves, World
  <2> QED BY <2>1 DEF ReadingsAreTheirOwn
<1>15. CASE TornDown
  <2>1. grid' = grid /\ DOMAIN grid = {}
    BY <1>15 DEF TornDown, Rest, Ticks, Between, Ind, ReadingsAreTheirOwn, AllSent, point,
       Moves, World
  <2> QED BY <2>1 DEF ReadingsAreTheirOwn
<1>16. CASE TickInitiating
  <2>1. grid' = grid /\ DOMAIN grid = {}
    BY <1>16 DEF TickInitiating, Rest, Ticks, Between, Ind, ReadingsAreTheirOwn, AllSent,
       point, Moves, World
  <2> QED BY <2>1 DEF ReadingsAreTheirOwn
<1>17. CASE TickRamping
  <2>1. grid' = grid /\ DOMAIN grid = {}
    BY <1>17 DEF TickRamping, Rest, Ticks, Between, Ind, ReadingsAreTheirOwn, AllSent, point,
       Moves, World
  <2> QED BY <2>1 DEF ReadingsAreTheirOwn
<1>18. CASE TickGate
  <2>1. grid' = grid /\ DOMAIN grid = {}
    BY <1>18 DEF TickGate, Rest, Ticks, Between, Ind, ReadingsAreTheirOwn, AllSent, point,
       Moves, World
  <2> QED BY <2>1 DEF ReadingsAreTheirOwn
<1>19. CASE TickMeasuring
  <2>1. grid' = grid /\ DOMAIN grid = {}
    BY <1>19 DEF TickMeasuring, Rest, Ticks, Between, Ind, ReadingsAreTheirOwn, AllSent,
       point, Moves, World
  <2> QED BY <2>1 DEF ReadingsAreTheirOwn
<1>20. CASE TickSweeping
  <2>1. grid' = grid /\ DOMAIN grid = {}
    BY <1>20 DEF TickSweeping, Rest, Ticks, Between, Ind, ReadingsAreTheirOwn, AllSent, point,
       Moves, World
  <2> QED BY <2>1 DEF ReadingsAreTheirOwn
<1>21. CASE TickStandby
  <2>1. grid' = grid /\ DOMAIN grid = {}
    BY <1>21 DEF TickStandby, Rest, Ticks, Between, Ind, ReadingsAreTheirOwn, AllSent, point,
       Moves, World
  <2> QED BY <2>1 DEF ReadingsAreTheirOwn
<1>22. CASE TickFinish
  <2>1. grid' = grid /\ DOMAIN grid = {}
    BY <1>22 DEF TickFinish, Rest, Ticks, Between, Ind, ReadingsAreTheirOwn, AllSent, point,
       Moves, World
  <2> QED BY <2>1 DEF ReadingsAreTheirOwn
<1>23. CASE TickPauseBoundary
  <2>1. grid' = grid /\ DOMAIN grid = {}
    BY <1>23 DEF TickPauseBoundary, EnterPaused, Rest, Ticks, Between, Ind,
       ReadingsAreTheirOwn, AllSent, point, Moves, World
  <2> QED BY <2>1 DEF ReadingsAreTheirOwn
<1>24. CASE TickFails
  <2>1. grid' = grid /\ DOMAIN grid = {}
    BY <1>24 DEF TickFails, Rest, Ticks, Between, Ind, ReadingsAreTheirOwn, AllSent, point,
       Moves, World
  <2> QED BY <2>1 DEF ReadingsAreTheirOwn
<1>25. CASE TickHeld
  <2>1. grid' = grid /\ DOMAIN grid = {}
    BY <1>25 DEF TickHeld, Rest, Ticks, Between, Ind, ReadingsAreTheirOwn, AllSent, point,
       Moves, World
  <2> QED BY <2>1 DEF ReadingsAreTheirOwn
<1>26. CASE TickHeldPaused
  <2>1. grid' = grid /\ DOMAIN grid = {}
    BY <1>26 DEF TickHeldPaused, Rest, Ticks, Between, Ind, ReadingsAreTheirOwn, AllSent,
       point, Moves, World
  <2> QED BY <2>1 DEF ReadingsAreTheirOwn
<1>27. CASE Pause
  <2>1. grid' = grid /\ DOMAIN grid = {}
    BY <1>27 DEF Pause, EnterPaused, Rest, Ticks, Between, Ind, ReadingsAreTheirOwn, AllSent,
       point, Moves, World
  <2> QED BY <2>1 DEF ReadingsAreTheirOwn
<1>28. CASE Resume
  <2>1. grid' = grid /\ DOMAIN grid = {}
    BY <1>28 DEF Resume, Rest, Ticks, Between, Ind, ReadingsAreTheirOwn, AllSent, point,
       Moves, World
  <2> QED BY <2>1 DEF ReadingsAreTheirOwn
<1>29. CASE Abort
  <2>1. grid' = grid /\ DOMAIN grid = {}
    BY <1>29 DEF Abort, Rest, Ticks, Between, Ind, ReadingsAreTheirOwn, AllSent, point, Moves,
       World
  <2> QED BY <2>1 DEF ReadingsAreTheirOwn
<1>30. CASE Recover
  <2>1. grid' = grid /\ DOMAIN grid = {}
    BY <1>30 DEF Recover, Rest, Ticks, Between, Ind, ReadingsAreTheirOwn, AllSent, point,
       Moves, World
  <2> QED BY <2>1 DEF ReadingsAreTheirOwn
<1>31. CASE Elapse
  <2>1. grid' = grid /\ DOMAIN grid = {}
    BY <1>31 DEF Elapse, Rest, Ticks, Between, Ind, ReadingsAreTheirOwn, AllSent, point,
       Moves, World
  <2> QED BY <2>1 DEF ReadingsAreTheirOwn
<1>32. CASE \E v \in VIs : Silence(v) \/ Speak(v)
  <2>1. UNCHANGED <<grid, run, doing>> /\ (doing = "measuring" => todo' # <<>> \/ todo' = todo)
    BY <1>32 DEF Silence, Speak, World, point, Undisturbed, Sends, IsNext, Ind
  <2> QED BY <2>1 DEF ReadingsAreTheirOwn, Ind
<1>33. CASE DiskFills \/ HoldTurns
  <2>1. UNCHANGED <<grid, run, doing>> /\ (doing = "measuring" => todo' # <<>> \/ todo' = todo)
    BY <1>33, TurnsFacts DEF World, World, point, Undisturbed, Sends, IsNext, Ind
  <2> QED BY <2>1 DEF ReadingsAreTheirOwn, Ind
<1> QED BY <1>2, <1>3, <1>4, <1>5, <1>6, <1>7, <1>8, <1>9, <1>10, <1>11, <1>12, <1>13, <1>14,
       <1>15, <1>16, <1>17, <1>18, <1>19, <1>20, <1>21, <1>22, <1>23, <1>24, <1>25, <1>26,
       <1>27, <1>28, <1>29, <1>30, <1>31, <1>32, <1>33, StartFacts DEF Next, Sending, Ticking

-----------------------------------------------------------------------------
OpensWell ==
    /\ Opening \in Seq(Opens)
    /\ Cmd("meter", "arm", None) \in Among(Opening) /\ Cmd("axis", "ramp", Level) \in Among(Opening)
    /\ \A s \in 1 .. 2 : run.slot[s].n = 1 => Set(s, 1) \in Among(Opening)

\* The opening of a run prepares meter, path and axis.
LEMMA OpeningAtStart == RunTypes /\ run.sweep # <<>> => OpensWell
BY OpeningPrepares DEF OpensWell

\* The opening is that of the run.
LEMMA SameOpens ==
    ASSUME run' = run
    PROVE  Opens' = Opens /\ Level' = Level /\ \A s, k : Set(s, k)' = Set(s, k)
BY DEF Opens, Cmd, Set, Level
PreparedNow == armed /\ \A s \in 1 .. 2 : run.slot[s].n = 1 => setting[s] = 1
ToPrepare ==
    /\ armed \/ Cmd("meter", "arm", None) \in Among(todo)
    /\ \A s \in 1 .. 2 : run.slot[s].n = 1 => setting[s] = 1 \/ Set(s, 1) \in Among(todo)
    /\ (axis.goal = Level /\ wanted = Level) \/ Cmd("axis", "ramp", Level) \in Among(todo)

\* Prepared in parts.
LEMMA PreparedParts ==
    Prepared <=> /\ doing = "starting" => todo \in Seq(Opens) /\ ToPrepare
                 /\ doing = "measuring" \/ (doing = "none" /\ run.on /\ ~parked) => PreparedNow
BY DEF Prepared, ToPrepare, PreparedNow

\* Prepared is kept by each action.
LEMMA PreparedStep ==
    ASSUME TypeOK, Ind, Next
    PROVE  Prepared'
<1>1. PlainTypes /\ RunTypes /\ ClockTypes /\ AxisTypes /\ MeterTypes /\ FileTypes /\ TodoTypes
  BY TypeParts DEF Ind
<1>2. (doing = "starting" => todo \in Seq(Opens) /\ ToPrepare) /\ (doing = "measuring"
        \/ (doing = "none" /\ run.on /\ ~parked) => PreparedNow)
  BY PreparedParts DEF Ind
<1>3. ASSUME doing' \notin {"starting", "measuring"}, ~(doing' = "none" /\ run'.on /\ ~parked')
               PROVE Prepared'
  BY <1>3 DEF Prepared
<1>4. ASSUME doing' # "starting", PreparedNow, UNCHANGED <<run, armed, setting>> PROVE Prepared'
  BY <1>4 DEF Prepared, PreparedNow
<1>5. ASSUME doing = "starting", UNCHANGED <<run, doing>>, todo # <<>>, todo' = Tail(todo), ToPrepare' PROVE Prepared'
  <2>1. todo' \in Seq(Opens)'
    BY <1>2, <1>5, AmongTail, SameOpens
  <2> QED BY <1>5, <2>1 DEF Prepared, ToPrepare
<1>6. ASSUME NEW p \in Plans, NEW o \in BOOLEAN, Started(p), StartedRun(p, o) PROVE Prepared'
  <2>1. doing' = "ending" \/ (doing' = "starting" /\ todo' = Opening')
    BY <1>6 DEF Started
  <2>2. CASE doing' = "ending"
    BY <1>3, <2>2
  <2>3. CASE doing' = "starting" /\ todo' = Opening'
    <3>1. RunTypes' /\ run'.sweep # <<>>
      BY <1>6, RunTypesStep, SweepHasPoints DEF StartedRun, Ind
    <3>4. (RunTypes /\ run.sweep # <<>> => OpensWell)'
      BY OpeningAtStart, PTL
    <3>2. OpensWell'
      BY <3>1, <3>4
    <3>3. Among(todo)' = Among(Opening)'
      BY <2>3 DEF Among
    <3> QED BY <2>3, <3>2, <3>3 DEF Prepared, OpensWell
  <2> QED BY <2>1, <2>2, <2>3
<1>7. CASE SendInitiate
  <2>1. /\ doing = "starting" /\ doing' = doing /\ run' = run /\ todo # <<>> /\ todo' = Tail(todo)
        /\ Head(todo) \in Opens /\ todo \in Seq(Opens) /\ ToPrepare
    BY <1>7, <1>2, WhatIsSent DEF SendInitiate, Sends, IsNext, Undisturbed, Ind
  <2>2. \A x : x \in Among(todo) => x = Head(todo) \/ x \in Among(todo')
    BY <2>1, AmongTail
  <2>3. Head(todo).what = "initiate" /\ UNCHANGED <<armed, setting, axis, wanted>>
    BY <1>7 DEF SendInitiate, Sends, IsNext
  <2>4. /\ Cmd("meter", "arm", None) # Head(todo) /\ Cmd("axis", "ramp", Level) # Head(todo)
        /\ \A s \in 1 .. 2 : Set(s, 1) # Head(todo)
    BY <2>3 DEF Cmd, Set
  <2>9. ToPrepare'
    BY <2>1, <2>2, <2>3, <2>4, SameOpens DEF ToPrepare
  <2> QED BY <1>5, <2>1, <2>9
<1>8. CASE SendRamp
  <2>1. /\ doing = "starting" /\ doing' = doing /\ run' = run /\ todo # <<>> /\ todo' = Tail(todo)
        /\ Head(todo) \in Opens /\ todo \in Seq(Opens) /\ ToPrepare
    BY <1>8, <1>2, WhatIsSent DEF SendRamp, Sends, IsNext, Undisturbed, Ind
  <2>2. \A x : x \in Among(todo) => x = Head(todo) \/ x \in Among(todo')
    BY <2>1, AmongTail
  <2>3. Head(todo).what = "ramp" /\ wanted' = Head(todo).arg /\ UNCHANGED <<setting, armed>>
        /\ axis' = StartRamp(axis, Head(todo).arg)
    BY <1>8 DEF SendRamp, Sends, IsNext, Moves
  <2>4. /\ Cmd("meter", "arm", None) # Head(todo)
        /\ \A s \in 1 .. 2 : Set(s, 1) # Head(todo)
    BY <2>3 DEF Cmd, Set
  <2>5. Head(todo).arg = Level
    BY <2>1, <2>3 DEF Opens, Cmd, Set
  <2>6. axis'.goal = Level /\ wanted' = Level
    BY <2>3, <2>5 DEF StartRamp
  <2>9. ToPrepare'
    BY <2>1, <2>2, <2>3, <2>4, <2>6, SameOpens DEF ToPrepare
  <2> QED BY <1>5, <2>1, <2>9
<1>9. CASE SendSet
  <2>0. PICK s \in 1 .. 2, k \in Nat :
          /\ Head(todo) = Set(s, k) /\ setting' = [setting EXCEPT ![s] = k]
          /\ \/ doing = "starting" /\ k = 1 /\ run.slot[s].n > 0
             \/ doing = "measuring" /\ Loops(s)
    BY <1>9, SetsItsSlot DEF Ind
  <2>00. setting \in [1 .. 2 -> Nat]
    BY <1>1 DEF MeterTypes
  <2>7. CASE doing = "starting" /\ k = 1
    <3>1. /\ doing = "starting" /\ doing' = doing /\ run' = run /\ todo # <<>> /\ todo' = Tail(todo)
          /\ Head(todo) \in Opens /\ todo \in Seq(Opens) /\ ToPrepare
      BY <1>9, <1>2, <2>7, WhatIsSent DEF SendSet, Sends, IsNext, Undisturbed, Ind
    <3>2. \A x : x \in Among(todo) => x = Head(todo) \/ x \in Among(todo')
      BY <3>1, AmongTail
    <3>3. UNCHANGED <<armed, axis, wanted>>
      BY <1>9 DEF SendSet, Sends, IsNext
    <3>4. /\ Cmd("meter", "arm", None) # Head(todo) /\ Cmd("axis", "ramp", Level) # Head(todo)
          /\ \A t \in 1 .. 2 : t # s => Set(t, 1) # Head(todo)
      BY <2>0 DEF Cmd, Set
    <3>5. setting'[s] = 1 /\ \A t \in 1 .. 2 : t # s => setting'[t] = setting[t]
      BY <2>0, <2>00, <2>7
    <3>9. ToPrepare'
      BY <3>1, <3>2, <3>3, <3>4, <3>5, SameOpens DEF ToPrepare
    <3> QED BY <1>5, <3>1, <3>9
  <2>8. CASE doing = "measuring" /\ Loops(s)
    <3>1. \A t \in 1 .. 2 : run.slot[t].n = 1 => setting'[t] = setting[t]
      BY <2>0, <2>00, <2>8 DEF Loops
    <3>2. PreparedNow /\ armed' = armed /\ run' = run /\ doing' = doing
      BY <1>9, <1>2, <2>8 DEF SendSet, Sends, Undisturbed
    <3> QED BY <2>8, <3>1, <3>2 DEF Prepared, PreparedNow
  <2> QED BY <2>0, <2>7, <2>8
<1>10. CASE SendArm
  <2>1. /\ doing = "starting" /\ doing' = doing /\ run' = run /\ todo # <<>> /\ todo' = Tail(todo)
        /\ Head(todo) \in Opens /\ todo \in Seq(Opens) /\ ToPrepare
    BY <1>10, <1>2, WhatIsSent DEF SendArm, Sends, IsNext, Undisturbed, Ind
  <2>2. \A x : x \in Among(todo) => x = Head(todo) \/ x \in Among(todo')
    BY <2>1, AmongTail
  <2>3. Head(todo).what = "arm" /\ armed' = TRUE /\ UNCHANGED <<setting, axis, wanted>>
    BY <1>10 DEF SendArm, Sends, IsNext
  <2>4. /\ Cmd("axis", "ramp", Level) # Head(todo)
        /\ \A s \in 1 .. 2 : Set(s, 1) # Head(todo)
    BY <2>3 DEF Cmd, Set
  <2>9. ToPrepare'
    BY <2>1, <2>2, <2>3, <2>4, SameOpens DEF ToPrepare
  <2> QED BY <1>5, <2>1, <2>9
<1>11. CASE SendOff
  <2>1. doing' \notin {"starting", "measuring"} /\ ~(doing' = "none" /\ run'.on /\ ~parked')
    BY <1>11, WhatIsSent DEF SendOff, Sends, IsNext, Undisturbed, Ind
  <2> QED BY <1>3, <2>1
<1>12. CASE SendRead
  <2>1. doing' = "measuring" /\ doing = "measuring" /\ UNCHANGED <<run, armed, setting>>
    BY <1>12, WhatIsSent DEF SendRead, IsNext, Undisturbed, Ind
  <2> QED BY <1>2, <1>4, <2>1
<1>13. CASE SendSave
  <2>1. doing' = "measuring" /\ doing = "measuring" /\ UNCHANGED <<run, armed, setting>>
    BY <1>13, WhatIsSent DEF SendSave, Sends, IsNext, Undisturbed, Ind
  <2> QED BY <1>2, <1>4, <2>1
<1>14. CASE SendRaises
  <2>1. doing' = "ending"
    BY <1>14 DEF SendRaises, TearDown
  <2> QED BY <1>3, <2>1
<1>15. CASE SaveRaises
  <2>1. doing' = "ending"
    BY <1>15 DEF SaveRaises, TearDown
  <2> QED BY <1>3, <2>1
<1>16. CASE Opened
  <2>1. doing = "starting" /\ todo = <<>> /\ doing' = "none" /\ UNCHANGED <<run, armed, setting>>
    BY <1>16 DEF Opened, AllSent
  <2>2. PreparedNow
    BY <1>2, <2>1, AmongFew DEF ToPrepare, PreparedNow
  <2> QED BY <1>4, <2>1, <2>2
<1>17. CASE Measured
  <2>1. doing = "measuring" /\ doing' = "none" /\ UNCHANGED <<run, armed, setting>>
    BY <1>17 DEF Measured, AllSent
  <2> QED BY <1>2, <1>4, <2>1
<1>18. CASE ParkingSent
  <2>1. doing' \notin {"starting", "measuring"} /\ ~(doing' = "none" /\ run'.on /\ ~parked')
    BY <1>18 DEF ParkingSent, AllSent
  <2> QED BY <1>3, <2>1
<1>19. CASE TornDown
  <2>1. doing' = "none" /\ run'.on = FALSE
    BY <1>19, <1>1 DEF TornDown, RunTypes
  <2> QED BY <1>3, <2>1
<1>20. CASE TickInitiating
  <2>1. UNCHANGED <<run, armed, setting>> /\ doing' # "starting"
    BY <1>20 DEF TickInitiating, Rest, Sent, Ticks, Between, schedule, point, World
  <2>2. PreparedNow \/ (doing' \notin {"starting", "measuring"} /\ ~(doing' = "none" /\ run'.on
          /\ ~parked'))
    BY <1>20, <1>2 DEF TickInitiating, Rest, Sent, Ticks, Between, schedule, point, World,
       Ind, InItsState, Phase
  <2> QED BY <1>3, <1>4, <2>1, <2>2
<1>21. CASE TickRamping
  <2>1. UNCHANGED <<run, armed, setting>> /\ doing' # "starting"
    BY <1>21 DEF TickRamping, Rest, Sent, Ticks, Between, schedule, point, World
  <2>2. PreparedNow \/ (doing' \notin {"starting", "measuring"} /\ ~(doing' = "none" /\ run'.on
          /\ ~parked'))
    BY <1>21, <1>2 DEF TickRamping, Rest, Sent, Ticks, Between, schedule, point, World, Ind,
       InItsState, Phase
  <2> QED BY <1>3, <1>4, <2>1, <2>2
<1>22. CASE TickGate
  <2>1. UNCHANGED <<run, armed, setting>> /\ doing' # "starting"
    BY <1>22 DEF TickGate, Rest, Sent, Ticks, Between, schedule, point, World
  <2>2. PreparedNow \/ (doing' \notin {"starting", "measuring"} /\ ~(doing' = "none" /\ run'.on
          /\ ~parked'))
    BY <1>22, <1>2 DEF TickGate, Rest, Sent, Ticks, Between, schedule, point, World, Ind,
       InItsState, Phase
  <2> QED BY <1>3, <1>4, <2>1, <2>2
<1>23. CASE TickMeasuring
  <2>1. UNCHANGED <<run, armed, setting>> /\ doing' # "starting"
    BY <1>23, SweepIsThere DEF TickMeasuring, Rest, Sent, Ticks, Between, schedule, point,
       World, Active
  <2>2. PreparedNow \/ (doing' \notin {"starting", "measuring"} /\ ~(doing' = "none" /\ run'.on
          /\ ~parked'))
    BY <1>23, <1>2, SweepIsThere DEF TickMeasuring, Rest, Sent, Ticks, Between, schedule,
       point, World, Active, Ind, InItsState, Phase
  <2> QED BY <1>3, <1>4, <2>1, <2>2
<1>24. CASE TickSweeping
  <2>1. UNCHANGED <<run, armed, setting>> /\ doing' # "starting"
    BY <1>24 DEF TickSweeping, Rest, Sent, Ticks, Between, schedule, point, World
  <2>2. PreparedNow \/ (doing' \notin {"starting", "measuring"} /\ ~(doing' = "none" /\ run'.on
          /\ ~parked'))
    BY <1>24, <1>2 DEF TickSweeping, Rest, Sent, Ticks, Between, schedule, point, World, Ind,
       InItsState, Phase
  <2> QED BY <1>3, <1>4, <2>1, <2>2
<1>25. CASE TickStandby
  <2>1. UNCHANGED <<run, armed, setting, parked>> /\ doing = "none"
          /\ doing' \in {"none", "ending", "parking"}
    BY <1>25 DEF TickStandby, TearDown, Rest, Sent, Ticks, Between, schedule, point, World
  <2> QED BY <1>2, <1>3, <1>4, <2>1
<1>26. CASE TickFinish
  <2>1. doing' = "none" /\ (run'.on = FALSE \/ parked')
    BY <1>26, <1>1 DEF TickFinish, RunTypes, Ticks, Between, Sent
  <2> QED BY <1>3, <2>1
<1>27. CASE TickPauseBoundary
  <2>1. UNCHANGED <<run, armed, setting>> /\ doing' # "starting"
    BY <1>27 DEF TickPauseBoundary, EnterPaused, Rest, Sent, Ticks, Between, schedule, point,
       World
  <2>2. PreparedNow \/ (doing' \notin {"starting", "measuring"} /\ ~(doing' = "none" /\ run'.on
          /\ ~parked'))
    BY <1>27, <1>2 DEF TickPauseBoundary, EnterPaused, Rest, Sent, Ticks, Between, schedule,
       point, World, Ind, InItsState, Phase
  <2> QED BY <1>3, <1>4, <2>1, <2>2
<1>28. CASE TickFails
  <2>1. doing' = "ending"
    BY <1>28 DEF TickFails, TearDown
  <2> QED BY <1>3, <2>1
<1>29. CASE TickHeld
  <2>1. doing' = "ending"
    BY <1>29 DEF TickHeld, TearDown
  <2> QED BY <1>3, <2>1
<1>30. CASE TickHeldPaused
  <2>1. UNCHANGED <<run, armed, setting>> /\ doing' # "starting"
    BY <1>30 DEF TickHeldPaused, Rest, Sent, Ticks, Between, schedule, point, World
  <2>2. PreparedNow \/ (doing' \notin {"starting", "measuring"} /\ ~(doing' = "none" /\ run'.on
          /\ ~parked'))
    BY <1>30, <1>2 DEF TickHeldPaused, Rest, Sent, Ticks, Between, schedule, point, World,
       Ind, InItsState, Phase
  <2> QED BY <1>3, <1>4, <2>1, <2>2
<1>31. CASE Pause
  <2>1. UNCHANGED <<run, armed, setting>> /\ doing' # "starting"
    BY <1>31 DEF Pause, EnterPaused, Rest, Sent, Ticks, Between, schedule, point, World
  <2>2. PreparedNow \/ (doing' \notin {"starting", "measuring"} /\ ~(doing' = "none" /\ run'.on
          /\ ~parked'))
    BY <1>31, <1>2 DEF Pause, EnterPaused, Rest, Sent, Ticks, Between, schedule, point, World,
       Ind, InItsState, Phase
  <2> QED BY <1>3, <1>4, <2>1, <2>2
<1>32. CASE Resume
  <2>1. UNCHANGED <<run, armed, setting>> /\ doing' # "starting"
    BY <1>32, ResumeFacts DEF Rest, Sent, Ticks, Between, schedule, point, World
  <2>2. PreparedNow \/ (doing' \notin {"starting", "measuring"} /\ ~(doing' = "none" /\ run'.on
          /\ ~parked'))
    BY <1>32, <1>2, ResumeFacts DEF Rest, Sent, Ticks, Between, schedule, point, World, Ind,
       InItsState, Phase
  <2> QED BY <1>3, <1>4, <2>1, <2>2
<1>33. CASE Abort
  <2>1. doing' = "ending"
    BY <1>33 DEF Abort, TearDown
  <2> QED BY <1>3, <2>1
<1>34. CASE Recover
  <2>1. UNCHANGED <<run, armed, setting>> /\ doing' # "starting"
    BY <1>34 DEF Recover, Rest, Sent, Ticks, Between, schedule, point, World
  <2>2. PreparedNow \/ (doing' \notin {"starting", "measuring"} /\ ~(doing' = "none" /\ run'.on
          /\ ~parked'))
    BY <1>34, <1>2 DEF Recover, Rest, Sent, Ticks, Between, schedule, point, World, Ind,
       InItsState, Phase
  <2> QED BY <1>3, <1>4, <2>1, <2>2
<1>35. CASE Elapse
  <2>1. UNCHANGED <<run, armed, setting>> /\ doing' # "starting"
    BY <1>35 DEF Elapse, Rest, Sent, Ticks, Between, schedule, point, World
  <2>2. PreparedNow \/ (doing' \notin {"starting", "measuring"} /\ ~(doing' = "none" /\ run'.on
          /\ ~parked'))
    BY <1>35, <1>2 DEF Elapse, Rest, Sent, Ticks, Between, schedule, point, World, Ind,
       InItsState, Phase
  <2> QED BY <1>3, <1>4, <2>1, <2>2
<1>36. CASE \E v \in VIs : Silence(v) \/ Speak(v)
  <2>1. UNCHANGED <<run, armed, setting, doing, parked, todo, axis, wanted>>
    BY <1>36 DEF Silence, Speak, World, point
  <2>2. ToPrepare => ToPrepare'
    BY <2>1, SameOpens DEF ToPrepare, Among
  <2>3. Seq(Opens)' = Seq(Opens)
    BY <2>1, SameOpens
  <2>4. PreparedNow => PreparedNow'
    BY <2>1 DEF PreparedNow
  <2> QED BY <1>2, <2>1, <2>2, <2>3, <2>4 DEF Prepared, ToPrepare, PreparedNow
<1>37. CASE DiskFills \/ HoldTurns
  <2>1. UNCHANGED <<run, armed, setting, doing, parked, todo, axis, wanted>>
    BY <1>37, TurnsFacts DEF World, World, point
  <2>2. ToPrepare => ToPrepare'
    BY <2>1, SameOpens DEF ToPrepare, Among
  <2>3. Seq(Opens)' = Seq(Opens)
    BY <2>1, SameOpens
  <2>4. PreparedNow => PreparedNow'
    BY <2>1 DEF PreparedNow
  <2> QED BY <1>2, <2>1, <2>2, <2>3, <2>4 DEF Prepared, ToPrepare, PreparedNow
<1> QED BY <1>6, <1>7, <1>8, <1>9, <1>10, <1>11, <1>12, <1>13, <1>14, <1>15, <1>16, <1>17,
       <1>18, <1>19, <1>20, <1>21, <1>22, <1>23, <1>24, <1>25, <1>26, <1>27, <1>28, <1>29,
       <1>30, <1>31, <1>32, <1>33, <1>34, <1>35, <1>36, <1>37, StartFacts DEF Next, Sending,
       Ticking

-----------------------------------------------------------------------------
PathIsSet == \E s \in 1 .. 2 : run.slot[s].vi = "path" /\ setting[s] # 0
ToSwitchOff ==
    /\ todo \in Seq(Offs)
    /\ \A i \in DOMAIN todo : todo[i] = Off("meter") => i = 1
    /\ armed => Off("meter") \in Among(todo) \/ (doing = "ending"
         /\ refused \cap {"file", "meter"} # {})
    /\ PathIsSet => Off("path") \in Among(todo) \/ (doing = "ending" /\ refused # {})
    /\ (doing = "parking" /\ run.kind # "temperature") => axis.goal = Zero
         \/ Off("axis") \in Among(todo)
    /\ doing = "parking" => wanted = None
IsOff ==
    /\ ~armed /\ wanted = None /\ ~PathIsSet
    /\ run.kind = "temperature" \/ axis.goal \in {Zero, None}

\* SwitchedOff in parts.
LEMMA SwitchedOffParts ==
    SwitchedOff <=> /\ doing \in {"parking", "ending"} => ToSwitchOff
                    /\ doing = "none" /\ run.on /\ parked => IsOff
BY DEF SwitchedOff, ToSwitchOff, IsOff, PathIsSet
OffsAreWell ==
    /\ SafeOff \in Seq(Offs)
    /\ \A i \in DOMAIN SafeOff : SafeOff[i] = Off("meter") => i = 1

\* The cleanup of a run switches off what the run may have set.
LEMMA OffsAtStart == RunTypes => OffsAreWell
BY OffsSwitchOff DEF OffsAreWell

\* A path that is set is one that the cleanup switches off.
LEMMA SetsBeside ==
    ASSUME RunTypes, OnlyItsSlots, PathIsSet
    PROVE  Beside # {}
BY CellsAreNumbered DEF OnlyItsSlots, PathIsSet, Beside

\* Nothing is among the commands when all have been sent.
LEMMA FewInSeq == <<>> \in Seq(Offs) /\ Among(<<>>) = {} /\ DOMAIN <<>> = {}
BY DEF Among

\* SwitchedOff is kept by each action.
LEMMA SwitchedOffStep ==
    ASSUME TypeOK, Ind, Next
    PROVE  SwitchedOff'
<1>1. PlainTypes /\ RunTypes /\ ClockTypes /\ AxisTypes /\ MeterTypes /\ FileTypes /\ TodoTypes
  BY TypeParts DEF Ind
<1>2. (doing \in {"parking", "ending"} => ToSwitchOff) /\ (doing = "none" /\ run.on /\ parked
        => IsOff)
  BY SwitchedOffParts DEF Ind
<1>3. ASSUME doing' \notin {"parking", "ending"}, ~(doing' = "none" /\ run'.on /\ parked')
               PROVE SwitchedOff'
  BY <1>3 DEF SwitchedOff
<1>4. ASSUME NEW e, NEW f, TearDown(e, f), UNCHANGED <<run, armed, setting>> PROVE SwitchedOff'
  <2>1. doing' = "ending" /\ ((todo' = <<>> /\ refused' = {"file"}) \/ todo' = SafeOff)
    BY <1>4 DEF TearDown
  <2>2. PathIsSet' = PathIsSet
    BY <1>4 DEF PathIsSet
  <2>3. PathIsSet => Off("path") \in Among(SafeOff)
    BY <1>1, SetsBeside, OffsSwitchOff DEF Ind
  <2>4. CASE todo' = <<>> /\ refused' = {"file"}
    <3>1. ToSwitchOff'
      BY <2>1, <2>4, FewInSeq DEF ToSwitchOff
    <3> QED BY <2>1, <3>1 DEF SwitchedOff, ToSwitchOff, PathIsSet
  <2>5. CASE todo' = SafeOff
    <3>1. Among(todo)' = Among(SafeOff)
      BY <2>5 DEF Among
    <3>2. ToSwitchOff'
      BY <1>1, <1>4, <2>1, <2>2, <2>3, <2>5, <3>1, OffsSwitchOff DEF ToSwitchOff
    <3> QED BY <2>1, <3>2 DEF SwitchedOff, ToSwitchOff, PathIsSet
  <2> QED BY <2>1, <2>4, <2>5
<1>5. ASSUME doing' = "none", IsOff, UNCHANGED <<armed, setting>>, run'.slot = run.slot, run'.kind = run.kind, wanted' = wanted, axis'.goal \in {axis.goal, Zero, None} PROVE SwitchedOff'
  BY <1>5 DEF SwitchedOff, IsOff, PathIsSet
<1>6. ASSUME NEW p \in Plans, NEW o \in BOOLEAN, Started(p), StartedRun(p, o) PROVE SwitchedOff'
  <2>1. doing' = "starting" \/ (doing' = "ending" /\ todo' = SafeOff')
    BY <1>6 DEF Started
  <2>2. CASE doing' = "starting"
    BY <1>3, <2>2
  <2>3. CASE doing' = "ending" /\ todo' = SafeOff'
    <3>1. (RunTypes => OffsAreWell)'
      BY OffsAtStart, PTL
    <3>2. OffsAreWell'
      BY <1>6, <3>1, RunTypesStep DEF Ind
    <3>3. armed' = FALSE /\ setting' = <<0, 0>>
      BY <1>6 DEF Started, Ind, NothingYet
    <3>4. ~PathIsSet'
      BY <3>3 DEF PathIsSet
    <3>5. ToSwitchOff'
      BY <2>3, <3>2, <3>3, <3>4 DEF ToSwitchOff, OffsAreWell
    <3> QED BY <2>3, <3>5 DEF SwitchedOff, ToSwitchOff, PathIsSet
  <2> QED BY <2>1, <2>2, <2>3
<1>7. CASE SendInitiate
  <2>1. doing' \notin {"parking", "ending"} /\ ~(doing' = "none" /\ run'.on /\ parked')
    BY <1>7, WhatIsSent DEF SendInitiate, Sends, IsNext, Undisturbed, Ind, schedule
  <2> QED BY <1>3, <2>1
<1>8. CASE SendRamp
  <2>1. doing' \notin {"parking", "ending"} /\ ~(doing' = "none" /\ run'.on /\ parked')
    BY <1>8, WhatIsSent DEF SendRamp, Sends, IsNext, Undisturbed, Ind, schedule
  <2> QED BY <1>3, <2>1
<1>9. CASE SendSet
  <2>1. doing' \notin {"parking", "ending"} /\ ~(doing' = "none" /\ run'.on /\ parked')
    BY <1>9, WhatIsSent DEF SendSet, Sends, IsNext, Undisturbed, Ind, schedule
  <2> QED BY <1>3, <2>1
<1>10. CASE SendArm
  <2>1. doing' \notin {"parking", "ending"} /\ ~(doing' = "none" /\ run'.on /\ parked')
    BY <1>10, WhatIsSent DEF SendArm, Sends, IsNext, Undisturbed, Ind, schedule
  <2> QED BY <1>3, <2>1
<1>11. CASE SendOff
  <2>1. /\ doing \in {"parking", "ending"} /\ doing' = doing /\ run' = run /\ todo # <<>>
             /\ todo' = Tail(todo)
        /\ Head(todo) \in Offs /\ todo \in Seq(Offs) /\ ToSwitchOff /\ refused' = refused
             /\ wanted' = wanted
    BY <1>11, <1>2, WhatIsSent DEF SendOff, Sends, IsNext, Undisturbed, Ind, ToSwitchOff, cleanup
  <2>2. todo' \in Seq(Offs) /\ \A x : x \in Among(todo) => x = Head(todo) \/ x \in Among(todo')
    BY <2>1, AmongTail
  <2>3. \A i \in DOMAIN todo' : todo'[i] # Off("meter")
    <3> SUFFICES ASSUME NEW i \in DOMAIN todo', todo'[i] = Off("meter") PROVE FALSE
      OBVIOUS
    <3>1. i \in Nat \ {0} /\ i + 1 \in DOMAIN todo /\ todo[i + 1] = todo'[i]
      BY <2>1
    <3> QED BY <2>1, <3>1 DEF ToSwitchOff
  <2>4. /\ armed' = (armed /\ Head(todo).vi # "meter")
        /\ setting' = [s \in 1 .. 2 |-> IF Head(todo).vi = "path"
             /\ run.slot[s].vi = "path" THEN 0 ELSE setting[s]]
        /\ IF Head(todo).vi = "axis" THEN axis' = StartRamp(axis, Zero) ELSE axis' = axis
    BY <1>11 DEF SendOff, Moves
  <2>5. \A v \in VIs : Off(v).vi = v /\ (Head(todo) = Off(v) <=> Head(todo).vi = v)
    BY <2>1 DEF Offs, Off, Cmd
  <2>6. armed' => Off("meter") \in Among(todo') \/ (doing' = "ending"
          /\ refused' \cap {"file", "meter"} # {})
    <3>1. armed' => armed /\ Head(todo).vi # "meter"
      BY <2>4
    <3>2. Head(todo).vi # "meter" => Head(todo) # Off("meter")
      BY <2>5 DEF VIs
    <3> QED BY <2>1, <2>2, <3>1, <3>2 DEF ToSwitchOff
  <2>7. PathIsSet' => Off("path") \in Among(todo') \/ (doing' = "ending" /\ refused' # {})
    <3>1. PathIsSet' => PathIsSet /\ Head(todo).vi # "path"
      BY <2>1, <2>4 DEF PathIsSet
    <3>2. Head(todo).vi # "path" => Head(todo) # Off("path")
      BY <2>5 DEF VIs
    <3> QED BY <2>1, <2>2, <3>1, <3>2 DEF ToSwitchOff
  <2>8. (doing' = "parking" /\ run'.kind # "temperature") => axis'.goal = Zero
          \/ Off("axis") \in Among(todo')
    <3>1. CASE Head(todo).vi = "axis"
      BY <2>4, <3>1 DEF StartRamp
    <3>2. CASE Head(todo).vi # "axis"
      <4>1. Head(todo) # Off("axis") /\ axis' = axis
        BY <2>4, <2>5, <3>2 DEF VIs
      <4> QED BY <2>1, <2>2, <4>1 DEF ToSwitchOff
    <3> QED BY <3>1, <3>2
  <2>9. ToSwitchOff'
    <3>1. doing' = "parking" => wanted' = None
      BY <2>1 DEF ToSwitchOff
    <3>2. Among(todo)' = Among(todo') /\ Off("meter")' = Off("meter")
      BY DEF Among, Off, Cmd
    <3> QED BY <2>2, <2>3, <2>6, <2>7, <2>8, <3>1, <3>2 DEF ToSwitchOff
  <2> QED BY <2>1, <2>9 DEF SwitchedOff, ToSwitchOff, PathIsSet
<1>12. CASE SendRead
  <2>1. doing' \notin {"parking", "ending"} /\ ~(doing' = "none" /\ run'.on /\ parked')
    BY <1>12, WhatIsSent DEF SendRead, Sends, IsNext, Undisturbed, Ind, schedule
  <2> QED BY <1>3, <2>1
<1>13. CASE SendSave
  <2>1. doing' \notin {"parking", "ending"} /\ ~(doing' = "none" /\ run'.on /\ parked')
    BY <1>13, WhatIsSent DEF SendSave, Sends, IsNext, Undisturbed, Ind, schedule
  <2> QED BY <1>3, <2>1
<1>14. CASE SendRaises
  <2>1. /\ doing # "none" /\ todo # <<>> /\ UNCHANGED <<run, armed, setting>>
        /\ IF doing = "ending" THEN todo' = <<>> /\ refused' = refused \cup {Head(todo).vi}
             /\ doing' = doing ELSE TearDown("ERROR", file)
    BY <1>14 DEF SendRaises, Raises
  <2>2. CASE doing # "ending"
    BY <1>4, <2>1, <2>2
  <2>3. CASE doing = "ending"
    <3>1. ToSwitchOff /\ todo' = <<>> /\ refused' = refused \cup {Head(todo).vi}
            /\ doing' = "ending"
      BY <1>2, <2>1, <2>3
    <3>2. armed => refused' \cap {"file", "meter"} # {}
      <4> SUFFICES ASSUME armed, refused \cap {"file", "meter"} = {} PROVE Head(todo).vi = "meter"
        BY <3>1
      <4>1. PICK i \in DOMAIN todo : todo[i] = Off("meter")
        BY <3>1 DEF ToSwitchOff, Among
      <4>2. i = 1 /\ todo \in Seq(Offs)
        BY <3>1, <4>1 DEF ToSwitchOff
      <4>3. Head(todo) = Off("meter")
        BY <2>1, <4>1, <4>2
      <4> QED BY <4>3 DEF Off, Cmd
    <3>3. refused' # {}
      BY <3>1
    <3>4. ToSwitchOff'
      BY <2>1, <3>1, <3>2, <3>3, FewInSeq DEF ToSwitchOff
    <3> QED BY <3>1, <3>4 DEF SwitchedOff, ToSwitchOff, PathIsSet
  <2> QED BY <2>2, <2>3
<1>15. CASE SaveRaises
  <2>1. PICK f \in {file, Columns, Stamped, Saved} : TearDown("ERROR", f)
    BY <1>15 DEF SaveRaises
  <2>2. UNCHANGED <<run, armed, setting>>
    BY <1>15 DEF SaveRaises, Raises
  <2> QED BY <1>4, <2>1, <2>2
<1>16. CASE Opened
  <2>1. doing' \notin {"parking", "ending"} /\ ~(doing' = "none" /\ run'.on /\ parked')
    BY <1>16 DEF Opened, AllSent, Ind, InItsState, Phase
  <2> QED BY <1>3, <2>1
<1>17. CASE Measured
  <2>1. doing' \notin {"parking", "ending"} /\ ~(doing' = "none" /\ run'.on /\ parked')
    BY <1>17 DEF Measured, AllSent, Ind, InItsState, Phase
  <2> QED BY <1>3, <2>1
<1>18. CASE ParkingSent
  <2>1. ToSwitchOff /\ doing = "parking" /\ todo = <<>> /\ doing' = "none"
          /\ UNCHANGED <<run, armed, setting, axis, wanted>>
    BY <1>18, <1>2 DEF ParkingSent, AllSent, Unmoved
  <2>2. IsOff
    BY <2>1, FewInSeq DEF ToSwitchOff, IsOff
  <2> QED BY <1>5, <2>1, <2>2
<1>19. CASE TornDown
  <2>1. doing' = "none" /\ run'.on = FALSE
    BY <1>19, <1>1 DEF TornDown, RunTypes
  <2> QED BY <1>3, <2>1
<1>20. CASE TickInitiating
  <2>1. doing' \in {"none", "measuring"} /\ ~parked /\ parked' = parked
    BY <1>20 DEF TickInitiating, Rest, Sent, Ticks, Between, schedule, point, World, Ind,
       InItsState, Phase
  <2> QED BY <1>3, <2>1
<1>21. CASE TickRamping
  <2>1. doing' \in {"none", "measuring"} /\ ~parked /\ parked' = parked
    BY <1>21 DEF TickRamping, Rest, Sent, Ticks, Between, schedule, point, World, Ind,
       InItsState, Phase
  <2> QED BY <1>3, <2>1
<1>22. CASE TickGate
  <2>1. doing' \in {"none", "measuring"} /\ ~parked /\ parked' = parked
    BY <1>22 DEF TickGate, Rest, Sent, Ticks, Between, schedule, point, World, Ind,
       InItsState, Phase
  <2> QED BY <1>3, <2>1
<1>23. CASE TickMeasuring
  <2>1. doing' \in {"none", "measuring"} /\ ~parked /\ parked' = parked
    BY <1>23 DEF TickMeasuring, Rest, Sent, Ticks, Between, schedule, point, World, Ind,
       InItsState, Phase
  <2> QED BY <1>3, <2>1
<1>24. CASE TickSweeping
  <2>1. doing' \in {"none", "measuring"} /\ ~parked /\ parked' = parked
    BY <1>24 DEF TickSweeping, Rest, Sent, Ticks, Between, schedule, point, World, Ind,
       InItsState, Phase
  <2> QED BY <1>3, <2>1
<1>25. CASE TickStandby
  <2>1. /\ doing = "none" /\ ~parked /\ parked' = parked /\ UNCHANGED <<run, armed, setting>>
        /\ \/ doing' = doing
           \/ TearDown("ERROR", file)
           \/ doing' = "parking" /\ todo' = Parking /\ wanted' = None
    BY <1>25 DEF TickStandby, Rest, Sent, Ticks, Between, schedule, point, World
  <2>2. CASE doing' = doing
    BY <1>3, <2>1, <2>2
  <2>3. CASE TearDown("ERROR", file)
    BY <1>4, <2>1, <2>3
  <2>4. CASE doing' = "parking" /\ todo' = Parking /\ wanted' = None
    <3>1. PathIsSet' = PathIsSet /\ Among(todo)' = Among(Parking)
      BY <2>1, <2>4 DEF PathIsSet, Among
    <3>2. PathIsSet => Off("path") \in Among(Parking)
      BY <1>1, SetsBeside, OffsSwitchOff DEF Ind
    <3>3. ToSwitchOff'
      BY <1>1, <2>1, <2>4, <3>1, <3>2, OffsSwitchOff DEF ToSwitchOff
    <3> QED BY <2>4, <3>3 DEF SwitchedOff, ToSwitchOff, PathIsSet
  <2> QED BY <2>1, <2>2, <2>3, <2>4
<1>26. CASE TickFinish
  <2>1. doing = "none" /\ doing' = doing /\ parked /\ UNCHANGED <<armed, setting, wanted>>
          /\ axis' = Advance(axis)
        /\ (run' = run \/ (run' = [run EXCEPT !.on = FALSE] /\ parked' = FALSE))
    BY <1>26 DEF TickFinish, Steps, Moves, Rest, Sent, Ticks, Between, schedule, point, World
  <2>2. CASE run' = run
    <3>1. axis'.goal = axis.goal
      BY <1>1, <2>1 DEF Advance, AxisTypes, Axes
    <3> QED BY <1>2, <1>3, <1>5, <2>1, <2>2, <3>1
  <2>3. CASE parked' = FALSE
    BY <1>3, <2>1, <2>3
  <2> QED BY <2>1, <2>2, <2>3
<1>27. CASE TickPauseBoundary
  <2>1. doing' = "none" /\ ~parked /\ parked' = parked
    BY <1>27 DEF TickPauseBoundary, EnterPaused, Rest, Sent, Ticks, Between, schedule, point,
       World, Ind, InItsState, Phase
  <2> QED BY <1>3, <2>1
<1>28. CASE TickFails
  <2>1. (TearDown("IDLE", file) \/ TearDown("ERROR", file)) /\ UNCHANGED <<run, armed, setting>>
    BY <1>28 DEF TickFails, Rest
  <2> QED BY <1>4, <2>1
<1>29. CASE TickHeld
  <2>1. TearDown("IDLE", file) /\ UNCHANGED <<run, armed, setting>>
    BY <1>29 DEF TickHeld, Rest
  <2> QED BY <1>4, <2>1
<1>30. CASE TickHeldPaused
  <2>1. doing = "none" /\ doing' = doing /\ parked' = parked
          /\ UNCHANGED <<run, armed, setting, wanted>>
    BY <1>30 DEF TickHeldPaused, Rest, Sent, Ticks, Between, schedule, point, World
  <2>2. axis'.goal \in {axis.goal, Zero, None}
    BY <1>30 DEF TickHeldPaused, Moves, StopRamp, StartRamp, Unmoved, World
  <2> QED BY <1>2, <1>3, <1>5, <2>1, <2>2
<1>31. CASE Pause
  <2>1. doing = "none" /\ doing' = doing /\ parked' = parked
          /\ UNCHANGED <<run, armed, setting, wanted>>
    BY <1>31 DEF Pause, EnterPaused, Unmoved, Rest, Sent, Ticks, Between, schedule, point, World
  <2>2. axis'.goal \in {axis.goal, Zero, None}
    BY <1>31 DEF Pause, EnterPaused, Moves, StopRamp, Unmoved
  <2> QED BY <1>2, <1>3, <1>5, <2>1, <2>2
<1>32. CASE Resume
  <2>1. doing = "none" /\ doing' = doing /\ parked' = parked
          /\ UNCHANGED <<run, armed, setting, wanted>>
    BY <1>32, ResumeFacts DEF Rest, Sent, Ticks, Between, schedule, point, World
  <2>2. CASE run.on /\ parked
    <3>1. IsOff
      BY <1>2, <2>1, <2>2
    <3>2. axis' = axis
      BY <1>32, <3>1, ResumeFacts DEF IsOff, Redispatched
    <3> QED BY <1>5, <2>1, <3>1, <3>2
  <2>3. CASE ~(run.on /\ parked)
    BY <1>3, <2>1, <2>3
  <2> QED BY <2>2, <2>3
<1>33. CASE Abort
  <2>1. TearDown("IDLE", file) /\ UNCHANGED <<run, armed, setting>>
    BY <1>33 DEF Abort, Rest
  <2> QED BY <1>4, <2>1
<1>34. CASE Recover
  <2>1. doing = "none" /\ doing' = doing /\ parked' = parked
          /\ UNCHANGED <<run, armed, setting, wanted, axis>>
    BY <1>34 DEF Recover, Unmoved, Rest, Sent, Ticks, Between, schedule, point, World
  <2> QED BY <1>2, <1>3, <1>5, <2>1
<1>35. CASE Elapse
  <2>1. doing = "none" /\ doing' = doing /\ parked' = parked
          /\ UNCHANGED <<run, armed, setting, wanted>>
    BY <1>35 DEF Elapse, Rest, Sent, Ticks, Between, schedule, point, World
  <2>2. axis'.goal \in {axis.goal, Zero, None}
    BY <1>35 DEF Elapse, Moves, StopRamp, StartRamp, Unmoved, World
  <2> QED BY <1>2, <1>3, <1>5, <2>1, <2>2
<1>36. CASE \E v \in VIs : Silence(v) \/ Speak(v)
  <2>1. UNCHANGED <<run, armed, setting, doing, parked, todo, axis, wanted, refused>>
    BY <1>36 DEF Silence, Speak, World, point, cleanup
  <2> QED BY <2>1 DEF SwitchedOff, Ind, Among
<1>37. CASE DiskFills \/ HoldTurns
  <2>1. UNCHANGED <<run, armed, setting, doing, parked, todo, axis, wanted, refused>>
    BY <1>37, TurnsFacts DEF World, World, point, cleanup
  <2> QED BY <2>1 DEF SwitchedOff, Ind, Among
<1> QED BY <1>6, <1>7, <1>8, <1>9, <1>10, <1>11, <1>12, <1>13, <1>14, <1>15, <1>16, <1>17,
       <1>18, <1>19, <1>20, <1>21, <1>22, <1>23, <1>24, <1>25, <1>26, <1>27, <1>28, <1>29,
       <1>30, <1>31, <1>32, <1>33, <1>34, <1>35, <1>36, <1>37, StartFacts DEF Next, Sending,
       Ticking

-----------------------------------------------------------------------------
\* The reading loop ends with the saving of the point.
LEMMA WorkGoesOn ==
    ASSUME TypeOK, Ind, doing = "measuring", SendSet \/ SendRead
    PROVE  todo' # <<>>
<1>1. RunTypes /\ todo # <<>>
  BY TypeParts DEF Ind, SendSet, SendRead, Sends, IsNext
<1>2. \A c \in Cells : AtCell(c) # <<>> /\ Inner(c) \o <<Read(c)>> # <<>> /\ <<Read(c)>> # <<>>
  BY <1>1, ThroughTheCell, CellsAreNumbered
<1>3. CASE SendSet
  <2>1. todo' = Tail(todo) /\ Head(todo).what = "set"
    BY <1>3 DEF SendSet, Sends, IsNext
  <2>2. todo # <<SaveIt>>
    BY <2>1 DEF SaveIt, Cmd
  <2>3. PICK c \in Cells : Ahead(c)
    BY <1>1, <2>2, WorkAhead DEF Ind
  <2>4. todo # <<Read(c)>>
    BY <2>1 DEF Read, Cmd
  <2> QED BY <1>2, <2>1, <2>3, <2>4 DEF Ahead
<1>4. CASE SendRead
  <2>1. PICK c \in Cells : todo' = AfterCell(c)
    BY <1>4, WhatIsRead
  <2>2. AfterCell(c) = <<SaveIt>> \/ \E d \in Cells : AfterCell(c) = AtCell(d)
    BY <1>1, NextCell
  <2>3. <<SaveIt>> # <<>>
    OBVIOUS
  <2> QED BY <1>2, <2>1, <2>2, <2>3, Zenon
<1> QED BY <1>3, <1>4

\* Where the point of the index is still to be saved, and where it has been.
ToCome == \/ Phase \in {"IDLE", "INITIATING", "RAMPING", "INITIATION_GATE"}
          \/ Phase = "MEASURING" /\ (doing = "none" \/ todo # <<>>)
Gone   == Phase = "SWEEPING" \/ (doing = "measuring" /\ todo = <<>>)
Goes   == run.on /\ doing # "ending"

\* Points in parts.
LEMMA PointsParts ==
    Points <=>
      /\ file.last <= file.length
      /\ run # NoRun => file.length <= Len(run.sweep)
      /\ file.stamped \in {1 .. file.last, 1 .. file.last + 1}
      /\ ~file.open => file.stamped = 1 .. file.last
      /\ file.open => file.length = Len(run.sweep)
      /\ Goes => file.stamped = 1 .. file.last
      /\ Goes => file.open \/ parked \/ doing = "parking"
      /\ Goes /\ ToCome => file.last = index - 1 /\ index <= Len(run.sweep)
      /\ Goes /\ Gone => file.last = index /\ index <= Len(run.sweep)
BY DEF Points, Goes, ToCome, Gone

\* A file that is closed keeps the points that were saved.
LEMMA ClosedFile ==
    ASSUME NEW f, Typed(f), f.last <= f.length, f.stamped = 1 .. f.last
    PROVE  /\ ~Closed(f).open /\ Closed(f).last = f.last /\ Closed(f).rows = f.rows
           /\ Closed(f).stamped = 1 .. f.last
           /\ f.last <= Closed(f).length /\ Closed(f).length <= f.length
<1>1. f.last \in Nat /\ f.length \in Nat
  BY DEF Typed
<1>2. CASE 0 < f.last /\ f.last < f.length
  <2>1. Trimmed(f) = [f EXCEPT !.length = f.last, !.stamped = f.stamped \cap (1 .. f.last)]
    BY <1>2 DEF Trimmed
  <2>2. Trimmed(f).length = f.last /\ Trimmed(f).stamped = f.stamped \cap (1 .. f.last)
        /\ Trimmed(f).last = f.last /\ Trimmed(f).rows = f.rows /\ DOMAIN Trimmed(f) = DOMAIN f
    BY <2>1 DEF Typed
  <2>3. /\ Closed(f).open = FALSE /\ Closed(f).length = f.last /\ Closed(f).last = f.last
        /\ Closed(f).rows = f.rows /\ Closed(f).stamped = f.stamped \cap (1 .. f.last)
    BY <2>2 DEF Closed, Typed
  <2>4. f.stamped \cap (1 .. f.last) = 1 .. f.last
    OBVIOUS
  <2> QED BY <1>1, <1>2, <2>3, <2>4
<1>3. CASE ~(0 < f.last /\ f.last < f.length)
  <2>1. Trimmed(f) = f
    BY <1>3 DEF Trimmed
  <2> QED BY <1>1, <2>1 DEF Closed, Typed
<1> QED BY <1>2, <1>3

\* What save_datapoint leaves behind, however far it comes.
LEMMA WrittenPoints ==
    ASSUME TypeOK, Ind, doing = "measuring", todo # <<>>
    PROVE  /\ index = file.last + 1 /\ index <= Len(run.sweep) /\ file.open
           /\ file.last <= file.length /\ index <= file.length /\ file.length = Len(run.sweep)
           /\ file.stamped = 1 .. file.last /\ run # NoRun
           /\ Columns.length = file.length /\ Columns.last = file.last
           /\ Columns.stamped = file.stamped /\ Columns.open
           /\ Stamped.length = file.length /\ Stamped.last = file.last
           /\ Stamped.stamped = 1 .. file.last + 1 /\ Stamped.open
           /\ Saved.length = file.length /\ Saved.last = index
           /\ Saved.stamped = 1 .. index /\ Saved.open /\ Saved.rows = Columns.rows
           /\ Stamped.rows = Columns.rows
<1>1. Goes /\ state = "MEASURING" /\ run # NoRun /\ ~parked /\ Phase = "MEASURING"
  BY DEF Ind, InItsState, Goes, Phase
<1>2. ToCome
  BY <1>1 DEF ToCome
<1>3. index \in Nat \ {0} /\ file.last \in Nat /\ file.length \in Nat /\ Len(run.sweep) \in Nat
  BY DEF TypeOK
<1>4. /\ file.last = index - 1 /\ index <= Len(run.sweep) /\ file.stamped = 1 .. file.last
      /\ file.open /\ file.length = Len(run.sweep)
  BY <1>1, <1>2, PointsParts DEF Ind
<1>5. Typed(file) /\ Typed(Columns) /\ Typed(Stamped)
  BY WrittenTypes
<1>6. Columns.length = file.length /\ Columns.last = file.last /\ Columns.stamped = file.stamped
        /\ Columns.open = file.open
  BY <1>5 DEF Columns, Typed
<1>7. Stamped.length = file.length /\ Stamped.last = file.last
        /\ Stamped.stamped = file.stamped \cup {index}
      /\ Stamped.open = file.open /\ Stamped.rows = Columns.rows
  BY <1>5, <1>6 DEF Stamped, Typed
<1>8. Saved.length = file.length /\ Saved.last = index /\ Saved.stamped = file.stamped \cup {index}
      /\ Saved.open = file.open /\ Saved.rows = Columns.rows
  BY <1>5, <1>7 DEF Saved, Typed
<1>9. index = file.last + 1 /\ (1 .. file.last) \cup {index} = 1 .. file.last + 1
  BY <1>3, <1>4
<1>10. file.last <= file.length /\ index <= file.length
  BY <1>3, <1>4
<1> QED BY <1>1, <1>4, <1>6, <1>7, <1>8, <1>9, <1>10

\* Points is kept by each action.
LEMMA PointsStep ==
    ASSUME TypeOK, Ind, Next
    PROVE  Points'
<1>1. PlainTypes /\ RunTypes /\ ClockTypes /\ AxisTypes /\ MeterTypes /\ FileTypes /\ TodoTypes
  BY TypeParts DEF Ind
<1>2. Points /\ InItsState /\ Typed(file) /\ index \in Nat /\ index # 0 /\ Len(run.sweep) \in Nat
  BY <1>1, WrittenTypes DEF Ind, PlainTypes, RunTypes
<1>3. ASSUME UNCHANGED <<file, index>>, run'.sweep = run.sweep, run' # NoRun => run # NoRun,
             Goes' => /\ Goes /\ ((parked \/ doing = "parking") => (parked' \/ doing' = "parking"))
                      /\ (ToCome' => ToCome) /\ (Gone' => Gone)
      PROVE  Points'
  <2>1. (file.last <= file.length /\ (run # NoRun => file.length <= Len(run.sweep))
          /\ file.stamped \in {1 .. file.last, 1 .. file.last + 1}
         /\ (~file.open => file.stamped = 1 .. file.last) /\ (file.open
              => file.length = Len(run.sweep)))'
    BY <1>2, <1>3 DEF Points
  <2>2. Goes' => file'.stamped = 1 .. file'.last /\ (file'.open \/ parked' \/ doing' = "parking")
    BY <1>2, <1>3, PointsParts
  <2>3. (Goes' /\ ToCome' => file'.last = index' - 1 /\ index' <= Len(run'.sweep)) /\ (Goes'
          /\ Gone' => file'.last = index' /\ index' <= Len(run'.sweep))
    BY <1>2, <1>3, PointsParts
  <2> QED BY <2>1, <2>2, <2>3 DEF Points, Goes, ToCome, Gone
<1>4. ASSUME NEW e, TearDown(e, file), Goes, UNCHANGED <<run, index>> PROVE Points'
  <2>1. doing' = "ending" /\ file' \in {file, Closed(file)}
    BY <1>4 DEF TearDown
  <2>2. file.last \in Nat /\ file.length \in Nat /\ file.stamped = 1 .. file.last
          /\ file.last <= file.length /\ (run # NoRun => file.length <= Len(run.sweep))
    BY <1>2, <1>4, PointsParts DEF Typed
  <2>3. CASE file' = file
    BY <1>2, <1>4, <2>1, <2>3 DEF Points
  <2>4. CASE file' = Closed(file)
    <3>1. /\ ~file'.open /\ file'.last = file.last /\ file'.stamped = 1 .. file.last
          /\ file.last <= file'.length /\ file'.length <= file.length /\ file'.length \in Nat
      BY <1>2, <2>2, <2>4, ClosedFile, ClosedTypes DEF Typed
    <3> QED BY <1>2, <1>4, <2>1, <2>2, <3>1 DEF Points
  <2> QED BY <2>1, <2>3, <2>4
<1>5. ASSUME NEW p \in Plans, NEW o \in BOOLEAN, Started(p), StartedRun(p, o) PROVE Points'
  <2>1. run'.sweep # <<>> /\ run'.sweep \in Seq(1 .. Full) /\ index' = 1 /\ state' = "IDLE"
          /\ Full \in Nat
    BY <1>5, SweepHasPoints, PlansAssumption DEF StartedRun, Started
  <2>2. Len(run'.sweep) \in Nat /\ Len(run'.sweep) # 0
    BY <2>1
  <2>3. CASE doing' = "ending" /\ file' = NoFile
    BY <2>2, <2>3 DEF Points, NoFile
  <2>4. CASE doing' = "starting" /\ file' = NewFile
    <3>1. file'.last = 0 /\ file'.length = Len(run'.sweep) /\ file'.stamped = {} /\ file'.open
      BY <2>4 DEF NewFile
    <3>2. 1 .. 0 = {}
      OBVIOUS
    <3> QED BY <2>1, <2>2, <2>4, <3>1, <3>2 DEF Points, Phase
  <2> QED BY <1>5, <2>3, <2>4 DEF Started
<1>6. CASE SendInitiate
  <2>1. UNCHANGED <<file, index, run, doing, state, wait, parked>> /\ doing # "none"
          /\ doing # "measuring"
    BY <1>6, WhatIsSent DEF SendInitiate, Sends, IsNext, Undisturbed, schedule, Ind
  <2>2. Phase # "MEASURING" \/ ~Goes
    BY <1>1, <1>2, <2>1 DEF InItsState, Phase, Goes, PlainTypes
  <2>3. (ToCome' => ToCome \/ ~Goes) /\ (Gone' => Gone) /\ (Goes' => Goes)
    BY <2>1, <2>2 DEF ToCome, Gone, Phase, Goes
  <2> QED BY <1>3, <2>1, <2>3
<1>7. CASE SendRamp
  <2>1. UNCHANGED <<file, index, run, doing, state, wait, parked>> /\ doing # "none"
          /\ doing # "measuring"
    BY <1>7, WhatIsSent DEF SendRamp, Sends, IsNext, Undisturbed, schedule, Ind
  <2>2. Phase # "MEASURING" \/ ~Goes
    BY <1>1, <1>2, <2>1 DEF InItsState, Phase, Goes, PlainTypes
  <2>3. (ToCome' => ToCome \/ ~Goes) /\ (Gone' => Gone) /\ (Goes' => Goes)
    BY <2>1, <2>2 DEF ToCome, Gone, Phase, Goes
  <2> QED BY <1>3, <2>1, <2>3
<1>8. CASE SendSet
  <2>1. UNCHANGED <<file, index, run, doing, state, wait, parked>> /\ doing # "none" /\ todo # <<>>
    BY <1>8 DEF SendSet, Sends, IsNext, Undisturbed, schedule
  <2>2. doing = "measuring" => todo' # <<>>
    BY <1>8, WorkGoesOn
  <2>3. (ToCome' => ToCome) /\ (Gone' => Gone) /\ (Goes' => Goes)
    BY <2>1, <2>2 DEF ToCome, Gone, Phase, Goes
  <2> QED BY <1>3, <2>1, <2>3
<1>9. CASE SendArm
  <2>1. UNCHANGED <<file, index, run, doing, state, wait, parked>> /\ doing # "none"
          /\ doing # "measuring"
    BY <1>9, WhatIsSent DEF SendArm, Sends, IsNext, Undisturbed, schedule, Ind
  <2>2. Phase # "MEASURING" \/ ~Goes
    BY <1>1, <1>2, <2>1 DEF InItsState, Phase, Goes, PlainTypes
  <2>3. (ToCome' => ToCome \/ ~Goes) /\ (Gone' => Gone) /\ (Goes' => Goes)
    BY <2>1, <2>2 DEF ToCome, Gone, Phase, Goes
  <2> QED BY <1>3, <2>1, <2>3
<1>10. CASE SendOff
  <2>1. UNCHANGED <<file, index, run, doing, state, wait, parked>> /\ doing # "none"
          /\ doing # "measuring"
    BY <1>10, WhatIsSent DEF SendOff, Sends, IsNext, Undisturbed, schedule, Ind
  <2>2. Phase # "MEASURING" \/ ~Goes
    BY <1>1, <1>2, <2>1 DEF InItsState, Phase, Goes, PlainTypes
  <2>3. (ToCome' => ToCome \/ ~Goes) /\ (Gone' => Gone) /\ (Goes' => Goes)
    BY <2>1, <2>2 DEF ToCome, Gone, Phase, Goes
  <2> QED BY <1>3, <2>1, <2>3
<1>11. CASE SendRead
  <2>1. UNCHANGED <<file, index, run, doing, state, wait, parked>> /\ doing # "none" /\ todo # <<>>
    BY <1>11 DEF SendRead, Sends, IsNext, Undisturbed, schedule
  <2>2. doing = "measuring" => todo' # <<>>
    BY <1>11, WorkGoesOn
  <2>3. (ToCome' => ToCome) /\ (Gone' => Gone) /\ (Goes' => Goes)
    BY <2>1, <2>2 DEF ToCome, Gone, Phase, Goes
  <2> QED BY <1>3, <2>1, <2>3
<1>12. CASE SendSave
  <2>1. UNCHANGED <<index, run, doing, state, wait, parked>> /\ file' = Saved
          /\ doing = "measuring" /\ todo # <<>>
        /\ todo' = Tail(todo) /\ Head(todo).what = "save"
    BY <1>12, WhatIsSent DEF SendSave, Sends, IsNext, Undisturbed, schedule, Ind
  <2>2. todo' = <<>>
    <3>1. todo = <<SaveIt>>
      <4> SUFFICES ASSUME todo # <<SaveIt>> PROVE FALSE
        OBVIOUS
      <4>1. PICK c \in Cells : Ahead(c)
        BY <2>1, WorkAhead DEF Ind
      <4> QED BY <2>1, <4>1 DEF Ahead, Set, Read, Cmd
    <3> QED BY <2>1, <3>1
  <2>3. state = "MEASURING"
    BY <1>2, <2>1 DEF InItsState
  <2>4. ~ToCome'
    BY <2>1, <2>2, <2>3 DEF ToCome, Phase
  <2>5. /\ file'.last = index /\ file'.length = file.length /\ file'.stamped = 1 .. index
             /\ file'.open
        /\ index <= file.length /\ file.length = Len(run.sweep) /\ index <= Len(run.sweep)
    BY <2>1, WrittenPoints
  <2> QED BY <1>2, <2>1, <2>2, <2>3, <2>5 DEF Typed, Points, Phase
<1>13. CASE SendRaises
  <2>1. /\ doing # "none" /\ UNCHANGED <<run, index>>
        /\ IF doing = "ending" THEN doing' = doing /\ file' = file ELSE TearDown("ERROR", file)
    BY <1>13 DEF SendRaises, Raises
  <2>2. CASE doing = "ending"
    BY <1>3, <2>1, <2>2 DEF Goes
  <2>3. CASE doing # "ending"
    <3>1. Goes
      BY <1>1, <1>2, <2>1, <2>3 DEF InItsState, Goes, PlainTypes
    <3> QED BY <1>4, <2>1, <2>3, <3>1
  <2> QED BY <2>2, <2>3
<1>14. CASE SaveRaises
  <2>1. /\ doing = "measuring" /\ todo # <<>> /\ UNCHANGED <<run, index>>
        /\ \E f \in (IF full THEN {file, Columns, Stamped, Saved}
             ELSE {file, Columns}) : TearDown("ERROR", f)
    <3>1. doing # "none" /\ todo # <<>> /\ Head(todo).what = "save"
      BY <1>14 DEF SaveRaises
    <3>2. doing = "measuring"
      BY <3>1, WhatIsSent DEF Ind
    <3> QED BY <1>14, <3>1, <3>2 DEF SaveRaises, Raises
  <2>2. PICK f \in {file, Columns, Stamped, Saved} : TearDown("ERROR", f) /\ (full
          \/ f \in {file, Columns})
    BY <2>1
  <2>3. /\ f.open /\ f.length = file.length /\ f.last \in {file.last, index} /\ f.last <= f.length
        /\ f.stamped \in {1 .. f.last, 1 .. f.last + 1} /\ (f \in {file, Columns}
             => f.stamped = 1 .. f.last)
        /\ file.length = Len(run.sweep) /\ file.length \in Nat /\ Typed(f)
    <3>0. Typed(f) /\ file.length \in Nat
      BY WrittenTypes, <1>2 DEF Typed
    <3>1. CASE f = file
      BY <2>1, <3>0, <3>1, WrittenPoints
    <3>2. CASE f = Columns
      BY <2>1, <3>0, <3>2, WrittenPoints
    <3>3. CASE f = Stamped
      <4>1. f # file /\ (f = Columns => f.stamped = 1 .. f.last)
        BY <1>2, <2>1, <3>3, WrittenPoints DEF Typed
      <4> QED BY <2>1, <3>0, <3>3, <4>1, WrittenPoints
    <3>4. CASE f = Saved
      <4>1. f.last # file.last
        BY <1>2, <2>1, <3>4, WrittenPoints DEF Typed
      <4> QED BY <2>1, <3>0, <3>4, <4>1, WrittenPoints
    <3> QED BY <3>1, <3>2, <3>3, <3>4
  <2>4. doing' = "ending" /\ (file' = f \/ (file' = Closed(f) /\ ~full))
    BY <2>2, <2>3 DEF TearDown
  <2>5. CASE file' = f
    BY <2>1, <2>3, <2>4, <2>5 DEF Points
  <2>6. CASE file' = Closed(f) /\ ~full
    <3>1. /\ ~file'.open /\ file'.last = f.last /\ file'.stamped = 1 .. f.last
          /\ f.last <= file'.length /\ file'.length <= f.length /\ file'.length \in Nat
      BY <2>2, <2>3, <2>6, ClosedFile, ClosedTypes DEF Typed
    <3> QED BY <1>2, <2>1, <2>3, <2>4, <3>1 DEF Points, Typed
  <2> QED BY <2>4, <2>5, <2>6
<1>15. CASE Opened
  <2>1. UNCHANGED <<file, index, run>>
    BY <1>15 DEF Opened, Sends, Undisturbed, AllSent, point, Rest, Sent, World, EnterPaused
  <2>2. Goes' => /\ Goes /\ ((parked \/ doing = "parking") => (parked' \/ doing' = "parking"))
                 /\ (ToCome' => ToCome) /\ (Gone' => Gone)
    BY <1>15, <1>2 DEF Opened, Sends, IsNext, Undisturbed, AllSent, Rest, Sent, World,
       EnterPaused, Ticks, Between, schedule, Goes, ToCome, Gone, Phase, InItsState
  <2> QED BY <1>3, <2>1, <2>2
<1>16. CASE Measured
  <2>1. UNCHANGED <<file, index, run>>
    BY <1>16 DEF Measured, Sends, Undisturbed, AllSent, point, Rest, Sent, World, EnterPaused
  <2>2. Goes' => /\ Goes /\ ((parked \/ doing = "parking") => (parked' \/ doing' = "parking"))
                 /\ (ToCome' => ToCome) /\ (Gone' => Gone)
    BY <1>16, <1>2 DEF Measured, Sends, IsNext, Undisturbed, AllSent, Rest, Sent, World,
       EnterPaused, Ticks, Between, schedule, Goes, ToCome, Gone, Phase, InItsState
  <2> QED BY <1>3, <2>1, <2>2
<1>17. CASE ParkingSent
  <2>1. UNCHANGED <<file, index, run>>
    BY <1>17 DEF ParkingSent, Sends, Undisturbed, AllSent, point, Rest, Sent, World, EnterPaused
  <2>2. Goes' => /\ Goes /\ ((parked \/ doing = "parking") => (parked' \/ doing' = "parking"))
                 /\ (ToCome' => ToCome) /\ (Gone' => Gone)
    BY <1>17, <1>2 DEF ParkingSent, Sends, IsNext, Undisturbed, AllSent, Rest, Sent, World,
       EnterPaused, Ticks, Between, schedule, Goes, ToCome, Gone, Phase, InItsState
  <2> QED BY <1>3, <2>1, <2>2
<1>18. CASE TornDown
  <2>1. UNCHANGED <<file, index>> /\ run' = [run EXCEPT !.on = FALSE] /\ run # NoRun
    BY <1>18, <1>2 DEF TornDown, point, InItsState
  <2>2. run'.sweep = run.sweep /\ ~Goes'
    BY <1>1, <2>1 DEF RunTypes, Goes
  <2> QED BY <1>3, <2>1, <2>2
<1>19. CASE TickInitiating
  <2>1. UNCHANGED <<file, index, run>>
    BY <1>19 DEF TickInitiating, Sends, Undisturbed, AllSent, point, Rest, Sent, World,
       EnterPaused
  <2>2. Goes' => /\ Goes /\ ((parked \/ doing = "parking") => (parked' \/ doing' = "parking"))
                 /\ (ToCome' => ToCome) /\ (Gone' => Gone)
    BY <1>19, <1>2 DEF TickInitiating, Sends, IsNext, Undisturbed, AllSent, Rest, Sent, World,
       EnterPaused, Ticks, Between, schedule, Goes, ToCome, Gone, Phase, InItsState
  <2> QED BY <1>3, <2>1, <2>2
<1>20. CASE TickRamping
  <2>1. UNCHANGED <<file, index, run>>
    BY <1>20 DEF TickRamping, Sends, Undisturbed, AllSent, point, Rest, Sent, World, EnterPaused
  <2>2. Goes' => /\ Goes /\ ((parked \/ doing = "parking") => (parked' \/ doing' = "parking"))
                 /\ (ToCome' => ToCome) /\ (Gone' => Gone)
    BY <1>20, <1>2 DEF TickRamping, Sends, IsNext, Undisturbed, AllSent, Rest, Sent, World,
       EnterPaused, Ticks, Between, schedule, Goes, ToCome, Gone, Phase, InItsState
  <2> QED BY <1>3, <2>1, <2>2
<1>21. CASE TickGate
  <2>1. UNCHANGED <<file, index, run>>
    BY <1>21 DEF TickGate, Sends, Undisturbed, AllSent, point, Rest, Sent, World, EnterPaused
  <2>2. Goes' => /\ Goes /\ ((parked \/ doing = "parking") => (parked' \/ doing' = "parking"))
                 /\ (ToCome' => ToCome) /\ (Gone' => Gone)
    BY <1>21, <1>2 DEF TickGate, Sends, IsNext, Undisturbed, AllSent, Rest, Sent, World,
       EnterPaused, Ticks, Between, schedule, Goes, ToCome, Gone, Phase, InItsState
  <2> QED BY <1>3, <2>1, <2>2
<1>22. CASE TickMeasuring
  <2>1. UNCHANGED <<file, index, run, state, wait, parked>> /\ doing = "none"
          /\ state = "MEASURING" /\ doing' = "measuring" /\ todo' = AtCell(<<1, 1>>)
    BY <1>22 DEF TickMeasuring, Rest, Ticks, Between, schedule
  <2>2. todo' # <<>>
    <3>1. <<1, 1>> \in Nat \X Nat
      OBVIOUS
    <3>2. AtCell(<<1, 1>>) # <<>>
      BY <1>1, <3>1, ThroughTheCell, Zenon
    <3> QED BY <2>1, <3>2
  <2>3. (Goes' => Goes) /\ (ToCome' => ToCome) /\ ~Gone'
    BY <2>1, <2>2 DEF Goes, ToCome, Gone, Phase
  <2> QED BY <1>3, <2>1, <2>3
<1>23. CASE TickSweeping
  <2>1. /\ UNCHANGED <<file, run, wait, parked, doing, todo>> /\ doing = "none"
             /\ state = "SWEEPING" /\ index' = index + 1
        /\ IF index < Len(run.sweep) THEN state' = "RAMPING" ELSE state' = "STANDBY"
    BY <1>23 DEF TickSweeping, Rest, Ticks, Between, schedule, Sent
  <2>2. Goes /\ Gone
    BY <1>23, <2>1, SweepIsThere DEF Goes, Gone, Phase, Active, Ind
  <2>3. file.last = index /\ file.last \in Nat /\ file.length \in Nat
    BY <1>2, <2>2, PointsParts DEF Typed
  <2>4. CASE index < Len(run.sweep)
    BY <1>2, <2>1, <2>2, <2>3, <2>4 DEF Points, Phase, Goes
  <2>5. CASE ~(index < Len(run.sweep))
    BY <1>2, <2>1, <2>2, <2>3, <2>5 DEF Points, Phase, Goes
  <2> QED BY <2>4, <2>5
<1>24. CASE TickStandby
  <2>1. /\ UNCHANGED <<run, index, state, wait, parked>> /\ doing = "none" /\ state = "STANDBY"
             /\ ~parked
        /\ \/ UNCHANGED <<doing, todo, file>>
           \/ TearDown("ERROR", file)
           \/ doing' = "parking" /\ file' = Closed(file)
    BY <1>24 DEF TickStandby, Rest, Ticks, Between, schedule, Sent
  <2>2. Goes
    BY <1>24, <2>1, SweepIsThere DEF Goes, Active, Ind
  <2>3. CASE UNCHANGED <<doing, todo, file>>
    <3>1. (Goes' => Goes) /\ (ToCome' => ToCome) /\ (Gone' => Gone)
      BY <2>1, <2>3 DEF Goes, ToCome, Gone, Phase
    <3> QED BY <1>3, <2>1, <2>3, <3>1
  <2>4. CASE TearDown("ERROR", file)
    BY <1>4, <2>1, <2>2, <2>4
  <2>5. CASE doing' = "parking" /\ file' = Closed(file)
    <3>0. file.last \in Nat /\ file.length \in Nat /\ file.stamped = 1 .. file.last
            /\ file.last <= file.length /\ (run # NoRun => file.length <= Len(run.sweep))
      BY <1>2, <2>2, PointsParts DEF Typed
    <3>1. /\ ~file'.open /\ file'.last = file.last /\ file'.stamped = 1 .. file.last
          /\ file.last <= file'.length /\ file'.length <= file.length /\ file'.length \in Nat
      BY <1>2, <2>5, <3>0, ClosedFile, ClosedTypes DEF Typed
    <3> QED BY <1>2, <2>1, <2>5, <3>0, <3>1 DEF Points, Phase
  <2> QED BY <2>1, <2>3, <2>4, <2>5
<1>25. CASE TickFinish
  <2>1. UNCHANGED <<file, index, doing, todo, wait>> /\ run # NoRun /\ parked /\ state = "STANDBY"
        /\ (UNCHANGED <<run, state, parked>> \/ run' = [run EXCEPT !.on = FALSE])
    BY <1>25, <1>2, SweepIsThere DEF TickFinish, point, Sent, Ind, Ticks, Between, Active
  <2>2. CASE UNCHANGED <<run, state, parked>>
    <3>1. (Goes' => Goes) /\ (ToCome' => ToCome) /\ (Gone' => Gone)
      BY <2>1, <2>2 DEF Goes, ToCome, Gone, Phase
    <3> QED BY <1>3, <2>1, <2>2, <3>1
  <2>3. CASE run' = [run EXCEPT !.on = FALSE]
    <3>1. run'.sweep = run.sweep /\ ~Goes'
      BY <1>1, <2>3 DEF RunTypes, Goes
    <3> QED BY <1>3, <2>1, <3>1
  <2> QED BY <2>1, <2>2, <2>3
<1>26. CASE TickPauseBoundary
  <2>1. UNCHANGED <<file, index, run, doing, todo, parked>>
    BY <1>26 DEF TickPauseBoundary, EnterPaused, Rest, Sent, Unmoved
  <2>2. Phase' = Phase
    BY <1>26, <1>1, <1>2 DEF TickPauseBoundary, EnterPaused, Rest, Sent, Phase, InItsState,
       Between, Active, Ticks, ClockTypes
  <2>3. (Goes' => Goes) /\ (ToCome' => ToCome) /\ (Gone' => Gone)
    BY <2>1, <2>2 DEF Goes, ToCome, Gone
  <2> QED BY <1>3, <2>1, <2>3
<1>27. CASE TickFails
  <2>1. (TearDown("IDLE", file) \/ TearDown("ERROR", file)) /\ UNCHANGED <<run, index>>
    BY <1>27 DEF TickFails, Rest
  <2>2. Goes
    BY <1>27, SweepIsThere DEF TickFails, Between, Goes, Ind
  <2> QED BY <1>4, <2>1, <2>2
<1>28. CASE TickHeld
  <2>1. TearDown("IDLE", file) /\ UNCHANGED <<run, index>>
    BY <1>28 DEF TickHeld, Rest
  <2>2. Goes
    BY <1>28, SweepIsThere DEF TickHeld, Between, Goes, Ind
  <2> QED BY <1>4, <2>1, <2>2
<1>29. CASE TickHeldPaused
  <2>1. UNCHANGED <<file, index, run>>
    BY <1>29 DEF TickHeldPaused, Sends, Undisturbed, AllSent, point, Rest, Sent, World,
       EnterPaused
  <2>2. Goes' => /\ Goes /\ ((parked \/ doing = "parking") => (parked' \/ doing' = "parking"))
                 /\ (ToCome' => ToCome) /\ (Gone' => Gone)
    BY <1>29, <1>2 DEF TickHeldPaused, Sends, IsNext, Undisturbed, AllSent, Rest, Sent, World,
       EnterPaused, Ticks, Between, schedule, Goes, ToCome, Gone, Phase, InItsState
  <2> QED BY <1>3, <2>1, <2>2
<1>30. CASE Pause
  <2>1. UNCHANGED <<file, index, run, doing, todo, parked>>
    BY <1>30 DEF Pause, EnterPaused, Rest, Sent, Unmoved
  <2>2. Phase' = Phase
    BY <1>30, <1>1, <1>2 DEF Pause, EnterPaused, Rest, Sent, Phase, InItsState, Between,
       Active, Ticks, ClockTypes
  <2>3. (Goes' => Goes) /\ (ToCome' => ToCome) /\ (Gone' => Gone)
    BY <2>1, <2>2 DEF Goes, ToCome, Gone
  <2> QED BY <1>3, <2>1, <2>3
<1>31. CASE Resume
  <2>1. UNCHANGED <<file, index, run, doing, todo, parked>>
    BY <1>31, ResumeFacts DEF Rest, Sent, Unmoved
  <2>2. Phase' = Phase
    BY <1>31, <1>1, <1>2, ResumeFacts DEF Rest, Sent, Phase, InItsState, Between, Active,
       Ticks, ClockTypes
  <2>3. (Goes' => Goes) /\ (ToCome' => ToCome) /\ (Gone' => Gone)
    BY <2>1, <2>2 DEF Goes, ToCome, Gone
  <2> QED BY <1>3, <2>1, <2>3
<1>32. CASE Abort
  <2>1. TearDown("IDLE", file) /\ UNCHANGED <<run, index>>
    BY <1>32 DEF Abort, Rest
  <2>2. Goes
    BY <1>32, SweepIsThere DEF Abort, Between, Goes, Ind
  <2> QED BY <1>4, <2>1, <2>2
<1>33. CASE Recover
  <2>1. UNCHANGED <<file, index, run>>
    BY <1>33 DEF Recover, Sends, Undisturbed, AllSent, point, Rest, Sent, World, EnterPaused
  <2>2. Goes' => /\ Goes /\ ((parked \/ doing = "parking") => (parked' \/ doing' = "parking"))
                 /\ (ToCome' => ToCome) /\ (Gone' => Gone)
    BY <1>33, <1>2 DEF Recover, Sends, IsNext, Undisturbed, AllSent, Rest, Sent, World,
       EnterPaused, Ticks, Between, schedule, Goes, ToCome, Gone, Phase, InItsState, Active
  <2> QED BY <1>3, <2>1, <2>2
<1>34. CASE Elapse
  <2>1. UNCHANGED <<file, index, run>>
    BY <1>34 DEF Elapse, Sends, Undisturbed, AllSent, point, Rest, Sent, World, EnterPaused
  <2>2. Goes' => /\ Goes /\ ((parked \/ doing = "parking") => (parked' \/ doing' = "parking"))
                 /\ (ToCome' => ToCome) /\ (Gone' => Gone)
    BY <1>34, <1>2 DEF Elapse, Sends, IsNext, Undisturbed, AllSent, Rest, Sent, World,
       EnterPaused, Ticks, Between, schedule, Goes, ToCome, Gone, Phase, InItsState
  <2> QED BY <1>3, <2>1, <2>2
<1>35. CASE \E v \in VIs : Silence(v) \/ Speak(v)
  <2>1. UNCHANGED <<file, index, run, doing, todo, parked, state, wait>>
    BY <1>35 DEF Silence, Speak, World, point
  <2> QED BY <1>2, <2>1 DEF Points, Phase
<1>36. CASE DiskFills \/ HoldTurns
  <2>1. UNCHANGED <<file, index, run, doing, todo, parked, state, wait>>
    BY <1>36, TurnsFacts DEF World, point
  <2> QED BY <1>2, <2>1 DEF Points, Phase
<1> QED BY <1>5, <1>6, <1>7, <1>8, <1>9, <1>10, <1>11, <1>12, <1>13, <1>14, <1>15, <1>16,
       <1>17, <1>18, <1>19, <1>20, <1>21, <1>22, <1>23, <1>24, <1>25, <1>26, <1>27, <1>28,
       <1>29, <1>30, <1>31, <1>32, <1>33, <1>34, <1>35, <1>36, StartFacts DEF Next, Sending,
       Ticking

-----------------------------------------------------------------------------
\* The point that is measured is one of the sweep.
LEMMA HereIsALevel ==
    ASSUME TypeOK, Ind, Goes, ToCome \/ Gone
    PROVE  Here \in Nat /\ Here # None
<1>1. index \in Nat \ {0} /\ run.sweep \in Seq(Nat) /\ index <= Len(run.sweep)
  BY PointsParts DEF Ind, TypeOK
<1> QED BY <1>1, TimesAssumption DEF Here

\* Where the axis is while it is asked, stopped or sent.
LEMMA WhereTheAxisIs ==
    ASSUME AxisTypes
    PROVE  /\ axis.at # None => axis.left = 0 /\ Advance(axis) = axis
           /\ axis.left = 0 => Advance(axis) = axis
           /\ axis.left = 0 /\ axis.goal # None => axis.at = axis.goal
           /\ Advance(axis).goal = axis.goal
           /\ Advance(axis) \in Axes
           /\ StopRamp(axis).at = axis.at /\ StopRamp(axis).goal = None
           /\ \A l \in Nat : StartRamp(axis, l).goal = l /\ (axis.at = l
                => StartRamp(axis, l).at = l)
<1>1. axis \in Axes
  BY DEF AxisTypes
<1>2. axis.at # None => axis.left = 0
  BY <1>1 DEF Axes, Somewhere
<1>3. axis.left = 0 => Advance(axis) = axis
  BY DEF Advance
<1>4. axis.left = 0 /\ axis.goal # None => axis.at = axis.goal
  BY <1>1 DEF Axes, Somewhere
<1>5. Advance(axis).goal = axis.goal
  BY <1>1 DEF Axes, Advance
<1>6. StopRamp(axis).at = axis.at /\ StopRamp(axis).goal = None
  BY DEF StopRamp
<1>7. \A l \in Nat : StartRamp(axis, l).goal = l /\ (axis.at = l => StartRamp(axis, l).at = l)
  BY DEF StartRamp
<1> QED BY <1>1, <1>2, <1>3, <1>4, <1>5, <1>6, <1>7, RampsKeepTheirType

\* What an axis that stays at its level has settled stays.
LEMMA StaysSettled ==
    ASSUME NEW a, Moves(a), a.at = axis.at, axis.at # None
    PROVE  axis'.at = axis.at /\ rest' = rest /\ axis'.goal = a.goal
BY DEF Moves

\* InPlace is kept by each action.
LEMMA PlaceStep ==
    ASSUME TypeOK, Ind, Next
    PROVE  InPlace'
<1>1. PlainTypes /\ RunTypes /\ ClockTypes /\ AxisTypes /\ MeterTypes /\ FileTypes /\ TodoTypes
  BY TypeParts DEF Ind
<1>2. InPlace /\ InItsState
  BY DEF Ind
<1>3. ASSUME NEW p \in Plans, NEW o \in BOOLEAN, Started(p), StartedRun(p, o) PROVE InPlace'
  <2>1. doing' = "ending" \/ (doing' = "starting" /\ first' = TRUE /\ index' = 1
          /\ strayed' = "no" /\ wait'.on = FALSE /\ state' = "IDLE")
    BY <1>3 DEF Started, Forgotten, NoWait
  <2> QED BY <2>1 DEF InPlace, Phase, Gated, Here, Settled
<1>4. CASE SendInitiate
  <2>1. UNCHANGED <<state, run, doing, wait, first, index, strayed, gates, wanted, axis, rest>>
    BY <1>4 DEF SendInitiate, World, point, Sends, Undisturbed, schedule
  <2> QED BY <1>2, <2>1 DEF InPlace, Phase, Gated, Here, Settled
<1>5. CASE SendRamp
  <2>1. doing = "starting" /\ UNCHANGED <<state, run, doing, wait, first, index, strayed, gates>>
    BY <1>5, WhatIsSent DEF SendRamp, Sends, IsNext, Undisturbed, schedule, Ind
  <2>2. state = "IDLE"
    BY <1>2, <2>1 DEF InItsState
  <2> QED BY <1>2, <2>1, <2>2 DEF InPlace, Phase, Gated, Here, Settled
<1>6. CASE SendSet
  <2>1. UNCHANGED <<state, run, doing, wait, first, index, strayed, gates, wanted, axis, rest>>
    BY <1>6 DEF SendSet, World, point, Sends, Undisturbed, schedule
  <2> QED BY <1>2, <2>1 DEF InPlace, Phase, Gated, Here, Settled
<1>7. CASE SendArm
  <2>1. UNCHANGED <<state, run, doing, wait, first, index, strayed, gates, wanted, axis, rest>>
    BY <1>7 DEF SendArm, World, point, Sends, Undisturbed, schedule
  <2> QED BY <1>2, <2>1 DEF InPlace, Phase, Gated, Here, Settled
<1>8. CASE SendOff
  <2>1. doing \in {"parking", "ending"}
          /\ UNCHANGED <<state, run, doing, wait, first, index, strayed, gates>>
    BY <1>8, WhatIsSent DEF SendOff, Sends, IsNext, Undisturbed, schedule, Ind
  <2>2. doing = "parking" => state = "STANDBY"
    BY <1>2, <2>1 DEF InItsState
  <2> QED BY <1>2, <2>1, <2>2 DEF InPlace, Phase, Gated, Here, Settled
<1>9. CASE SendRead
  <2>1. UNCHANGED <<state, run, doing, wait, first, index, strayed, gates, wanted, axis, rest>>
    BY <1>9 DEF SendRead, World, point, Sends, Undisturbed, schedule
  <2> QED BY <1>2, <2>1 DEF InPlace, Phase, Gated, Here, Settled
<1>10. CASE SendSave
  <2>1. UNCHANGED <<state, run, doing, wait, first, index, strayed, gates, wanted, axis, rest>>
    BY <1>10 DEF SendSave, World, point, Sends, Undisturbed, schedule
  <2> QED BY <1>2, <2>1 DEF InPlace, Phase, Gated, Here, Settled
<1>11. CASE SendRaises
  <2>1. doing' = "ending"
    BY <1>11 DEF SendRaises, TearDown
  <2> QED BY <2>1 DEF InPlace
<1>12. CASE SaveRaises
  <2>1. doing' = "ending"
    BY <1>12 DEF SaveRaises, TearDown
  <2> QED BY <2>1 DEF InPlace
<1>13. CASE Opened
  <2>1. /\ doing = "starting" /\ todo = <<>> /\ doing' = "none" /\ state' = "INITIATING"
        /\ UNCHANGED <<run, wait, first, index, strayed, gates, wanted, axis, rest>>
    BY <1>13 DEF Opened, AllSent, point, Unmoved
  <2>2. state = "IDLE" /\ run.on
    BY <1>2, <2>1 DEF InItsState
  <2>3. axis.goal = Level /\ wanted = Level
    BY <2>1, PreparedParts, AmongFew DEF Ind, ToPrepare
  <2>4. first /\ index = 1 /\ strayed = "no" /\ ~wait.on
    BY <1>2, <2>1, <2>2 DEF InPlace, Phase
  <2>5. Level = (IF Gated THEN Saturation ELSE Here)
    BY <2>4 DEF Level, Gated, Here
  <2>6. Gated' = Gated /\ Here' = Here
    BY <2>1 DEF Gated, Here
  <2> QED BY <1>2, <2>1, <2>3, <2>4, <2>5, <2>6 DEF InPlace, Phase, Settled
<1>14. CASE Measured
  <2>1. /\ doing = "measuring" /\ doing' = "none" /\ state' = "SWEEPING"
        /\ UNCHANGED <<run, wait, first>>
    BY <1>14 DEF Measured, AllSent
  <2>2. state = "MEASURING" /\ run.on
    BY <1>2, <2>1 DEF InItsState
  <2> QED BY <1>2, <2>1, <2>2 DEF InPlace, Phase, Gated, Here, Settled
<1>15. CASE ParkingSent
  <2>1. /\ doing = "parking" /\ doing' = "none" /\ state' = "STANDBY"
        /\ UNCHANGED <<run, wait, first>>
    BY <1>15 DEF ParkingSent, AllSent
  <2>2. state = "STANDBY" /\ run.on
    BY <1>2, <2>1 DEF InItsState
  <2> QED BY <1>2, <2>1, <2>2 DEF InPlace, Phase, Gated, Here, Settled
<1>16. CASE TornDown
  <2>1. ~(doing' # "ending" /\ run'.on)
    BY <1>16, <1>1, <1>2 DEF TornDown, RunTypes
  <2> QED BY <2>1 DEF InPlace
<1>17. CASE TickInitiating
  <2>1. state = "INITIATING" /\ state' = "RAMPING" /\ doing = "none"
          /\ UNCHANGED <<run, doing, wait, first, index, strayed, gates, wanted, axis, rest>>
    BY <1>17 DEF TickInitiating, Unmoved, Rest, Sent, Ticks, Between, schedule, point
  <2> QED BY <1>2, <2>1 DEF InPlace, Phase, Gated, Here, Settled
<1>18. CASE TickRamping
  <2>1. /\ state = "RAMPING" /\ doing = "none" /\ doing' = "none" /\ axis' = Advance(axis) /\ run.on
        /\ UNCHANGED <<run, index, strayed, wanted>> /\ (axis'.at = axis.at /\ axis.at # None
             => rest' = rest)
    BY <1>18, <1>2 DEF TickRamping, Steps, Moves, Rest, Sent, Ticks, Between, InItsState, Active
  <2>2. /\ first <=> index = 1
        /\ wait.on => ~Gated
        /\ wanted = (IF Gated THEN Saturation ELSE Here) /\ axis.goal = wanted
        /\ wait.on /\ strayed = "no" => axis.at = Here /\ rest >= wait.spent
        /\ strayed \in {"no", "wait"}
    BY <1>2, <2>1 DEF InPlace, Phase
  <2>3. Here \in Nat /\ Here # None /\ wanted # None
    <3>1. Here \in Nat /\ Here # None
      BY <2>1, HereIsALevel DEF Goes, ToCome, Phase
    <3>2. Saturation # None
      BY PlansAssumption, TimesAssumption DEF Saturation
    <3> QED BY <3>1, <3>2, <2>2
  <2>4. /\ axis'.goal = axis.goal
        /\ axis.left = 0 => axis' = axis /\ axis.at = wanted /\ rest' = rest
        /\ axis.left # 0 => axis.at = None
    BY <1>1, <2>1, <2>2, <2>3, WhereTheAxisIs
  <2>5. Here' = Here /\ (first' = first => Gated' = Gated)
    BY <2>1 DEF Here, Gated
  <2>6. /\ wait \in [on : BOOLEAN, spent : 0 .. Settle, back : States]
        /\ rest \in 0 .. Settle /\ Settle \in Nat
    BY <1>1, TimesAssumption DEF ClockTypes, AxisTypes
  <2>7. Clock.on /\ (Clock.spent = 0 \/ (wait.on /\ Clock.spent = wait.spent))
    BY <2>6 DEF Clock
  <2>8. CASE state' = "RAMPING" /\ wait' = (IF RampDone(axis) THEN Clock ELSE wait)
               /\ (~RampDone(axis) \/ ~Gated) /\ first' = first
    <3>1. wait'.on => ~Gated
      BY <2>2, <2>8
    <3>2. ASSUME wait'.on, strayed = "no" PROVE axis'.at = Here /\ rest' >= wait'.spent
      <4>1. CASE axis.left # 0
        BY <2>2, <2>3, <2>4, <2>8, <3>2, <4>1 DEF RampDone
      <4>2. CASE axis.left = 0
        <5>1. ~Gated /\ wait' = Clock
          BY <2>8, <4>2 DEF RampDone
        <5>2. axis'.at = Here /\ rest' = rest
          BY <2>2, <2>4, <4>2, <5>1
        <5>3. rest >= Clock.spent
          BY <2>2, <2>6, <2>7, <3>2
        <5> QED BY <5>1, <5>2, <5>3
      <4> QED BY <4>1, <4>2
    <3>3. axis'.goal = wanted'
      BY <2>1, <2>2, <2>4
    <3> QED BY <2>1, <2>2, <2>5, <2>8, <3>1, <3>2, <3>3 DEF InPlace, Phase
  <2>9. CASE Gated /\ state' = "INITIATION_GATE" /\ wait' = wait /\ first' = first
               /\ gates' = [NoGates EXCEPT !.left = {"from_saturation", "settle"}]
    <3>1. ~gates'.commanded /\ "from_saturation" \in gates'.left
      BY <2>9 DEF NoGates
    <3>2. index = 1 /\ run.kind = "imaging" /\ ~wait'.on
      BY <2>2, <2>9 DEF Gated
    <3> QED BY <2>1, <2>9, <3>1, <3>2 DEF InPlace, Phase
  <2>10. CASE RampDone(axis) /\ ~Gated /\ Clock.spent >= Settle /\ state' = "MEASURING"
                /\ wait' = [Clock EXCEPT !.on = FALSE] /\ first' = FALSE
    <3>1. ~wait'.on
      BY <2>6, <2>10 DEF Clock
    <3>2. axis'.at = Here /\ rest' = rest
      BY <2>2, <2>4, <2>10 DEF RampDone
    <3>3. strayed # "no" \/ rest = Settle
      BY <2>2, <2>6, <2>7, <2>10
    <3> QED BY <2>1, <2>5, <2>10, <3>1, <3>2, <3>3 DEF InPlace, Phase, Settled
  <2> QED BY <1>18, <2>1, <2>8, <2>9, <2>10 DEF TickRamping
<1>19. CASE TickGate
  <2> DEFINE a     == IF gates.commanded THEN Advance(axis)
        ELSE StartRamp(Advance(axis), run.sweep[1])
             since == IF gates.since = None THEN 0 ELSE gates.since
             left  == gates.left \ Satisfied(since, a)
  <2>1. /\ state = "INITIATION_GATE" /\ doing = "none" /\ doing' = "none" /\ run.on
        /\ UNCHANGED <<run, index, strayed, wait, wanted>>
        /\ Moves(a) /\ gates' = [left |-> left, commanded |-> TRUE, since |-> since]
        /\ state' = (IF left = {} THEN "MEASURING" ELSE state) /\ (first' <=> (first /\ left # {}))
    BY <1>19, <1>2 DEF TickGate, Rest, Sent, Ticks, Between, InItsState, Active
  <2>2. /\ index = 1 /\ run.kind = "imaging" /\ ~wait.on
        /\ strayed # "gate" /\ gates.commanded => axis.goal \in {Here, None}
        /\ strayed # "gate" /\ "from_saturation" \notin gates.left => gates.commanded
             /\ axis.at = Here
    BY <1>2, <2>1 DEF InPlace, Phase
  <2>3. Here \in Nat /\ Here # None /\ Here = run.sweep[1]
    BY <2>1, <2>2, HereIsALevel DEF Goes, ToCome, Phase, Here
  <2>4. /\ axis' = a
        /\ ~gates.commanded => a.goal = Here
        /\ gates.commanded => a.goal = axis.goal /\ (axis.at # None => a = axis)
    <3>1. Advance(axis).goal = axis.goal /\ (axis.at # None => Advance(axis) = axis)
      BY <1>1, WhereTheAxisIs
    <3>2. StartRamp(Advance(axis), Here).goal = Here
      BY DEF StartRamp
    <3> QED BY <2>1, <2>3, <3>1, <3>2 DEF Moves
  <2>5. ASSUME strayed # "gate", "from_saturation" \notin left PROVE a.at = Here
    <3>1. CASE "from_saturation" \notin gates.left
      BY <2>2, <2>3, <2>4, <2>5, <3>1
    <3>2. CASE "from_saturation" \in gates.left
      <4>1. Reached(a)
        BY <2>5, <3>2 DEF Satisfied
      <4>2. a.goal = Here /\ a.left = 0
        BY <2>2, <2>4, <2>5, <4>1 DEF Reached
      <4>3. a \in Axes
        <5>1. Advance(axis) \in Axes
          BY <1>1, WhereTheAxisIs
        <5>2. StartRamp(Advance(axis), Here) \in Axes
          BY <2>3, <5>1, RampsKeepTheirType DEF Levels
        <5> QED BY <2>3, <5>1, <5>2
      <4> QED BY <2>3, <4>2, <4>3 DEF Axes, Somewhere
    <3> QED BY <3>1, <3>2
  <2>6. Here' = Here
    BY <2>1 DEF Here
  <2>7. gates'.commanded /\ gates'.left = left
    BY <2>1
  <2>8. strayed # "gate" => axis'.goal \in {Here, None}
    BY <2>2, <2>4
  <2> HIDE DEF a, since, left
  <2>9. CASE left = {}
    <3>1. state' = "MEASURING" /\ ~first' /\ Phase' = "MEASURING" /\ ~wait'.on
      BY <2>1, <2>2, <2>9 DEF Phase
    <3>2. strayed # "gate" => axis'.at = Here
      BY <2>4, <2>5, <2>9
    <3>3. Settled'
      BY <2>1, <2>2 DEF Settled
    <3> QED BY <2>1, <2>6, <3>1, <3>2, <3>3 DEF InPlace
  <2>10. CASE left # {}
    <3>1. state' = "INITIATION_GATE" /\ Phase' = "INITIATION_GATE" /\ ~wait'.on /\ doing' = "none"
      BY <2>1, <2>2, <2>10 DEF Phase
    <3>2. index' = 1 /\ run'.kind = "imaging"
      BY <2>1, <2>2
    <3>3. strayed' # "gate" => axis'.goal \in {Here', None}
            /\ ("from_saturation" \notin gates'.left => axis'.at = Here')
      BY <2>1, <2>4, <2>5, <2>6, <2>7, <2>8
    <3> QED BY <2>7, <3>1, <3>2, <3>3 DEF InPlace
  <2> QED BY <2>9, <2>10
<1>20. CASE TickMeasuring
  <2>1. /\ state = "MEASURING" /\ doing = "none" /\ doing' = "measuring" /\ run.on
             /\ axis' = Advance(axis)
        /\ UNCHANGED <<state, run, index, strayed, wait, first, gates>>
        /\ (axis'.at = axis.at /\ axis.at # None => rest' = rest)
    BY <1>20, <1>2 DEF TickMeasuring, Steps, Moves, Rest, Ticks, Between, schedule,
       InItsState, Active
  <2>2. ~first /\ ~wait.on /\ (strayed = "gate" \/ axis.at = Here) /\ Settled
    BY <1>2, <2>1 DEF InPlace, Phase
  <2>3. Here \in Nat /\ Here # None
    BY <2>1, HereIsALevel DEF Goes, ToCome, Phase
  <2>4. axis.at # None => axis' = axis /\ rest' = rest
    BY <1>1, <2>1, WhereTheAxisIs
  <2>5. Here' = Here
    BY <2>1 DEF Here
  <2>6. strayed = "gate" \/ axis'.at = Here
    BY <2>2, <2>3, <2>4
  <2>7. Settled'
    BY <2>1, <2>2, <2>3, <2>4 DEF Settled
  <2> QED BY <2>1, <2>2, <2>5, <2>6, <2>7 DEF InPlace, Phase
<1>21. CASE TickSweeping
  <2>1. /\ state = "SWEEPING" /\ doing = "none" /\ doing' = "none" /\ run.on /\ index' = index + 1
        /\ UNCHANGED <<run, wait, first, gates>>
    BY <1>21, <1>2 DEF TickSweeping, Rest, Sent, Ticks, Between, schedule, InItsState, Active
  <2>2. ~first /\ ~wait.on
    BY <1>2, <2>1 DEF InPlace, Phase
  <2>3. index' # 1
    BY <1>1, <2>1 DEF PlainTypes
  <2>4. CASE index < Len(run.sweep)
    <3>1. state' = "RAMPING" /\ wanted' = run.sweep[index'] /\ strayed' = "no"
            /\ axis'.goal = run.sweep[index']
      BY <1>21, <2>4 DEF TickSweeping, Moves, StartRamp
    <3>2. Here' = run.sweep[index'] /\ ~Gated'
      BY <2>1, <2>2 DEF Here, Gated
    <3> QED BY <2>1, <2>2, <2>3, <3>1, <3>2 DEF InPlace, Phase
  <2>5. CASE ~(index < Len(run.sweep))
    <3>1. state' = "STANDBY"
      BY <1>21, <2>5 DEF TickSweeping
    <3> QED BY <2>1, <2>2, <2>3, <3>1 DEF InPlace, Phase
  <2> QED BY <2>4, <2>5
<1>22. CASE TickStandby
  <2>1. state = "STANDBY" /\ (run'.on => run' = run /\ state' = state) /\ doing = "none"
          /\ doing' \in {"none", "parking", "ending"} /\ wait' = wait
    BY <1>22, <1>1 DEF TickStandby, RunTypes, TearDown, Rest, Sent, Ticks, Between, schedule,
       point
  <2>2. run'.on /\ doing' # "ending" => Phase' = "STANDBY" /\ run.on
    BY <2>1 DEF Phase
  <2> QED BY <1>2, <2>1, <2>2 DEF InPlace, Phase
<1>23. CASE TickFinish
  <2>1. state = "STANDBY" /\ (run'.on => run' = run /\ state' = state) /\ doing = "none"
          /\ doing' \in {"none", "parking", "ending"} /\ wait' = wait
    BY <1>23, <1>1 DEF TickFinish, RunTypes, TearDown, Rest, Sent, Ticks, Between, schedule, point
  <2>2. run'.on /\ doing' # "ending" => Phase' = "STANDBY" /\ run.on
    BY <2>1 DEF Phase
  <2> QED BY <1>2, <2>1, <2>2 DEF InPlace, Phase
<1>24. CASE TickPauseBoundary
  <2>1. /\ state # "PAUSED" /\ Active /\ state # "MEASURING" /\ doing = "none"
             /\ doing' = "none" /\ run.on /\ state' = "PAUSED"
        /\ wait' = [wait EXCEPT !.back = state] /\ Moves(StopRamp(Advance(axis)))
        /\ UNCHANGED <<run, index, strayed, first, gates, wanted>>
    BY <1>24, <1>2 DEF TickPauseBoundary, EnterPaused, Rest, Sent, Ticks, Between, InItsState,
       Active
  <2>2. wait'.on = wait.on /\ wait'.spent = wait.spent /\ wait'.back = state
    BY <1>1, <2>1 DEF ClockTypes
  <2>3. Phase' = state /\ Phase = state
    BY <2>1, <2>2 DEF Phase
  <2>4. axis'.goal = None /\ (axis.at # None => axis'.at = axis.at /\ rest' = rest)
    <3>1. axis.at # None => Advance(axis) = axis
      BY <1>1, WhereTheAxisIs
    <3> QED BY <2>1, <3>1 DEF Moves, StopRamp
  <2>5. Here' = Here /\ Gated' = Gated
    BY <2>1 DEF Here, Gated
  <2>6. state \in {"INITIATING", "RAMPING", "INITIATION_GATE"} => Here # None
    BY <2>1, HereIsALevel DEF Goes, ToCome, Phase
  <2>7. /\ state \in {"INITIATING", "RAMPING"} => (first <=> index = 1)
        /\ state = "INITIATION_GATE" => (index = 1 /\ run.kind = "imaging")
        /\ state = "SWEEPING" => ~first
        /\ wait.on => (state = "RAMPING" /\ ~Gated)
    BY <1>2, <2>1, <2>3 DEF InPlace
  <2>8. state \in {"INITIATING", "RAMPING"} =>
        /\ wanted = (IF Gated THEN Saturation ELSE Here) /\ strayed \in {"no", "wait"}
        /\ (wait.on /\ strayed = "no") => axis.at = Here /\ rest >= wait.spent
    BY <1>2, <2>1, <2>3 DEF InPlace
  <2>9. state = "INITIATION_GATE" /\ strayed # "gate" /\ "from_saturation" \notin gates.left
          => gates.commanded /\ axis.at = Here
    BY <1>2, <2>1, <2>3 DEF InPlace
  <2>10. state \in {"INITIATING", "RAMPING"} /\ wait'.on /\ strayed = "no" => axis'.at = Here
           /\ rest' >= wait'.spent
    BY <2>2, <2>4, <2>6, <2>8
  <2>11. state = "INITIATION_GATE" /\ strayed # "gate" /\ "from_saturation" \notin gates.left
           => axis'.at = Here
    BY <2>4, <2>6, <2>9
  <2>12. /\ doing' # "measuring" /\ doing' # "starting" /\ state' # "MEASURING" /\ state' = "PAUSED"
         /\ Phase' # "IDLE" /\ Phase' # "MEASURING"
    BY <2>1, <2>3 DEF Active
  <2>13. /\ Phase' \in {"INITIATING", "RAMPING"} => (first' <=> index' = 1)
         /\ Phase' = "INITIATION_GATE" => (index' = 1 /\ run'.kind = "imaging")
         /\ Phase' = "SWEEPING" => ~first'
         /\ wait'.on => (Phase' = "RAMPING" /\ ~Gated')
    BY <2>1, <2>2, <2>3, <2>5, <2>7
  <2>14. Phase' \in {"INITIATING", "RAMPING"} =>
         /\ wanted' = (IF Gated' THEN Saturation ELSE Here') /\ strayed' \in {"no", "wait"}
         /\ (wait'.on /\ strayed' = "no") => axis'.at = Here' /\ rest' >= wait'.spent
    BY <2>1, <2>3, <2>5, <2>8, <2>10
  <2>15. Phase' = "INITIATION_GATE" /\ strayed' # "gate" =>
         /\ axis'.goal \in {Here', None}
         /\ "from_saturation" \notin gates'.left => gates'.commanded /\ axis'.at = Here'
    BY <2>1, <2>3, <2>4, <2>5, <2>9, <2>11
  <2> QED BY <2>12, <2>13, <2>14, <2>15 DEF InPlace
<1>25. CASE TickFails
  <2>1. doing' = "ending"
    BY <1>25 DEF TickFails, TearDown
  <2> QED BY <2>1 DEF InPlace
<1>26. CASE TickHeld
  <2>1. doing' = "ending"
    BY <1>26 DEF TickHeld, TearDown
  <2> QED BY <2>1 DEF InPlace
<1>27. CASE TickHeldPaused
  <2>1. /\ state = "PAUSED" /\ doing = "none" /\ doing' = "none" /\ run.on
        /\ UNCHANGED <<state, run, index, wait, first, gates, wanted>>
        /\ strayed' = (IF wait.back = "INITIATION_GATE" THEN "gate" ELSE IF wait.on
             /\ strayed = "no" THEN "wait" ELSE strayed)
    BY <1>27, <1>2 DEF TickHeldPaused, Rest, Sent, Between, schedule, InItsState
  <2>2. Phase = wait.back /\ Phase' = Phase /\ Here' = Here /\ Gated' = Gated
    BY <2>1 DEF Phase, Here, Gated
  <2>3. Phase \in {"INITIATING", "RAMPING"} =>
        strayed' \in {"no", "wait"} /\ ~(wait'.on /\ strayed' = "no")
          /\ wanted = (IF Gated THEN Saturation ELSE Here)
    BY <1>2, <2>1, <2>2 DEF InPlace
  <2>4. Phase = "INITIATION_GATE" => strayed' = "gate"
    BY <2>1, <2>2
  <2>5. Phase # "MEASURING" /\ Phase # "IDLE"
    BY <1>2, <2>1, <2>2 DEF InItsState
  <2>6. /\ Phase \in {"INITIATING", "RAMPING"} => (first <=> index = 1)
        /\ Phase = "INITIATION_GATE" => (index = 1 /\ run.kind = "imaging")
        /\ Phase = "SWEEPING" => ~first
        /\ wait.on => (Phase = "RAMPING" /\ ~Gated)
    BY <1>2, <2>1 DEF InPlace
  <2> QED BY <2>1, <2>2, <2>3, <2>4, <2>5, <2>6 DEF InPlace
<1>28. CASE Pause
  <2>1. CASE state = "MEASURING"
    <3>1. UNCHANGED <<state, run, doing, wait, first, index, strayed, gates, wanted, axis, rest>>
      BY <1>28, <2>1 DEF Pause, Unmoved, Rest, Sent
    <3> QED BY <1>2, <3>1 DEF InPlace, Phase, Gated, Here, Settled
  <2>2. CASE state # "MEASURING"
    <3>1. /\ state # "PAUSED" /\ Active /\ state # "MEASURING" /\ doing = "none"
               /\ doing' = "none" /\ run.on /\ state' = "PAUSED"
          /\ wait' = [wait EXCEPT !.back = state] /\ Moves(StopRamp(axis))
          /\ UNCHANGED <<run, index, strayed, first, gates, wanted>>
      BY <1>28, <1>2, <2>2 DEF Pause, EnterPaused, Rest, Sent, Ticks, Between, InItsState, Active
    <3>2. wait'.on = wait.on /\ wait'.spent = wait.spent /\ wait'.back = state
      BY <1>1, <3>1 DEF ClockTypes
    <3>3. Phase' = state /\ Phase = state
      BY <3>1, <3>2 DEF Phase
    <3>4. axis'.goal = None /\ (axis.at # None => axis'.at = axis.at /\ rest' = rest)
      <4>1. axis.at # None => Advance(axis) = axis
        BY <1>1, WhereTheAxisIs
      <4> QED BY <3>1, <4>1 DEF Moves, StopRamp
    <3>5. Here' = Here /\ Gated' = Gated
      BY <3>1 DEF Here, Gated
    <3>6. state \in {"INITIATING", "RAMPING", "INITIATION_GATE"} => Here # None
      BY <3>1, HereIsALevel DEF Goes, ToCome, Phase
    <3>7. /\ state \in {"INITIATING", "RAMPING"} => (first <=> index = 1)
          /\ state = "INITIATION_GATE" => (index = 1 /\ run.kind = "imaging")
          /\ state = "SWEEPING" => ~first
          /\ wait.on => (state = "RAMPING" /\ ~Gated)
      BY <1>2, <3>1, <3>3 DEF InPlace
    <3>8. state \in {"INITIATING", "RAMPING"} =>
          /\ wanted = (IF Gated THEN Saturation ELSE Here) /\ strayed \in {"no", "wait"}
          /\ (wait.on /\ strayed = "no") => axis.at = Here /\ rest >= wait.spent
      BY <1>2, <3>1, <3>3 DEF InPlace
    <3>9. state = "INITIATION_GATE" /\ strayed # "gate" /\ "from_saturation" \notin gates.left
            => gates.commanded /\ axis.at = Here
      BY <1>2, <3>1, <3>3 DEF InPlace
    <3>10. state \in {"INITIATING", "RAMPING"} /\ wait'.on /\ strayed = "no" => axis'.at = Here
             /\ rest' >= wait'.spent
      BY <3>2, <3>4, <3>6, <3>8
    <3>11. state = "INITIATION_GATE" /\ strayed # "gate" /\ "from_saturation" \notin gates.left
             => axis'.at = Here
      BY <3>4, <3>6, <3>9
    <3>12. /\ doing' # "measuring" /\ doing' # "starting" /\ state' # "MEASURING"
                /\ state' = "PAUSED"
           /\ Phase' # "IDLE" /\ Phase' # "MEASURING"
      BY <3>1, <3>3 DEF Active
    <3>13. /\ Phase' \in {"INITIATING", "RAMPING"} => (first' <=> index' = 1)
           /\ Phase' = "INITIATION_GATE" => (index' = 1 /\ run'.kind = "imaging")
           /\ Phase' = "SWEEPING" => ~first'
           /\ wait'.on => (Phase' = "RAMPING" /\ ~Gated')
      BY <3>1, <3>2, <3>3, <3>5, <3>7
    <3>14. Phase' \in {"INITIATING", "RAMPING"} =>
           /\ wanted' = (IF Gated' THEN Saturation ELSE Here') /\ strayed' \in {"no", "wait"}
           /\ (wait'.on /\ strayed' = "no") => axis'.at = Here' /\ rest' >= wait'.spent
      BY <3>1, <3>3, <3>5, <3>8, <3>10
    <3>15. Phase' = "INITIATION_GATE" /\ strayed' # "gate" =>
           /\ axis'.goal \in {Here', None}
           /\ "from_saturation" \notin gates'.left => gates'.commanded /\ axis'.at = Here'
      BY <3>1, <3>3, <3>4, <3>5, <3>9, <3>11
    <3> QED BY <3>12, <3>13, <3>14, <3>15 DEF InPlace
    <2> QED BY <2>1, <2>2
<1>29. CASE Resume
  <2>1. doing = "none" /\ doing' = "none"
          /\ UNCHANGED <<run, index, strayed, wait, first, gates, wanted>>
    BY <1>29 DEF Resume, Rest, Sent, Between
  <2>2. CASE state # "PAUSED"
    <3>1. UNCHANGED <<state, axis, rest>>
      BY <1>29, <2>2 DEF Resume
    <3> QED BY <1>2, <2>1, <3>1 DEF InPlace, Phase, Gated, Here, Settled
  <2>3. CASE state = "PAUSED"
    <3>1. /\ state' = wait.back /\ run.on
          /\ IF Redispatched THEN Moves(StartRamp(axis, wanted)) ELSE UNCHANGED <<axis, rest>>
      BY <1>29, <1>2, <2>1, <2>3 DEF Resume, InItsState
    <3>2. wait.back \in {"INITIATING", "RAMPING", "INITIATION_GATE", "SWEEPING", "STANDBY"}
      BY <1>2, <2>3 DEF InItsState
    <3>3. Phase = wait.back /\ Phase' = wait.back /\ Here' = Here /\ Gated' = Gated
      BY <2>1, <2>3, <3>1, <3>2 DEF Phase, Here, Gated
    <3>4. /\ Phase \in {"INITIATING", "RAMPING"} => (first <=> index = 1)
          /\ Phase = "INITIATION_GATE" => (index = 1 /\ run.kind = "imaging")
          /\ Phase = "SWEEPING" => ~first
          /\ wait.on => (Phase = "RAMPING" /\ ~Gated)
      BY <1>2, <2>1, <3>1 DEF InPlace
    <3>5. Phase \in {"INITIATING", "RAMPING"} =>
          /\ wanted = (IF Gated THEN Saturation ELSE Here) /\ strayed \in {"no", "wait"}
          /\ (wait.on /\ strayed = "no") => axis.at = Here /\ rest >= wait.spent
      BY <1>2, <2>1, <3>1 DEF InPlace
    <3>6. Phase \in {"INITIATING", "RAMPING"} => wanted # None /\ wanted \in Nat /\ Here # None
      <4>1. Phase \in {"INITIATING", "RAMPING"} => Here \in Nat /\ Here # None
        BY <2>1, <3>1, HereIsALevel DEF Goes, ToCome
      <4>2. Saturation \in Nat /\ Saturation # None
        BY PlansAssumption, TimesAssumption DEF Saturation
      <4> QED BY <3>5, <4>1, <4>2
    <3>7. ASSUME Phase \in {"INITIATING", "RAMPING"} PROVE axis'.goal = wanted /\ ((wait.on
                   /\ strayed = "no") => axis'.at = Here /\ rest' = rest)
      <4>1. Moves(StartRamp(axis, wanted))
        BY <3>1, <3>3, <3>6, <3>7 DEF Redispatched
      <4>2. StartRamp(axis, wanted).goal = wanted /\ (axis.at = wanted
              => StartRamp(axis, wanted).at = wanted)
        BY DEF StartRamp
      <4>3. axis'.goal = wanted
        BY <4>1, <4>2 DEF Moves
      <4>4. ASSUME wait.on, strayed = "no" PROVE axis'.at = Here /\ rest' = rest
        <5>1. axis.at = Here /\ wanted = Here
          BY <3>4, <3>5, <3>7, <4>4
        <5> QED BY <3>6, <3>7, <4>1, <4>2, <5>1 DEF Moves
      <4> QED BY <4>3, <4>4
    <3>8. Phase = "INITIATION_GATE" => UNCHANGED <<axis, rest>>
      BY <3>1, <3>3 DEF Redispatched
    <3>9. Phase = "INITIATION_GATE" /\ strayed # "gate" =>
          /\ gates.commanded => axis.goal \in {Here, None}
          /\ "from_saturation" \notin gates.left => gates.commanded /\ axis.at = Here
      BY <1>2, <2>1, <3>1 DEF InPlace
    <3>10. state' # "PAUSED" /\ state' # "MEASURING" /\ state' # "IDLE" /\ Phase' = state'
      BY <3>1, <3>2, <3>3
    <3> QED BY <2>1, <3>1, <3>3, <3>4, <3>5, <3>7, <3>8, <3>9, <3>10 DEF InPlace
  <2> QED BY <2>2, <2>3
<1>30. CASE Abort
  <2>1. doing' = "ending"
    BY <1>30 DEF Abort, TearDown
  <2> QED BY <2>1 DEF InPlace
<1>31. CASE Recover
  <2>1. ~(doing' # "ending" /\ run'.on)
    BY <1>31, <1>1, <1>2 DEF Recover, Between, InItsState, Active, Rest
  <2> QED BY <2>1 DEF InPlace
<1>32. CASE Elapse
  <2>1. /\ doing = "none" /\ UNCHANGED <<state, run, doing, index, strayed, first, wanted, axis>>
        /\ rest' = (IF axis.at # None THEN Later(rest) ELSE 0)
        /\ wait' = (IF wait.on /\ state # "PAUSED" THEN [wait EXCEPT !.spent = Later(@)] ELSE wait)
        /\ gates'.left = gates.left /\ gates'.commanded = gates.commanded
    BY <1>32, <1>1 DEF Elapse, World, Between, point, ClockTypes
  <2>2. /\ wait \in [on : BOOLEAN, spent : 0 .. Settle, back : States]
        /\ rest \in 0 .. Settle /\ Settle \in Nat
    BY <1>1, TimesAssumption DEF ClockTypes, AxisTypes
  <2>3. wait'.on = wait.on /\ wait'.back = wait.back
          /\ wait'.spent \in {wait.spent, Later(wait.spent)}
    BY <2>1, <2>2
  <2>4. Phase' = Phase /\ Here' = Here /\ Gated' = Gated
    BY <2>1, <2>3 DEF Phase, Here, Gated
  <2>5. axis.at # None /\ rest >= wait.spent => rest' >= wait'.spent
    <3>1. \A r, s \in 0 .. Settle : r >= s => Later(r) >= Later(s) /\ Later(r) >= s
      BY <2>2 DEF Later
    <3>2. wait.spent \in 0 .. Settle
      BY <2>2
    <3> QED BY <2>1, <2>2, <2>3, <3>1, <3>2
  <2>6. axis.at # None /\ rest = Settle => rest' = Settle
    BY <2>1, <2>2 DEF Later
  <2>7. run.on /\ (Phase \in {"INITIATING", "RAMPING", "INITIATION_GATE"}
          \/ state = "MEASURING") => Here # None
    BY <2>1, HereIsALevel DEF Goes, ToCome, Phase
  <2>8. ASSUME run.on, Phase \in {"INITIATING", "RAMPING"}, wait.on, strayed = "no"
                 PROVE axis.at = Here /\ rest' >= wait'.spent
    BY <1>2, <2>1, <2>5, <2>7, <2>8 DEF InPlace
  <2>9. ASSUME run.on, state = "MEASURING" PROVE Settled'
    <3>1. Settled /\ (strayed = "gate" \/ axis.at = Here)
      BY <1>2, <2>1, <2>9 DEF InPlace
    <3> QED BY <2>1, <2>6, <2>7, <2>9, <3>1 DEF Settled
  <2>10. /\ run.on /\ Phase \in {"IDLE", "INITIATING", "RAMPING"} => (first <=> index = 1)
         /\ run.on /\ Phase = "INITIATION_GATE" => (index = 1 /\ run.kind = "imaging")
         /\ run.on /\ Phase \in {"MEASURING", "SWEEPING"} => ~first
         /\ run.on /\ wait.on => (Phase = "RAMPING" /\ ~Gated)
    BY <1>2, <2>1 DEF InPlace
  <2>11. run.on /\ Phase \in {"INITIATING", "RAMPING"} =>
         /\ wanted = (IF Gated THEN Saturation ELSE Here)
         /\ state # "PAUSED" => axis.goal = wanted
         /\ strayed \in {"no", "wait"}
    BY <1>2, <2>1 DEF InPlace
  <2>12. /\ run.on /\ Phase = "INITIATION_GATE" /\ strayed # "gate" =>
             /\ gates.commanded => axis.goal \in {Here, None}
             /\ "from_saturation" \notin gates.left => gates.commanded /\ axis.at = Here
         /\ run.on /\ state = "MEASURING" => strayed = "gate" \/ axis.at = Here
    BY <1>2, <2>1 DEF InPlace
  <2> QED BY <2>1, <2>3, <2>4, <2>8, <2>9, <2>10, <2>11, <2>12 DEF InPlace
<1>33. CASE \E v \in VIs : Silence(v) \/ Speak(v)
  <2>1. UNCHANGED <<state, run, doing, wait, first, index, strayed, gates, wanted, axis, rest>>
    BY <1>33 DEF Silence, Speak, World, point, Sends, Undisturbed, schedule
  <2> QED BY <1>2, <2>1 DEF InPlace, Phase, Gated, Here, Settled
<1>34. CASE DiskFills \/ HoldTurns
  <2>1. UNCHANGED <<state, run, doing, wait, first, index, strayed, gates, wanted, axis, rest>>
    BY <1>34, TurnsFacts DEF World, World, point, Sends, Undisturbed, schedule
  <2> QED BY <1>2, <2>1 DEF InPlace, Phase, Gated, Here, Settled
<1> QED BY <1>3, <1>4, <1>5, <1>6, <1>7, <1>8, <1>9, <1>10, <1>11, <1>12, <1>13, <1>14, <1>15,
       <1>16, <1>17, <1>18, <1>19, <1>20, <1>21, <1>22, <1>23, <1>24, <1>25, <1>26, <1>27,
       <1>28, <1>29, <1>30, <1>31, <1>32, <1>33, <1>34, StartFacts DEF Next, Sending, Ticking

-----------------------------------------------------------------------------
\* The rows stand for what they stood for while the plan is the same.
LEMMA RowsStay ==
    ASSUME RowsAreTheirPoints, file'.rows = file.rows,
           run'.slot = run.slot, run'.sweep = run.sweep, run'.kind = run.kind
    PROVE  RowsAreTheirPoints'
<1>1. Cells' = Cells
  BY DEF Cells, Shape
<1> QED BY <1>1 DEF RowsAreTheirPoints, CellsAreTheirOwn, ReadInPlace

\* The row that is saved is the point of the index.
LEMMA RowIsRight ==
    ASSUME TypeOK, Ind, doing # "none", todo # <<>>, Head(todo).what = "save"
    PROVE  Row.point = index /\ CellsAreTheirOwn(Row) /\ ReadInPlace(Row)
<1>1. doing = "measuring"
  BY WhatIsSent DEF Ind
<1>2. DOMAIN grid = Cells
  <2>1. ASSUME NEW c \in Cells, Ahead(c) PROVE FALSE
    <3>1. Head(todo) \in {Set(1, c[1]), Set(2, c[2]), Read(c)}
      BY <2>1 DEF Ahead
    <3> QED BY <3>1 DEF Set, Read, Cmd
  <2> QED BY <1>1, <2>1, WorkAhead DEF Ind
<1>3. CellsAreTheirOwn(Row)
  <2>1. \A c \in DOMAIN grid :
           grid[c].armed /\ \A s \in 1 .. 2 : run.slot[s].n = 0 \/ grid[c].set[s] = c[s]
    BY DEF Ind, ReadingsAreTheirOwn
  <2>2. Row.cells = grid
    BY DEF Row
  <2> QED BY <1>2, <2>1, <2>2 DEF CellsAreTheirOwn
<1>4. (strayed = "gate" \/ axis.at = Here) /\ Settled
  BY <1>1 DEF Ind, InPlace, InItsState
<1>5. Row.point = index /\ Row.at = axis.at /\ Row.rest = rest /\ Row.strayed = strayed
  BY DEF Row
<1>6. ReadInPlace(Row)
  BY <1>4, <1>5 DEF ReadInPlace, Here, Settled
<1> QED BY <1>3, <1>5, <1>6

\* A save leaves the other rows as they are.
LEMMA RowIsAdded ==
    ASSUME TypeOK, Ind, doing # "none", todo # <<>>, Head(todo).what = "save",
           file'.rows = Columns.rows, run' = run
    PROVE  RowsAreTheirPoints'
<1> DEFINE rows == [i \in (DOMAIN file.rows) \cup {index} |-> IF i = index THEN Row
      ELSE file.rows[i]]
<1>1. file'.rows = rows
  <2>1. Columns.rows = rows
    BY DEF TypeOK, Columns
  <2> QED BY <2>1
<1>2. DOMAIN rows = (DOMAIN file.rows) \cup {index}
  OBVIOUS
<1>3. ASSUME NEW i \in DOMAIN rows
      PROVE  rows[i].point = i /\ CellsAreTheirOwn(rows[i]) /\ ReadInPlace(rows[i])
  <2>1. CASE i = index
    <3>1. rows[i] = Row
      BY <2>1
    <3> QED BY <2>1, <3>1, RowIsRight
  <2>2. CASE i # index
    <3>1. i \in DOMAIN file.rows /\ rows[i] = file.rows[i]
      BY <2>2, <1>2
    <3>2. file.rows[i].point = i /\ CellsAreTheirOwn(file.rows[i]) /\ ReadInPlace(file.rows[i])
      BY <3>1 DEF Ind, RowsAreTheirPoints
    <3> QED BY <3>1, <3>2
  <2> QED BY <2>1, <2>2
<1> HIDE DEF rows
<1>4. \A r : (CellsAreTheirOwn(r) => CellsAreTheirOwn(r)') /\ (ReadInPlace(r) => ReadInPlace(r)')
  BY SameCells DEF CellsAreTheirOwn, ReadInPlace
<1> QED BY <1>1, <1>3, <1>4 DEF RowsAreTheirPoints

\* Closing a file leaves its rows.
LEMMA ClosedRows == ASSUME NEW f, Typed(f) PROVE Closed(f).rows = f.rows
BY DEF Typed, Closed, Trimmed

\* Nor does a cleanup touch them.
LEMMA TornRows ==
    ASSUME NEW end, NEW f, Typed(f), TearDown(end, f)
    PROVE  file'.rows = f.rows
BY ClosedRows DEF TearDown

\* RowsAreTheirPoints is kept by each action.
LEMMA RowsStep ==
    ASSUME TypeOK, Ind, Next
    PROVE  RowsAreTheirPoints'
<1>1. PlainTypes /\ RunTypes /\ ClockTypes /\ AxisTypes /\ MeterTypes /\ FileTypes /\ TodoTypes
  BY TypeParts DEF Ind
<1>2. RowsAreTheirPoints /\ Typed(file)
  BY WrittenTypes DEF Ind
<1>3. UNCHANGED <<file, run>> => RowsAreTheirPoints'
  BY <1>2, RowsStay
<1>4. run' = run /\ (\E end \in {"IDLE", "ERROR"} : TearDown(end, file)) => RowsAreTheirPoints'
  BY <1>2, RowsStay, TornRows
<1>5. ASSUME NEW p \in Plans, NEW o \in BOOLEAN, Started(p), StartedRun(p, o)
               PROVE RowsAreTheirPoints'
  <2>1. file'.rows = <<>>
    BY <1>5 DEF Started, NewFile, NoFile
  <2>2. DOMAIN file'.rows = {}
    BY <2>1
  <2> QED BY <2>2 DEF RowsAreTheirPoints
<1>6. CASE SendInitiate
  <2>1. UNCHANGED <<file, run>>
    BY <1>6 DEF SendInitiate, Sends, IsNext, Undisturbed
  <2> QED BY <1>3, <2>1
<1>7. CASE SendRamp
  <2>1. UNCHANGED <<file, run>>
    BY <1>7 DEF SendRamp, Sends, IsNext, Undisturbed, Moves
  <2> QED BY <1>3, <2>1
<1>8. CASE SendSet
  <2>1. UNCHANGED <<file, run>>
    BY <1>8 DEF SendSet, Sends, IsNext, Undisturbed
  <2> QED BY <1>3, <2>1
<1>9. CASE SendArm
  <2>1. UNCHANGED <<file, run>>
    BY <1>9 DEF SendArm, Sends, IsNext, Undisturbed
  <2> QED BY <1>3, <2>1
<1>10. CASE SendOff
  <2>1. UNCHANGED <<file, run>>
    BY <1>10 DEF SendOff, Sends, IsNext, Undisturbed, Moves
  <2> QED BY <1>3, <2>1
<1>11. CASE SendRead
  <2>1. UNCHANGED <<file, run>>
    BY <1>11 DEF SendRead, IsNext, Undisturbed
  <2> QED BY <1>3, <2>1
<1>12. CASE SendSave
  <2>1. doing # "none" /\ todo # <<>> /\ Head(todo).what = "save" /\ file' = Saved /\ run' = run
    BY <1>12 DEF SendSave, Sends, IsNext, Undisturbed
  <2>2. doing = "measuring"
    BY <2>1, WhatIsSent DEF Ind
  <2> QED BY <2>1, <2>2, WrittenPoints, RowIsAdded
<1>13. CASE SendRaises
  <2>1. run' = run /\ (file' = file \/ TearDown("ERROR", file))
    BY <1>13 DEF SendRaises, Raises
  <2> QED BY <1>3, <1>4, <2>1
<1>14. CASE SaveRaises
  <2>1. doing # "none" /\ todo # <<>> /\ Head(todo).what = "save" /\ run' = run
    BY <1>14 DEF SaveRaises, Raises
  <2>2. doing = "measuring"
    BY <2>1, WhatIsSent DEF Ind
  <2>3. PICK f \in {file, Columns, Stamped, Saved} : TearDown("ERROR", f)
    BY <1>14 DEF SaveRaises
  <2>4. file'.rows = f.rows
    BY <2>3, TornRows, WrittenTypes
  <2>5. CASE f = file
    BY <1>2, <2>1, <2>4, <2>5, RowsStay
  <2>6. CASE f # file
    <3>1. f.rows = Columns.rows
      BY <2>1, <2>2, <2>3, <2>6, WrittenPoints
    <3> QED BY <2>1, <2>4, <3>1, RowIsAdded
  <2> QED BY <2>5, <2>6
<1>15. CASE Opened
  <2>1. UNCHANGED <<file, run>>
    BY <1>15 DEF Opened, AllSent, Unmoved
  <2> QED BY <1>3, <2>1
<1>16. CASE Measured
  <2>1. UNCHANGED <<file, run>>
    BY <1>16 DEF Measured, AllSent, Unmoved
  <2> QED BY <1>3, <2>1
<1>17. CASE ParkingSent
  <2>1. UNCHANGED <<file, run>>
    BY <1>17 DEF ParkingSent, AllSent, Unmoved
  <2> QED BY <1>3, <2>1
<1>18. CASE TornDown
  <2>1. file' = file /\ (run' = run \/ run' = [run EXCEPT !.on = FALSE])
    BY <1>18 DEF TornDown, Sent
  <2>2. run'.slot = run.slot /\ run'.sweep = run.sweep /\ run'.kind = run.kind
    BY <1>1, <2>1 DEF RunTypes
  <2> QED BY <1>2, <2>1, <2>2, RowsStay
<1>19. CASE TickInitiating
  <2>1. UNCHANGED <<file, run>>
    BY <1>19 DEF TickInitiating, Ticks, Unmoved, Rest, Sent
  <2> QED BY <1>3, <2>1
<1>20. CASE TickRamping
  <2>1. UNCHANGED <<file, run>>
    BY <1>20 DEF TickRamping, Ticks, Steps, Followed, Moves, Rest, Sent
  <2> QED BY <1>3, <2>1
<1>21. CASE TickGate
  <2>1. UNCHANGED <<file, run>>
    BY <1>21 DEF TickGate, Ticks, Moves, Rest, Sent
  <2> QED BY <1>3, <2>1
<1>22. CASE TickMeasuring
  <2>1. UNCHANGED <<file, run>>
    BY <1>22 DEF TickMeasuring, Ticks, Steps, Followed, Moves, Rest
  <2> QED BY <1>3, <2>1
<1>23. CASE TickSweeping
  <2>1. UNCHANGED <<file, run>>
    BY <1>23 DEF TickSweeping, Ticks, Followed, Moves, Rest, Sent
  <2> QED BY <1>3, <2>1
<1>24. CASE TickStandby
  <2>1. run' = run /\ (file' = file \/ file' = Closed(file) \/ TearDown("ERROR", file))
    BY <1>24 DEF TickStandby, Rest, Sent
  <2> QED BY <1>2, <1>3, <1>4, <2>1, RowsStay, ClosedRows
<1>25. CASE TickFinish
  <2>1. file' = file /\ (run' = run \/ run' = [run EXCEPT !.on = FALSE])
    BY <1>25 DEF TickFinish, Sent
  <2>2. run'.slot = run.slot /\ run'.sweep = run.sweep /\ run'.kind = run.kind
    BY <1>1, <2>1 DEF RunTypes
  <2> QED BY <1>2, <2>1, <2>2, RowsStay
<1>26. CASE TickPauseBoundary
  <2>1. UNCHANGED <<file, run>>
    BY <1>26 DEF TickPauseBoundary, EnterPaused, Ticks, Followed, Moves, Rest, Sent
  <2> QED BY <1>3, <2>1
<1>27. CASE TickFails
  <2>1. run' = run /\ \E end \in {"IDLE", "ERROR"} : TearDown(end, file)
    BY <1>27 DEF TickFails, Rest
  <2> QED BY <1>4, <2>1
<1>28. CASE TickHeld
  <2>1. run' = run /\ \E end \in {"IDLE", "ERROR"} : TearDown(end, file)
    BY <1>28 DEF TickHeld, Rest
  <2> QED BY <1>4, <2>1
<1>29. CASE TickHeldPaused
  <2>1. UNCHANGED <<file, run>>
    BY <1>29 DEF TickHeldPaused, Moves, Rest, Sent
  <2> QED BY <1>3, <2>1
<1>30. CASE Pause
  <2>1. UNCHANGED <<file, run>>
    BY <1>30 DEF Pause, EnterPaused, Moves, Unmoved, Rest, Sent
  <2> QED BY <1>3, <2>1
<1>31. CASE Resume
  <2>1. UNCHANGED <<file, run>>
    BY <1>31, ResumeFacts DEF Rest, Sent, Moves
  <2> QED BY <1>3, <2>1
<1>32. CASE Abort
  <2>1. run' = run /\ \E end \in {"IDLE", "ERROR"} : TearDown(end, file)
    BY <1>32 DEF Abort, Rest
  <2> QED BY <1>4, <2>1
<1>33. CASE Recover
  <2>1. UNCHANGED <<file, run>>
    BY <1>33 DEF Recover, Unmoved, Rest, Sent
  <2> QED BY <1>3, <2>1
<1>34. CASE Elapse
  <2>1. UNCHANGED <<file, run>>
    BY <1>34 DEF Elapse, World
  <2> QED BY <1>3, <2>1
<1>35. CASE \E v \in VIs : Silence(v) \/ Speak(v)
  <2>1. UNCHANGED <<file, run>>
    BY <1>35 DEF Silence, Speak, World, Calm
  <2> QED BY <1>3, <2>1
<1>36. CASE DiskFills \/ HoldTurns
  <2>1. UNCHANGED <<file, run>>
    BY <1>36, TurnsFacts DEF World
  <2> QED BY <1>3, <2>1
<1> QED BY <1>5, <1>6, <1>7, <1>8, <1>9, <1>10, <1>11, <1>12, <1>13, <1>14, <1>15, <1>16,
       <1>17, <1>18, <1>19, <1>20, <1>21, <1>22, <1>23, <1>24, <1>25, <1>26, <1>27, <1>28,
       <1>29, <1>30, <1>31, <1>32, <1>33, <1>34, <1>35, <1>36, StartFacts DEF Next, Sending,
       Ticking

-----------------------------------------------------------------------------
\* The invariant is kept by a stuttering step.
LEMMA IndStutter ==
    ASSUME TypeOK, Ind, UNCHANGED vars
    PROVE  Ind'
<1> USE DEF vars, point, schedule, cleanup, outside
<1>1. AxisIsSomewhere'
  BY DEF Ind, AxisIsSomewhere, Somewhere
<1>2. NothingYet' /\ InItsState' /\ OnlyItsSlots'
  BY DEF Ind, NothingYet, InItsState, OnlyItsSlots, Active, Phase
<1>3. Points'
  BY DEF Ind, Points, Phase
<1>4. Prepared'
  BY DEF Ind, Prepared, Opens, Level, Set, Cmd, Among
<1>5. SwitchedOff'
  BY DEF Ind, SwitchedOff, Among
<1>6. AtWork'
  BY AtWorkStill DEF Ind
<1>7. ReadingsAreTheirOwn'
  BY DEF Ind, ReadingsAreTheirOwn
<1>8. InPlace'
  BY DEF Ind, InPlace, Phase, Gated, Here, Settled
<1>9. RowsAreTheirPoints'
  BY RowsStay DEF Ind
<1> QED BY <1>1, <1>2, <1>3, <1>4, <1>5, <1>6, <1>7, <1>8, <1>9 DEF Ind

\* The invariant holds at the start.
LEMMA IndAtStart ==
    ASSUME Init
    PROVE  TypeOK /\ Ind
<1> USE DEF Init
<1>1. Settle \in Nat /\ RampSteps \in Nat /\ 0 # None
  BY TimesAssumption
<1>2. 0 .. Settle \in SUBSET Nat /\ 0 \in 0 .. Settle /\ 0 \in 0 .. RampSteps
  BY <1>1
<1>3. run \in [on : BOOLEAN, owns : BOOLEAN, kind : {"field", "imaging", "temperature"},
               sweep : Seq(Nat), slot : [1 .. 2 -> [vi : {"path", "meter"}, n : Nat]]]
  <2>1. <<NoSlot, NoSlot>> \in [1 .. 2 -> [vi : {"path", "meter"}, n : Nat]]
    BY DEF NoSlot
  <2>2. <<>> \in Seq(Nat)
    OBVIOUS
  <2> QED BY <2>1, <2>2 DEF NoRun
<1>4. TypeOK
  <2>1. /\ wait \in [on : BOOLEAN, spent : 0 .. Settle, back : States]
        /\ gates \in [left : SUBSET {"from_saturation", "settle"}, commanded : BOOLEAN,
                      since : 0 .. Settle \cup {None}]
    BY <1>2 DEF NoWait, NoGates, States
  <2>2. axis \in [goal : Levels, left : 0 .. RampSteps, at : Levels] /\ rest \in 0 .. Settle
          /\ wanted \in Levels
    BY <1>2 DEF Levels, Zero
  <2>6. state \in States
    BY DEF States
  <2>3. index \in Nat \ {0}
    <3>1. index = 1
      OBVIOUS
    <3> QED BY <3>1
  <2>10. first \in BOOLEAN /\ pausing \in BOOLEAN /\ parked \in BOOLEAN /\ armed \in BOOLEAN
    BY Zenon
  <2>7. strayed \in {"no", "wait", "gate"} /\ final \in {"IDLE", "ERROR"}
        /\ doing \in {"none", "starting", "measuring", "parking", "ending"}
    OBVIOUS
  <2>8. refused \subseteq VIs \cup {"file"} /\ mute \subseteq VIs
    OBVIOUS
  <2>9. full \in BOOLEAN /\ held \in BOOLEAN
    OBVIOUS
  <2>4. /\ DOMAIN file = {"open", "length", "rows", "stamped", "last"}
        /\ file.open \in BOOLEAN /\ {file.length, file.last} \subseteq Nat
             /\ file.stamped \subseteq Nat
        /\ DOMAIN file.rows \subseteq Nat
    BY DEF NoFile
  <2>5. setting \in [1 .. 2 -> Nat] /\ DOMAIN grid \subseteq Nat \X Nat /\ todo \in Seq(Commands)
    OBVIOUS
  <2> QED BY <1>3, <2>1, <2>2, <2>3, <2>4, <2>5, <2>6, <2>7, <2>8, <2>9, <2>10 DEF TypeOK
<1>5. AxisIsSomewhere
  BY DEF AxisIsSomewhere, Somewhere
<1>6. NothingYet /\ OnlyItsSlots /\ ReadingsAreTheirOwn /\ AtWork
  BY DEF NothingYet, OnlyItsSlots, ReadingsAreTheirOwn, AtWork
<1>7. InItsState
  BY DEF InItsState, NoRun, NoWait, Active
<1>8. Points
  <2>1. file.last = 0 /\ file.length = 0 /\ file.stamped = {} /\ ~file.open /\ 1 .. 0 = {}
    BY DEF NoFile
  <2> QED BY <2>1 DEF Points, NoRun
<1>9. Prepared /\ SwitchedOff /\ InPlace
  BY DEF Prepared, SwitchedOff, InPlace, NoRun
<1>10. RowsAreTheirPoints
  BY DEF RowsAreTheirPoints, NoFile
<1> QED BY <1>4, <1>5, <1>6, <1>7, <1>8, <1>9, <1>10 DEF Ind

\* The invariant is inductive.
LEMMA IndStep ==
    ASSUME TypeOK, Ind, [Next]_vars
    PROVE  TypeOK' /\ Ind'
<1>1. CASE Next
  <2>1. TypeOK' /\ AxisIsSomewhere'
    BY <1>1, TypeStep DEF Ind
  <2> QED BY <1>1, <2>1, NothingStep, StateStep, SlotsStep, PointsStep, PreparedStep,
     SwitchedOffStep, WorkStep,
             ReadingsStep, PlaceStep, RowsStep DEF Ind
<1>2. CASE UNCHANGED vars
  BY <1>2, IndStutter, TypeStutter
<1> QED BY <1>1, <1>2

\* The inductive invariant holds in every behaviour.
THEOREM Correct == Spec => [](TypeOK /\ Ind)
<1>1. Init => TypeOK /\ Ind
  BY IndAtStart
<1>2. (TypeOK /\ Ind) /\ [Next]_vars => (TypeOK /\ Ind)'
  BY IndStep
<1> QED BY <1>1, <1>2, PTL DEF Spec

\* Every variable keeps its type.
THEOREM TypesAreKept == Spec => []TypeOK
BY Correct, PTL

\* Each row of a data file is the point it says it is, for every sweep, reading
\* loop, settling time and duration of a ramp.
THEOREM RowsAreTrue == Spec => []RowsAreTheirPoints
<1>1. Ind => RowsAreTheirPoints
  BY DEF Ind
<1> QED BY <1>1, Correct, PTL

\* What a reader counts in a data file are whole points.
THEOREM FilesAreWhole == Spec => []FilesHoldWholePoints
<1>1. TypeOK /\ Ind => FilesHoldWholePoints
  <2> SUFFICES ASSUME TypeOK, Ind PROVE FilesHoldWholePoints
    OBVIOUS
  <2>1. file.last \in Nat /\ file.length \in Nat
    BY DEF TypeOK
  <2>2. /\ file.last <= file.length /\ file.stamped \in {1 .. file.last, 1 .. file.last + 1}
        /\ ~file.open => file.stamped = 1 .. file.last
    BY DEF Ind, Points
  <2>3. \A n, m \in Nat : n <= m => (1 .. n) \cap (1 .. m) = 1 .. n
    OBVIOUS
  <2>4. \A n, m \in Nat : n <= m => (1 .. n + 1) \cap (1 .. m) \in {1 .. n, 1 .. n + 1}
    <3> SUFFICES ASSUME NEW n \in Nat, NEW m \in Nat, n <= m
                          PROVE (1 .. n + 1) \cap (1 .. m) \in {1 .. n, 1 .. n + 1}
      OBVIOUS
    <3>1. CASE n = m
      <4>1. (1 .. n + 1) \cap (1 .. m) = 1 .. n
        BY <3>1
      <4> QED BY <4>1
    <3>2. CASE n + 1 <= m
      <4>1. (1 .. n + 1) \cap (1 .. m) = 1 .. n + 1
        BY <3>2
      <4> QED BY <4>1
    <3> QED BY <3>1, <3>2
  <2> QED BY <2>1, <2>2, <2>3, <2>4 DEF FilesHoldWholePoints, Readable
<1> QED BY <1>1, Correct, PTL

\* A run ends only where its cleanup is done, or where it is done itself.
LEMMA WhereARunEnds ==
    ASSUME TypeOK, Ind, Next
    PROVE  run.on /\ ~run'.on => TornDown \/ TickFinish
<1>1. ASSUME NEW p \in Plans, NEW o \in BOOLEAN, Started(p), StartedRun(p, o) PROVE (run.on
               /\ ~run'.on => TornDown \/ TickFinish)
  BY <1>1 DEF StartedRun
<1>2. CASE SendInitiate
  BY <1>2, Zenon DEF SendInitiate, Sends, IsNext, Undisturbed, schedule, cleanup, outside, point
<1>3. CASE SendRamp
  BY <1>3, Zenon DEF SendRamp, Sends, IsNext, Undisturbed, Moves, schedule, cleanup, outside,
     point
<1>4. CASE SendSet
  BY <1>4, Zenon DEF SendSet, Sends, IsNext, Undisturbed, schedule, cleanup, outside, point
<1>5. CASE SendArm
  BY <1>5, Zenon DEF SendArm, Sends, IsNext, Undisturbed, schedule, cleanup, outside, point
<1>6. CASE SendOff
  BY <1>6, Zenon DEF SendOff, Sends, IsNext, Undisturbed, Moves, schedule, cleanup, outside,
     point
<1>7. CASE SendRead
  BY <1>7, Zenon DEF SendRead, IsNext, Undisturbed, schedule, cleanup, outside, point
<1>8. CASE SendSave
  BY <1>8, Zenon DEF SendSave, Sends, IsNext, Undisturbed, schedule, cleanup, outside, point
<1>9. CASE SendRaises
  BY <1>9, Zenon DEF SendRaises, Raises, TearDown, schedule, cleanup, outside, point
<1>10. CASE SaveRaises
  BY <1>10, Zenon DEF SaveRaises, Raises, TearDown, schedule, cleanup, outside, point
<1>11. CASE Opened
  BY <1>11, Zenon DEF Opened, AllSent, Unmoved, schedule, cleanup, outside, point
<1>12. CASE Measured
  BY <1>12, Zenon DEF Measured, AllSent, Unmoved, schedule, cleanup, outside, point
<1>13. CASE ParkingSent
  BY <1>13, Zenon DEF ParkingSent, AllSent, Unmoved, schedule, cleanup, outside, point
<1>14. CASE TornDown
  BY <1>14
<1>15. CASE TickInitiating
  BY <1>15, Zenon DEF TickInitiating, Ticks, Unmoved, Rest, Sent, schedule, cleanup, outside,
     point
<1>16. CASE TickRamping
  BY <1>16, Zenon DEF TickRamping, Ticks, Steps, Followed, Moves, Rest, Sent, schedule,
     cleanup, outside, point
<1>17. CASE TickGate
  BY <1>17, Zenon DEF TickGate, Ticks, Moves, Rest, Sent, schedule, cleanup, outside, point
<1>18. CASE TickMeasuring
  BY <1>18, Zenon DEF TickMeasuring, Ticks, Steps, Followed, Moves, Rest, schedule, cleanup,
     outside, point
<1>19. CASE TickSweeping
  BY <1>19, Zenon DEF TickSweeping, Ticks, Followed, Moves, Rest, Sent, schedule, cleanup,
     outside, point
<1>20. CASE TickStandby
  BY <1>20, Zenon DEF TickStandby, Ticks, Steps, Followed, Moves, Rest, Sent, TearDown,
     schedule, cleanup, outside, point
<1>21. CASE TickFinish
  BY <1>21
<1>22. CASE TickPauseBoundary
  BY <1>22, Zenon DEF TickPauseBoundary, EnterPaused, Ticks, Followed, Moves, Rest, Sent,
     schedule, cleanup, outside, point
<1>23. CASE TickFails
  BY <1>23, Zenon DEF TickFails, TearDown, Unmoved, Rest, schedule, cleanup, outside, point
<1>24. CASE TickHeld
  BY <1>24, Zenon DEF TickHeld, TearDown, Unmoved, Moves, Rest, schedule, cleanup, outside,
     point
<1>25. CASE TickHeldPaused
  BY <1>25, Zenon DEF TickHeldPaused, Moves, Rest, Sent, schedule, cleanup, outside, point
<1>26. CASE Pause
  BY <1>26, Zenon DEF Pause, EnterPaused, Moves, Unmoved, Rest, Sent, schedule, cleanup,
     outside, point
<1>27. CASE Resume
  BY <1>27, ResumeFacts, Zenon DEF Rest, Sent, Moves, schedule, cleanup, outside, point
<1>28. CASE Abort
  BY <1>28, Zenon DEF Abort, TearDown, Unmoved, Rest, schedule, cleanup, outside, point
<1>29. CASE Recover
  BY <1>29, Zenon DEF Recover, Unmoved, Rest, Sent, schedule, cleanup, outside, point
<1>30. CASE Elapse
  BY <1>30, Zenon DEF Elapse, World, schedule, cleanup, outside, point
<1>31. CASE \E v \in VIs : Silence(v) \/ Speak(v)
  BY <1>31, Zenon DEF Silence, Speak, World, Calm, schedule, cleanup, outside, point
<1>32. CASE DiskFills \/ HoldTurns
  BY <1>32, TurnsFacts, Zenon DEF World, schedule, cleanup, outside, point
<1> QED BY <1>1, <1>2, <1>3, <1>4, <1>5, <1>6, <1>7, <1>8, <1>9, <1>10, <1>11, <1>12, <1>13,
       <1>14, <1>15, <1>16, <1>17, <1>18, <1>19, <1>20, <1>21, <1>22, <1>23, <1>24, <1>25,
       <1>26, <1>27, <1>28, <1>29, <1>30, <1>31, <1>32, StartFacts DEF Next, Sending, Ticking

\* A run leaves the instruments safe, whatever has gone wrong: of the two places
\* where a run ends, the commands of a cleanup have all been sent or have been
\* refused, and those of a parking have all been sent.
THEOREM RunsAreLeftSafe == Spec => LeftSafe
<1> DEFINE Safe == run.on /\ ~run'.on =>
        /\ armed => refused \cap {"file", "meter"} # {}
        /\ (\E s \in 1 .. 2 : run.slot[s].vi = "path" /\ setting[s] # 0) => refused # {}
        /\ (state = "STANDBY" /\ doing = "none" /\ run.kind # "temperature") =>
              axis.at = Zero \/ axis.goal = None
<1>1. TypeOK /\ Ind /\ [Next]_vars => [Safe]_vars
  <2> SUFFICES ASSUME TypeOK, Ind, Next, run.on, ~run'.on PROVE Safe
    OBVIOUS
  <2>1. CASE TornDown
    <3>1. doing = "ending" /\ todo = <<>>
      BY <2>1 DEF TornDown
    <3>2. ToSwitchOff /\ Among(todo) = {}
      BY <3>1, SwitchedOffParts, FewInSeq DEF Ind
    <3> QED BY <3>1, <3>2 DEF ToSwitchOff, PathIsSet
  <2>2. CASE TickFinish
    <3>1. doing = "none" /\ parked /\ RampDone(axis)
      BY <2>2 DEF TickFinish, Ticks, Between, Sent
    <3>2. IsOff
      BY <3>1, SwitchedOffParts DEF Ind
    <3>3. axis.goal # None => axis.at = axis.goal
      BY <3>1 DEF Ind, AxisIsSomewhere, Somewhere, RampDone
    <3> QED BY <3>1, <3>2, <3>3 DEF IsOff, PathIsSet
  <2> QED BY <2>1, <2>2, WhereARunEnds
<1>2. Spec => [][Safe]_vars
  BY <1>1, Correct, PTL DEF Spec
<1> QED BY <1>2 DEF LeftSafe

=============================================================================
