------------------------------- MODULE Ramps -------------------------------
(***************************************************************************)
(* The ramps of the Virtual Instruments, and the safety holds that stand   *)
(* them down: the ramp generators and ramp_status() of a magnet without    *)
(* switch heater, a temperature controller and a stage axis                *)
(* (i2as/virtual_instruments), the provenance bit behind standby_status(), *)
(* Station's advance_ramps and stop_ramps, and the tick of the engine that *)
(* enforces holds and steps every ramp (i2as/core/orchestrator.py).        *)
(*                                                                         *)
(* A field, a temperature and a position are levels.  A magnet's segments  *)
(* are one level each; a supply moves by itself to the setpoint it was     *)
(* given.  A VI of mute does not answer: a call that needs it raises.      *)
(***************************************************************************)
EXTENDS Naturals, FiniteSets

CONSTANTS VIs,
          Kinds,        \* what each VI may be: "magnet", "heater" or "stage"
          Top,          \* the highest level of each VI
          Goals,        \* the levels that are commanded of it, and it is found at
          Flagged,      \* the VIs that have a safety flag of severity hold
          MaxAttempts,  \* hold_enforcement_max_attempts
          MaxUpsets,    \* bound: instruments that fall silent, limits passed, emergencies
          MaxStarts,      \* bound: runs started, acknowledges
          MaxActions,   \* bound: manual actions
          None

AllKinds == {"magnet", "heater", "stage"}
ASSUME KindAssumption == Flagged \subseteq VIs /\ Kinds \in [VIs -> SUBSET AllKinds]
ASSUME LevelsAssumption ==
    /\ Top \in [VIs -> Nat] /\ Goals \in [VIs -> SUBSET Nat] /\ None \notin Nat
    /\ \A v \in VIs : Goals[v] \subseteq 0 .. Top[v]
ASSUME AttemptsAssumption == MaxAttempts \in Nat \ {0}
ASSUME BoundsAssumption == MaxUpsets \in Nat /\ MaxStarts \in Nat /\ MaxActions \in Nat

Levels(v)  == 0 .. Top[v]
Targets(S) == {f \in [S -> UNION {Goals[v] : v \in S}] : \A v \in S : f[v] \in Goals[v]}
Plan(old, f) == [v \in VIs |-> IF v \in DOMAIN f THEN f[v] ELSE old[v]]

VARIABLES
    vi,        \* of each VI its kind, generator, target, setpoint, value and bits
    mute,      \* the instruments that do not answer
    over,      \* the VIs whose readings are beyond a limit of severity hold
    engine,    \* the engine's state, without the gates, INITIATING and STANDBY
    run,       \* [on, scope, last, wanted, back] of the run in flight
    comm, flags, \* the VIs with a recorded comm, safety condition
    unlocked,  \* the keys of _hold_override_until that lie ahead
    attempts,  \* _hold_enforcement_attempts
    recent,    \* the VIs whose last attempt is less than the interval ago
    escalated, \* _hold_enforcement_escalated
    pc,        \* "loop" between ticks, "machine" after the holds of a tick
    upsets, starts, actions

conds  == <<comm, flags>>
holds  == <<attempts, recent, escalated>>
bounds == <<upsets, starts, actions>>
vars   == <<vi, mute, over, engine, run, conds, unlocked, holds, pc, bounds>>
-----------------------------------------------------------------------------
(* One VI.  gen is none, active, spent (the generator has returned), dead   *)
(* (it has raised) or lapsed (dead, and found exhausted since).             *)

Towards(a, b) == IF a < b THEN a + 1 ELSE IF a > b THEN a - 1 ELSE a

\* _ramp_generator of each kind, from one yield to the next.
MagnetStep(r) ==
    IF r.at = r.goal THEN [r EXCEPT !.gen = "spent"]
    ELSE IF r.at # r.point THEN r
    ELSE [r EXCEPT !.point = Towards(r.at, r.goal)]
HeaterStep(r) ==
    LET next == Towards(r.point, r.goal)
    IN  [r EXCEPT !.point = next, !.gen = IF next = r.goal THEN "spent" ELSE "active"]
StageStep(r) == IF r.at = r.point THEN [r EXCEPT !.gen = "spent"] ELSE r

Step(r) ==
    CASE r.kind = "magnet" -> MagnetStep(r)
      [] r.kind = "heater" -> HeaterStep(r)
      [] r.kind = "stage"  -> StageStep(r)

StartRamp(r, target, answers) ==
    LET begun == [r EXCEPT !.goal = target, !.sent = FALSE]
    IN  IF ~answers THEN [begun EXCEPT !.gen = "dead"]
        ELSE CASE r.kind = "magnet" -> MagnetStep([begun EXCEPT !.gen = "active"])
               [] r.kind = "heater" -> [begun EXCEPT !.point = r.at,
                                      !.gen = IF r.at = target THEN "spent" ELSE "active"]
               [] r.kind = "stage"  -> StageStep([begun EXCEPT !.gen = "active", !.point = target])

\* stop_ramp: a magnet that does not answer keeps its target, and its course.
StopRamp(r, answers) ==
    [r EXCEPT !.gen = "none", !.sent = FALSE,
              !.goal = IF r.kind = "magnet" /\ ~answers THEN @ ELSE None,
              !.point = IF answers THEN r.at ELSE @]

\* standby(): to zero field, heater off, or stopped.  A magnet's start_ramp and
\* a stage's stop_ramp revoke the bit before they reach the hardware.
Standby(r, answers) ==
    CASE r.kind = "magnet" -> [StartRamp(r, 0, answers) EXCEPT !.sent = answers]
      [] r.kind = "heater" -> IF answers THEN [r EXCEPT !.auto = FALSE, !.sent = TRUE] ELSE r
      [] r.kind = "stage"  -> [StopRamp(r, answers) EXCEPT !.sent = answers]

\* initiate(): the heater regulates where it is.
Initiate(r, answers) ==
    IF r.kind = "heater" /\ answers THEN [r EXCEPT !.auto = TRUE, !.point = r.at] ELSE r

Exhausted(r) == r.gen \in {"spent", "lapsed"}
Status(r) ==
    CASE r.gen = "none" -> "IDLE"
      [] r.gen \in {"active", "dead"} -> "RAMPING"
      [] OTHER -> LET arrived == IF r.kind = "magnet" THEN r.at = r.point ELSE r.at = r.goal
                  IN  IF arrived THEN "TARGET_REACHED" ELSE "RAMPING"

\* advance_ramp, of a VI that is RAMPING.
Advance(r, answers) ==
    CASE r.gen = "active" -> IF answers THEN Step(r) ELSE [r EXCEPT !.gen = "dead"]
      [] r.gen = "dead"   -> [r EXCEPT !.gen = "lapsed"]
      [] OTHER -> r
-----------------------------------------------------------------------------
(* The station.                                                             *)

Answers(v) == v \notin mute
Ramping == {v \in VIs : Status(vi[v]) = "RAMPING"}

\* The VIs whose ramp_status() or advance_ramp() has to reach the instrument.
Polled == {v \in VIs : vi[v].gen = "active" \/ Exhausted(vi[v])}

\* standby_status(): one that cannot tell is taken to be away.
StandbyStatus(v) ==
    IF ~vi[v].sent \/ (Exhausted(vi[v]) /\ v \in mute) THEN "away"
    ELSE IF v \in Ramping THEN "converging" ELSE "reached"

Advanced_InScope(S) ==
    [v \in VIs |-> IF v \in S \cap (IF run.on THEN run.scope ELSE VIs)
                   THEN Advance(vi[v], Answers(v)) ELSE vi[v]]
Advanced(S) == [v \in VIs |-> IF v \in S THEN Advance(vi[v], Answers(v)) ELSE vi[v]]

Stopped(f, S) == [v \in VIs |-> IF v \in S THEN StopRamp(f[v], Answers(v)) ELSE f[v]]
Dispatched(f, T, wanted) ==
    [v \in VIs |-> IF v \in T THEN StartRamp(f[v], wanted[v], Answers(v)) ELSE f[v]]

\* What is dispatched of T when a VI of it does not answer.
Partly(T) == {D \cup {x} : D \in SUBSET (T \ mute), x \in T \cap mute}

Scope_Everything == VIs
Scope == IF run.on THEN run.scope ELSE VIs

Held == comm \cup flags
Key(v) == <<v, IF v \in comm THEN "comm" ELSE "safety">>
Unlocked(v) == v \in Held /\ Key(v) \in unlocked

NoRun == [on |-> FALSE, scope |-> {}, last |-> {}, wanted |-> [v \in VIs |-> None], back |-> None]
AtRest(k, at) == [kind |-> k, gen |-> "none", goal |-> None, point |-> at, at |-> at, sent |-> FALSE, auto |-> FALSE]

Init ==
    /\ \E found \in Targets(VIs) : \E k \in [VIs -> AllKinds] :
         (\A v \in VIs : k[v] \in Kinds[v]) /\ vi = [v \in VIs |-> AtRest(k[v], found[v])]
    /\ mute = {} /\ over = {} /\ engine = "IDLE" /\ run = NoRun
    /\ comm = {} /\ flags = {} /\ unlocked = {}
    /\ attempts = [v \in VIs |-> 0] /\ recent = {} /\ escalated = {}
    /\ pc = "loop" /\ upsets = 0 /\ starts = 0 /\ actions = 0
-----------------------------------------------------------------------------
(* The instruments, and time.                                               *)

Moved(r) ==
    IF r.kind = "heater" /\ ~r.auto THEN [r EXCEPT !.at = Towards(@, 0)]
    ELSE [r EXCEPT !.at = Towards(@, r.point)]
Move(v) ==
    /\ vi' = [vi EXCEPT ![v] = Moved(@)] /\ vi' # vi
    /\ UNCHANGED <<mute, over, engine, run, conds, unlocked, holds, pc, bounds>>

Upset == upsets < MaxUpsets /\ upsets' = upsets + 1
FallSilent(v) ==
    /\ Upset /\ v \notin mute /\ mute' = mute \cup {v}
    /\ UNCHANGED <<vi, over, engine, run, conds, unlocked, holds, pc, starts, actions>>
AnswerAgain(v) ==
    /\ v \in mute /\ mute' = mute \ {v}
    /\ UNCHANGED <<vi, over, engine, run, conds, unlocked, holds, pc, bounds>>

GoOver(v) ==
    /\ Upset /\ v \in Flagged \ over /\ over' = over \cup {v}
    /\ UNCHANGED <<vi, mute, engine, run, conds, unlocked, holds, pc, starts, actions>>
ComeBack(v) ==
    /\ v \in over /\ over' = over \ {v}
    /\ UNCHANGED <<vi, mute, engine, run, conds, unlocked, holds, pc, bounds>>

IntervalPasses(v) ==
    /\ v \in recent /\ recent' = recent \ {v}
    /\ UNCHANGED <<vi, mute, over, engine, run, conds, unlocked, attempts, escalated, pc, bounds>>
OverridesExpire ==
    /\ unlocked # {} /\ unlocked' = {}
    /\ UNCHANGED <<vi, mute, over, engine, run, conds, holds, pc, bounds>>
-----------------------------------------------------------------------------
(* Commands.                                                                *)

Start == starts < MaxStarts /\ starts' = starts + 1
Act == actions < MaxActions /\ actions' = actions + 1
Command == pc = "loop" /\ UNCHANGED <<starts, actions>>

FailToError(f) ==
    /\ vi' = Stopped(f, Scope) /\ engine' = "ERROR" /\ run' = NoRun

\* A run that ramps the VIs of S, from IDLE or over a manual ramp.
StartRun(S, wanted) ==
    /\ pc = "loop" /\ Start
    /\ engine = "IDLE" \/ (engine = "RAMPING" /\ ~run.on)
    /\ S \cap Held = {}
    /\ LET begun == [NoRun EXCEPT !.on = TRUE, !.scope = S, !.last = S,
                        !.wanted = Plan(@, wanted)]
           halted == IF engine = "RAMPING" THEN Stopped(vi, VIs) ELSE vi
       IN  IF S \cap mute = {}
           THEN /\ vi' = Dispatched(halted, S, begun.wanted)
                /\ engine' = "RAMPING" /\ run' = begun
           ELSE \E D \in Partly(S) :
                  /\ vi' = Stopped(Dispatched(halted, D, begun.wanted), S)
                  /\ engine' = "ERROR" /\ run' = NoRun
    /\ UNCHANGED <<mute, over, conds, unlocked, holds, pc, upsets, actions>>

\* abort_procedure: the run's VIs are held where they are.
AbortRun ==
    /\ Command /\ run.on
    /\ vi' = Stopped(vi, Scope) /\ engine' = "IDLE" /\ run' = NoRun
    /\ UNCHANGED <<mute, over, conds, unlocked, holds, pc, upsets>>

Pause ==
    /\ Command /\ run.on /\ engine \in {"RAMPING", "SWEEPING"}
    /\ vi' = Stopped(vi, Scope)
    /\ engine' = "PAUSED" /\ run' = [run EXCEPT !.back = engine]
    /\ UNCHANGED <<mute, over, conds, unlocked, holds, pc, upsets>>

Resume ==
    /\ pc = "loop" /\ engine = "PAUSED"
    /\ LET T == IF run.back = "RAMPING" THEN run.last ELSE {}
       IN  IF T \cap mute = {}
           THEN vi' = Dispatched(vi, T, run.wanted) /\ engine' = run.back
           ELSE \E D \in Partly(T) : vi' = Dispatched(vi, D, run.wanted) /\ engine' = engine
    /\ UNCHANGED <<mute, over, run, conds, unlocked, holds, pc, bounds>>

\* _manual_action_admission, without the emergency's own override.
Admitted(v) ==
    /\ v \notin comm
    /\ IF v \in Held THEN Unlocked(v) /\ engine \notin {"EMERGENCY", "ERROR"}
       ELSE \/ engine = "IDLE" \/ (engine = "RAMPING" /\ ~run.on)
            \/ run.on /\ v \notin run.scope

\* A queued action, as the tick executes it.
ManualAction(v, new) ==
    /\ pc = "machine" /\ Act /\ Admitted(v)
    /\ vi' = [vi EXCEPT ![v] = new]
    /\ UNCHANGED <<mute, over, engine, run, conds, unlocked, holds, pc, upsets, starts>>
SetAction(v, target)  == ManualAction(v, StartRamp(vi[v], target, Answers(v)))
StandbyAction(v)      == ManualAction(v, Standby(vi[v], Answers(v)))
InitiateAction(v)     == ManualAction(v, Initiate(vi[v], Answers(v)))

StopOne(v) ==
    /\ Command /\ Admitted(v)
    /\ vi' = Stopped(vi, {v})
    /\ UNCHANGED <<mute, over, engine, run, conds, unlocked, holds, pc, upsets>>

Acknowledge ==
    /\ pc = "loop" /\ Start /\ engine # "EMERGENCY" /\ Held # {}
    /\ unlocked' = unlocked \cup {Key(v) : v \in Held}
    /\ UNCHANGED <<vi, mute, over, engine, run, conds, holds, pc, upsets, actions>>

\* recover_from_error, and acknowledge of an emergency whose cause is gone.
Recover ==
    /\ pc = "loop" /\ engine \in {"ERROR", "EMERGENCY"} /\ engine' = "IDLE"
    /\ UNCHANGED <<vi, mute, over, run, conds, unlocked, holds, pc, bounds>>
-----------------------------------------------------------------------------
(* The tick: the conditions, and the holds.                                 *)

\* _enter_emergency.
TickEmergency ==
    /\ pc = "loop" /\ engine # "EMERGENCY" /\ Upset
    /\ comm' = mute /\ flags' = over
    /\ LET f == Stopped(vi, Scope)
       IN  vi' = [v \in VIs |-> Standby(f[v], Answers(v))]
    /\ engine' = "EMERGENCY" /\ run' = NoRun /\ unlocked' = {}
    /\ UNCHANGED <<mute, over, holds, pc, starts, actions>>

\* _enforce_safety_holds.  Of the held VIs, those of open are unlocked; the
\* others are told to stand down if they are away and were not told just now.
Away(held, open) == {v \in held \ open : StandbyStatus(v) = "away"}
Due_Once(held, open) == {v \in Away(held, open) \ recent : attempts[v] = 0}
Due(held, open) == Away(held, open) \ recent
StoodDown(S) ==
    [v \in VIs |-> IF v \in S THEN Standby(vi[v], Answers(v)) ELSE vi[v]]

\* The bookkeeping is dropped for a VI that is not held, or not away; what an
\* unlocked one has is kept.
Kept_OnlyLocked(held, open) == Away(held, open)
Kept(held, open) == Away(held, open) \cup (held \cap open)

\* Counted up to the limit.
Raised(v, due) ==
    IF v \in due \cap mute /\ attempts[v] < MaxAttempts THEN attempts[v] + 1 ELSE attempts[v]

Bookkeeping(held, open) ==
    LET kept == Kept(held, open)
        due  == Due(held, open)
    IN  /\ attempts' = [v \in VIs |-> IF v \in kept THEN Raised(v, due) ELSE 0]
        /\ recent' = (recent \cap kept) \cup due
        /\ escalated' = {v \in kept :
               v \in escalated \/ (v \in due \cap mute /\ attempts'[v] >= MaxAttempts)}

\* A hold on a VI that the run in flight watches fails the run alone.
TickHolds ==
    /\ pc = "loop"
    /\ comm' = mute /\ flags' = over
    /\ LET held == comm' \cup flags'
           open == {v \in held : <<v, IF v \in comm' THEN "comm" ELSE "safety">> \in unlocked}
           told == StoodDown(Due(held, open))
       IN  /\ Bookkeeping(held, open)
           /\ IF engine \in {"RAMPING", "MEASURING", "SWEEPING"} /\ run.on /\ run.scope \cap held # {}
              THEN /\ vi' = Stopped(told, Scope)
                   /\ engine' = "IDLE" /\ run' = NoRun /\ pc' = pc
              ELSE /\ vi' = told /\ pc' = "machine"
                   /\ UNCHANGED <<engine, run>>
    /\ UNCHANGED <<mute, over, unlocked, bounds>>
-----------------------------------------------------------------------------
(* The tick: the state machine.  It steps every ramp, and waits for those    *)
(* of the run in flight; without a run, for all of them.                     *)

Advancing == {"IDLE", "RAMPING", "MEASURING", "SWEEPING"}
Machine == pc = "machine" /\ UNCHANGED <<mute, over, conds, unlocked, holds, bounds>>

\* One instrument does not answer: the ramps before it have been advanced.
MachineRaises ==
    /\ Machine /\ engine \in Advancing
    /\ \E v \in Polled \cap mute : \E S \in SUBSET (VIs \ mute) :
           FailToError(Advanced((S \cap Ramping) \cup {v}))
    /\ pc' = "loop"

Stepped == Polled \cap mute = {} /\ vi' = Advanced(Ramping)

\* A manual ramp takes an idle engine to RAMPING, where it is advanced again.
IdleTick ==
    /\ Machine /\ engine = "IDLE" /\ Stepped
    /\ IF Ramping = {} THEN engine' = engine /\ pc' = "loop"
       ELSE engine' = "RAMPING" /\ pc' = pc
    /\ UNCHANGED run

\* At the setpoint the run waits for a while, or for its gates, and measures.
RampingTick ==
    /\ Machine /\ engine = "RAMPING" /\ Stepped
    /\ IF Ramping \cap Scope # {} THEN engine' = engine
       ELSE IF run.on THEN engine' \in {engine, "MEASURING"}
       ELSE engine' = "IDLE"
    /\ pc' = "loop" /\ UNCHANGED run

MeasuringTick ==
    /\ Machine /\ engine = "MEASURING" /\ Stepped
    /\ engine' = "SWEEPING" /\ pc' = "loop" /\ UNCHANGED run

\* The next step ramps some of the run's VIs; after the last the run is over.
SweepingTick ==
    /\ Machine /\ engine = "SWEEPING" /\ Polled \cap mute = {}
    /\ \/ /\ vi' = Advanced(Ramping) /\ engine' = "IDLE" /\ run' = NoRun
       \/ \E T \in SUBSET run.scope \ {{}} : \E wanted \in Targets(T) :
            /\ LET next == [run EXCEPT !.last = T, !.wanted = Plan(@, wanted)]
               IN  IF T \cap mute = {}
                   THEN /\ vi' = Dispatched(Advanced(Ramping), T, next.wanted)
                        /\ engine' = "RAMPING" /\ run' = next
                   ELSE \E D \in Partly(T) :
                          FailToError(Dispatched(Advanced(Ramping), D, next.wanted))
    /\ pc' = "loop"

\* PAUSED, ERROR and EMERGENCY leave the hardware alone.
RestingTick ==
    /\ Machine /\ engine \notin Advancing
    /\ pc' = "loop" /\ UNCHANGED <<vi, over, engine, run>>

TickMachine ==
    \/ MachineRaises \/ IdleTick \/ RampingTick \/ MeasuringTick \/ SweepingTick
    \/ RestingTick

Operator ==
    \/ \E S \in SUBSET VIs : \E wanted \in Targets(S) : StartRun(S, wanted)
    \/ AbortRun \/ Pause \/ Resume \/ Acknowledge \/ Recover
    \/ \E v \in VIs : StopOne(v) \/ StandbyAction(v) \/ InitiateAction(v)
    \/ \E v \in VIs : \E target \in Goals[v] : SetAction(v, target)

Next ==
    \/ \E v \in VIs : Move(v) \/ FallSilent(v) \/ AnswerAgain(v)
    \/ \E v \in VIs : GoOver(v) \/ ComeBack(v) \/ IntervalPasses(v)
    \/ OverridesExpire \/ Operator
    \/ TickEmergency \/ TickHolds \/ TickMachine

Spec == Init /\ [][Next]_vars

\* The timer keeps firing, supplies move, and the interval passes.
Fairness ==
    /\ WF_vars(TickHolds \/ TickMachine)
    /\ \A v \in VIs : WF_vars(Move(v)) /\ WF_vars(IntervalPasses(v))
FairSpec == Spec /\ Fairness
-----------------------------------------------------------------------------
\* While a held VI stays away its failed attempts are not forgotten, whatever is
\* acknowledged meanwhile, and it is escalated once: when they reach the limit.
EpisodeIsNotForgotten ==
    [][\A v \in VIs :
         /\ v \in (comm \cup flags) \cap (comm' \cup flags')
         /\ StandbyStatus(v) = "away" /\ StandbyStatus(v)' = "away"
         => attempts'[v] >= attempts[v] /\ (v \in escalated => v \in escalated')]_vars

\* What the end, the failure or the pause of a run stops are its own ramps: one
\* beside it goes on, unless its VI is held and stood down in the same tick.
OthersKeepRamping ==
    [][run.on /\ engine' \notin {engine, "EMERGENCY"} =>
         \A v \in VIs \ (run.scope \cup comm' \cup flags') :
             vi'[v].gen = "none" => vi[v].gen = "none"]_vars

\* A ramp does not freeze while the engine steps ramps: its generator ends.
Steps == engine \in Advancing
RampsEnd ==
    []<>(Steps /\ pc = "machine") => \A v \in VIs : []<>(vi[v].gen # "active")

\* A VI that stays held, and locked, keeps being stood down, or is escalated: a
\* lost or undone command is repeated, and never without end in silence.
HoldIsAnswered ==
    \A v \in VIs : <>[](v \in Held /\ ~Unlocked(v)) =>
        []<>(StandbyStatus(v) # "away" \/ v \in escalated)
=============================================================================
