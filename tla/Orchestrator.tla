---------------------------- MODULE Orchestrator ----------------------------
(***************************************************************************)
(* The engine of I2AS (src/i2as/core/orchestrator.py): the one writer of   *)
(* the station's hardware, a state machine advanced by a Qt timer tick,    *)
(* and the commands that the GUI, agents and spooled files send it.        *)
(*                                                                         *)
(* Everything runs on one thread, so a command handler or a tick is never  *)
(* interrupted.  pc is the place that thread is at: a command is one step  *)
(* of pc = "loop"; a tick is a sequence of steps, one per block of         *)
(* _tick_body, during which no command arrives (a spooled one is taken     *)
(* from inside the tick).  A handler that ends by calling run_queue goes   *)
(* through "chain" and "return": the nested call, then the rest.           *)
(*                                                                         *)
(* Abstracted: the wait at a setpoint and the settling gates take any      *)
(* time; a run's data, parameters, status messages and events are left     *)
(* out; the throttle of the hold enforcement may hold back any VI.  Only   *)
(* rampable system VIs are modelled.  The run manifest is not kept: it is  *)
(* set and cleared with run.proc in every handler.                         *)
(***************************************************************************)
EXTENDS Integers, Sequences

CONSTANTS
    VIs,            \* the rampable system VIs
    Registry,       \* the VIs in the order of the station's registry
    Runs,           \* the run objects the clients will ever build
    Agents,         \* the agent actors; the other actor is the operator
    Flags,          \* the hold-severity safety flags, numbered in name order
    None,           \* Python's None
    PlanTargets,    \* PlanTargets[r]: the sets of VIs r's plans may target
    StandbyTargets, \* StandbyTargets[r]: those its standby plan may target
    Claims,         \* Claims[r]: claimed_vi_names(), None to claim everything
    Tolerates,      \* Tolerates[r]: tolerated_safety_flags
    Affects,        \* Affects[f]: the VIs concerned with flag f
    Gated,          \* the runs that have settling gates
    Commands,       \* the commands the clients send
    Disturbances,   \* what may go wrong around the engine
    RampSteps,      \* advances a ramp needs
    QueueBound,     \* bound: procedures queued at once
    GuiBound,       \* bound: manual actions queued at once
    SpoolBound      \* bound: spooled requests taken by one tick

operator == "operator"
Actors == {operator} \cup Agents

ASSUME TablesAssumption ==
    /\ Flags \subseteq Nat
    /\ Registry \in Seq(VIs)
    /\ PlanTargets \in [Runs -> SUBSET SUBSET VIs]
    /\ StandbyTargets \in [Runs -> SUBSET SUBSET VIs]
    /\ Claims \in [Runs -> (SUBSET VIs) \cup {None}]
    /\ Tolerates \in [Runs -> SUBSET Flags]
    /\ Affects \in [Flags -> SUBSET VIs]
    /\ Gated \subseteq Runs
ASSUME NoneAssumption == None \notin Runs \cup Actors
ASSUME BoundsAssumption ==
    /\ RampSteps \in Nat \ {0}
    /\ QueueBound \in Nat /\ GuiBound \in Nat /\ SpoolBound \in Nat

VARIABLES
    state,      \* _state
    run,        \* the fields that describe the run in flight
    prePause,   \* _pre_pause_state
    nextOwner,  \* _next_run_owner
    queue,      \* _procedure_queue with _queued_actors
    gui,        \* _gui_action_queue
    monitoring, \* _monitoring
    closed,     \* _run_folder = "": no experiment is open
    envelope,   \* _session_envelope is set
    gate,       \* _agent_gate is ACTIVE
    comm,       \* the VIs under a comm condition (stale or disconnected)
    flags,      \* the flags with a recorded hold condition
    critical,   \* a critical safety condition is recorded
    breach,     \* the cached readings lie outside the envelope, if one is set
    eOverride,  \* _emergency_override_until lies ahead
    hOverride,  \* the condition keys whose _hold_override_until lies ahead
    ramp,       \* ramp[v]: advances v's ramp still needs, 0 when not RAMPING
    standby,    \* the VIs whose last motion command was standby()
    pc,         \* where the engine's thread is
    call,       \* the handler that is inside a nested run_queue
    spooled,    \* the spooled requests this tick has still to submit
    log         \* history: what became of each run

conds     == <<comm, flags, critical, breach>>
overrides == <<eOverride, hOverride>>
hardware  == <<ramp, standby>>
policy    == <<monitoring, closed, envelope, gate>>
inbox     == <<queue, gui>>
control   == <<pc, call, spooled>>
vars == <<state, run, prePause, nextOwner, inbox, policy, conds, overrides,
          hardware, control, log>>

GateStates == {"INITIATION_GATE", "READING_GATE"}
Moving     == {"INITIATING", "RAMPING", "SWEEPING", "STANDBY"} \cup GateStates
States     == {"IDLE", "MEASURING", "PAUSED", "ERROR", "EMERGENCY"} \cup Moving
Outcomes   == {"fresh", "queued", "running", "done", "aborted", "failed",
               "rejected", "lost"}

RunRecords ==
    [proc : Runs \cup {None}, owner : Actors \cup {None},
     claims : (SUBSET VIs) \cup {None}, sys : SUBSET VIs, targets : SUBSET VIs,
     first : BOOLEAN, parked : BOOLEAN, pause : BOOLEAN]
NoRun == [proc |-> None, owner |-> None, claims |-> None, sys |-> {},
          targets |-> {}, first |-> TRUE, parked |-> FALSE, pause |-> FALSE]
NoCall == [kind |-> "none", actor |-> None, back |-> "loop"]

TypeOK ==
    /\ state \in States /\ prePause \in States
    /\ run \in RunRecords
    /\ nextOwner \in Actors \cup {None}
    /\ queue \in Seq([run : Runs, by : Actors])
    /\ gui \in Seq([vi : VIs, method : {"set", "standby"}])
    /\ monitoring \in BOOLEAN /\ closed \in BOOLEAN
    /\ envelope \in BOOLEAN /\ gate \in BOOLEAN
    /\ comm \subseteq VIs /\ flags \subseteq Flags
    /\ critical \in BOOLEAN /\ breach \in BOOLEAN
    /\ eOverride \in BOOLEAN /\ hOverride \subseteq VIs \cup Flags
    /\ ramp \in [VIs -> 0..RampSteps] /\ standby \subseteq VIs
    /\ pc \in {"loop", "decide", "enforced", "spool", "gui", "chain", "return"}
    /\ call \in [kind : {"none", "abort", "standby_all", "run_queue", "finish"},
                 actor : Actors \cup {None}, back : {"loop", "spool"}]
    /\ spooled \in 0..SpoolBound
    /\ log \in [Runs -> Outcomes]

Init ==
    /\ state = "IDLE" /\ prePause = "IDLE" /\ run = NoRun /\ nextOwner = None
    /\ queue = <<>> /\ gui = <<>>
    /\ monitoring = FALSE /\ closed = FALSE /\ envelope = FALSE /\ gate = TRUE
    /\ comm = {} /\ flags = {} /\ critical = FALSE /\ breach = FALSE
    /\ eOverride = FALSE /\ hOverride = {}
    /\ ramp = [v \in VIs |-> 0] /\ standby = {}
    /\ pc = "loop" /\ call = NoCall /\ spooled = 0
    /\ log = [r \in Runs |-> "fresh"]

-----------------------------------------------------------------------------
(* Hardware.  A VI under a comm condition may miss the command to stop.     *)

Started(rp, S) == [v \in VIs |-> IF v \in S THEN RampSteps ELSE rp[v]]
Stopped(rp, S) == [v \in VIs |-> IF v \in S THEN 0 ELSE rp[v]]
Advanced(rp)   == [v \in VIs |-> IF rp[v] > 0 THEN rp[v] - 1 ELSE 0]
Ramping(rp)    == {v \in VIs : rp[v] > 0}
Answering(S)   == {S \ lost : lost \in SUBSET (S \cap comm)}

(***************************************************************************)
(* Conditions, as decide() reads them.  A VI's hold is the one whose key   *)
(* sorts first: "comm:..." before every "safety:...".                      *)
(***************************************************************************)
Held == {v \in VIs : v \in comm \/ \E f \in flags : v \in Affects[f]}
HoldKey(v) ==
    IF v \in comm THEN v
    ELSE CHOOSE f \in flags : /\ v \in Affects[f]
                              /\ \A g \in flags : v \in Affects[g] => f <= g
Overridden(v) == v \in Held /\ HoldKey(v) \in hOverride
Breached == envelope /\ breach

\* What puts the engine in EMERGENCY, and what an acknowledge finds remaining.
Emergency == critical \/ Breached
CauseRemains_EnvelopeForgotten == critical
CauseRemains == critical \/ Breached

RunActive == state \notin {"IDLE", "PAUSED", "ERROR", "EMERGENCY"}
Watched_IgnoresClaims == run.sys
Watched == run.sys \cup (IF run.claims = None THEN {} ELSE run.claims)
ManualRamping == state = "RAMPING" /\ run.proc = None
Scope == IF run.proc = None THEN VIs ELSE run.sys

FreeToMove(v) ==
    \/ state = "IDLE" \/ ManualRamping
    \/ state = "EMERGENCY" /\ eOverride
    \/ /\ state \notin {"EMERGENCY", "ERROR"}
       /\ run.proc # None /\ run.claims # None /\ v \notin run.claims

\* Whether a manual action on v may be queued now ...
Admitted(v) ==
    /\ v \notin comm
    /\ IF v \in Held
       THEN eOverride \/ (Overridden(v) /\ state \notin {"EMERGENCY", "ERROR"})
       ELSE FreeToMove(v)

\* ... and, by the same predicate, executed when the tick reaches it.
StillAdmitted_AsQueued(v) == v \notin comm
StillAdmitted(v) == Admitted(v)

-----------------------------------------------------------------------------
(* The beginning and the end of a run.                                      *)

May(d) == d \in Disturbances

\* _abort_active_procedure and _emit_run_finished: the run in flight, if
\* there is one, ends with this outcome and the VIs in its scope are stopped.
EndRun(outcome) ==
    /\ run' = NoRun
    /\ log' = IF run.proc = None THEN log ELSE [log EXCEPT ![run.proc] = outcome]

StopScope_AfterClearing(rp) == ramp' = rp /\ standby' = standby
StopScope(rp) ==
    /\ \E stopped \in Answering(Scope) : ramp' = Stopped(rp, stopped)
    /\ standby' = standby \ Scope

\* _fail_to_error: whatever was running fails, and the engine waits in ERROR.
FailToError == state' = "ERROR" /\ EndRun("failed")

\* run_procedure past its refusals, with nextOwner as given: a manual ramp is
\* stopped, monitoring is started, and _start_run succeeds ...
Launched(r, given, actor) ==
    \E T \in PlanTargets[r],
       halted \in IF ManualRamping THEN Answering(VIs) ELSE {{}} :
        /\ state' = "INITIATING"
        /\ run' = [proc |-> r, owner |-> IF given # None THEN given ELSE actor,
                   claims |-> Claims[r], sys |-> T, targets |-> T,
                   first |-> TRUE, parked |-> FALSE, pause |-> FALSE]
        /\ ramp' = Started(Stopped(ramp, halted), T)
        /\ standby' = (IF ManualRamping THEN {} ELSE standby) \ T
        /\ nextOwner' = None /\ monitoring' = TRUE
        /\ log' = [log EXCEPT ![r] = "running"]

\* ... or raises, before it reached the hardware (D = {}) or on the way.
LaunchFailed(r) ==
    /\ May("dispatch")
    /\ \E T \in PlanTargets[r],
          halted \in IF ManualRamping THEN Answering(VIs) ELSE {{}} :
        \E D \in {{}, T} :
            \E started \in SUBSET D, stopped \in Answering(D) :
                ramp' = Stopped(Started(Stopped(ramp, halted), started), stopped)
            /\ standby' = (IF ManualRamping THEN {} ELSE standby) \ D
    /\ state' = "ERROR" /\ run' = NoRun
    /\ nextOwner' = None /\ monitoring' = TRUE
    /\ log' = [log EXCEPT ![r] = "rejected"]

-----------------------------------------------------------------------------
(***************************************************************************)
(* Commands.  A client's command arrives between ticks, a spooled one while *)
(* the tick drains the spool.  A refused command changes nothing and is    *)
(* left out, except where the tests below say otherwise.                   *)
(***************************************************************************)
Asks(c, a) ==
    /\ c \in Commands
    /\ \/ pc = "loop"
       \/ pc = "spool" /\ spooled > 0 /\ a \in Agents
    /\ a \in Agents /\ c # "emergency_standby" => gate

Taken == spooled' = IF pc = "spool" THEN spooled - 1 ELSE spooled
Answered == Taken /\ UNCHANGED <<pc, call>>
Chains(kind, a) ==
    /\ pc' = "chain"
    /\ call' = [kind |-> kind, actor |-> a, back |-> pc]
    /\ Taken

Enqueued(r, a) ==
    /\ Len(queue) < QueueBound
    /\ queue' = Append(queue, [run |-> r, by |-> a])
    /\ log' = [log EXCEPT ![r] = "queued"]
    /\ UNCHANGED <<state, run, nextOwner, monitoring, hardware>>

\* A run starts at once on an idle station or over a manual ramp; otherwise it
\* is queued.
StartsAtOnce_OverPaused == state \in {"IDLE", "PAUSED"} \/ ManualRamping
StartsAtOnce == state = "IDLE" \/ ManualRamping

RunProcedure(r, a) ==
    /\ Asks("run_procedure", a) /\ log[r] = "fresh" /\ ~closed
    /\ IF StartsAtOnce
       THEN /\ Launched(r, nextOwner, a) \/ LaunchFailed(r)
            /\ UNCHANGED queue
       ELSE Enqueued(r, a)
    /\ Answered
    /\ UNCHANGED <<prePause, gui, closed, envelope, gate, conds, overrides>>

QueueProcedure(r, a) ==
    /\ Asks("queue_procedure", a) /\ log[r] = "fresh" /\ ~closed
    /\ Enqueued(r, a)
    /\ Answered
    /\ UNCHANGED <<prePause, gui, closed, envelope, gate, conds, overrides>>

RunQueue(a) ==
    /\ Asks("run_queue", a) /\ state = "IDLE"
    /\ Chains("run_queue", a)
    /\ UNCHANGED <<state, run, prePause, nextOwner, inbox, policy, conds,
                   overrides, hardware, log>>

EnterPaused ==
    /\ prePause' = state /\ state' = "PAUSED"
    /\ run' = [run EXCEPT !.pause = FALSE]
    /\ StopScope(ramp)

\* In MEASURING the pause waits for the point to be saved.
PauseProcedure(a) ==
    /\ Asks("pause_procedure", a) /\ run.proc # None
    /\ \/ /\ state = "MEASURING"
          /\ run' = [run EXCEPT !.pause = TRUE]
          /\ UNCHANGED <<state, prePause, hardware>>
       \/ state \in Moving /\ EnterPaused
    /\ Answered
    /\ UNCHANGED <<nextOwner, inbox, policy, conds, overrides, log>>

\* Resuming ramps again what the pause stopped.  When that raises the command
\* fails where it is: still paused, with the VIs it reached already ramping.
ResumeProcedure(a) ==
    /\ Asks("resume_procedure", a)
    /\ \/ /\ state # "PAUSED" /\ run.pause
          /\ run' = [run EXCEPT !.pause = FALSE]
          /\ UNCHANGED <<state, hardware>>
       \/ /\ state = "PAUSED"
          /\ LET T == IF prePause \in {"INITIATING", "RAMPING", "STANDBY"}
                      THEN run.targets ELSE {}
             IN  \/ /\ state' = prePause
                    /\ ramp' = Started(ramp, T) /\ standby' = standby \ T
                 \/ /\ May("dispatch") /\ state' = state
                    /\ \E S \in SUBSET T : \E raising \in T \ S :
                           /\ ramp' = Started(ramp, S)
                           /\ standby' = standby \ (S \cup {raising})
          /\ run' = run
    /\ Answered
    /\ UNCHANGED <<prePause, nextOwner, inbox, policy, conds, overrides, log>>

\* An agent that does not own the run aborts it by declaring a takeover.
AbortProcedure(a) ==
    /\ Asks("abort_procedure", a) /\ state # "EMERGENCY"
    /\ state' = "IDLE" /\ EndRun("aborted") /\ StopScope(ramp)
    /\ Chains("abort", a)
    /\ UNCHANGED <<prePause, nextOwner, inbox, policy, conds, overrides>>

QueueStandby ==
    /\ Len(gui) + Len(Registry) <= GuiBound
    /\ gui' = gui \o [i \in 1..Len(Registry) |->
                         [vi |-> Registry[i], method |-> "standby"]]

\* submit_global_action("standby_all"): abort what is running, then queue a
\* standby for every VI (in StandbyAllQueues, once the nested call is back).
StandbyAll(a) ==
    /\ Asks("standby_all", a)
    /\ IF state \in {"IDLE", "ERROR", "EMERGENCY"}
       THEN /\ QueueStandby /\ Answered
            /\ UNCHANGED <<state, run, hardware, log>>
       ELSE /\ Len(gui) + Len(Registry) <= GuiBound /\ gui' = gui
            /\ state' = "IDLE" /\ EndRun("aborted") /\ StopScope(ramp)
            /\ Chains("standby_all", a)
    /\ UNCHANGED <<prePause, nextOwner, queue, policy, conds, overrides>>

SubmitAction(v, method, a) ==
    /\ Asks("submit_vi_action", a) /\ Admitted(v) /\ Len(gui) < GuiBound
    /\ gui' = Append(gui, [vi |-> v, method |-> method])
    /\ Answered
    /\ UNCHANGED <<state, run, prePause, nextOwner, queue, policy, conds,
                   overrides, hardware, log>>

StopRamp(v, a) ==
    /\ Asks("stop_ramp", a) /\ Admitted(v)
    /\ ramp' = Stopped(ramp, {v}) /\ standby' = standby \ {v}
    /\ Answered
    /\ UNCHANGED <<state, run, prePause, nextOwner, inbox, policy, conds,
                   overrides, log>>

RevokeOverrides_EmergencyOnly == eOverride' = FALSE /\ hOverride' = hOverride
RevokeOverrides == eOverride' = FALSE /\ hOverride' = {}

\* _enter_emergency: the run fails, every override is revoked, and every VI is
\* told to stand down; one under a comm condition may not hear it.
EnterEmergency ==
    /\ state' = "EMERGENCY" /\ EndRun("failed")
    /\ RevokeOverrides
    /\ \E stopped \in Answering(Scope), heard \in Answering(VIs) :
           /\ ramp' = Started(Stopped(ramp, stopped), heard)
           /\ standby' = heard

EmergencyStandby(a) ==
    /\ Asks("emergency_standby", a)
    /\ EnterEmergency
    /\ Answered
    /\ UNCHANGED <<prePause, nextOwner, inbox, policy, conds>>

Acknowledge(a) ==
    /\ Asks("acknowledge", a)
    /\ \/ /\ state = "EMERGENCY"
          /\ eOverride' = CauseRemains
          /\ state' = IF CauseRemains THEN state ELSE "IDLE"
          /\ UNCHANGED hOverride
       \/ /\ state # "EMERGENCY" /\ Held # {}
          /\ hOverride' = hOverride \cup
                           {k \in VIs \cup Flags : \E v \in Held : k = HoldKey(v)}
          /\ UNCHANGED <<state, eOverride>>
    /\ Answered
    /\ UNCHANGED <<run, prePause, nextOwner, inbox, policy, conds, hardware, log>>

RecoverFromError(a) ==
    /\ Asks("recover_from_error", a) /\ state = "ERROR"
    /\ state' = "IDLE"
    /\ Answered
    /\ UNCHANGED <<run, prePause, nextOwner, inbox, policy, conds, overrides,
                   hardware, log>>

StartMonitoring(a) ==
    /\ Asks("start_monitoring", a) /\ monitoring' = TRUE
    /\ Answered
    /\ UNCHANGED <<state, run, prePause, nextOwner, inbox, closed, envelope,
                   gate, conds, overrides, hardware, log>>

MayStopMonitoring_Paused == state \in {"IDLE", "ERROR", "PAUSED"}
MayStopMonitoring == state \in {"IDLE", "ERROR"}

StopMonitoring(a) ==
    /\ Asks("stop_monitoring", a) /\ MayStopMonitoring
    /\ monitoring' = FALSE
    /\ Answered
    /\ UNCHANGED <<state, run, prePause, nextOwner, inbox, closed, envelope,
                   gate, conds, overrides, hardware, log>>

\* set_run_folder, set_experiment_envelope and set_agent_gate.  The cached
\* readings may or may not satisfy a new envelope.
SetPolicy(a) ==
    /\ \/ /\ Asks("set_run_folder", a) /\ closed' \in BOOLEAN
          /\ UNCHANGED <<envelope, breach, gate>>
       \/ /\ Asks("set_experiment_envelope", a) /\ envelope' \in BOOLEAN
          /\ breach' \in IF envelope' /\ May("breach") THEN BOOLEAN ELSE {FALSE}
          /\ UNCHANGED <<closed, gate>>
       \/ /\ Asks("set_agent_gate", a) /\ gate' \in BOOLEAN
          /\ UNCHANGED <<closed, envelope, breach>>
    /\ Answered
    /\ UNCHANGED <<state, run, prePause, nextOwner, inbox, monitoring, comm,
                   flags, critical, overrides, hardware, log>>

-----------------------------------------------------------------------------
(***************************************************************************)
(* run_queue, called by a handler that has just returned the engine to     *)
(* IDLE: the head of the engine's own queue, or the run the client's queue *)
(* gives (next_procedure), is started as its requester's.                  *)
(***************************************************************************)
StartChained(r, given) ==
    /\ \/ /\ closed
          /\ nextOwner' = given
          /\ log' = [log EXCEPT ![r] = "lost"]
          /\ UNCHANGED <<state, run, monitoring, hardware>>
       \/ ~closed /\ (Launched(r, given, call.actor) \/ LaunchFailed(r))

ChainQueued ==
    /\ pc = "chain" /\ queue # <<>>
    /\ StartChained(Head(queue).run, Head(queue).by)
    /\ queue' = Tail(queue)
    /\ pc' = "return"
    /\ UNCHANGED <<prePause, gui, closed, envelope, gate, conds, overrides,
                   call, spooled>>

ChainPulled(r, given) ==
    /\ pc = "chain" /\ queue = <<>>
    /\ May("pull") /\ log[r] = "fresh"
    /\ StartChained(r, given)
    /\ pc' = "return"
    /\ UNCHANGED <<prePause, inbox, closed, envelope, gate, conds, overrides,
                   call, spooled>>

\* The client has nothing to run, or its queue raised.
ChainEmpty ==
    /\ pc = "chain" /\ queue = <<>>
    /\ nextOwner' = None
    /\ pc' = "return"
    /\ UNCHANGED <<state, run, prePause, inbox, policy, conds, overrides,
                   hardware, call, spooled, log>>

ChainReturns ==
    /\ pc = "return" /\ call.kind # "standby_all"
    /\ pc' = call.back /\ call' = NoCall
    /\ UNCHANGED <<state, run, prePause, nextOwner, inbox, policy, conds,
                   overrides, hardware, spooled, log>>

StandbyAllQueues ==
    /\ pc = "return" /\ call.kind = "standby_all"
    /\ QueueStandby
    /\ pc' = call.back /\ call' = NoCall
    /\ UNCHANGED <<state, run, prePause, nextOwner, queue, policy, conds,
                   overrides, hardware, spooled, log>>

-----------------------------------------------------------------------------
(* The tick: monitoring.                                                    *)

\* An acknowledge unlocks manual control for a limited time.
OverridesExpire ==
    /\ pc = "loop"
    /\ eOverride' \in {eOverride, FALSE} /\ hOverride' \in SUBSET hOverride
    /\ UNCHANGED <<state, run, prePause, nextOwner, inbox, policy, conds,
                   hardware, control, log>>

Maybe(d, S) == IF May(d) THEN S ELSE {}
OrNot(d) == IF May(d) THEN BOOLEAN ELSE {FALSE}

\* Station.get_state polls every VI, update_conditions records what the
\* safety flags say; a hold the run in flight tolerates is not recorded.
TickRead ==
    /\ pc = "loop" /\ monitoring
    /\ comm' \in SUBSET Maybe("comm", VIs)
    /\ \E tripped \in SUBSET Maybe("flag", Flags) :
           flags' = tripped \ IF run.proc = None THEN {} ELSE Tolerates[run.proc]
    /\ critical' \in OrNot("critical")
    /\ breach' \in IF envelope THEN OrNot("breach") ELSE {FALSE}
    /\ pc' = "decide"
    /\ UNCHANGED <<state, run, prePause, nextOwner, inbox, policy, overrides,
                   hardware, call, spooled, log>>

TickUnmonitored ==
    /\ pc = "loop" /\ ~monitoring
    /\ spooled' \in 0..SpoolBound
    /\ pc' = "spool"
    /\ UNCHANGED <<state, run, prePause, nextOwner, inbox, policy, conds,
                   overrides, hardware, call, log>>

\* An exception while polling ends the tick; in EMERGENCY it is only reported.
TickRaises ==
    /\ pc = "loop" /\ monitoring /\ May("raise")
    /\ comm' \in SUBSET Maybe("comm", VIs)
    /\ IF state = "EMERGENCY"
       THEN UNCHANGED <<state, run, hardware, log>>
       ELSE FailToError /\ StopScope(ramp)
    /\ UNCHANGED <<prePause, nextOwner, inbox, policy, flags, critical, breach,
                   overrides, control>>

TickEmergency ==
    /\ pc = "decide" /\ Emergency /\ state # "EMERGENCY"
    /\ EnterEmergency
    /\ pc' = "loop"
    /\ UNCHANGED <<prePause, nextOwner, inbox, policy, conds, call, spooled>>

\* _enforce_safety_holds: a held VI that is not standing down and not unlocked
\* is told to, unless it was told a moment ago.
Enforce ==
    /\ pc = "decide" /\ (Emergency => state = "EMERGENCY")
    /\ LET away == {v \in Held \ standby : ~Overridden(v)}
       IN  \E due \in SUBSET away : \E heard \in Answering(due) :
               /\ ramp' = Started(ramp, heard)
               /\ standby' = standby \cup heard
    /\ pc' = "enforced"
    /\ UNCHANGED <<state, run, prePause, nextOwner, inbox, policy, conds,
                   overrides, call, spooled, log>>

\* _fail_run_for_fault: a hold on a VI the run watches fails the run alone.
TickRunFailure ==
    /\ pc = "enforced" /\ RunActive /\ Watched \cap Held # {}
    /\ state' = "IDLE" /\ EndRun("failed") /\ StopScope(ramp)
    /\ pc' = "loop"
    /\ UNCHANGED <<prePause, nextOwner, inbox, policy, conds, overrides, call,
                   spooled>>

TickPasses ==
    /\ pc = "enforced" /\ ~(RunActive /\ Watched \cap Held # {})
    /\ spooled' \in 0..SpoolBound
    /\ pc' = "spool"
    /\ UNCHANGED <<state, run, prePause, nextOwner, inbox, policy, conds,
                   overrides, hardware, call, log>>

-----------------------------------------------------------------------------
(* The tick: the spooled requests, then the queued manual actions.          *)

\* A request that authorize or the engine's own checks refuse.
SpoolRefused ==
    /\ pc = "spool" /\ spooled > 0
    /\ spooled' = spooled - 1
    /\ UNCHANGED <<state, run, prePause, nextOwner, inbox, policy, conds,
                   overrides, hardware, pc, call, log>>

SpoolDrained ==
    /\ pc = "spool" /\ spooled = 0
    /\ pc' = "gui"
    /\ UNCHANGED <<state, run, prePause, nextOwner, inbox, policy, conds,
                   overrides, hardware, call, spooled, log>>

\* Each queued action is judged again: the engine may have moved on since it
\* was queued.  A failed one may still have revoked the VI's standby.
Undrained_KeepsRefused == IF StillAdmitted(Head(gui).vi) THEN Tail(gui) ELSE gui
Undrained == Tail(gui)

DrainAction ==
    /\ pc = "gui" /\ gui # <<>>
    /\ gui' = Undrained
    /\ LET v == Head(gui).vi
           set == Head(gui).method = "set"
       IN  \/ /\ ~StillAdmitted(v) \/ (set /\ envelope)
              /\ UNCHANGED hardware
           \/ /\ StillAdmitted(v)
              /\ ramp' = Started(ramp, {v})
              /\ standby' = IF set THEN standby \ {v} ELSE standby \cup {v}
           \/ /\ StillAdmitted(v) /\ May("dispatch")
              /\ ramp' = ramp /\ standby' = standby \ {v}
    /\ UNCHANGED <<state, run, prePause, nextOwner, queue, policy, conds,
                   overrides, control, log>>

-----------------------------------------------------------------------------
(***************************************************************************)
(* The tick: the state machine.  A step waits for ramps by advancing them, *)
(* and counts as still ramping a VI that was ramping before its advance.   *)
(***************************************************************************)
Machine == pc = "gui" /\ gui = <<>> /\ pc' = "loop"
RampsDone == Ramping(ramp) \cap Scope = {}
NoNewCall == UNCHANGED <<prePause, nextOwner, inbox, policy, conds, overrides,
                         call, spooled, log>>

\* A manual ramp takes an idle engine to RAMPING, where it is advanced again.
IdleTick ==
    /\ Machine /\ state = "IDLE"
    /\ LET once == Advanced(ramp)
       IN  IF Ramping(ramp) = {} THEN state' = "IDLE" /\ ramp' = ramp
           ELSE /\ state' = IF Ramping(once) = {} THEN "IDLE" ELSE "RAMPING"
                /\ ramp' = Advanced(once)
    /\ UNCHANGED <<run, standby>> /\ NoNewCall

InitiatingTick ==
    /\ Machine /\ state = "INITIATING"
    /\ state' = "RAMPING"
    /\ UNCHANGED <<run, hardware>> /\ NoNewCall

\* At the setpoint: the gates if the run has some, or the wait, then measure.
RampingTick ==
    /\ Machine /\ state = "RAMPING"
    /\ ramp' = Advanced(ramp)
    /\ \/ ~RampsDone /\ UNCHANGED <<state, run>>
       \/ /\ RampsDone /\ run.proc = None
          /\ state' = "IDLE" /\ run' = run
       \/ /\ RampsDone /\ run.proc \in Gated
          /\ state' = IF run.first THEN "INITIATION_GATE" ELSE "READING_GATE"
          /\ run' = run
       \/ /\ RampsDone /\ run.proc # None /\ run.proc \notin Gated
          /\ \/ UNCHANGED <<state, run>>
             \/ state' = "MEASURING" /\ run' = [run EXCEPT !.first = FALSE]
    /\ standby' = standby /\ NoNewCall

GateTick ==
    /\ Machine /\ state \in GateStates
    /\ ramp' = Advanced(ramp)
    /\ \/ UNCHANGED <<state, run>>
       \/ state' = "MEASURING" /\ run' = [run EXCEPT !.first = FALSE]
    /\ standby' = standby /\ NoNewCall

MeasuringTick ==
    /\ Machine /\ state = "MEASURING"
    /\ ramp' = Advanced(ramp) /\ state' = "SWEEPING"
    /\ UNCHANGED <<run, standby>> /\ NoNewCall

PauseDue_AfterLastPoint == run.pause /\ run.targets = {}
PauseDue == run.pause

\* A sweep step joins its targets to the run's and ramps them.
SweepingTick ==
    /\ Machine /\ state = "SWEEPING"
    /\ \/ /\ PauseDue
          /\ prePause' = state /\ state' = "PAUSED"
          /\ run' = [run EXCEPT !.pause = FALSE]
          /\ StopScope(Advanced(ramp))
       \/ /\ ~PauseDue /\ prePause' = prePause
          /\ \/ /\ state' = "STANDBY" /\ run' = run
                /\ ramp' = Advanced(ramp) /\ standby' = standby
             \/ \E T \in PlanTargets[run.proc] :
                    /\ state' = "RAMPING"
                    /\ run' = [run EXCEPT !.sys = @ \cup T, !.targets = T]
                    /\ ramp' = Started(Advanced(ramp), T)
                    /\ standby' = standby \ T
    /\ UNCHANGED <<nextOwner, inbox, policy, conds, overrides, call, spooled,
                   log>>

\* The standby plan's targets are not joined to the run's.
StandbyTick ==
    /\ Machine /\ state = "STANDBY" /\ ~run.parked
    /\ \/ /\ ~RampsDone
          /\ ramp' = Advanced(ramp) /\ UNCHANGED <<run, standby>>
       \/ /\ RampsDone
          /\ \E T \in StandbyTargets[run.proc] :
                 /\ run' = [run EXCEPT !.parked = TRUE, !.targets = T]
                 /\ ramp' = Started(Advanced(ramp), T)
                 /\ standby' = standby \ T
    /\ state' = state /\ NoNewCall

ParkedTick ==
    /\ Machine /\ state = "STANDBY" /\ run.parked /\ ~RampsDone
    /\ ramp' = Advanced(ramp)
    /\ UNCHANGED <<state, run, standby>> /\ NoNewCall

Finished_KeepsParked ==
    [NoRun EXCEPT !.targets = run.targets, !.first = run.first, !.parked = TRUE]
Finished == [NoRun EXCEPT !.targets = run.targets, !.first = run.first]

\* _finish_run, on to the next queued run as nobody's command.
FinishRun ==
    /\ pc = "gui" /\ gui = <<>> /\ state = "STANDBY" /\ run.parked /\ RampsDone
    /\ ramp' = Advanced(ramp) /\ standby' = standby
    /\ state' = "IDLE"
    /\ run' = Finished
    /\ log' = [log EXCEPT ![run.proc] = "done"]
    /\ pc' = "chain"
    /\ call' = [kind |-> "finish", actor |-> operator, back |-> "loop"]
    /\ UNCHANGED <<prePause, nextOwner, inbox, policy, conds, overrides,
                   spooled>>

\* PAUSED, ERROR and EMERGENCY: the tick leaves the hardware alone.
RestingTick ==
    /\ Machine /\ state \in {"PAUSED", "ERROR", "EMERGENCY"}
    /\ UNCHANGED <<state, run, hardware>> /\ NoNewCall

\* Advancing a ramp, a gate, measuring or dispatching a plan raises.  Some
\* ramps may have been advanced, some targets of the plan started; a sweep
\* plan's targets have joined the run's by then, a standby plan's have not.
MachineRaises ==
    /\ Machine /\ May("raise")
    /\ state \in {"IDLE", "MEASURING"} \cup Moving
    /\ \E moved \in {ramp, Advanced(ramp)},
          T \in CASE state = "SWEEPING" -> {{}} \cup PlanTargets[run.proc]
                  [] state = "STANDBY" -> {{}} \cup StandbyTargets[run.proc]
                  [] OTHER -> {{}} :
           LET scope == IF state = "SWEEPING" THEN Scope \cup T ELSE Scope
           IN  \E begun \in SUBSET T, stopped \in Answering(scope) :
                   /\ ramp' = Stopped(Started(moved, begun), stopped)
                   /\ standby' = standby \ (scope \cup begun)
    /\ FailToError
    /\ UNCHANGED <<prePause, nextOwner, inbox, policy, conds, overrides, call,
                   spooled>>

-----------------------------------------------------------------------------
Command(a) ==
    \/ \E r \in Runs : RunProcedure(r, a) \/ QueueProcedure(r, a)
    \/ RunQueue(a) \/ PauseProcedure(a) \/ ResumeProcedure(a)
    \/ AbortProcedure(a) \/ StandbyAll(a)
    \/ \E v \in VIs : StopRamp(v, a)
    \/ \E v \in VIs, method \in {"set", "standby"} : SubmitAction(v, method, a)
    \/ EmergencyStandby(a) \/ Acknowledge(a) \/ RecoverFromError(a)
    \/ StartMonitoring(a) \/ StopMonitoring(a) \/ SetPolicy(a)

Chain ==
    \/ ChainQueued \/ ChainEmpty \/ ChainReturns \/ StandbyAllQueues
    \/ \E r \in Runs, given \in Actors \cup {None} : ChainPulled(r, given)

TickBegins == TickRead \/ TickUnmonitored \/ TickRaises
TickGoesOn ==
    \/ TickEmergency \/ Enforce \/ TickRunFailure \/ TickPasses
    \/ SpoolRefused \/ SpoolDrained \/ DrainAction
    \/ IdleTick \/ InitiatingTick \/ RampingTick \/ GateTick \/ MeasuringTick
    \/ SweepingTick \/ StandbyTick \/ ParkedTick \/ FinishRun \/ RestingTick
    \/ MachineRaises

Next == \/ \E a \in Actors : Command(a)
        \/ OverridesExpire \/ Chain \/ TickBegins \/ TickGoesOn

Spec == Init /\ [][Next]_vars

(***************************************************************************)
(* The timer keeps firing (shutdown is not modelled), Qt serves it among   *)
(* the clients' events, and a handler that has begun runs to its end.      *)
(***************************************************************************)
Fairness == SF_vars(TickBegins) /\ WF_vars(Chain) /\ WF_vars(TickGoesOn)
FairSpec == Spec /\ Fairness

-----------------------------------------------------------------------------
(* What the engine promises.                                                *)

\* A run is in flight exactly in the states that step one (a manual ramp is
\* RAMPING without a run), it is the one run whose start was reported and whose
\* end was not, it has an owner, and an ended run leaves nothing behind.
RunStateConsistent ==
    /\ state \in {"IDLE", "ERROR", "EMERGENCY"} => run.proc = None
    /\ state \notin {"IDLE", "ERROR", "EMERGENCY", "RAMPING"} => run.proc # None
    /\ \A r \in Runs : log[r] = "running" <=> r = run.proc
    /\ run.proc = None <=> run.owner = None
    /\ run.proc = None => /\ run.claims = None /\ run.sys = {}
                          /\ ~run.parked /\ ~run.pause

\* The checks that watch over a run live in the monitoring cycle: no run is in
\* flight, paused or not, with the cycle stopped.
ActiveRunIsMonitored == run.proc # None => monitoring

\* A point is never measured while an instrument that the run claims or ramps
\* is held or faulted, or while a critical condition stands.
MeasuresOnlyUnheld ==
    pc = "gui" /\ state = "MEASURING" =>
        /\ ~critical /\ Held \cap run.sys = {}
        /\ run.claims = None \/ Held \cap run.claims = {}

\* A pause request waits only for the point being measured, and never outlives
\* its run (the comment on _pause_requested).
PauseRequestIsPending == run.pause => state \in {"MEASURING", "SWEEPING"}

\* Both manual overrides belong to the situation they were given in: the
\* EMERGENCY one is gone once EMERGENCY is left, and a hold acknowledged
\* earlier unlocks nothing during an EMERGENCY.
OverridesConfined ==
    /\ eOverride => state = "EMERGENCY"
    /\ state = "EMERGENCY" => hOverride = {}

\* EMERGENCY is left only by an acknowledge that finds its cause gone.
EmergencyLeftOnlyWhenClear ==
    [][state = "EMERGENCY" /\ state' # "EMERGENCY"
         => ~critical /\ ~(envelope /\ breach) /\ state' = "IDLE"]_vars

\* No action queued before the EMERGENCY, nor any other step, takes a
\* responding instrument out of its stand-down before someone unlocks it.
EmergencyKeepsStandDown ==
    [][state = "EMERGENCY" /\ ~eOverride => standby \ comm \subseteq standby']_vars

\* An EMERGENCY lasts as long as its causes, the flags and the envelope, and its
\* stand-down as long as nobody unlocks it.
EmergencyIsHonoured == EmergencyLeftOnlyWhenClear /\ EmergencyKeepsStandDown

\* A queued manual action that was admitted while the instrument was free does
\* not move it once a run has claimed it, unless an override is unlocked.
ClaimsKeptFromManualActions ==
    [][\A v \in VIs :
         /\ pc = "gui" /\ gui # <<>>
         /\ ramp'[v] # ramp[v] \/ (v \in standby) # (v \in standby')
         => \/ run.proc = None
            \/ run.claims # None /\ v \notin run.claims
            \/ Overridden(v)]_vars

\* A run that is aborted or fails leaves none of the instruments it has swept
\* moving, but for those that are standing down or do not respond.
EndedRunIsStopped ==
    [][run.proc # None /\ log'[run.proc] \in {"aborted", "failed"}
         => \A v \in run.sys \ comm :
                ramp'[v] = 0 \/ v \in standby']_vars

\* A pause asked for during a measurement takes effect, is cancelled, or ends
\* with its run: it is not forgotten.
PauseTakesEffect == run.pause ~> ~run.pause

\* A queued manual action is executed or refused by some later tick, as long as
\* polling raises nothing but communication errors.
ActionsAreAnswered == gui # <<>> ~> gui = <<>>

\* The runs, seen from outside: RunLifecycle says what may become of them.
Waiting == [i \in DOMAIN queue |-> queue[i].run]
Lifecycle == INSTANCE RunLifecycle
                 WITH live <- run.proc, waiting <- Waiting, fate <- log
ImplementsRunLifecycle == Lifecycle!Spec
=============================================================================
