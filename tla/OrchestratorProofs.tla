------------------------- MODULE OrchestratorProofs -------------------------
(***************************************************************************)
(* Theorems about the engine, for any station, runs, agents and bounds.    *)
(***************************************************************************)
EXTENDS Orchestrator, SequenceTheorems, TLAPS

\* A pause is only ever taken from a state that steps the run, so that a resume
\* does not return the engine to a state without one, nor into a measurement.
PausedMidStep == state = "PAUSED" => prePause \in Moving

\* run_queue finds an idle engine, and has at most started a run on return.
ChainFindsIdle ==
    /\ pc = "chain" => state = "IDLE" /\ call.actor \in Actors
    /\ pc = "return" => state \in {"IDLE", "INITIATING", "ERROR"}

\* Past its EMERGENCY block a tick has dealt with every critical condition.
EmergencySeen == pc = "enforced" /\ Emergency => state = "EMERGENCY"

\* Past its run-failure block, a tick has failed the run of a held instrument.
HoldsSeen ==
    pc \in {"spool", "gui"} /\ state = "MEASURING" =>
        ~critical /\ Held \cap Watched = {}

\* The inductive invariant.
Ind ==
    /\ TypeOK
    /\ RunStateConsistent /\ PauseRequestIsPending /\ PausedMidStep
    /\ ChainFindsIdle
    /\ ActiveRunIsMonitored /\ OverridesConfined
    /\ EmergencySeen /\ HoldsSeen

-----------------------------------------------------------------------------
(* The operators on ramps keep them in range.                               *)

LEMMA RampsInRange ==
    ASSUME NEW rp \in [VIs -> 0..RampSteps], NEW S
    PROVE  /\ Started(rp, S) \in [VIs -> 0..RampSteps]
           /\ Stopped(rp, S) \in [VIs -> 0..RampSteps]
           /\ Advanced(rp) \in [VIs -> 0..RampSteps]
  <1>1. RampSteps \in Nat /\ RampSteps # 0
    BY BoundsAssumption
  <1>2. Started(rp, S) \in [VIs -> 0..RampSteps]
    BY <1>1 DEF Started
  <1>3. Stopped(rp, S) \in [VIs -> 0..RampSteps]
    BY <1>1 DEF Stopped
  <1>4. Advanced(rp) \in [VIs -> 0..RampSteps]
    <2> SUFFICES ASSUME NEW v \in VIs
                 PROVE  (IF rp[v] > 0 THEN rp[v] - 1 ELSE 0) \in 0..RampSteps
      BY DEF Advanced
    <2>1. rp[v] \in 0..RampSteps
      OBVIOUS
    <2> QED
      BY <1>1, <2>1
  <1> QED
    BY <1>2, <1>3, <1>4

LEMMA NoRunIsRecord == NoRun \in RunRecords
  BY DEF NoRun, RunRecords

LEMMA TypeOfEndRun ==
    ASSUME TypeOK, NEW outcome \in Outcomes, EndRun(outcome)
    PROVE  run' \in RunRecords /\ log' \in [Runs -> Outcomes]
  BY NoRunIsRecord DEF TypeOK, EndRun

LEMMA TypeOfStopScope ==
    ASSUME TypeOK, NEW rp \in [VIs -> 0..RampSteps], StopScope(rp)
    PROVE  ramp' \in [VIs -> 0..RampSteps] /\ standby' \subseteq VIs
  <1>1. PICK stopped : ramp' = Stopped(rp, stopped)
    BY DEF StopScope
  <1>2. ramp' \in [VIs -> 0..RampSteps]
    BY <1>1, RampsInRange
  <1> QED
    BY <1>2 DEF TypeOK, StopScope

LEMMA TypeOfLaunched ==
    ASSUME TypeOK, NEW r \in Runs, NEW given \in Actors \cup {None},
           NEW a \in Actors \cup {None}, Launched(r, given, a)
    PROVE  /\ state' = "INITIATING" /\ nextOwner' = None
           /\ run' \in RunRecords /\ monitoring' = TRUE
           /\ log' \in [Runs -> Outcomes]
           /\ ramp' \in [VIs -> 0..RampSteps] /\ standby' \subseteq VIs
  <1>1. PICK T \in PlanTargets[r],
             halted \in IF ManualRamping THEN Answering(VIs) ELSE {{}} :
            /\ run' = [proc |-> r, owner |-> IF given # None THEN given ELSE a,
                       claims |-> Claims[r], sys |-> T, targets |-> T,
                       first |-> TRUE, parked |-> FALSE, pause |-> FALSE]
            /\ ramp' = Started(Stopped(ramp, halted), T)
            /\ standby' = (IF ManualRamping THEN {} ELSE standby) \ T
    BY DEF Launched
  <1>2. T \subseteq VIs
    BY <1>1, TablesAssumption
  <1>3. ramp' \in [VIs -> 0..RampSteps]
    BY <1>1, RampsInRange DEF TypeOK
  <1>4. standby' \subseteq VIs
    BY <1>1 DEF TypeOK
  <1>5. Claims[r] \in (SUBSET VIs) \cup {None}
    BY TablesAssumption
  <1>6. run' \in RunRecords
    BY <1>1, <1>2, <1>5 DEF RunRecords
  <1>7. log' \in [Runs -> Outcomes]
    BY DEF TypeOK, Launched, Outcomes
  <1> QED
    BY <1>3, <1>4, <1>6, <1>7 DEF Launched

LEMMA TypeOfLaunchFailed ==
    ASSUME TypeOK, NEW r \in Runs, LaunchFailed(r)
    PROVE  /\ state' = "ERROR" /\ nextOwner' = None
           /\ run' = NoRun /\ monitoring' = TRUE
           /\ log' \in [Runs -> Outcomes]
           /\ ramp' \in [VIs -> 0..RampSteps] /\ standby' \subseteq VIs
  <1>1. PICK halted, D, started, stopped :
            /\ ramp' = Stopped(Started(Stopped(ramp, halted), started), stopped)
            /\ standby' = (IF ManualRamping THEN {} ELSE standby) \ D
    BY DEF LaunchFailed
  <1>2. ramp' \in [VIs -> 0..RampSteps] /\ standby' \subseteq VIs
    BY <1>1, RampsInRange DEF TypeOK
  <1>3. log' \in [Runs -> Outcomes]
    BY DEF TypeOK, LaunchFailed, Outcomes
  <1> QED
    BY <1>2, <1>3 DEF LaunchFailed

-----------------------------------------------------------------------------
(* Commands keep the types.                                                 *)

LEMMA TypeOfAnswered ==
    ASSUME TypeOK, NEW c, NEW a, Asks(c, a), Answered
    PROVE  /\ pc' = pc /\ call' = call /\ spooled' \in 0..SpoolBound
           /\ pc \in {"loop", "spool"}
  BY BoundsAssumption DEF TypeOK, Asks, Answered, Taken

LEMMA TypeOfChains ==
    ASSUME TypeOK, NEW c, NEW a \in Actors, Asks(c, a),
           NEW kind \in {"abort", "standby_all", "run_queue"}, Chains(kind, a)
    PROVE  /\ pc' = "chain" /\ spooled' \in 0..SpoolBound
           /\ call' \in [kind : {"none", "abort", "standby_all", "run_queue", "finish"},
                         actor : Actors \cup {None}, back : {"loop", "spool"}]
           /\ call'.actor = a
  BY BoundsAssumption DEF TypeOK, Asks, Chains, Taken

LEMMA TypeOfEnqueued ==
    ASSUME TypeOK, NEW r \in Runs, NEW a \in Actors, Enqueued(r, a)
    PROVE  /\ queue' \in Seq([run : Runs, by : Actors])
           /\ log' \in [Runs -> Outcomes]
           /\ UNCHANGED <<state, run, nextOwner, monitoring, ramp, standby>>
  <1>1. [run |-> r, by |-> a] \in [run : Runs, by : Actors]
    OBVIOUS
  <1>2. queue' \in Seq([run : Runs, by : Actors])
    BY <1>1, AppendProperties DEF TypeOK, Enqueued
  <1>3. log' \in [Runs -> Outcomes]
    BY DEF TypeOK, Enqueued, Outcomes
  <1> QED
    BY <1>2, <1>3 DEF Enqueued, hardware

LEMMA TypeOfQueueStandby ==
    ASSUME TypeOK, QueueStandby
    PROVE  gui' \in Seq([vi : VIs, method : {"set", "standby"}])
  <1> DEFINE S == [vi : VIs, method : {"set", "standby"}]
             batch == [i \in 1..Len(Registry) |->
                          [vi |-> Registry[i], method |-> "standby"]]
  <1>1. Registry \in Seq(VIs) /\ Len(Registry) \in Nat
    BY TablesAssumption, LenProperties
  <1>2. \A i \in 1..Len(Registry) : Registry[i] \in VIs
    BY <1>1, ElementOfSeq
  <1>3. batch \in [1..Len(Registry) -> S]
    BY <1>2
  <1>4. batch \in Seq(S)
    BY <1>1, <1>3, IsASeq
  <1> QED
    BY <1>4, ConcatProperties DEF TypeOK, QueueStandby

LEMMA TypeOfEnterEmergency ==
    ASSUME TypeOK, EnterEmergency
    PROVE  /\ state' = "EMERGENCY" /\ run' = NoRun /\ log' \in [Runs -> Outcomes]
           /\ eOverride' = FALSE /\ hOverride' = {}
           /\ ramp' \in [VIs -> 0..RampSteps] /\ standby' \subseteq VIs
  <1>1. log' \in [Runs -> Outcomes]
    BY TypeOfEndRun DEF EnterEmergency, Outcomes
  <1>2. PICK stopped \in Answering(Scope), heard \in Answering(VIs) :
            ramp' = Started(Stopped(ramp, stopped), heard) /\ standby' = heard
    BY DEF EnterEmergency
  <1>3. ramp' \in [VIs -> 0..RampSteps]
    BY <1>2, RampsInRange DEF TypeOK
  <1>4. standby' \subseteq VIs
    BY <1>2 DEF Answering
  <1> QED
    BY <1>1, <1>3, <1>4 DEF EnterEmergency, RevokeOverrides, EndRun

LEMMA TypeOfCommand ==
    ASSUME Ind, NEW a \in Actors, Command(a)
    PROVE  TypeOK'
  <1> USE DEF Ind, inbox, policy, conds, overrides, hardware, control
  <1>1. ASSUME NEW r \in Runs, RunProcedure(r, a)
        PROVE  TypeOK'
    <2>1. pc' = pc /\ call' = call /\ spooled' \in 0..SpoolBound
      BY <1>1, TypeOfAnswered DEF RunProcedure
    <2>2. UNCHANGED <<prePause, gui, closed, envelope, gate, conds, overrides>>
      BY <1>1 DEF RunProcedure
    <2>3. CASE StartsAtOnce /\ Launched(r, nextOwner, a)
      <3>1. nextOwner \in Actors \cup {None} /\ a \in Actors \cup {None}
        BY DEF TypeOK
      <3>2. /\ state' \in States /\ nextOwner' \in Actors \cup {None}
            /\ run' \in RunRecords /\ monitoring' \in BOOLEAN
            /\ log' \in [Runs -> Outcomes]
            /\ ramp' \in [VIs -> 0..RampSteps] /\ standby' \subseteq VIs
        BY <2>3, <3>1, TypeOfLaunched DEF States, Moving
      <3>3. queue' = queue
        BY <1>1, <2>3 DEF RunProcedure
      <3> QED
        BY <2>1, <2>2, <3>2, <3>3 DEF TypeOK
    <2>4. CASE StartsAtOnce /\ LaunchFailed(r)
      <3>1. /\ state' \in States /\ nextOwner' \in Actors \cup {None}
            /\ run' \in RunRecords /\ monitoring' \in BOOLEAN
            /\ log' \in [Runs -> Outcomes]
            /\ ramp' \in [VIs -> 0..RampSteps] /\ standby' \subseteq VIs
        BY <2>4, TypeOfLaunchFailed, NoRunIsRecord DEF States
      <3>2. queue' = queue
        BY <1>1, <2>4 DEF RunProcedure
      <3> QED
        BY <2>1, <2>2, <3>1, <3>2 DEF TypeOK
    <2>5. CASE ~StartsAtOnce
      <3>1. Enqueued(r, a)
        BY <1>1, <2>5 DEF RunProcedure
      <3>2. /\ queue' \in Seq([run : Runs, by : Actors])
            /\ log' \in [Runs -> Outcomes]
            /\ UNCHANGED <<state, run, nextOwner, monitoring, ramp, standby>>
        BY <3>1, TypeOfEnqueued
      <3> QED
        BY <2>1, <2>2, <3>2 DEF TypeOK
    <2> QED
      BY <1>1, <2>3, <2>4, <2>5 DEF RunProcedure
  <1>2. ASSUME NEW r \in Runs, QueueProcedure(r, a)
        PROVE  TypeOK'
    BY <1>2, TypeOfAnswered, TypeOfEnqueued DEF QueueProcedure, TypeOK
  <1>3. CASE RunQueue(a)
    BY <1>3, TypeOfChains DEF RunQueue, TypeOK
  <1>4. CASE PauseProcedure(a)
    <2>1. [run EXCEPT !.pause = TRUE] \in RunRecords
          /\ [run EXCEPT !.pause = FALSE] \in RunRecords
      BY DEF TypeOK, RunRecords
    <2>2. run' \in RunRecords /\ state' \in States /\ prePause' \in States
          /\ ramp' \in [VIs -> 0..RampSteps] /\ standby' \subseteq VIs
      BY <1>4, <2>1, TypeOfStopScope
         DEF PauseProcedure, EnterPaused, TypeOK, States
    <2> QED
      BY <1>4, <2>2, TypeOfAnswered DEF PauseProcedure, TypeOK
  <1>5. CASE ResumeProcedure(a)
    <2>1. run' \in RunRecords /\ state' \in States
      BY <1>5 DEF ResumeProcedure, TypeOK, RunRecords
    <2>2. ramp' \in [VIs -> 0..RampSteps] /\ standby' \subseteq VIs
      <3>1. \A S : Started(ramp, S) \in [VIs -> 0..RampSteps]
        BY RampsInRange DEF TypeOK
      <3> QED
        BY <1>5, <3>1 DEF ResumeProcedure, TypeOK
    <2> QED
      BY <1>5, <2>1, <2>2, TypeOfAnswered DEF ResumeProcedure, TypeOK
  <1>6. CASE AbortProcedure(a)
    <2>1. run' \in RunRecords /\ log' \in [Runs -> Outcomes]
      BY <1>6, TypeOfEndRun DEF AbortProcedure, Outcomes
    <2>2. ramp' \in [VIs -> 0..RampSteps] /\ standby' \subseteq VIs
      BY <1>6, TypeOfStopScope DEF AbortProcedure, TypeOK
    <2> QED
      BY <1>6, <2>1, <2>2, TypeOfChains DEF AbortProcedure, TypeOK, States
  <1>7. CASE StandbyAll(a)
    <2>1. CASE state \in {"IDLE", "ERROR", "EMERGENCY"}
      BY <1>7, <2>1, TypeOfQueueStandby, TypeOfAnswered DEF StandbyAll, TypeOK
    <2>2. CASE state \notin {"IDLE", "ERROR", "EMERGENCY"}
      <3>1. run' \in RunRecords /\ log' \in [Runs -> Outcomes]
        BY <1>7, <2>2, TypeOfEndRun DEF StandbyAll, Outcomes
      <3>2. ramp' \in [VIs -> 0..RampSteps] /\ standby' \subseteq VIs
        BY <1>7, <2>2, TypeOfStopScope DEF StandbyAll, TypeOK
      <3> QED
        BY <1>7, <2>2, <3>1, <3>2, TypeOfChains DEF StandbyAll, TypeOK, States
    <2> QED
      BY <2>1, <2>2
  <1>8. ASSUME NEW v \in VIs, StopRamp(v, a)
        PROVE  TypeOK'
    BY <1>8, RampsInRange, TypeOfAnswered DEF StopRamp, TypeOK
  <1>9. ASSUME NEW v \in VIs, NEW method \in {"set", "standby"},
               SubmitAction(v, method, a)
        PROVE  TypeOK'
    <2>1. [vi |-> v, method |-> method] \in [vi : VIs, method : {"set", "standby"}]
      OBVIOUS
    <2>2. gui' \in Seq([vi : VIs, method : {"set", "standby"}])
      BY <1>9, <2>1, AppendProperties DEF SubmitAction, TypeOK
    <2> QED
      BY <1>9, <2>2, TypeOfAnswered DEF SubmitAction, TypeOK
  <1>10. CASE EmergencyStandby(a)
    <2>1. /\ state' \in States /\ run' \in RunRecords
          /\ log' \in [Runs -> Outcomes]
          /\ eOverride' \in BOOLEAN /\ hOverride' \subseteq VIs \cup Flags
          /\ ramp' \in [VIs -> 0..RampSteps] /\ standby' \subseteq VIs
      BY <1>10, TypeOfEnterEmergency, NoRunIsRecord DEF EmergencyStandby, States
    <2>2. pc' = pc /\ call' = call /\ spooled' \in 0..SpoolBound
      BY <1>10, TypeOfAnswered DEF EmergencyStandby
    <2> QED
      BY <1>10, <2>1, <2>2 DEF EmergencyStandby, TypeOK
  <1>11. CASE Acknowledge(a)
    <2>1. CauseRemains \in BOOLEAN
      BY DEF CauseRemains, TypeOK
    <2>2. state' \in States /\ eOverride' \in BOOLEAN /\ hOverride' \subseteq VIs \cup Flags
      BY <1>11, <2>1 DEF Acknowledge, TypeOK, States
    <2> QED
      BY <1>11, <2>2, TypeOfAnswered DEF Acknowledge, TypeOK
  <1>12. CASE RecoverFromError(a)
    BY <1>12, TypeOfAnswered DEF RecoverFromError, TypeOK, States
  <1>13. CASE StartMonitoring(a) \/ StopMonitoring(a)
    BY <1>13, TypeOfAnswered, ZenonT(60) DEF StartMonitoring, StopMonitoring, TypeOK
  <1>14. CASE SetPolicy(a)
    <2>1. closed' \in BOOLEAN /\ envelope' \in BOOLEAN /\ gate' \in BOOLEAN
          /\ breach' \in BOOLEAN
      BY <1>14 DEF SetPolicy, TypeOK
    <2> QED
      BY <1>14, <2>1, TypeOfAnswered DEF SetPolicy, TypeOK
  <1> QED
    BY <1>1, <1>2, <1>3, <1>4, <1>5, <1>6, <1>7, <1>8, <1>9, <1>10, <1>11, <1>12,
       <1>13, <1>14 DEF Command

-----------------------------------------------------------------------------
(* So do run_queue and the ticks.                                           *)

LEMMA TypeOfStartChained ==
    ASSUME Ind, NEW r \in Runs, NEW given \in Actors \cup {None},
           StartChained(r, given)
    PROVE  /\ state' \in States /\ nextOwner' \in Actors \cup {None}
           /\ run' \in RunRecords /\ monitoring' \in BOOLEAN
           /\ log' \in [Runs -> Outcomes]
           /\ ramp' \in [VIs -> 0..RampSteps] /\ standby' \subseteq VIs
  <1>1. TypeOK /\ call.actor \in Actors \cup {None}
    BY DEF Ind, TypeOK
  <1>2. CASE Launched(r, given, call.actor)
    <2>1. nextOwner' \in Actors \cup {None} /\ state' \in States
      BY <1>1, <1>2, TypeOfLaunched DEF States, Moving
    <2> QED
      BY <1>1, <1>2, <2>1, TypeOfLaunched
  <1>3. CASE LaunchFailed(r)
    <2>1. nextOwner' \in Actors \cup {None} /\ state' \in States
      BY <1>1, <1>3, TypeOfLaunchFailed DEF States
    <2> QED
      BY <1>1, <1>3, <2>1, TypeOfLaunchFailed, NoRunIsRecord
  <1>4. CASE /\ nextOwner' = given /\ log' = [log EXCEPT ![r] = "lost"]
             /\ UNCHANGED <<state, run, monitoring, hardware>>
    BY <1>1, <1>4 DEF TypeOK, Outcomes, hardware
  <1> QED
    BY <1>2, <1>3, <1>4 DEF StartChained

LEMMA TypeOfChain ==
    ASSUME Ind, Chain
    PROVE  TypeOK'
  <1> USE DEF inbox, policy, conds, overrides, hardware, control
  <1> TypeOK
    BY DEF Ind
  <1>1. CASE ChainQueued
    <2>1. /\ Head(queue) \in [run : Runs, by : Actors]
          /\ Tail(queue) \in Seq([run : Runs, by : Actors])
      BY <1>1, HeadTailProperties DEF ChainQueued, TypeOK
    <2>2. Head(queue).run \in Runs /\ Head(queue).by \in Actors \cup {None}
      BY <2>1
    <2>3. /\ state' \in States /\ nextOwner' \in Actors \cup {None}
          /\ run' \in RunRecords /\ monitoring' \in BOOLEAN
          /\ log' \in [Runs -> Outcomes]
          /\ ramp' \in [VIs -> 0..RampSteps] /\ standby' \subseteq VIs
      BY <1>1, <2>2, TypeOfStartChained DEF ChainQueued
    <2> QED
      BY <1>1, <2>1, <2>3 DEF ChainQueued, TypeOK
  <1>2. ASSUME NEW r \in Runs, NEW given \in Actors \cup {None},
               ChainPulled(r, given)
        PROVE  TypeOK'
    <2>1. /\ state' \in States /\ nextOwner' \in Actors \cup {None}
          /\ run' \in RunRecords /\ monitoring' \in BOOLEAN
          /\ log' \in [Runs -> Outcomes]
          /\ ramp' \in [VIs -> 0..RampSteps] /\ standby' \subseteq VIs
      BY <1>2, TypeOfStartChained DEF ChainPulled
    <2> QED
      BY <1>2, <2>1 DEF ChainPulled, TypeOK
  <1>3. CASE ChainEmpty
    BY <1>3 DEF ChainEmpty, TypeOK
  <1>4. CASE ChainReturns
    <2>1. call'.back = "loop" /\ pc' \in {"loop", "spool"}
      BY <1>4 DEF ChainReturns, NoCall, TypeOK
    <2> QED
      BY <1>4, <2>1 DEF ChainReturns, NoCall, TypeOK
  <1>5. CASE StandbyAllQueues
    <2>1. gui' \in Seq([vi : VIs, method : {"set", "standby"}])
      BY <1>5, TypeOfQueueStandby DEF StandbyAllQueues
    <2>2. pc' \in {"loop", "spool"}
      BY <1>5 DEF StandbyAllQueues, TypeOK
    <2> QED
      BY <1>5, <2>1, <2>2 DEF StandbyAllQueues, NoCall, TypeOK
  <1> QED
    BY <1>1, <1>2, <1>3, <1>4, <1>5 DEF Chain

LEMMA TypeOfTickBegins ==
    ASSUME Ind, TickBegins \/ OverridesExpire
    PROVE  TypeOK'
  <1> USE DEF inbox, policy, conds, overrides, hardware, control
  <1> TypeOK
    BY DEF Ind
  <1>1. CASE TickRead
    <2>1. comm' \subseteq VIs
      BY <1>1 DEF TickRead, Maybe
    <2>2. flags' \subseteq Flags
      BY <1>1 DEF TickRead, Maybe
    <2>3. critical' \in BOOLEAN /\ breach' \in BOOLEAN
      BY <1>1 DEF TickRead, OrNot
    <2> QED
      BY <1>1, <2>1, <2>2, <2>3 DEF TickRead, TypeOK
  <1>2. CASE TickUnmonitored
    BY <1>2 DEF TickUnmonitored, TypeOK
  <1>3. CASE TickRaises
    <2>1. comm' \subseteq VIs
      BY <1>3 DEF TickRaises, Maybe
    <2>2. CASE state = "EMERGENCY"
      BY <1>3, <2>1, <2>2 DEF TickRaises, TypeOK
    <2>3. CASE state # "EMERGENCY"
      <3>1. run' \in RunRecords /\ log' \in [Runs -> Outcomes]
        BY <1>3, <2>3, TypeOfEndRun DEF TickRaises, FailToError, Outcomes
      <3>2. ramp' \in [VIs -> 0..RampSteps] /\ standby' \subseteq VIs
        BY <1>3, <2>3, TypeOfStopScope DEF TickRaises, TypeOK
      <3>3. state' \in States
        BY <1>3, <2>3 DEF TickRaises, FailToError, States
      <3> QED
        BY <1>3, <2>1, <3>1, <3>2, <3>3 DEF TickRaises, TypeOK
    <2> QED
      BY <2>2, <2>3
  <1>4. CASE OverridesExpire
    <2>1. eOverride' \in BOOLEAN
      BY <1>4 DEF OverridesExpire, TypeOK
    <2>2. hOverride' \subseteq VIs \cup Flags
      BY <1>4 DEF OverridesExpire, TypeOK
    <2> QED
      BY <1>4, <2>1, <2>2 DEF OverridesExpire, TypeOK
  <1> QED
    BY <1>1, <1>2, <1>3, <1>4 DEF TickBegins

LEMMA TypeOfMachine ==
    ASSUME Ind, Machine, NoNewCall, state' \in States, run' \in RunRecords,
           ramp' \in [VIs -> 0..RampSteps], standby' \subseteq VIs
    PROVE  TypeOK'
  BY DEF Machine, NoNewCall, inbox, policy, conds, overrides, hardware, control,
         Ind, TypeOK

LEMMA TypeOfMonitoringSteps ==
    ASSUME Ind, TickEmergency \/ Enforce \/ TickRunFailure \/ TickPasses
    PROVE  TypeOK'
  <1> USE DEF inbox, policy, conds, overrides, hardware, control
  <1> TypeOK
    BY DEF Ind
  <1>1. CASE TickEmergency
    <2>1. /\ state' \in States /\ run' \in RunRecords
          /\ log' \in [Runs -> Outcomes]
          /\ eOverride' \in BOOLEAN /\ hOverride' \subseteq VIs \cup Flags
          /\ ramp' \in [VIs -> 0..RampSteps] /\ standby' \subseteq VIs
      BY <1>1, TypeOfEnterEmergency, NoRunIsRecord DEF TickEmergency, States
    <2> QED
      BY <1>1, <2>1 DEF TickEmergency, TypeOK
  <1>2. CASE Enforce
    <2>1. PICK heard \in SUBSET VIs :
              ramp' = Started(ramp, heard) /\ standby' = standby \cup heard
      BY <1>2 DEF Enforce, Answering, Held
    <2>2. ramp' \in [VIs -> 0..RampSteps] /\ standby' \subseteq VIs
      BY <2>1, RampsInRange DEF TypeOK
    <2> QED
      BY <1>2, <2>2 DEF Enforce, TypeOK
  <1>3. CASE TickRunFailure
    <2>1. run' \in RunRecords /\ log' \in [Runs -> Outcomes]
      BY <1>3, TypeOfEndRun DEF TickRunFailure, Outcomes
    <2>2. ramp' \in [VIs -> 0..RampSteps] /\ standby' \subseteq VIs
      BY <1>3, TypeOfStopScope DEF TickRunFailure, TypeOK
    <2>3. state' \in States
      BY <1>3 DEF TickRunFailure, States
    <2> QED
      BY <1>3, <2>1, <2>2, <2>3 DEF TickRunFailure, TypeOK
  <1>4. CASE TickPasses
    BY <1>4 DEF TickPasses, TypeOK
  <1> QED
    BY <1>1, <1>2, <1>3, <1>4

LEMMA TypeOfDrains ==
    ASSUME Ind, SpoolRefused \/ SpoolDrained \/ DrainAction
    PROVE  TypeOK'
  <1> USE DEF inbox, policy, conds, overrides, hardware, control
  <1> TypeOK
    BY DEF Ind
  <1>1. CASE SpoolRefused
    <2>1. spooled' \in 0..SpoolBound
      BY <1>1, BoundsAssumption DEF SpoolRefused, TypeOK
    <2> QED
      BY <1>1, <2>1 DEF SpoolRefused, TypeOK
  <1>2. CASE SpoolDrained
    BY <1>2 DEF SpoolDrained, TypeOK
  <1>3. CASE DrainAction
    <2>1. /\ Head(gui) \in [vi : VIs, method : {"set", "standby"}]
          /\ Tail(gui) \in Seq([vi : VIs, method : {"set", "standby"}])
      BY <1>3, HeadTailProperties DEF DrainAction, TypeOK
    <2>2. Head(gui).vi \in VIs
      BY <2>1
    <2>3. ramp' \in [VIs -> 0..RampSteps]
      <3>1. \A S : Started(ramp, S) \in [VIs -> 0..RampSteps]
        BY RampsInRange DEF TypeOK
      <3> QED
        BY <1>3, <3>1 DEF DrainAction, TypeOK
    <2>4. standby' \subseteq VIs
      BY <1>3, <2>2 DEF DrainAction, TypeOK
    <2> QED
      BY <1>3, <2>1, <2>3, <2>4 DEF DrainAction, Undrained, TypeOK
  <1> QED
    BY <1>1, <1>2, <1>3

LEMMA TypeOfSteps ==
    ASSUME Ind,
           \/ IdleTick \/ InitiatingTick \/ RampingTick \/ GateTick
           \/ MeasuringTick \/ ParkedTick \/ RestingTick
    PROVE  TypeOK'
  <1> USE DEF hardware
  <1> TypeOK
    BY DEF Ind
  <1>1. /\ Advanced(ramp) \in [VIs -> 0..RampSteps]
        /\ Advanced(Advanced(ramp)) \in [VIs -> 0..RampSteps]
    BY RampsInRange DEF TypeOK
  <1>2. [run EXCEPT !.first = FALSE] \in RunRecords
    BY DEF TypeOK, RunRecords
  <1>3. CASE IdleTick
    <2>1. /\ ramp' \in [VIs -> 0..RampSteps] /\ state' \in States
          /\ standby' \subseteq VIs /\ run' \in RunRecords
      BY <1>1, <1>3 DEF IdleTick, States, Moving, TypeOK
    <2> QED
      BY <1>3, <2>1, TypeOfMachine DEF IdleTick
  <1>4. CASE InitiatingTick
    BY <1>4, TypeOfMachine DEF InitiatingTick, TypeOK, States, Moving
  <1>5. CASE RampingTick
    BY <1>1, <1>2, <1>5, TypeOfMachine
       DEF RampingTick, TypeOK, States, Moving, GateStates
  <1>6. CASE GateTick
    BY <1>1, <1>2, <1>6, TypeOfMachine DEF GateTick, TypeOK, States
  <1>7. CASE MeasuringTick
    BY <1>1, <1>7, TypeOfMachine DEF MeasuringTick, TypeOK, States, Moving
  <1>8. CASE ParkedTick
    BY <1>1, <1>8, TypeOfMachine DEF ParkedTick, TypeOK
  <1>9. CASE RestingTick
    BY <1>9, TypeOfMachine DEF RestingTick, TypeOK
  <1> QED
    BY <1>3, <1>4, <1>5, <1>6, <1>7, <1>8, <1>9

\* A sweep or standby plan is taken from a run, so its targets are VIs.
LEMMA TypeOfPlans ==
    ASSUME Ind, SweepingTick \/ StandbyTick
    PROVE  TypeOK'
  <1> USE DEF hardware
  <1> TypeOK
    BY DEF Ind
  <1>1. Advanced(ramp) \in [VIs -> 0..RampSteps]
    BY RampsInRange DEF TypeOK
  <1>2. \A S : Started(Advanced(ramp), S) \in [VIs -> 0..RampSteps]
    BY <1>1, RampsInRange
  <1>3. run.proc \in Runs
    BY DEF Ind, RunStateConsistent, TypeOK, RunRecords, SweepingTick, StandbyTick
  <1>4. \A T \in PlanTargets[run.proc] \cup StandbyTargets[run.proc] : T \subseteq VIs
    BY <1>3, TablesAssumption
  <1>5. CASE SweepingTick
    <2> USE DEF inbox, policy, conds, overrides, control
    <2>1. /\ pc' = "loop"
          /\ UNCHANGED <<nextOwner, inbox, policy, conds, overrides, call, spooled, log>>
      BY <1>5 DEF SweepingTick, Machine
    <2>2. CASE /\ state' = "PAUSED" /\ run' = [run EXCEPT !.pause = FALSE]
               /\ StopScope(Advanced(ramp)) /\ prePause' = state
      <3>1. ramp' \in [VIs -> 0..RampSteps] /\ standby' \subseteq VIs
        BY <1>1, <2>2, TypeOfStopScope
      <3>2. state' \in States /\ prePause' \in States /\ run' \in RunRecords
        BY <2>2 DEF States, TypeOK, RunRecords
      <3> QED
        BY <2>1, <3>1, <3>2 DEF TypeOK
    <2>3. CASE /\ prePause' = prePause /\ state' = "STANDBY" /\ run' = run
               /\ ramp' = Advanced(ramp) /\ standby' = standby
      <3>1. state' \in States
        BY <2>3 DEF States, Moving
      <3> QED
        BY <1>1, <2>3, <2>1, <3>1 DEF TypeOK
    <2>4. ASSUME NEW T \in PlanTargets[run.proc],
                 prePause' = prePause, state' = "RAMPING",
                 run' = [run EXCEPT !.sys = @ \cup T, !.targets = T],
                 ramp' = Started(Advanced(ramp), T), standby' = standby \ T
          PROVE  TypeOK'
      <3>1. run.sys \cup T \in SUBSET VIs /\ T \in SUBSET VIs
        BY <1>4 DEF TypeOK, RunRecords
      <3>2. [run EXCEPT !.sys = run.sys \cup T] \in RunRecords
        BY <3>1 DEF TypeOK, RunRecords
      <3>3. run' \in RunRecords
        BY <2>4, <3>1, <3>2 DEF RunRecords
      <3>4. state' \in States /\ standby' \subseteq VIs
        BY <2>4 DEF States, Moving, TypeOK
      <3>5. ramp' \in [VIs -> 0..RampSteps]
        BY <1>2, <2>4
      <3> QED
        BY <2>4, <2>1, <3>3, <3>4, <3>5 DEF TypeOK
    <2> QED
      BY <1>5, <2>2, <2>3, <2>4 DEF SweepingTick
  <1>6. CASE StandbyTick
    <2>1. CASE ramp' = Advanced(ramp) /\ UNCHANGED <<run, standby>>
      BY <1>1, <1>6, <2>1, TypeOfMachine DEF StandbyTick, TypeOK
    <2>2. ASSUME NEW T \in StandbyTargets[run.proc],
                 run' = [run EXCEPT !.parked = TRUE, !.targets = T],
                 ramp' = Started(Advanced(ramp), T), standby' = standby \ T
          PROVE  TypeOK'
      <3>1. [run EXCEPT !.parked = TRUE] \in RunRecords
        BY DEF TypeOK, RunRecords
      <3>2. run' \in RunRecords
        BY <1>4, <2>2, <3>1 DEF RunRecords
      <3>3. ramp' \in [VIs -> 0..RampSteps] /\ standby' \subseteq VIs
        BY <1>2, <2>2 DEF TypeOK
      <3> QED
        BY <1>6, <3>2, <3>3, TypeOfMachine DEF StandbyTick, TypeOK
    <2> QED
      BY <1>6, <2>1, <2>2 DEF StandbyTick
  <1> QED
    BY <1>5, <1>6

LEMMA TypeOfEnds ==
    ASSUME Ind, FinishRun \/ MachineRaises
    PROVE  TypeOK'
  <1> USE DEF inbox, policy, conds, overrides, hardware, control
  <1> TypeOK
    BY DEF Ind
  <1>1. CASE FinishRun
    <2>1. ramp' \in [VIs -> 0..RampSteps]
      BY <1>1, RampsInRange DEF FinishRun, TypeOK
    <2>2. run' \in RunRecords
      <3>1. run.targets \subseteq VIs /\ run.first \in BOOLEAN
        BY DEF TypeOK, RunRecords
      <3>2. [NoRun EXCEPT !.targets = run.targets] \in RunRecords
        BY <3>1, NoRunIsRecord DEF RunRecords
      <3> QED
        BY <1>1, <3>1, <3>2 DEF FinishRun, Finished, RunRecords
    <2>3. log' \in [Runs -> Outcomes]
      BY <1>1 DEF FinishRun, TypeOK, Outcomes
    <2>4. call' \in [kind : {"none", "abort", "standby_all", "run_queue", "finish"},
                     actor : Actors \cup {None}, back : {"loop", "spool"}]
      BY <1>1 DEF FinishRun, Actors
    <2>5. state' \in States
      BY <1>1 DEF FinishRun, States
    <2> QED
      BY <1>1, <2>1, <2>2, <2>3, <2>4, <2>5 DEF FinishRun, TypeOK
  <1>2. CASE MachineRaises
    <2>1. PICK moved \in {ramp, Advanced(ramp)} :
              \E begun, stopped, S :
                  /\ ramp' = Stopped(Started(moved, begun), stopped)
                  /\ standby' = standby \ S
      BY <1>2 DEF MachineRaises
    <2>2. PICK begun, stopped, S :
              /\ ramp' = Stopped(Started(moved, begun), stopped)
              /\ standby' = standby \ S
      BY <2>1
    <2>3. moved \in [VIs -> 0..RampSteps]
      BY RampsInRange DEF TypeOK
    <2>4. ramp' \in [VIs -> 0..RampSteps] /\ standby' \subseteq VIs
      BY <2>2, <2>3, RampsInRange DEF TypeOK
    <2>5. run' \in RunRecords /\ log' \in [Runs -> Outcomes]
      BY <1>2, TypeOfEndRun DEF MachineRaises, FailToError, Outcomes
    <2>6. state' \in States
      BY <1>2 DEF MachineRaises, FailToError, States
    <2> QED
      BY <1>2, <2>4, <2>5, <2>6 DEF MachineRaises, Machine, TypeOK
  <1> QED
    BY <1>1, <1>2

LEMMA TypeStep ==
    ASSUME Ind, [Next]_vars
    PROVE  TypeOK'
  <1>1. CASE Next
    BY <1>1, TypeOfCommand, TypeOfChain, TypeOfTickBegins, TypeOfMonitoringSteps,
       TypeOfDrains, TypeOfSteps, TypeOfPlans, TypeOfEnds DEF Next, TickGoesOn
  <1>2. CASE UNCHANGED vars
    BY <1>2 DEF vars, Ind, TypeOK, inbox, policy, conds, overrides, hardware,
                control
  <1> QED
    BY <1>1, <1>2

-----------------------------------------------------------------------------
(* How a run begins and ends.                                               *)

\* The part of the invariant about the run in flight.
RunInv == RunStateConsistent /\ PauseRequestIsPending /\ PausedMidStep /\ ChainFindsIdle

LEMMA RunEnds ==
    ASSUME Ind, NEW outcome \in {"done", "aborted", "failed"}, EndRun(outcome)
    PROVE  /\ run' = NoRun
           /\ \A r \in Runs : log'[r] # "running"
           /\ run.proc # None => log'[run.proc] = outcome
  <1>1. run.proc \in Runs \cup {None} /\ log \in [Runs -> Outcomes]
    BY DEF Ind, TypeOK, RunRecords
  <1>2. \A r \in Runs : log[r] = "running" <=> r = run.proc
    BY DEF Ind, RunStateConsistent
  <1>3. CASE run.proc = None
    BY <1>2, <1>3, NoneAssumption DEF EndRun
  <1>4. CASE run.proc # None
    <2>1. log' = [log EXCEPT ![run.proc] = outcome]
      BY <1>4 DEF EndRun
    <2> QED
      BY <1>1, <1>2, <1>4, <2>1 DEF EndRun
  <1> QED
    BY <1>3, <1>4

LEMMA RunBegins ==
    ASSUME Ind, run.proc = None, NEW r \in Runs, NEW given \in Actors \cup {None},
           NEW a \in Actors, Launched(r, given, a)
    PROVE  /\ state' = "INITIATING" /\ run'.proc = r /\ run'.owner \in Actors
           /\ ~run'.pause /\ ~run'.parked /\ monitoring' = TRUE
           /\ \A q \in Runs : log'[q] = "running" <=> q = r
  <1>1. /\ run'.proc = r /\ run'.owner = (IF given # None THEN given ELSE a)
        /\ run'.pause = FALSE /\ run'.parked = FALSE
    BY DEF Launched
  <1>2. log' = [log EXCEPT ![r] = "running"]
    BY DEF Launched
  <1>3. \A q \in Runs : log[q] # "running"
    BY NoneAssumption DEF Ind, RunStateConsistent
  <1>4. \A q \in Runs : log'[q] = "running" <=> q = r
    BY <1>2, <1>3 DEF Ind, TypeOK
  <1> QED
    BY <1>1, <1>4 DEF Launched

LEMMA RunIsRefused ==
    ASSUME Ind, run.proc = None, NEW r \in Runs, LaunchFailed(r)
    PROVE  /\ state' = "ERROR" /\ run' = NoRun /\ monitoring' = TRUE
           /\ \A q \in Runs : log'[q] # "running"
  <1>1. log' = [log EXCEPT ![r] = "rejected"]
    BY DEF LaunchFailed
  <1>2. \A q \in Runs : log[q] # "running"
    BY NoneAssumption DEF Ind, RunStateConsistent
  <1>3. \A q \in Runs : log'[q] # "running"
    BY <1>1, <1>2 DEF Ind, TypeOK
  <1> QED
    BY <1>3 DEF LaunchFailed

\* What the invariant says once no run is in flight, and once one has begun.
LEMMA RunInvWithoutRun ==
    ASSUME run' = NoRun, \A r \in Runs : log'[r] # "running",
           state' \in {"IDLE", "ERROR", "EMERGENCY"}
    PROVE  RunStateConsistent' /\ PauseRequestIsPending' /\ PausedMidStep'
  BY NoneAssumption DEF RunStateConsistent, PauseRequestIsPending, PausedMidStep, NoRun

LEMMA RunInvBegun ==
    ASSUME NEW r \in Runs, state' = "INITIATING", run'.proc = r, run'.owner \in Actors,
           ~run'.pause, ~run'.parked,
           \A q \in Runs : log'[q] = "running" <=> q = r
    PROVE  RunStateConsistent' /\ PauseRequestIsPending' /\ PausedMidStep'
  BY NoneAssumption DEF RunStateConsistent, PauseRequestIsPending, PausedMidStep

\* A step that changes none of what it speaks of keeps it.
LEMMA RunInvFrame ==
    ASSUME RunInv, UNCHANGED <<state, prePause, run, log>>,
           \/ UNCHANGED <<pc, call>>
           \/ pc' \notin {"chain", "return"}
           \/ pc = "chain" /\ pc' = "return"
           \/ pc' = "chain" /\ state = "IDLE" /\ call'.actor \in Actors
    PROVE  RunInv'
  BY DEF RunInv, RunStateConsistent, PauseRequestIsPending, PausedMidStep, ChainFindsIdle

-----------------------------------------------------------------------------
(* The run in flight, command by command and step by step.                  *)

LEMMA RunInvCommand ==
    ASSUME Ind, NEW a \in Actors, Command(a)
    PROVE  RunInv'
  <1> RunInv
    BY DEF Ind, RunInv
  <1> run \in RunRecords
    BY DEF Ind, TypeOK
  <1> pc \in {"loop", "spool"}
    BY DEF Command, Asks, RunProcedure, QueueProcedure, RunQueue, PauseProcedure,
       ResumeProcedure, AbortProcedure, StandbyAll, StopRamp, SubmitAction,
       EmergencyStandby, Acknowledge, RecoverFromError, StartMonitoring,
       StopMonitoring, SetPolicy
  <1>1. ASSUME NEW r \in Runs, RunProcedure(r, a)
        PROVE  RunInv'
    <2>1. pc' = pc
      BY <1>1 DEF RunProcedure, Answered
    <2>2. ChainFindsIdle'
      BY <2>1 DEF ChainFindsIdle
    <2>3. CASE StartsAtOnce
      <3>1. run.proc = None
        BY <2>3 DEF StartsAtOnce, ManualRamping, RunInv, RunStateConsistent
      <3>2. nextOwner \in Actors \cup {None}
        BY DEF Ind, TypeOK
      <3>3. CASE Launched(r, nextOwner, a)
        BY <2>2, <3>1, <3>2, <3>3, RunBegins, RunInvBegun DEF RunInv
      <3>4. CASE LaunchFailed(r)
        BY <2>2, <3>1, <3>4, RunIsRefused, RunInvWithoutRun DEF RunInv
      <3> QED
        BY <1>1, <2>3, <3>3, <3>4 DEF RunProcedure
    <2>4. CASE ~StartsAtOnce
      <3>1. Enqueued(r, a) /\ prePause' = prePause /\ log[r] = "fresh"
        BY <1>1, <2>4 DEF RunProcedure
      <3>2. /\ state' = state /\ run' = run
            /\ \A q \in Runs : log'[q] = "running" <=> log[q] = "running"
        BY <3>1 DEF Enqueued, Ind, TypeOK
      <3> QED
        BY <2>2, <3>1, <3>2
           DEF RunInv, RunStateConsistent, PauseRequestIsPending, PausedMidStep
    <2> QED
      BY <2>3, <2>4
  <1>2. ASSUME NEW r \in Runs, QueueProcedure(r, a)
        PROVE  RunInv'
    <2>1. /\ Enqueued(r, a) /\ prePause' = prePause /\ log[r] = "fresh"
          /\ pc' = pc /\ call' = call
      BY <1>2 DEF QueueProcedure, Answered
    <2>2. /\ state' = state /\ run' = run
          /\ \A q \in Runs : log'[q] = "running" <=> log[q] = "running"
      BY <2>1 DEF Enqueued, Ind, TypeOK
    <2> QED
      BY <2>1, <2>2 DEF RunInv, RunStateConsistent, PauseRequestIsPending,
                        PausedMidStep, ChainFindsIdle
  <1>3. CASE RunQueue(a)
    BY <1>3, RunInvFrame DEF RunQueue, Chains
  <1>4. CASE PauseProcedure(a)
    <2>1. /\ pc' = pc /\ call' = call /\ log' = log /\ run.proc # None
      BY <1>4 DEF PauseProcedure, Answered
    <2>2. CASE /\ state = "MEASURING" /\ run' = [run EXCEPT !.pause = TRUE]
               /\ UNCHANGED <<state, prePause>>
      BY <2>1, <2>2 DEF RunInv, RunStateConsistent, PauseRequestIsPending,
                        PausedMidStep, ChainFindsIdle, RunRecords
    <2>3. CASE state \in Moving /\ EnterPaused
      BY <2>1, <2>3 DEF EnterPaused, RunInv, RunStateConsistent,
                        PauseRequestIsPending, PausedMidStep, ChainFindsIdle, RunRecords
    <2> QED
      BY <1>4, <2>2, <2>3 DEF PauseProcedure
  <1>5. CASE ResumeProcedure(a)
    <2>1. /\ pc' = pc /\ call' = call /\ log' = log /\ prePause' = prePause
      BY <1>5 DEF ResumeProcedure, Answered
    <2>2. CASE /\ state # "PAUSED" /\ run.pause
               /\ run' = [run EXCEPT !.pause = FALSE] /\ state' = state
      BY <2>1, <2>2 DEF RunInv, RunStateConsistent, PauseRequestIsPending,
                        PausedMidStep, ChainFindsIdle, RunRecords
    <2>3. CASE /\ state = "PAUSED" /\ run' = run /\ state' \in {state, prePause}
      BY <2>1, <2>3 DEF RunInv, RunStateConsistent, PauseRequestIsPending,
                        PausedMidStep, ChainFindsIdle, RunRecords, Moving, GateStates
    <2> QED
      BY <1>5, <2>2, <2>3 DEF ResumeProcedure
  <1>6. CASE AbortProcedure(a)
    <2>1. /\ state' = "IDLE" /\ pc' = "chain" /\ call'.actor = a
          /\ run' = NoRun /\ \A r \in Runs : log'[r] # "running"
      BY <1>6, RunEnds DEF AbortProcedure, Chains
    <2> QED
      BY <2>1, RunInvWithoutRun DEF RunInv, ChainFindsIdle
  <1>7. CASE StandbyAll(a)
    <2>1. CASE state \in {"IDLE", "ERROR", "EMERGENCY"}
      BY <1>7, <2>1, RunInvFrame DEF StandbyAll, Answered
    <2>2. CASE state \notin {"IDLE", "ERROR", "EMERGENCY"}
      <3>1. /\ state' = "IDLE" /\ pc' = "chain" /\ call'.actor = a
            /\ run' = NoRun /\ \A r \in Runs : log'[r] # "running"
        BY <1>7, <2>2, RunEnds DEF StandbyAll, Chains
      <3> QED
        BY <3>1, RunInvWithoutRun DEF RunInv, ChainFindsIdle
    <2> QED
      BY <2>1, <2>2
  <1>8. CASE \/ \E v \in VIs : StopRamp(v, a)
             \/ \E v \in VIs, method \in {"set", "standby"} : SubmitAction(v, method, a)
             \/ StartMonitoring(a) \/ StopMonitoring(a) \/ SetPolicy(a)
    BY <1>8, RunInvFrame DEF StopRamp, SubmitAction, StartMonitoring, StopMonitoring,
                             SetPolicy, Answered
  <1>9. CASE EmergencyStandby(a)
    <2>1. /\ state' = "EMERGENCY" /\ pc' = pc
          /\ run' = NoRun /\ \A r \in Runs : log'[r] # "running"
      BY <1>9, RunEnds DEF EmergencyStandby, EnterEmergency, Answered
    <2> QED
      BY <2>1, RunInvWithoutRun DEF RunInv, ChainFindsIdle
  <1>10. CASE Acknowledge(a)
    <2>1. UNCHANGED <<run, prePause, log, pc, call>>
      BY <1>10 DEF Acknowledge, Answered
    <2>2. CASE state' = state
      BY <2>1, <2>2, RunInvFrame
    <2>3. CASE state = "EMERGENCY" /\ state' = "IDLE"
      BY <2>1, <2>3 DEF RunInv, RunStateConsistent, PauseRequestIsPending,
                        PausedMidStep, ChainFindsIdle
    <2> QED
      BY <1>10, <2>2, <2>3 DEF Acknowledge
  <1>11. CASE RecoverFromError(a)
    BY <1>11 DEF RecoverFromError, Answered, RunInv, RunStateConsistent,
                 PauseRequestIsPending, PausedMidStep, ChainFindsIdle
  <1> QED
    BY <1>1, <1>2, <1>3, <1>4, <1>5, <1>6, <1>7, <1>8, <1>9, <1>10, <1>11 DEF Command

LEMMA RunInvStartChained ==
    ASSUME Ind, pc = "chain", pc' = "return", prePause' = prePause,
           NEW r \in Runs, log[r] # "running",
           NEW given \in Actors \cup {None}, StartChained(r, given)
    PROVE  RunInv'
  <1> RunInv
    BY DEF Ind, RunInv
  <1>1. state = "IDLE" /\ run.proc = None /\ call.actor \in Actors
    BY DEF RunInv, ChainFindsIdle, RunStateConsistent
  <1>2. CASE Launched(r, given, call.actor)
    BY <1>1, <1>2, RunBegins, RunInvBegun DEF RunInv, ChainFindsIdle
  <1>3. CASE LaunchFailed(r)
    BY <1>1, <1>3, RunIsRefused, RunInvWithoutRun DEF RunInv, ChainFindsIdle
  <1>4. CASE /\ log' = [log EXCEPT ![r] = "lost"]
             /\ UNCHANGED <<state, run, monitoring, hardware>>
    <2>1. \A q \in Runs : log'[q] = "running" <=> log[q] = "running"
      BY <1>4 DEF Ind, TypeOK
    <2> QED
      BY <1>1, <1>4, <2>1 DEF RunInv, RunStateConsistent, PauseRequestIsPending,
                              PausedMidStep, ChainFindsIdle
  <1> QED
    BY <1>2, <1>3, <1>4 DEF StartChained

LEMMA RunInvChain ==
    ASSUME Ind, Chain
    PROVE  RunInv'
  <1> RunInv
    BY DEF Ind, RunInv
  <1>1. pc = "chain" => \A r \in Runs : log[r] # "running"
    BY NoneAssumption DEF RunInv, ChainFindsIdle, RunStateConsistent
  <1>2. CASE ChainQueued
    <2>1. Head(queue) \in [run : Runs, by : Actors]
      BY <1>2, HeadTailProperties DEF ChainQueued, Ind, TypeOK
    <2> QED
      BY <1>1, <1>2, <2>1, RunInvStartChained DEF ChainQueued
  <1>3. ASSUME NEW r \in Runs, NEW given \in Actors \cup {None},
               ChainPulled(r, given)
        PROVE  RunInv'
    BY <1>1, <1>3, RunInvStartChained DEF ChainPulled
  <1>4. CASE ChainEmpty
    BY <1>4, RunInvFrame DEF ChainEmpty
  <1>5. CASE ChainReturns \/ StandbyAllQueues
    <2>1. pc' \in {"loop", "spool"}
      BY <1>5 DEF ChainReturns, StandbyAllQueues, Ind, TypeOK
    <2> QED
      BY <1>5, <2>1, RunInvFrame DEF ChainReturns, StandbyAllQueues
  <1> QED
    BY <1>2, <1>3, <1>4, <1>5 DEF Chain

LEMMA RunInvMonitoring ==
    ASSUME Ind,
           \/ OverridesExpire \/ TickBegins \/ TickEmergency \/ Enforce
           \/ TickRunFailure \/ TickPasses \/ SpoolRefused \/ SpoolDrained
           \/ DrainAction
    PROVE  RunInv'
  <1> RunInv
    BY DEF Ind, RunInv
  <1>1. CASE \/ OverridesExpire \/ TickRead \/ TickUnmonitored \/ Enforce
             \/ TickPasses \/ SpoolRefused \/ SpoolDrained \/ DrainAction
    BY <1>1, RunInvFrame
       DEF OverridesExpire, TickRead, TickUnmonitored, Enforce, TickPasses,
           SpoolRefused, SpoolDrained, DrainAction, control
  <1>2. CASE TickRaises
    <2>1. CASE state = "EMERGENCY"
      BY <1>2, <2>1, RunInvFrame DEF TickRaises, control
    <2>2. CASE state # "EMERGENCY"
      <3>1. /\ state' = "ERROR" /\ pc' = "loop"
            /\ run' = NoRun /\ \A r \in Runs : log'[r] # "running"
        BY <1>2, <2>2, RunEnds DEF TickRaises, FailToError, control
      <3> QED
        BY <3>1, RunInvWithoutRun DEF RunInv, ChainFindsIdle
    <2> QED
      BY <2>1, <2>2
  <1>3. CASE TickEmergency
    <2>1. /\ state' = "EMERGENCY" /\ pc' = "loop"
          /\ run' = NoRun /\ \A r \in Runs : log'[r] # "running"
      BY <1>3, RunEnds DEF TickEmergency, EnterEmergency
    <2> QED
      BY <2>1, RunInvWithoutRun DEF RunInv, ChainFindsIdle
  <1>4. CASE TickRunFailure
    <2>1. /\ state' = "IDLE" /\ pc' = "loop"
          /\ run' = NoRun /\ \A r \in Runs : log'[r] # "running"
      BY <1>4, RunEnds DEF TickRunFailure
    <2> QED
      BY <2>1, RunInvWithoutRun DEF RunInv, ChainFindsIdle
  <1> QED
    BY <1>1, <1>2, <1>3, <1>4 DEF TickBegins

LEMMA RunInvMachine ==
    ASSUME Ind,
           \/ IdleTick \/ InitiatingTick \/ RampingTick \/ GateTick \/ MeasuringTick
           \/ SweepingTick \/ StandbyTick \/ ParkedTick \/ FinishRun \/ RestingTick
           \/ MachineRaises
    PROVE  RunInv'
  <1> RunInv
    BY DEF Ind, RunInv
  <1> run \in RunRecords
    BY DEF Ind, TypeOK
  <1> USE DEF RunInv, RunStateConsistent, PauseRequestIsPending, PausedMidStep,
              ChainFindsIdle
  <1>1. CASE IdleTick
    BY <1>1 DEF IdleTick, Machine, NoNewCall
  <1>2. CASE InitiatingTick
    BY <1>2 DEF InitiatingTick, Machine, NoNewCall
  <1>3. CASE RampingTick
    <2>1. /\ state = "RAMPING" /\ pc' = "loop"
          /\ prePause' = prePause /\ log' = log
      BY <1>3 DEF RampingTick, Machine, NoNewCall
    <2>2. CASE UNCHANGED <<state, run>>
      BY <2>1, <2>2
    <2>3. CASE run.proc = None /\ state' = "IDLE" /\ run' = run
      BY <2>1, <2>3
    <2>4. CASE /\ run.proc \in Gated /\ run' = run
               /\ state' \in {"INITIATION_GATE", "READING_GATE"}
      BY <2>1, <2>4, TablesAssumption, NoneAssumption
    <2>5. CASE /\ run.proc # None /\ state' = "MEASURING"
               /\ run' = [run EXCEPT !.first = FALSE]
      BY <2>1, <2>5 DEF RunRecords
    <2> QED
      BY <1>3, <2>2, <2>3, <2>4, <2>5 DEF RampingTick
  <1>4. CASE GateTick
    BY <1>4 DEF GateTick, Machine, NoNewCall, RunRecords, GateStates
  <1>5. CASE MeasuringTick
    BY <1>5 DEF MeasuringTick, Machine, NoNewCall
  <1>6. CASE SweepingTick
    <2>1. CASE PauseDue
      BY <1>6, <2>1 DEF SweepingTick, Machine, RunRecords, Moving
    <2>2. CASE ~PauseDue
      BY <1>6, <2>2 DEF SweepingTick, Machine, RunRecords, PauseDue
    <2> QED
      BY <2>1, <2>2
  <1>7. CASE StandbyTick
    BY <1>7 DEF StandbyTick, Machine, NoNewCall, RunRecords
  <1>8. CASE ParkedTick
    BY <1>8 DEF ParkedTick, Machine, NoNewCall
  <1>9. CASE FinishRun
    <2>1. run.proc \in Runs
      BY <1>9 DEF FinishRun, RunRecords
    <2>2. \A r \in Runs : log'[r] # "running"
      BY <1>9, <2>1 DEF FinishRun, Ind, TypeOK
    <2>3. /\ run'.proc = None /\ run'.owner = None /\ run'.claims = None
          /\ run'.sys = {} /\ run'.parked = FALSE /\ run'.pause = FALSE
      BY <1>9 DEF FinishRun, Finished, NoRun
    <2>4. state' = "IDLE" /\ pc' = "chain" /\ call'.actor \in Actors
      BY <1>9 DEF FinishRun, Actors
    <2> QED
      BY <2>2, <2>3, <2>4, NoneAssumption
  <1>10. CASE RestingTick
    BY <1>10 DEF RestingTick, Machine, NoNewCall
  <1>11. CASE MachineRaises
    <2>1. /\ state' = "ERROR" /\ pc' = "loop"
          /\ run' = NoRun /\ \A r \in Runs : log'[r] # "running"
      BY <1>11, RunEnds DEF MachineRaises, Machine, FailToError
    <2> QED
      BY <2>1, RunInvWithoutRun
  <1> QED
    BY <1>1, <1>2, <1>3, <1>4, <1>5, <1>6, <1>7, <1>8, <1>9, <1>10, <1>11

LEMMA RunInvStep ==
    ASSUME Ind, [Next]_vars
    PROVE  RunInv'
  <1>1. CASE Next
    BY <1>1, RunInvCommand, RunInvChain, RunInvMonitoring, RunInvMachine
       DEF Next, TickGoesOn
  <1>2. CASE UNCHANGED vars
    BY <1>2, RunInvFrame DEF vars, control, Ind, RunInv
  <1> QED
    BY <1>1, <1>2

-----------------------------------------------------------------------------
(* Monitoring and overrides.                                                *)

\* Monitoring is only ever stopped where no run is in flight, and a run is only
\* ever launched with it on.
LEMMA MonitoringStep ==
    ASSUME Ind, [Next]_vars
    PROVE  ActiveRunIsMonitored'
  <1> run \in RunRecords /\ ActiveRunIsMonitored
    BY DEF Ind, TypeOK
  <1> USE DEF ActiveRunIsMonitored, policy
  <1>1. ASSUME NEW outcome, EndRun(outcome)
        PROVE  run'.proc = None
    BY <1>1 DEF EndRun, NoRun
  <1>2. ASSUME NEW a \in Actors, Command(a)
        PROVE  ActiveRunIsMonitored'
    <2>1. ASSUME NEW r \in Runs, RunProcedure(r, a) \/ QueueProcedure(r, a)
          PROVE  ActiveRunIsMonitored'
      BY <2>1 DEF RunProcedure, QueueProcedure, Launched, LaunchFailed, Enqueued
    <2>2. CASE RunQueue(a) \/ PauseProcedure(a) \/ ResumeProcedure(a)
      BY <2>2 DEF RunQueue, PauseProcedure, EnterPaused, ResumeProcedure, RunRecords
    <2>3. CASE AbortProcedure(a) \/ StandbyAll(a) \/ EmergencyStandby(a)
      BY <1>1, <2>3 DEF AbortProcedure, StandbyAll, EmergencyStandby, EnterEmergency
    <2>4. CASE \/ \E v \in VIs : StopRamp(v, a)
               \/ \E v \in VIs, method \in {"set", "standby"} : SubmitAction(v, method, a)
               \/ Acknowledge(a) \/ RecoverFromError(a)
               \/ StartMonitoring(a) \/ SetPolicy(a)
      BY <2>4 DEF StopRamp, SubmitAction, Acknowledge, RecoverFromError,
                  StartMonitoring, SetPolicy
    <2>5. CASE StopMonitoring(a)
      BY <2>5 DEF StopMonitoring, MayStopMonitoring, Ind, RunStateConsistent
    <2> QED
      BY <1>2, <2>1, <2>2, <2>3, <2>4, <2>5 DEF Command
  <1>3. CASE Chain
    BY <1>3 DEF Chain, ChainQueued, ChainPulled, StartChained, Launched, LaunchFailed,
                ChainEmpty, ChainReturns, StandbyAllQueues
  <1>4. CASE \/ OverridesExpire \/ TickRead \/ TickUnmonitored \/ Enforce
             \/ TickPasses \/ SpoolRefused \/ SpoolDrained \/ DrainAction
             \/ IdleTick \/ InitiatingTick \/ MeasuringTick \/ ParkedTick \/ RestingTick
    BY <1>4 DEF OverridesExpire, TickRead, TickUnmonitored, Enforce, TickPasses,
                SpoolRefused, SpoolDrained, DrainAction, IdleTick, InitiatingTick,
                MeasuringTick, ParkedTick, RestingTick, NoNewCall
  <1>5. CASE TickRaises \/ TickEmergency \/ TickRunFailure \/ MachineRaises
    BY <1>1, <1>5 DEF TickRaises, TickEmergency, EnterEmergency, TickRunFailure,
                      MachineRaises, FailToError
  <1>6. CASE RampingTick \/ GateTick
    BY <1>6 DEF RampingTick, GateTick, RunRecords, NoNewCall
  <1>7. CASE SweepingTick \/ StandbyTick
    BY <1>7 DEF SweepingTick, StandbyTick, RunRecords, NoNewCall
  <1>8. CASE FinishRun
    BY <1>8 DEF FinishRun, Finished, NoRun
  <1>9. CASE UNCHANGED vars
    BY <1>9 DEF vars
  <1> QED
    BY <1>2, <1>3, <1>4, <1>5, <1>6, <1>7, <1>8, <1>9 DEF Next, TickBegins, TickGoesOn

LEMMA OverridesKept ==
    ASSUME OverridesConfined, UNCHANGED overrides,
           \/ state' = state
           \/ state # "EMERGENCY" /\ state' # "EMERGENCY"
    PROVE  OverridesConfined'
  <1>1. eOverride' = eOverride /\ hOverride' = hOverride
    BY DEF overrides
  <1> QED
    BY <1>1, Zenon DEF OverridesConfined

\* The overrides of an EMERGENCY are revoked on entering it, and its own ends
\* with the acknowledge that ends it.
LEMMA OverridesStep ==
    ASSUME Ind, [Next]_vars
    PROVE  OverridesConfined'
  <1> OverridesConfined
    BY DEF Ind
  <1> USE DEF OverridesConfined, overrides
  <1>1. ASSUME NEW a \in Actors, Command(a)
        PROVE  OverridesConfined'
    <2>1. ASSUME NEW r \in Runs, RunProcedure(r, a) \/ QueueProcedure(r, a)
          PROVE  OverridesConfined'
      BY <2>1 DEF RunProcedure, QueueProcedure, Launched, LaunchFailed, Enqueued,
                  StartsAtOnce, ManualRamping
    <2>2. CASE PauseProcedure(a) \/ RecoverFromError(a)
      BY <2>2 DEF PauseProcedure, EnterPaused, RecoverFromError, Moving, GateStates
    <2>3. CASE ResumeProcedure(a)
      BY <2>3 DEF ResumeProcedure, Ind, PausedMidStep, Moving, GateStates
    <2>4. CASE AbortProcedure(a) \/ StandbyAll(a)
      BY <2>4 DEF AbortProcedure, StandbyAll
    <2>5. CASE EmergencyStandby(a)
      BY <2>5 DEF EmergencyStandby, EnterEmergency, RevokeOverrides
    <2>6. CASE Acknowledge(a)
      <3>1. CauseRemains \in BOOLEAN
        BY DEF CauseRemains, Ind, TypeOK
      <3>2. CASE state = "EMERGENCY"
        BY <2>6, <3>1, <3>2 DEF Acknowledge
      <3>3. CASE state # "EMERGENCY"
        BY <2>6, <3>3 DEF Acknowledge
      <3> QED
        BY <3>2, <3>3
    <2>7. CASE \/ RunQueue(a) \/ \E v \in VIs : StopRamp(v, a)
               \/ \E v \in VIs, method \in {"set", "standby"} : SubmitAction(v, method, a)
               \/ StartMonitoring(a) \/ StopMonitoring(a) \/ SetPolicy(a)
      BY <2>7, OverridesKept
         DEF RunQueue, StopRamp, SubmitAction, StartMonitoring, StopMonitoring, SetPolicy
    <2> QED
      BY <1>1, <2>1, <2>2, <2>3, <2>4, <2>5, <2>6, <2>7 DEF Command
  <1>2. CASE Chain
    BY <1>2 DEF Chain, ChainQueued, ChainPulled, StartChained, Launched, LaunchFailed,
                ChainEmpty, ChainReturns, StandbyAllQueues, Ind, ChainFindsIdle
  <1>3. CASE OverridesExpire
    <2>1. /\ state' = state /\ eOverride' \in {eOverride, FALSE}
          /\ hOverride' \subseteq hOverride
      BY <1>3 DEF OverridesExpire
    <2>2. state = "EMERGENCY" => hOverride' = {}
      BY <2>1
    <2>3. eOverride' => eOverride
      BY <2>1, Zenon
    <2> QED
      BY <2>1, <2>2, <2>3
  <1>4. CASE \/ TickRead \/ TickUnmonitored \/ Enforce \/ TickPasses
             \/ SpoolRefused \/ SpoolDrained \/ DrainAction \/ StandbyTick
             \/ ParkedTick \/ RestingTick
    BY <1>4, OverridesKept
       DEF TickRead, TickUnmonitored, Enforce, TickPasses, SpoolRefused,
           SpoolDrained, DrainAction, StandbyTick, ParkedTick, RestingTick, NoNewCall
  <1>5. CASE TickRaises \/ TickRunFailure \/ MachineRaises
    BY <1>5 DEF TickRaises, TickRunFailure, RunActive, MachineRaises, FailToError,
                Moving, GateStates
  <1>6. CASE TickEmergency
    BY <1>6 DEF TickEmergency, EnterEmergency, RevokeOverrides
  <1>7. CASE \/ IdleTick \/ InitiatingTick \/ RampingTick \/ GateTick
             \/ MeasuringTick \/ SweepingTick \/ FinishRun
    BY <1>7, OverridesKept
       DEF IdleTick, InitiatingTick, RampingTick, GateTick, MeasuringTick,
           SweepingTick, FinishRun, GateStates, NoNewCall
  <1>8. CASE UNCHANGED vars
    BY <1>8 DEF vars
  <1> QED
    BY <1>1, <1>2, <1>3, <1>4, <1>5, <1>6, <1>7, <1>8 DEF Next, TickBegins, TickGoesOn

-----------------------------------------------------------------------------
(* What a tick has seen of the conditions when it reaches the state machine. *)

\* HoldsSeen is kept by a step that leaves the conditions and the run alone, if
\* it does not bring the tick, or a run, to the point where it speaks.
LEMMA HoldsKept ==
    ASSUME HoldsSeen, UNCHANGED <<comm, flags, critical>>,
           state' = "MEASURING" => /\ state = "MEASURING" /\ pc \in {"spool", "gui"}
                                   /\ run'.sys = run.sys /\ run'.claims = run.claims
    PROVE  HoldsSeen'
  BY DEF HoldsSeen, Held, Watched

LEMMA HoldsStep ==
    ASSUME Ind, [Next]_vars
    PROVE  EmergencySeen' /\ HoldsSeen'
  <1> EmergencySeen /\ HoldsSeen /\ run \in RunRecords
    BY DEF Ind, TypeOK
  <1> USE DEF conds
  <1>1. ASSUME NEW a \in Actors, Command(a)
        PROVE  EmergencySeen' /\ HoldsSeen'
    <2>1. pc \in {"loop", "spool"} /\ pc' \in {pc, "chain"}
      BY <1>1 DEF Command, Asks, Answered, Chains, RunProcedure, QueueProcedure, RunQueue,
         PauseProcedure, ResumeProcedure, AbortProcedure, StandbyAll, StopRamp,
         SubmitAction, EmergencyStandby, Acknowledge, RecoverFromError, StartMonitoring,
         StopMonitoring, SetPolicy
    <2>2. CASE pc = "loop"
      BY <2>1, <2>2 DEF EmergencySeen, HoldsSeen
    <2>3. ASSUME pc = "spool"
          PROVE  HoldsSeen'
      <3>1. ASSUME NEW r \in Runs, RunProcedure(r, a) \/ QueueProcedure(r, a)
            PROVE  HoldsSeen'
        BY <2>3, <3>1, HoldsKept
           DEF RunProcedure, QueueProcedure, Launched, LaunchFailed, Enqueued
      <3>2. CASE PauseProcedure(a) \/ ResumeProcedure(a)
        BY <2>3, <3>2, HoldsKept
           DEF PauseProcedure, EnterPaused, ResumeProcedure, RunRecords, Ind,
               PausedMidStep, Moving, GateStates
      <3>3. CASE \/ AbortProcedure(a) \/ StandbyAll(a) \/ EmergencyStandby(a)
                 \/ Acknowledge(a) \/ RecoverFromError(a)
        BY <2>3, <3>3, HoldsKept
           DEF AbortProcedure, StandbyAll, EmergencyStandby, EnterEmergency,
               Acknowledge, RecoverFromError
      <3>4. CASE \/ RunQueue(a) \/ \E v \in VIs : StopRamp(v, a)
                 \/ \E v \in VIs, method \in {"set", "standby"} : SubmitAction(v, method, a)
                 \/ StartMonitoring(a) \/ StopMonitoring(a) \/ SetPolicy(a)
        BY <2>3, <3>4, HoldsKept
           DEF RunQueue, StopRamp, SubmitAction, StartMonitoring, StopMonitoring, SetPolicy
      <3> QED
        BY <1>1, <3>1, <3>2, <3>3, <3>4 DEF Command
    <2> QED
      BY <2>1, <2>2, <2>3 DEF EmergencySeen
  <1>2. CASE Chain
    <2>1. state' # "MEASURING" /\ pc' # "enforced"
      BY <1>2 DEF Chain, ChainQueued, ChainPulled, StartChained, Launched, LaunchFailed,
                  ChainEmpty, ChainReturns, StandbyAllQueues, Ind, ChainFindsIdle, TypeOK
    <2> QED
      BY <2>1 DEF EmergencySeen, HoldsSeen
  <1>3. CASE \/ OverridesExpire \/ TickRead \/ TickRaises \/ TickEmergency \/ Enforce
             \/ TickRunFailure \/ FinishRun
    <2>1. CASE Enforce
      <3>1. pc' = "enforced" /\ state' = state
        BY <2>1 DEF Enforce
      <3>2. UNCHANGED <<critical, envelope, breach>>
        BY <2>1 DEF Enforce, policy
      <3>3. Emergency' = Emergency
        BY <3>2 DEF Emergency, Breached
      <3>4. Emergency => state = "EMERGENCY"
        BY <2>1 DEF Enforce
      <3> QED
        BY <3>1, <3>3, <3>4 DEF EmergencySeen, HoldsSeen
    <2>2. CASE \/ OverridesExpire \/ TickRead \/ TickRaises \/ TickEmergency
               \/ TickRunFailure \/ FinishRun
      <3>1. pc' \in {"loop", "decide", "chain"}
        BY <2>2 DEF OverridesExpire, TickRead, TickRaises, TickEmergency,
                    TickRunFailure, FinishRun, control
      <3> QED
        BY <3>1 DEF EmergencySeen, HoldsSeen
    <2> QED
      BY <1>3, <2>1, <2>2
  <1>4. CASE TickUnmonitored
    BY <1>4 DEF TickUnmonitored, EmergencySeen, HoldsSeen, Ind, ActiveRunIsMonitored,
                RunStateConsistent
  <1>5. CASE TickPasses
    <2>1. HoldsSeen'
      <3> SUFFICES ASSUME state = "MEASURING"
                   PROVE  ~critical' /\ Held' \cap Watched' = {}
        BY <1>5 DEF TickPasses, HoldsSeen
      <3>1. RunActive /\ ~critical
        BY <1>5 DEF TickPasses, RunActive, EmergencySeen, Emergency
      <3>2. Watched \cap Held = {}
        BY <1>5, <3>1 DEF TickPasses
      <3>3. Held' = Held /\ Watched' = Watched /\ critical' = critical
        BY <1>5 DEF TickPasses, Held, Watched
      <3> QED
        BY <3>1, <3>2, <3>3
    <2> QED
      BY <1>5, <2>1 DEF TickPasses, EmergencySeen
  <1>6. CASE SpoolRefused \/ SpoolDrained \/ DrainAction
    BY <1>6, HoldsKept DEF SpoolRefused, SpoolDrained, DrainAction, EmergencySeen, control
  <1>7. CASE \/ IdleTick \/ InitiatingTick \/ RampingTick \/ GateTick
             \/ MeasuringTick \/ SweepingTick \/ StandbyTick \/ ParkedTick
             \/ RestingTick \/ MachineRaises
    BY <1>7 DEF IdleTick, InitiatingTick, RampingTick, GateTick, MeasuringTick,
                SweepingTick, StandbyTick, ParkedTick, RestingTick, MachineRaises,
                Machine, EmergencySeen, HoldsSeen
  <1>8. CASE UNCHANGED vars
    <2>1. EmergencySeen'
      <3>1. UNCHANGED <<pc, state, critical, envelope, breach>>
        BY <1>8 DEF vars, control, policy
      <3>2. Emergency' = Emergency
        BY <3>1 DEF Emergency, Breached
      <3> QED
        BY <3>1, <3>2 DEF EmergencySeen
    <2>2. Held' = Held /\ Watched' = Watched /\ UNCHANGED <<pc, state, critical>>
      BY <1>8 DEF vars, control, Held, Watched
    <2> QED
      BY <2>1, <2>2 DEF HoldsSeen
  <1> QED
    BY <1>1, <1>2, <1>3, <1>4, <1>5, <1>6, <1>7, <1>8 DEF Next, TickBegins, TickGoesOn

-----------------------------------------------------------------------------
(* The invariant, and what follows from it.                                 *)

LEMMA IndInit == Init => Ind
  <1> SUFFICES ASSUME Init
               PROVE  Ind
    OBVIOUS
  <1>1. TypeOK
    <2>1. queue \in Seq([run : Runs, by : Actors])
      BY DEF Init
    <2>2. gui \in Seq([vi : VIs, method : {"set", "standby"}])
      BY DEF Init
    <2>3. ramp \in [VIs -> 0..RampSteps] /\ spooled \in 0..SpoolBound
      BY BoundsAssumption DEF Init
    <2>4. run \in RunRecords
      BY NoRunIsRecord DEF Init
    <2>5. call \in [kind : {"none", "abort", "standby_all", "run_queue", "finish"},
                   actor : Actors \cup {None}, back : {"loop", "spool"}]
      BY DEF Init, NoCall
    <2> QED
      BY <2>1, <2>2, <2>3, <2>4, <2>5 DEF Init, TypeOK, States, Outcomes
  <1>2. RunStateConsistent /\ PauseRequestIsPending
    BY NoneAssumption DEF Init, NoRun, RunStateConsistent, PauseRequestIsPending
  <1>3. ActiveRunIsMonitored /\ OverridesConfined
    BY DEF Init, NoRun, ActiveRunIsMonitored, OverridesConfined
  <1>4. PausedMidStep /\ ChainFindsIdle /\ EmergencySeen /\ HoldsSeen
    BY DEF Init, PausedMidStep, ChainFindsIdle, EmergencySeen, HoldsSeen
  <1> QED
    BY <1>1, <1>2, <1>3, <1>4 DEF Ind

LEMMA IndStep == Ind /\ [Next]_vars => Ind'
  BY TypeStep, RunInvStep, MonitoringStep, OverridesStep, HoldsStep DEF Ind, RunInv

LEMMA IndAlways == Spec => []Ind
  BY IndInit, IndStep, PTL DEF Spec

\* Every variable of the engine keeps its type.
THEOREM TypeCorrectness == Spec => []TypeOK
  BY IndAlways, PTL DEF Ind

\* The engine's state, the fields of the run in flight and the reports of runs
\* started and ended agree at every step (_state, _active_procedure and the
\* run_started and run_finished events).
THEOREM RunsAndStatesAgree == Spec => []RunStateConsistent
  BY IndAlways, PTL DEF Ind

\* A pause request waits only for the point being measured and never outlives
\* its run (_pause_requested).
THEOREM PauseRequestsArePending == Spec => []PauseRequestIsPending
  BY IndAlways, PTL DEF Ind

\* No run is in flight, paused or not, with the monitoring cycle stopped
\* (run_procedure starts it and stop_monitoring refuses).
THEOREM RunsAreMonitored == Spec => []ActiveRunIsMonitored
  BY IndAlways, PTL DEF Ind

\* A manual override never outlives the situation it was given in
\* (_enter_emergency and acknowledge).
THEOREM OverridesAreConfined == Spec => []OverridesConfined
  BY IndAlways, PTL DEF Ind

\* When a tick comes to measure a point, no instrument that the run claims or
\* ramps is held and no critical condition stands, whatever spooled commands
\* the same tick has taken (_tick_body).
THEOREM PointsAreMeasuredUnheld == Spec => []MeasuresOnlyUnheld
  <1>1. Ind => MeasuresOnlyUnheld
    BY DEF Ind, HoldsSeen, Watched, MeasuresOnlyUnheld
  <1> QED
    BY <1>1, IndAlways, PTL

-----------------------------------------------------------------------------
(* What a step never does.                                                  *)

\* A step out of EMERGENCY is an acknowledge that finds nothing remaining.
LEMMA OutOfEmergency ==
    ASSUME Ind, [Next]_vars, state = "EMERGENCY", state' # "EMERGENCY"
    PROVE  ~CauseRemains /\ state' = "IDLE"
  <1> run.proc = None /\ ~RunActive
    BY DEF Ind, RunStateConsistent, RunActive
  <1>1. ASSUME NEW a \in Actors, Command(a)
        PROVE  Acknowledge(a)
    <2>1. ASSUME NEW r \in Runs
          PROVE  ~RunProcedure(r, a) /\ ~QueueProcedure(r, a)
      BY DEF RunProcedure, QueueProcedure, Enqueued, StartsAtOnce, ManualRamping
    <2>2. ~PauseProcedure(a) /\ ~ResumeProcedure(a)
      BY DEF PauseProcedure, ResumeProcedure, Ind, PauseRequestIsPending
    <2>3. ~AbortProcedure(a) /\ ~StandbyAll(a) /\ ~EmergencyStandby(a) /\ ~RecoverFromError(a)
      BY DEF AbortProcedure, StandbyAll, EmergencyStandby, EnterEmergency, RecoverFromError
    <2>4. /\ ~RunQueue(a) /\ \A v \in VIs : ~StopRamp(v, a)
          /\ \A v \in VIs, method \in {"set", "standby"} : ~SubmitAction(v, method, a)
          /\ ~StartMonitoring(a) /\ ~StopMonitoring(a) /\ ~SetPolicy(a)
      BY DEF RunQueue, StopRamp, SubmitAction, StartMonitoring, StopMonitoring, SetPolicy
    <2> QED
      BY <1>1, <2>1, <2>2, <2>3, <2>4 DEF Command
  <1>2. ASSUME NEW a \in Actors, Acknowledge(a)
        PROVE  ~CauseRemains /\ state' = "IDLE"
    BY <1>2, Zenon DEF Acknowledge
  <1>3. ~Chain
    BY DEF Chain, ChainQueued, ChainPulled, ChainEmpty, ChainReturns, StandbyAllQueues,
           Ind, ChainFindsIdle
  <1>4. ~OverridesExpire /\ ~TickRead /\ ~TickUnmonitored /\ ~TickRaises
    BY DEF OverridesExpire, TickRead, TickUnmonitored, TickRaises
  <1>5. ~TickEmergency /\ ~Enforce /\ ~TickRunFailure /\ ~TickPasses
    BY DEF TickEmergency, Enforce, TickRunFailure, TickPasses
  <1>6. ~SpoolRefused /\ ~SpoolDrained /\ ~DrainAction
    BY DEF SpoolRefused, SpoolDrained, DrainAction
  <1>7. /\ ~IdleTick /\ ~InitiatingTick /\ ~RampingTick /\ ~GateTick /\ ~MeasuringTick
        /\ ~SweepingTick /\ ~StandbyTick /\ ~ParkedTick /\ ~FinishRun /\ ~RestingTick
        /\ ~MachineRaises
    BY DEF IdleTick, InitiatingTick, RampingTick, GateTick, MeasuringTick, SweepingTick,
           StandbyTick, ParkedTick, FinishRun, RestingTick, MachineRaises, GateStates, Moving
  <1>8. state' = state \/ Next
    BY DEF vars
  <1> QED
    BY <1>1, <1>2, <1>3, <1>4, <1>5, <1>6, <1>7, <1>8 DEF Next, TickBegins, TickGoesOn

\* EMERGENCY is left only by an acknowledge that finds its cause gone
\* (_acknowledge_emergency).
THEOREM EmergencyIsKept == Spec => EmergencyLeftOnlyWhenClear
  <1>1. ASSUME Ind, [Next]_vars
        PROVE  [state = "EMERGENCY" /\ state' # "EMERGENCY"
                  => ~critical /\ ~(envelope /\ breach) /\ state' = "IDLE"]_vars
    BY <1>1, OutOfEmergency DEF CauseRemains, Breached
  <1> QED
    BY <1>1, IndAlways, PTL DEF Spec, EmergencyLeftOnlyWhenClear

\* A queued or new manual action moves an instrument in flight of a run only as
\* the claims and the overrides allow: the drain judges it again
\* (_execute_vi_action).
LEMMA DrainRespectsClaims ==
    ASSUME Ind, DrainAction, NEW v \in VIs,
           ramp'[v] # ramp[v] \/ (v \in standby) # (v \in standby'),
           run.proc # None
    PROVE  (run.claims # None /\ v \notin run.claims) \/ Overridden(v)
  <1> state # "EMERGENCY" /\ state # "IDLE" /\ ~eOverride
    BY DEF Ind, RunStateConsistent, OverridesConfined
  <1>1. v = Head(gui).vi /\ StillAdmitted(v)
    <2> DEFINE h == Head(gui).vi
    <2>1. \/ UNCHANGED hardware
          \/ /\ StillAdmitted(h)
             /\ ramp' \in {ramp, Started(ramp, {h})}
             /\ standby' \in {standby, standby \cup {h}, standby \ {h}}
      BY DEF DrainAction
    <2>2. ~UNCHANGED hardware
      BY DEF hardware
    <2>3. v # h => ramp'[v] = ramp[v]
      BY <2>1, <2>2 DEF Started, Ind, TypeOK
    <2>4. v # h => (v \in standby <=> v \in standby')
      BY <2>1, <2>2
    <2>5. v = h
      BY <2>3, <2>4
    <2> QED
      BY <2>1, <2>2, <2>5
  <1>2. CASE v \in Held
    BY <1>1, <1>2 DEF StillAdmitted, Admitted
  <1>3. CASE v \notin Held
    BY <1>1, <1>3 DEF StillAdmitted, Admitted, FreeToMove, ManualRamping
  <1> QED
    BY <1>2, <1>3

\* While queued manual actions are drained, the instruments of a run keep still
\* but for those an acknowledge has unlocked.
THEOREM RunsKeepTheirClaims == Spec => ClaimsKeptFromManualActions
  <1>1. ASSUME Ind, [Next]_vars
        PROVE  [\A v \in VIs :
                  /\ pc = "gui" /\ gui # <<>>
                  /\ ramp'[v] # ramp[v] \/ (v \in standby) # (v \in standby')
                  => \/ run.proc = None
                     \/ run.claims # None /\ v \notin run.claims
                     \/ Overridden(v)]_vars
    <2>1. CASE UNCHANGED vars
      BY <2>1
    <2>2. ASSUME Next, pc = "gui", gui # <<>>
          PROVE  DrainAction
      <3>1. \A a \in Actors : ~Command(a)
        BY <2>2 DEF Command, Asks, RunProcedure, QueueProcedure, RunQueue,
         PauseProcedure, ResumeProcedure, AbortProcedure, StandbyAll, StopRamp,
         SubmitAction, EmergencyStandby, Acknowledge, RecoverFromError, StartMonitoring,
         StopMonitoring, SetPolicy
      <3>2. ~Chain /\ ~OverridesExpire /\ ~TickRead /\ ~TickUnmonitored /\ ~TickRaises
        BY <2>2 DEF Chain, ChainQueued, ChainPulled, ChainEmpty, ChainReturns,
                    StandbyAllQueues, OverridesExpire, TickRead, TickUnmonitored, TickRaises
      <3>3. /\ ~TickEmergency /\ ~Enforce /\ ~TickRunFailure /\ ~TickPasses
            /\ ~SpoolRefused /\ ~SpoolDrained
        BY <2>2 DEF TickEmergency, Enforce, TickRunFailure, TickPasses, SpoolRefused,
                    SpoolDrained
      <3>4. /\ ~IdleTick /\ ~InitiatingTick /\ ~RampingTick /\ ~GateTick /\ ~MeasuringTick
            /\ ~SweepingTick /\ ~StandbyTick /\ ~ParkedTick /\ ~FinishRun /\ ~RestingTick
            /\ ~MachineRaises
        BY <2>2 DEF Machine, IdleTick, InitiatingTick, RampingTick, GateTick,
                    MeasuringTick, SweepingTick, StandbyTick, ParkedTick, FinishRun,
                    RestingTick, MachineRaises
      <3> QED
        BY <2>2, <3>1, <3>2, <3>3, <3>4 DEF Next, TickBegins, TickGoesOn
    <2> QED
      BY <1>1, <2>1, <2>2, DrainRespectsClaims
  <1> QED
    BY <1>1, IndAlways, PTL DEF Spec, ClaimsKeptFromManualActions

\* During an EMERGENCY that nobody has unlocked, an instrument that responds is
\* not taken out of its stand-down.
LEMMA StandDownKept ==
    ASSUME Ind, [Next]_vars, state = "EMERGENCY", ~eOverride
    PROVE  standby \ comm \subseteq standby'
  <1> /\ run.proc = None /\ ~RunActive /\ hOverride = {}
      /\ standby \subseteq VIs
    BY DEF Ind, TypeOK, RunStateConsistent, OverridesConfined, RunActive
  <1>1. \A v \in VIs : ~Admitted(v)
    BY DEF Admitted, Overridden, FreeToMove, ManualRamping
  <1>2. ASSUME NEW a \in Actors, Command(a)
        PROVE  standby \ comm \subseteq standby'
    <2>1. ASSUME NEW r \in Runs, RunProcedure(r, a) \/ QueueProcedure(r, a)
          PROVE  standby' = standby
      BY <2>1 DEF RunProcedure, QueueProcedure, Enqueued, StartsAtOnce, ManualRamping, hardware
    <2>2. CASE PauseProcedure(a) \/ AbortProcedure(a) \/ RecoverFromError(a)
      BY <2>2 DEF PauseProcedure, AbortProcedure, RecoverFromError
    <2>3. CASE ResumeProcedure(a)
      BY <2>3 DEF ResumeProcedure, hardware
    <2>4. CASE StandbyAll(a) \/ Acknowledge(a)
      BY <2>4 DEF StandbyAll, Acknowledge, hardware
    <2>5. CASE EmergencyStandby(a)
      <3>1. standby' \in Answering(VIs)
        BY <2>5 DEF EmergencyStandby, EnterEmergency
      <3> QED
        BY <3>1 DEF Answering
    <2>6. ASSUME NEW v \in VIs, StopRamp(v, a)
          PROVE  FALSE
      BY <1>1, <2>6 DEF StopRamp
    <2>7. CASE \/ RunQueue(a) \/ StartMonitoring(a) \/ StopMonitoring(a) \/ SetPolicy(a)
               \/ \E v \in VIs, method \in {"set", "standby"} : SubmitAction(v, method, a)
      BY <2>7 DEF RunQueue, StartMonitoring, StopMonitoring, SetPolicy, SubmitAction, hardware
    <2> QED
      BY <1>2, <2>1, <2>2, <2>3, <2>4, <2>5, <2>6, <2>7 DEF Command
  <1>3. CASE Chain
    BY <1>3 DEF Chain, ChainQueued, ChainPulled, ChainEmpty, ChainReturns,
                StandbyAllQueues, hardware, Ind, ChainFindsIdle
  <1>4. CASE OverridesExpire \/ TickRead \/ TickUnmonitored \/ TickRaises
    BY <1>4 DEF OverridesExpire, TickRead, TickUnmonitored, TickRaises, hardware
  <1>5. CASE \/ TickEmergency \/ Enforce \/ TickRunFailure \/ TickPasses
             \/ SpoolRefused \/ SpoolDrained
    BY <1>5 DEF TickEmergency, Enforce, TickRunFailure, TickPasses, SpoolRefused,
                SpoolDrained, hardware
  <1>6. CASE DrainAction
    <2>1. Head(gui) \in [vi : VIs, method : {"set", "standby"}]
      BY <1>6, HeadTailProperties DEF DrainAction, Ind, TypeOK
    <2> QED
      BY <1>1, <1>6, <2>1 DEF DrainAction, StillAdmitted, hardware
  <1>7. CASE \/ IdleTick \/ InitiatingTick \/ RampingTick \/ GateTick \/ MeasuringTick
             \/ SweepingTick \/ StandbyTick \/ ParkedTick \/ FinishRun \/ RestingTick
             \/ MachineRaises
    BY <1>7 DEF IdleTick, InitiatingTick, RampingTick, GateTick, MeasuringTick,
                SweepingTick, StandbyTick, ParkedTick, FinishRun, RestingTick,
                MachineRaises, GateStates, Moving, hardware
  <1>8. CASE UNCHANGED vars
    BY <1>8 DEF vars, hardware
  <1> QED
    BY <1>2, <1>3, <1>4, <1>5, <1>6, <1>7, <1>8 DEF Next, TickBegins, TickGoesOn

\* Neither an action queued before the EMERGENCY nor any other step takes a
\* responding instrument out of its stand-down before an acknowledge unlocks it
\* (_manual_control_verdict, at the submission and again at the drain).
THEOREM StandDownIsKept == Spec => EmergencyKeepsStandDown
  <1>1. ASSUME Ind, [Next]_vars
        PROVE  [state = "EMERGENCY" /\ ~eOverride => standby \ comm \subseteq standby']_vars
    BY <1>1, StandDownKept
  <1> QED
    BY <1>1, IndAlways, PTL DEF Spec, EmergencyKeepsStandDown

\* What an end of the run leaves moving of the instruments it has swept.
Stilled == \A v \in run.sys \ comm : ramp'[v] = 0 \/ v \in standby'

\* A step that stops a set holding every instrument the run has swept, and
\* starts none of them, leaves them still.
LEMMA ScopeIsStilled ==
    ASSUME NEW rp \in [VIs -> 0..RampSteps], NEW S, run.sys \subseteq S,
           run.sys \subseteq VIs, NEW stopped \in Answering(S), ramp' = Stopped(rp, stopped)
    PROVE  Stilled
  BY DEF Stilled, Stopped, Answering

LEMMA EndStills ==
    ASSUME Ind, [Next]_vars, run.proc # None, log'[run.proc] \in {"aborted", "failed"}
    PROVE  Stilled
  <1> DEFINE live == run.proc
  <1>0. /\ run \in RunRecords /\ live \in Runs /\ log[live] = "running"
        /\ log \in [Runs -> Outcomes] /\ ramp \in [VIs -> 0..RampSteps]
        /\ run.sys \subseteq VIs /\ Scope = run.sys
    BY DEF Ind, TypeOK, RunStateConsistent, RunRecords, Scope
  <1>1. log' # log
    BY <1>0
  <1>2. \A r \in Runs, f \in {"queued", "running", "rejected", "lost", "done"} :
            log' # [log EXCEPT ![r] = f]
    BY <1>0
  <1>3. ASSUME NEW a \in Actors, Command(a)
        PROVE  Stilled
    <2>1. ASSUME NEW r \in Runs
          PROVE  ~RunProcedure(r, a) /\ ~QueueProcedure(r, a)
      <3>1. ~Enqueued(r, a) /\ ~LaunchFailed(r)
        BY <1>2 DEF Enqueued, LaunchFailed
      <3>2. ~Launched(r, nextOwner, a)
        BY <1>2 DEF Launched
      <3> QED
        BY <3>1, <3>2 DEF RunProcedure, QueueProcedure
    <2>2. CASE AbortProcedure(a) \/ StandbyAll(a)
      <3>1. StopScope(ramp)
        BY <1>1, <2>2 DEF AbortProcedure, StandbyAll
      <3> QED
        BY <1>0, <3>1, ScopeIsStilled DEF StopScope
    <2>3. CASE EmergencyStandby(a)
      <3>1. standby' \in Answering(VIs)
        BY <2>3 DEF EmergencyStandby, EnterEmergency
      <3> QED
        BY <1>0, <3>1 DEF Answering, Stilled
    <2>4. /\ ~RunQueue(a) /\ ~PauseProcedure(a) /\ ~ResumeProcedure(a) /\ ~Acknowledge(a)
          /\ ~RecoverFromError(a) /\ ~StartMonitoring(a) /\ ~StopMonitoring(a)
          /\ ~SetPolicy(a) /\ \A v \in VIs : ~StopRamp(v, a)
          /\ \A v \in VIs, method \in {"set", "standby"} : ~SubmitAction(v, method, a)
      BY <1>1 DEF RunQueue, PauseProcedure, ResumeProcedure, Acknowledge, RecoverFromError,
                  StartMonitoring, StopMonitoring, SetPolicy, StopRamp, SubmitAction
    <2> QED
      BY <1>3, <2>1, <2>2, <2>3, <2>4 DEF Command
  <1>4. ~Chain
    <2>1. ~ChainEmpty /\ ~ChainReturns /\ ~StandbyAllQueues
      BY <1>1 DEF ChainEmpty, ChainReturns, StandbyAllQueues
    <2>2. \A r \in Runs, given \in Actors \cup {None} : ~StartChained(r, given)
      BY <1>2 DEF StartChained, Launched, LaunchFailed
    <2>3. ChainQueued => Head(queue) \in [run : Runs, by : Actors]
      BY HeadTailProperties DEF ChainQueued, Ind, TypeOK
    <2> QED
      BY <2>1, <2>2, <2>3 DEF Chain, ChainQueued, ChainPulled
  <1>5. CASE TickRaises \/ TickRunFailure
    <2>1. StopScope(ramp)
      BY <1>1, <1>5 DEF TickRaises, TickRunFailure
    <2> QED
      BY <1>0, <2>1, ScopeIsStilled DEF StopScope
  <1>6. CASE TickEmergency
    <2>1. standby' \in Answering(VIs)
      BY <1>6 DEF TickEmergency, EnterEmergency
    <2> QED
      BY <1>0, <2>1 DEF Answering, Stilled
  <1>7. CASE MachineRaises
    <2>1. PICK rp \in {ramp, Advanced(ramp)},
               T \in CASE state = "SWEEPING" -> {{}} \cup PlanTargets[live]
                       [] state = "STANDBY" -> {{}} \cup StandbyTargets[live]
                       [] OTHER -> {{}} :
            \E begun \in SUBSET T,
               stopped \in Answering(IF state = "SWEEPING" THEN Scope \cup T ELSE Scope) :
              ramp' = Stopped(Started(rp, begun), stopped)
      BY <1>7 DEF MachineRaises
    <2>2. PICK S \in {Scope, Scope \cup T} :
            \E begun \in SUBSET T, stopped \in Answering(S) :
              ramp' = Stopped(Started(rp, begun), stopped)
      BY <2>1
    <2>3. \A begun \in SUBSET T : Started(rp, begun) \in [VIs -> 0..RampSteps]
      BY <1>0, <2>1, RampsInRange
    <2>4. run.sys \subseteq S
      BY <1>0, <2>2
    <2> QED
      BY <1>0, <2>2, <2>3, <2>4, ScopeIsStilled
  <1>8. /\ ~OverridesExpire /\ ~TickRead /\ ~TickUnmonitored /\ ~Enforce /\ ~TickPasses
        /\ ~SpoolRefused /\ ~SpoolDrained /\ ~DrainAction
    BY <1>1 DEF OverridesExpire, TickRead, TickUnmonitored, Enforce, TickPasses,
                SpoolRefused, SpoolDrained, DrainAction
  <1>9. /\ ~IdleTick /\ ~InitiatingTick /\ ~RampingTick /\ ~GateTick /\ ~MeasuringTick
        /\ ~SweepingTick /\ ~StandbyTick /\ ~ParkedTick /\ ~RestingTick
    BY <1>1 DEF IdleTick, InitiatingTick, RampingTick, GateTick, MeasuringTick,
                SweepingTick, StandbyTick, ParkedTick, RestingTick, NoNewCall
  <1>10. ~FinishRun
    BY <1>0, <1>2 DEF FinishRun
  <1>11. Next
    BY <1>1 DEF vars
  <1> QED
    BY <1>3, <1>4, <1>5, <1>6, <1>7, <1>8, <1>9, <1>10, <1>11 DEF Next, TickBegins, TickGoesOn

\* An EMERGENCY lasts as long as its causes, and its stand-down as long as nobody
\* unlocks it (_acknowledge_emergency, _manual_action_verdict).
THEOREM EmergenciesAreHonoured == Spec => EmergencyIsHonoured
  BY EmergencyIsKept, StandDownIsKept DEF EmergencyIsHonoured

\* A run that is aborted or fails, by a command, a fault, an exception or a
\* critical condition, leaves none of the responding instruments it has swept
\* moving but on the way to its standby (_emit_run_finished, _fail_to_error,
\* _enter_emergency).
THEOREM EndedRunsAreStopped == Spec => EndedRunIsStopped
  <1>1. ASSUME Ind, [Next]_vars
        PROVE  [run.proc # None /\ log'[run.proc] \in {"aborted", "failed"}
                  => \A v \in run.sys \ comm :
                         ramp'[v] = 0 \/ v \in standby']_vars
    BY <1>1, EndStills DEF Stilled
  <1> QED
    BY <1>1, IndAlways, PTL DEF Spec, EndedRunIsStopped

-----------------------------------------------------------------------------
(* The engine implements RunLifecycle.                                      *)

RunsOf(q) == [i \in DOMAIN q |-> q[i].run]

\* The runs of a queue are a sequence as long as the queue.
LEMMA RunsOfIsSeq ==
    ASSUME NEW q \in Seq([run : Runs, by : Actors])
    PROVE  /\ RunsOf(q) \in Seq(Runs) /\ Len(RunsOf(q)) = Len(q)
           /\ \A i \in 1..Len(q) : RunsOf(q)[i] = q[i].run
  <1>1. DOMAIN q = 1..Len(q) /\ Len(q) \in Nat
    BY LenProperties
  <1>2. \A i \in 1..Len(q) : q[i].run \in Runs
    <2>1. \A i \in 1..Len(q) : q[i] \in [run : Runs, by : Actors]
      BY ElementOfSeq
    <2> QED
      BY <2>1
  <1>3. RunsOf(q) = [i \in 1..Len(q) |-> q[i].run]
    BY <1>1 DEF RunsOf
  <1>4. RunsOf(q) \in Seq(Runs)
    BY <1>1, <1>2, <1>3, IsASeq
  <1> QED
    BY <1>1, <1>3, <1>4, LenProperties

\* Taking the runs of a queue commutes with appending to it ...
LEMMA RunsOfAppend ==
    ASSUME NEW q \in Seq([run : Runs, by : Actors]), NEW e \in [run : Runs, by : Actors]
    PROVE  RunsOf(Append(q, e)) = Append(RunsOf(q), e.run)
  <1>1. /\ Append(q, e) \in Seq([run : Runs, by : Actors])
        /\ Len(Append(q, e)) = Len(q) + 1
        /\ \A i \in 1..Len(q) : Append(q, e)[i] = q[i]
        /\ Append(q, e)[Len(q) + 1] = e
    BY AppendProperties
  <1>2. /\ RunsOf(q) \in Seq(Runs) /\ Len(RunsOf(q)) = Len(q) /\ e.run \in Runs
        /\ \A i \in 1..Len(q) : RunsOf(q)[i] = q[i].run
    BY RunsOfIsSeq
  <1>3. /\ Append(RunsOf(q), e.run) \in Seq(Runs)
        /\ Len(Append(RunsOf(q), e.run)) = Len(q) + 1
        /\ \A i \in 1..Len(q) : Append(RunsOf(q), e.run)[i] = q[i].run
        /\ Append(RunsOf(q), e.run)[Len(q) + 1] = e.run
    BY <1>2, AppendProperties
  <1>4. /\ RunsOf(Append(q, e)) \in Seq(Runs)
        /\ Len(RunsOf(Append(q, e))) = Len(q) + 1
        /\ \A i \in 1..Len(q) + 1 : RunsOf(Append(q, e))[i] = Append(q, e)[i].run
    BY <1>1, RunsOfIsSeq
  <1>5. \A i \in 1..Len(q) + 1 : i \in 1..Len(q) \/ i = Len(q) + 1
    BY LenProperties
  <1>6. \A i \in 1..Len(q) + 1 : RunsOf(Append(q, e))[i] = Append(RunsOf(q), e.run)[i]
    BY <1>1, <1>3, <1>4, <1>5
  <1> QED
    BY <1>3, <1>4, <1>6, SeqEqual

\* ... and with taking its head and its tail.
LEMMA RunsOfHeadTail ==
    ASSUME NEW q \in Seq([run : Runs, by : Actors]), q # <<>>
    PROVE  /\ RunsOf(q) # <<>> /\ Head(RunsOf(q)) = Head(q).run
           /\ RunsOf(Tail(q)) = Tail(RunsOf(q))
  <1>1. /\ RunsOf(q) \in Seq(Runs) /\ Len(RunsOf(q)) = Len(q)
        /\ \A i \in 1..Len(q) : RunsOf(q)[i] = q[i].run
    BY RunsOfIsSeq
  <1>2. Len(q) \in Nat \ {0}
    BY EmptySeq, LenProperties
  <1>3. RunsOf(q) # <<>>
    BY <1>1, <1>2, EmptySeq
  <1>4. Head(RunsOf(q)) = Head(q).run
    BY <1>1, <1>2
  <1>5. /\ Tail(q) \in Seq([run : Runs, by : Actors]) /\ Len(Tail(q)) = Len(q) - 1
        /\ \A i \in 1..Len(q) - 1 : Tail(q)[i] = q[i + 1]
    BY HeadTailProperties
  <1>6. /\ Tail(RunsOf(q)) \in Seq(Runs) /\ Len(Tail(RunsOf(q))) = Len(q) - 1
        /\ \A i \in 1..Len(q) - 1 : Tail(RunsOf(q))[i] = RunsOf(q)[i + 1]
    BY <1>1, <1>3, HeadTailProperties
  <1>7. /\ RunsOf(Tail(q)) \in Seq(Runs) /\ Len(RunsOf(Tail(q))) = Len(q) - 1
        /\ \A i \in 1..Len(q) - 1 : RunsOf(Tail(q))[i] = Tail(q)[i].run
    BY <1>5, RunsOfIsSeq
  <1>8. \A i \in 1..Len(q) - 1 : i + 1 \in 1..Len(q)
    BY <1>2
  <1>9. \A i \in 1..Len(q) - 1 : RunsOf(Tail(q))[i] = Tail(RunsOf(q))[i]
    BY <1>1, <1>5, <1>6, <1>7, <1>8
  <1> QED
    BY <1>3, <1>4, <1>6, <1>7, <1>9, SeqEqual

\* The initial states map to the initial state.
LEMMA LifecycleInit == Init => Lifecycle!Init
  <1> SUFFICES ASSUME Init
               PROVE  Lifecycle!Init
    OBVIOUS
  <1>1. queue = <<>> /\ queue \in Seq([run : Runs, by : Actors])
    BY DEF Init
  <1>2. Waiting \in Seq(Runs) /\ Len(Waiting) = 0
    BY <1>1, RunsOfIsSeq, EmptySeq DEF Waiting, RunsOf
  <1>3. Waiting = <<>>
    BY <1>2, EmptySeq
  <1> QED
    BY <1>3 DEF Init, NoRun, Lifecycle!Init

Abstract == Lifecycle!Next \/ UNCHANGED <<run.proc, Waiting, log>>

LEMMA WaitingKept ==
    ASSUME UNCHANGED queue
    PROVE  Waiting' = Waiting
  BY DEF Waiting

\* A step that leaves the runs alone stutters.
LEMMA Stutters ==
    ASSUME UNCHANGED <<queue, log>>, run'.proc = run.proc
    PROVE  Abstract
  BY WaitingKept DEF Abstract

\* Ending the run in flight is an End, or a stutter if there is none.
LEMMA EndsTheRun ==
    ASSUME Ind, UNCHANGED queue, NEW f \in {"done", "aborted", "failed"},
           run'.proc = None, run.proc = None => log' = log,
           run.proc # None => log' = [log EXCEPT ![run.proc] = f]
    PROVE  Abstract
  <1>1. CASE run.proc = None
    BY <1>1, Stutters
  <1>2. CASE run.proc # None
    BY <1>2, WaitingKept DEF Abstract, Lifecycle!Next, Lifecycle!End, Lifecycle!Becomes
  <1> QED
    BY <1>1, <1>2

\* A run that comes from the head of the queue or is new starts or is refused.
LEMMA BeginsARun ==
    ASSUME run.proc = None, NEW r \in Runs, Lifecycle!Comes(r),
           NEW given, NEW actor,
           \/ Launched(r, given, actor) \/ LaunchFailed(r)
           \/ run' = run /\ log' = [log EXCEPT ![r] = "lost"]
    PROVE  Abstract
  <1>1. \/ run'.proc = r /\ log' = [log EXCEPT ![r] = "running"]
        \/ run'.proc = None /\ \E f \in {"rejected", "lost"} : log' = [log EXCEPT ![r] = f]
    BY DEF Launched, LaunchFailed, NoRun
  <1> QED
    BY <1>1 DEF Abstract, Lifecycle!Next, Lifecycle!Start, Lifecycle!Refuse, Lifecycle!Becomes

LEMMA CommandRefines ==
    ASSUME Ind, NEW a \in Actors, Command(a)
    PROVE  Abstract
  <1> queue \in Seq([run : Runs, by : Actors]) /\ RunStateConsistent
    BY DEF Ind, TypeOK
  <1>1. ASSUME NEW r \in Runs, log[r] = "fresh", Enqueued(r, a)
        PROVE  Abstract
    <2>1. Waiting' = Append(Waiting, r)
      <3>1. [run |-> r, by |-> a] \in [run : Runs, by : Actors]
        OBVIOUS
      <3>2. RunsOf(Append(queue, [run |-> r, by |-> a])) = Append(RunsOf(queue), r)
        BY <3>1, RunsOfAppend
      <3> QED
        BY <1>1, <3>2 DEF Enqueued, Waiting, RunsOf
    <2> QED
      BY <1>1, <2>1 DEF Enqueued, Abstract, Lifecycle!Next, Lifecycle!Queue, Lifecycle!Becomes
  <1>2. ASSUME NEW r \in Runs, RunProcedure(r, a) \/ QueueProcedure(r, a)
        PROVE  Abstract
    <2>1. CASE Enqueued(r, a)
      BY <1>1, <1>2, <2>1 DEF RunProcedure, QueueProcedure
    <2>2. CASE ~Enqueued(r, a)
      <3>1. /\ StartsAtOnce /\ log[r] = "fresh" /\ UNCHANGED queue
            /\ Launched(r, nextOwner, a) \/ LaunchFailed(r)
        BY <1>2, <2>2 DEF RunProcedure, QueueProcedure
      <3>2. run.proc = None
        BY <3>1 DEF StartsAtOnce, ManualRamping, RunStateConsistent
      <3>3. Lifecycle!Comes(r)
        BY <3>1, WaitingKept DEF Lifecycle!Comes
      <3> QED
        BY <3>1, <3>2, <3>3, BeginsARun
    <2> QED
      BY <2>1, <2>2
  <1>3. CASE AbortProcedure(a) \/ StandbyAll(a)
    <2>1. CASE EndRun("aborted")
      <3>1. UNCHANGED queue
        BY <1>3 DEF AbortProcedure, StandbyAll, inbox
      <3> QED
        BY <2>1, <3>1, EndsTheRun DEF EndRun, NoRun
    <2>2. CASE ~EndRun("aborted")
      BY <1>3, <2>2, Stutters DEF AbortProcedure, StandbyAll
    <2> QED
      BY <2>1, <2>2
  <1>4. CASE EmergencyStandby(a)
    <2>1. UNCHANGED queue /\ EndRun("failed")
      BY <1>4 DEF EmergencyStandby, EnterEmergency, inbox
    <2> QED
      BY <2>1, EndsTheRun DEF EndRun, NoRun
  <1>5. CASE PauseProcedure(a) \/ ResumeProcedure(a)
    <2>1. UNCHANGED <<queue, log>> /\ run'.proc = run.proc
      BY <1>5 DEF PauseProcedure, ResumeProcedure, EnterPaused, inbox,
                  Ind, TypeOK, RunRecords
    <2> QED
      BY <2>1, Stutters
  <1>6. CASE \/ RunQueue(a) \/ Acknowledge(a) \/ RecoverFromError(a)
             \/ StartMonitoring(a) \/ StopMonitoring(a) \/ SetPolicy(a)
             \/ \E v \in VIs : StopRamp(v, a)
             \/ \E v \in VIs, method \in {"set", "standby"} : SubmitAction(v, method, a)
    BY <1>6, Stutters
       DEF RunQueue, Acknowledge, RecoverFromError, StartMonitoring, StopMonitoring,
           SetPolicy, StopRamp, SubmitAction, inbox
  <1> QED
    BY <1>2, <1>3, <1>4, <1>5, <1>6 DEF Command

LEMMA ChainRefines ==
    ASSUME Ind, Chain
    PROVE  Abstract
  <1> queue \in Seq([run : Runs, by : Actors])
    BY DEF Ind, TypeOK
  <1>1. pc = "chain" => run.proc = None
    BY DEF Ind, ChainFindsIdle, RunStateConsistent
  <1>2. ASSUME NEW r \in Runs, NEW given, pc = "chain", Lifecycle!Comes(r),
               StartChained(r, given)
        PROVE  Abstract
    BY <1>1, <1>2, BeginsARun DEF StartChained
  <1>3. CASE ChainQueued
    <2>1. Head(queue) \in [run : Runs, by : Actors]
      BY <1>3, HeadTailProperties DEF ChainQueued
    <2>2. /\ Waiting # <<>> /\ Head(queue).run = Head(Waiting)
          /\ Waiting' = Tail(Waiting)
      BY <1>3, RunsOfHeadTail DEF ChainQueued, Waiting, RunsOf
    <2> QED
      BY <1>2, <1>3, <2>1, <2>2 DEF ChainQueued, Lifecycle!Comes
  <1>4. ASSUME NEW r \in Runs, NEW given \in Actors \cup {None}, ChainPulled(r, given)
        PROVE  Abstract
    <2>1. UNCHANGED queue
      BY <1>4 DEF ChainPulled, inbox
    <2> QED
      BY <1>2, <1>4, <2>1, WaitingKept DEF ChainPulled, Lifecycle!Comes
  <1>5. CASE ChainEmpty \/ ChainReturns \/ StandbyAllQueues
    BY <1>5, Stutters DEF ChainEmpty, ChainReturns, StandbyAllQueues, inbox
  <1> QED
    BY <1>3, <1>4, <1>5 DEF Chain

LEMMA TickRefines ==
    ASSUME Ind, OverridesExpire \/ TickBegins \/ TickGoesOn
    PROVE  Abstract
  <1> USE DEF inbox, NoNewCall
  <1>1. CASE TickRaises \/ TickRunFailure \/ MachineRaises \/ TickEmergency
    <2>1. CASE EndRun("failed")
      <3>1. UNCHANGED queue
        BY <1>1 DEF TickRaises, TickRunFailure, MachineRaises, TickEmergency
      <3> QED
        BY <2>1, <3>1, EndsTheRun DEF EndRun, NoRun
    <2>2. CASE ~EndRun("failed")
      BY <1>1, <2>2, Stutters
         DEF TickRaises, TickRunFailure, MachineRaises, TickEmergency, EnterEmergency,
             FailToError
    <2> QED
      BY <2>1, <2>2
  <1>2. CASE FinishRun
    <2>1. UNCHANGED queue /\ run'.proc = None /\ log' = [log EXCEPT ![run.proc] = "done"]
      BY <1>2 DEF FinishRun, Finished, NoRun
    <2>2. run.proc # None
      BY <1>2 DEF FinishRun, Ind, RunStateConsistent
    <2> QED
      BY <2>1, <2>2, EndsTheRun
  <1>3. CASE \/ OverridesExpire \/ TickRead \/ TickUnmonitored \/ Enforce \/ TickPasses
             \/ SpoolRefused \/ SpoolDrained \/ DrainAction
    BY <1>3, Stutters DEF OverridesExpire, TickRead, TickUnmonitored, Enforce,
                          TickPasses, SpoolRefused, SpoolDrained, DrainAction
  <1>4. CASE \/ IdleTick \/ InitiatingTick \/ RestingTick \/ ParkedTick
    BY <1>4, Stutters DEF IdleTick, InitiatingTick, RestingTick, ParkedTick
  <1>5. CASE \/ RampingTick \/ GateTick \/ MeasuringTick \/ SweepingTick \/ StandbyTick
    <2>1. UNCHANGED <<queue, log>> /\ run'.proc = run.proc
      BY <1>5 DEF RampingTick, GateTick, MeasuringTick, SweepingTick, StandbyTick,
                  Ind, TypeOK, RunRecords
    <2> QED
      BY <2>1, Stutters
  <1> QED
    BY <1>1, <1>2, <1>3, <1>4, <1>5 DEF TickBegins, TickGoesOn

\* The engine, whatever the clients ask and whatever fails, treats its runs as
\* RunLifecycle says: one at a time, the queued ones in order, each to one end
\* (_start_run, run_queue and _emit_run_finished).
THEOREM RunsFollowTheirLifecycle == Spec => ImplementsRunLifecycle
  <1>1. Ind /\ [Next]_vars => Abstract
    <2>1. UNCHANGED vars => Abstract
      BY Stutters DEF vars, inbox
    <2> QED
      BY <2>1, CommandRefines, ChainRefines, TickRefines DEF Next
  <1>2. Ind /\ [Next]_vars => [Lifecycle!Next]_Lifecycle!vars
    BY <1>1 DEF Abstract, Lifecycle!vars
  <1> QED
    BY <1>2, LifecycleInit, IndAlways, PTL DEF Spec, ImplementsRunLifecycle, Lifecycle!Spec
=============================================================================
