---------------------------- MODULE AnalysisRunner ----------------------------
(***************************************************************************)
(* The analysis of finished runs (i2as/session/analysis_runner.py): one     *)
(* worker process at a time, further requests in a FIFO queue, a timer that *)
(* bounds each worker, and an ending that seals the request's folder into a *)
(* bundle; with the manager's side of it (i2as/session/manager.py), the     *)
(* open experiment and the bundle that represents each run.                 *)
(*                                                                         *)
(* Every request has a folder of its own, so a request also names its       *)
(* bundle.  The worker is a container: killing the engine's client may      *)
(* leave the container running until the stop command reaches it.           *)
(***************************************************************************)
EXTENDS Naturals

CONSTANTS Requests,    \* the analyses that may be asked for
          Scripts,     \* those of them that run an analysis script
          RunOf,       \* the run that each is about
          HomeOf,      \* the experiment of each run
          MaxFaults,   \* bound: seals that the disk refuses, crashes
          MaxSwitches, \* bound: experiments closed or switched to, selections
          None

Runs        == {RunOf[r] : r \in Requests}
Experiments == {HomeOf[run] : run \in DOMAIN HomeOf}

ASSUME RunsAssumption ==
    /\ Scripts \subseteq Requests /\ DOMAIN RunOf = Requests /\ DOMAIN HomeOf = Runs
    /\ None \notin Requests \cup Experiments
ASSUME BoundsAssumption == MaxFaults \in Nat /\ MaxSwitches \in Nat

VARIABLES
    experiment, \* the open experiment of the manager, or None
    closed,     \* the experiments that have been closed
    selected,   \* selected_bundle of each run
    queue,      \* _queue, which stays in the order in which they were asked for
    active,     \* _active
    process,    \* "none", "working", "dying" (killed), "exited" or "crashed"
    failure,    \* _failure
    timer,      \* whether _timer runs
    report,     \* report.json of each folder: none, ok or failed
    bundle,     \* bundle.json of each folder: none, ok or failed
    orphans,    \* the killed workers whose container still runs
    taken,      \* the requests that were queued
    earlier,    \* those that each of them was queued after
    told,       \* how often the end of each was announced
    struck,     \* those not launched, timed out, cancelled, crashed (history)
    lost,       \* those a crash of the application took
    faults, switches

manager == <<experiment, closed, selected>>
worker  == <<active, process, failure, timer>>
disk    == <<report, bundle>>
history == <<taken, earlier, told, struck, lost>>
bounds  == <<faults, switches>>
vars    == <<manager, queue, worker, disk, orphans, history, bounds>>

Init ==
    /\ experiment \in Experiments /\ closed = {} /\ selected = [run \in Runs |-> None]
    /\ queue = {} /\ active = None /\ process = "none" /\ failure = "" /\ timer = FALSE
    /\ report = [r \in Requests |-> "none"] /\ bundle = [r \in Requests |-> "none"]
    /\ orphans = {} /\ taken = {} /\ earlier = [r \in Requests |-> {}] /\ told = [r \in Requests |-> 0]
    /\ struck = {} /\ lost = {} /\ faults = 0 /\ switches = 0
-----------------------------------------------------------------------------
(* The endings.                                                             *)

\* _finish of the requests of S, those of good completed; the disk may refuse a
\* seal, and then the ending is only announced.
Finish(S, good) ==
    /\ told' = [r \in Requests |-> IF r \in S THEN told[r] + 1 ELSE told[r]]
    /\ \E refused \in SUBSET S :
         /\ faults' = IF refused = {} THEN faults ELSE faults + 1
         /\ faults' <= MaxFaults
         /\ bundle' = [r \in Requests |-> IF r \notin S \ refused THEN bundle[r]
                                      ELSE IF r \in good THEN "ok" ELSE "failed"]

\* _select: a completed recipe of the open experiment represents its run.
Selects_AnyExperiment(r) == bundle'[r] = "ok" /\ r \notin Scripts
Selects(r) == bundle'[r] = "ok" /\ r \notin Scripts /\ HomeOf[RunOf[r]] = experiment

\* _launch forgets what became of the request before.
FailureAtLaunch_Kept == failure
FailureAtLaunch == ""

\* _start_next: those of missed, the first of q, are not launched (refused by the
\* sandbox, or failed to start at once), and the one after them is.
FirstOf(q, missed, r) == earlier'[r] \cap q \subseteq missed
StartNext(q, missed) ==
    /\ \A r \in missed : FirstOf(q, missed, r)
    /\ timer' = (missed # q)
    /\ \/ /\ missed = q
          /\ queue' = {} /\ active' = None /\ process' = "none" /\ failure' = failure
       \/ \E r \in q \ missed :
             /\ FirstOf(q, missed, r)
             /\ queue' = q \ (missed \cup {r})
             /\ active' = r /\ process' = "working" /\ failure' = FailureAtLaunch

\* _kill: never waits.
Kill_Waits == UNCHANGED <<process, orphans>>
Kill ==
    IF process = "working"
    THEN process' = "dying" /\ orphans' \in {orphans, orphans \cup {active}}
    ELSE UNCHANGED <<process, orphans>>
-----------------------------------------------------------------------------
(* The runner.                                                              *)

\* start and start_script, from the trigger, the operator or an agent.  One that
\* gets no folder or no sandbox changes nothing.
Start(r) ==
    /\ r \notin taken
    /\ experiment = HomeOf[RunOf[r]]
    /\ taken' = taken \cup {r} /\ earlier' = [earlier EXCEPT ![r] = taken]
    /\ IF active # None
       THEN /\ queue' = queue \cup {r}
            /\ UNCHANGED <<worker, bundle, told, struck, faults>>
       ELSE \E missed \in SUBSET (queue \cup {r}) :
              /\ StartNext(queue \cup {r}, missed)
              /\ Finish(missed, {})
              /\ struck' = struck \cup missed
    /\ UNCHANGED <<manager, report, orphans, lost, switches>>

\* _on_finished: the report of the folder counts unless something failed.  A
\* killed or crashed process has raised errorOccurred before.
Ended == {"exited", "crashed", "dying"}
Clean == failure = "" /\ process = "exited"
Completed == {r \in {active} : report[r] = "ok" /\ Clean}

Finished ==
    /\ active # None /\ process \in Ended
    /\ UNCHANGED <<taken, earlier>>
    /\ \E missed \in SUBSET queue :
         /\ StartNext(queue, missed)
         /\ Finish({active} \cup missed, Completed)
         /\ struck' = struck \cup missed \cup (IF process = "exited" THEN {} ELSE {active})
    /\ selected' = IF Selects(active) THEN [selected EXCEPT ![RunOf[active]] = active] ELSE selected
    /\ UNCHANGED <<experiment, closed, report, orphans, lost, switches>>

TimerFires ==
    /\ timer /\ timer' = FALSE
    /\ failure' = "timed out" /\ struck' = struck \cup {active}
    /\ Kill
    /\ UNCHANGED <<manager, queue, active, disk, taken, earlier, told, lost, bounds>>

\* cancel: of one run, or of all of them.
CancelledOf_KeepsQueued(R) == {}
CancelledOf(R) == {r \in queue : RunOf[r] \in R}
Cancel(R) ==
    /\ active # None
    /\ queue' = queue \ CancelledOf(R)
    /\ Finish({r \in queue : RunOf[r] \in R}, {})
    /\ LET hit == {r \in {active} : RunOf[r] \in R}
       IN  /\ struck' = struck \cup {r \in queue : RunOf[r] \in R} \cup hit
           /\ IF hit # {} THEN failure' = "cancelled" /\ Kill
              ELSE UNCHANGED <<failure, process, orphans>>
    /\ UNCHANGED <<manager, active, timer, report, taken, earlier, lost, switches>>
-----------------------------------------------------------------------------
(* The worker, and the containers.                                          *)

WriteReport(r, status) ==
    /\ (r = active /\ process = "working") \/ r \in orphans
    /\ report[r] = "none" /\ report' = [report EXCEPT ![r] = status]
    /\ UNCHANGED <<manager, queue, worker, bundle, orphans, history, bounds>>

WorkerEnds ==
    /\ process = "working" /\ process' \in {"exited", "crashed"}
    /\ UNCHANGED <<manager, queue, active, failure, timer, disk, orphans, history, bounds>>

ContainerEnds(r) ==
    /\ r \in orphans /\ orphans' = orphans \ {r}
    /\ UNCHANGED <<manager, queue, worker, disk, history, bounds>>
-----------------------------------------------------------------------------
(* The experiments, and the application.                                    *)

Switch == switches < MaxSwitches /\ switches' = switches + 1

\* select_bundle by the operator or an agent: a sealed, completed bundle of a
\* run of the open experiment, or none.
SelectBundle(run, r) ==
    /\ Switch /\ HomeOf[run] = experiment
    /\ r # None => RunOf[r] = run /\ bundle[r] = "ok"
    /\ selected' = [selected EXCEPT ![run] = r]
    /\ UNCHANGED <<experiment, closed, queue, worker, disk, orphans, history, faults>>

SwitchExperiment(e) ==
    /\ Switch /\ e \notin closed /\ e # experiment /\ experiment' = e
    /\ UNCHANGED <<closed, selected, queue, worker, disk, orphans, history, faults>>

CloseExperiment ==
    /\ Switch /\ experiment # None
    /\ experiment' = None /\ closed' = closed \cup {experiment}
    /\ UNCHANGED <<selected, queue, worker, disk, orphans, history, faults>>

\* The application ends and is started again; a container may outlive it.
Crash ==
    /\ faults < MaxFaults /\ faults' = faults + 1
    /\ lost' = lost \cup queue \cup ({active} \ {None})
    /\ orphans' \in {orphans, orphans \cup (IF process = "working" THEN {active} ELSE {})}
    /\ queue' = {} /\ active' = None /\ process' = "none" /\ failure' = "" /\ timer' = FALSE
    /\ UNCHANGED <<manager, disk, taken, earlier, told, struck, switches>>

Next ==
    \/ \E r \in Requests : Start(r) \/ ContainerEnds(r)
    \/ \E r \in Requests : \E status \in {"ok", "failed"} : WriteReport(r, status)
    \/ Finished \/ TimerFires \/ WorkerEnds \/ Crash
    \/ \E R \in {{run} : run \in Runs} \cup {Runs} : Cancel(R)
    \/ \E run \in Runs : \E r \in Requests \cup {None} : SelectBundle(run, r)
    \/ \E e \in Experiments : SwitchExperiment(e)
    \/ CloseExperiment

Spec == Init /\ [][Next]_vars

\* The event loop delivers what the timer and the process report.  Nothing is
\* assumed of the worker.
FairSpec == Spec /\ WF_vars(Finished) /\ WF_vars(TimerFires)
-----------------------------------------------------------------------------
Outcomes == {"none", "ok", "failed"}

\* Every variable has its type, and nothing waits without a worker.
TypeOK ==
    /\ experiment \in Experiments \cup {None} /\ closed \subseteq Experiments
    /\ selected \in [Runs -> Requests \cup {None}]
    /\ queue \subseteq Requests /\ active \in Requests \cup {None}
    /\ process \in {"none", "working", "dying", "exited", "crashed"}
    /\ failure \in {"", "timed out", "cancelled"} /\ timer \in BOOLEAN
    /\ report \in [Requests -> Outcomes] /\ bundle \in [Requests -> Outcomes]
    /\ orphans \subseteq Requests
    /\ taken \subseteq Requests /\ earlier \in [Requests -> SUBSET Requests]
    /\ told \in [Requests -> Nat] /\ struck \subseteq Requests /\ lost \subseteq Requests
    /\ faults \in 0 .. MaxFaults /\ switches \in 0 .. MaxSwitches
    /\ active = None => queue = {} /\ process = "none" /\ ~timer

\* A request that was queued is waiting, at work, or over: exactly one of them,
\* and its end is announced once.
B(b) == IF b THEN 1 ELSE 0
OneEnding ==
    \A r \in taken :
        B(r \in queue) + B(active = r) + told[r] + B(r \in lost) = 1

\* What a bundle says is its own worker's word: it is ok only of a report that
\* was, and only what struck this request itself makes an ok report fail.
OwnVerdict ==
    \A r \in Requests :
        /\ bundle[r] = "ok" => report[r] = "ok" /\ r \notin struck
        /\ bundle[r] = "failed" /\ report[r] = "ok" => r \in struck

\* A run is represented by a completed bundle of its own, whatever its later
\* analyses come to.
RepresentedByItsOwn ==
    \A run \in Runs : selected[run] # None =>
        RunOf[selected[run]] = run /\ bundle[selected[run]] = "ok"

\* The record of an experiment changes only while that experiment is open, and
\* what is sealed stays as it was sealed.
WrongRecordUntouched ==
    [][/\ \A run \in Runs : selected'[run] # selected[run] => HomeOf[run] = experiment
       /\ \A r \in Requests : bundle[r] # "none" => bundle'[r] = bundle[r]]_vars

\* Every analysis comes to an end, however its worker behaves, unless the
\* application does not live to see it.
EveryAnalysisEnds == \A r \in Requests : r \in taken ~> told[r] > 0 \/ r \in lost
=============================================================================
