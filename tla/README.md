# I2AS: the verification project

I2AS runs low-temperature transport experiments: it ramps a magnet and a cryostat,
measures between the ramps, and lets an operator, a GUI and agents command the station
while it does. This directory holds TLA+ models of the parts of it whose correctness is
a matter of order, interleaving and failure, TLC configurations that check them on small
stations, and TLAPS proofs of their safety for any station.

| model | part of the system | runs | proofs |
|---|---|---|---|
| `Orchestrator.tla`, implements `RunLifecycle.tla` | the engine: state machine, tick, commands, conditions, overrides | `runs`, `emergency` | `OrchestratorProofs.tla` |
| `Ramps.tla` | ramp generators, standby, and the holds that the tick enforces | `holds` | - |
| `Measurement.tla` | procedures, gates and data files, driven by the tick | `points`, `gates` | `MeasurementProofs.tla` |
| `Station.tla` | instruments and the driver sessions they share | `sessions` | `StationProofs.tla` |
| `RunQueueBridge.tla`, implements `RunTickets.tla` | the client's run queue and the thread bridge | `queue` | `RunQueueBridgeProofs.tla` |
| `RequestSpool.tla` | requests dropped as files, judged and answered | `drain` | `RequestSpoolProofs.tla` |
| `SessionRecords.tla` | experiment records, run numbers, policy | `records` | `SessionRecordsProofs.tla` |
| `AnalysisRunner.tla` | analyses in a worker process | `endings` | `AnalysisRunnerProofs.tla` |
| `ElnOutbox.tla` | publishing to the lab notebook | `eln_safety`, `eln_progress` | `ElnOutboxProofs.tla` |

Each model `M` has an `MCM.tla` with the small instances and a cfg `M_<run>.cfg` for each
run. `PROJECT.json` lists components, runs, hazards, findings and theorems, the code lines
each definition stands for, and for every property a plausible bug that breaks it. Check
with `tlc -config Station_sessions.cfg MCStation` and the like, prove with
`tlapm StationProofs.tla`.

Contents: 1 the system, 2 the models, 3 the runs, bounds and fairness, 4 the proofs,
5 where code and documents part, 6 what is not modelled, 7 what comes next.

## 1. The system

The engine is one Qt thread, the only writer of the hardware. Everything else talks to
it: the GUI and the session through a proxy and a thread bridge, agents through a gateway
and a folder of spooled requests; records, analyses and the notebook follow the events it
emits. What survives a restart is in files.

| component (under `src/i2as/`) | state | what is hard | what makes it correct |
|---|---|---|---|
| **Engine** `core/orchestrator.py` | the machine's state, ten fields of the run in flight, queued actions, overrides, policy | commands between ticks and, spooled, inside one; handlers in handlers; hardware that raises halfway | runs start and end once, an ended one leaves nothing behind; nobody moves what a run claims |
| **Conditions** `core/conditions.py`, **availability** | none | one hold hides another | nothing is measured with a held instrument |
| **Station** `core/station.py` | session pool, registry, error counts | shared sessions, partial opening | no session is closed under one who needs it, and what was released is free |
| **Virtual instruments** `virtual_instruments/` | targets, generators, standby bit | sequences over many ticks, interrupted | a ramp that is stepped ends; a held instrument is stood down or escalated |
| **Procedures, gates, data** `core/procedure.py`, `gates.py`, `data_manager.py`, `procedures/` | index, slots, wait clock, file | pauses, holds and failures between any two commands | a row is the point it says it is |
| **Host, bridge, proxy, queue** `core/instrument_host.py`, `orchestrator_proxy.py`, `session/run_queue.py` | the queue and its copies, questions under way | timeouts, late answers, shutdown of two threads that wait for each other | each queued run has one fate, clients see the queue |
| **Request spool, gateway** `core/request_spool.py`, `session/gateway/` | a folder, verdicts, roles | crashes between file operations; authority that changes | one true answer, and the authority of the moment of acting |
| **Session** `session/manager.py`, `store.py`, `core/run_naming.py` | records, pointer, policy in the engine | failing writes, late news, switching around a run | what a record says happened, and what is not saved is shown |
| **Analysis** `session/analysis_runner.py` | queue, worker, one field of its failure | timeout, cancel and crash racing | one ending each, of its own |
| **ELN** `session/eln/` | journal, ledger, worker | calls done but not answered, crashes | a section once, with its figures |

`PROJECT.json` lists all components, those that are not modelled too, and 39 hazards at
their lines. They come down to five kinds: many fields describe one thing and many paths
end it; what is read in one place is used in another, later; a handler calls another that
changes the state under it; one step of several fails; something was done and the answer
is lost.

## 2. The models

How they fit. `Orchestrator` is the whole engine with its surroundings left open: an
instrument is a number of advances, a wait or gate takes any time, enforcement may or may
not act at a tick, the client's queue may give a run, the spool holds any commands. Each
surrounding has a model of its own, in which in turn the engine is reduced to what meets
it: `Ramps` has the generators and the attempts that `Enforce` leaves open, `Measurement`
the plans, gates and data behind `Machine`, `RunQueueBridge` the other end of the pull,
`RequestSpool` the drain, `Station` the connections, `SessionRecords` the listener. They
are checked one by one; a product of two would add states and no question.

### Orchestrator

Follows the code's structure. The one thread is `pc`:

```
  loop --command--> loop                        a command handler
       --abort, standby-all, run_queue--> chain --next run--> return --rest--> loop
       --poll--> decide --enforce--> enforced --> spool --> gui --machine--> loop
                   \--emergency--> loop   \--run failure--> loop
```

The blocks of `_tick_body` are steps of their own, since a spooled command may be taken
in the middle of a tick, and since what matters is what one block leaves to the next.
Nothing else interrupts the thread; `OverridesExpire` is the clock as the next tick will
find it.

| variable | code |
|---|---|
| `state`, `prePause` | `_state`, `_pre_pause_state` |
| `run.proc`, `.owner`, `.claims` | `_procedure`, `_run_owner`, `_active_claims` |
| `run.sys`, `.targets` | `_active_system_vis`, `_last_system_targets` |
| `run.first`, `.parked`, `.pause` | `_first_measurement`, `_standby_dispatched`, `_pause_requested` |
| `nextOwner`, `queue` | `_next_run_owner`, `_procedure_queue` with `_queued_actors` |
| `gui` | `_gui_action_queue` |
| `monitoring`, `closed`, `envelope`, `gate` | `_monitoring`, `_run_folder == ""`, `_session_envelope`, `_agent_gate` |
| `comm`, `flags`, `critical`, `breach` | the recorded conditions; the cached readings against the envelope |
| `eOverride`, `hOverride` | `_emergency_override_until` and `_hold_override_until` still ahead |
| `ramp`, `standby` | the instruments' ramps; whether the last motion command was `standby()` |
| `call`, `spooled` | the handler inside which `run_queue` runs; the requests this tick has left |
| `log` | history: the reported fate of each run |

Commands are guarded by `Asks`; one that is refused changes nothing and has no step,
except where the refusal does change something (`StartChained`, `SpoolRefused`). A plan is
the set of instruments it targets, a run a model value with its claims and tolerated
flags. An instrument under a communication fault may miss a stop or a standby.
`RunLifecycle` sees three things of all this: the run in flight, the queued ones and the
fate of each.

### Ramps

A field, a temperature, a position are levels; a magnet's segments are one level each; a
supply moves by itself to the setpoint it was given. Each VI has its generator, target,
setpoint, value and the commanded-standby bit, and may fall mute: what needs it raises.
An emergency apart (`TickEmergency`), a tick is `TickHolds` (poll, conditions, enforcement, run failure) then `TickMachine`
(actions, state machine, ramps). Attempts, throttle (`recent`), escalation and the keys an
override unlocks are the engine's own fields.

### Measurement

One run from its first command to its closed file, on three instruments: the axis that is
swept, the meter, and a path that a reading loop may set. The commands of a plan are sent
one by one (`todo`), so that an instrument may fall mute between two. The wait clock, the
gates with their clock, `_pause_requested` and `_pre_pause_state` are the engine's; index,
slots and loop the procedure's; `file` has its length, its rows as cells with the point
and values they were read at, and what is stamped. `rest` is how long the axis has been
where it is. `ProbeSubsample` (which points a probe keeps) is a function, compared with
its definition for all sweeps up to 12 points.

### Station

A pool of driver sessions, and VIs holding driver objects; `broken` are those whose object
was closed although the pool may hold a newer one. Connect, Disconnect, Retry and
Acknowledge with the engine's gates before them, polls that count errors, instruments
switched off and on, sessions that are dead for good.

### RunQueueBridge

Two threads with their event queues: the client (queue, inbox, `shown`) and the engine
(posted calls, a question it waits for with a timeout), a cache between them, and a
shutdown whose join is bounded. `RunTickets` is what a queued run is promised: a way
through new, queued, due, running to one end, or withdrawn, or lost.

### RequestSpool

Requests are numbered in the order of their files; directory, listing, batch and queue of
actions are sets of numbers. A drain lists, unlinks, reads, judges, carries out and
answers, each a step, with crashes and failing file operations between. Roles are compared
with the ceiling cell by cell (`Matrix`, `WithinCeiling`), as they are in no one order. Of
what a command does there is what another is judged by: attendance, kill switch, the run in
flight and those queued, each of a request or of the window, with the run's owner. A file
may therefore change what the next file of the same drain may do.

### SessionRecords

Manager and store on one side, engine on the other, with a FIFO of commands and one of
news between. `disk`, `pointer` and `files` survive, and any write of them may fail;
`history` is what really happened to each placed run. `PolicyByFile` is a request file that
changes attendance or envelope in the engine, past the manager. Two history variables name
what the code itself lets come apart: `apart`, the settings that a failed switch or such a
file has set apart from the record since they were last posted; `adrift`, the experiments
let go while their file was behind, left or entered during a run (they hear of another's),
or between which a switch has failed halfway.

### AnalysisRunner

Queue, active request, process (`none`, `working`, `dying`, `exited`, `crashed`), timer and
`_failure`; reports and sealed bundles on disk; `orphans` are containers that outlive
their killed client; the manager's open experiment and selected bundles. The queue is the
set of what waits, with `earlier` for its order.

### ElnOutbox

Asking (GUI thread), the worker and its drain, one step for each remote call or write,
journal (`older` keeps the order of the jobs), ledger, the notebook with its pages,
sections and attachments, a remote call that fails, is refused, or is done and not
answered, delivered outcomes on their way back to the record, closing and restart.

## 3. The runs

| run | question | states |
|---|---|---|
| `runs` | two runs on two instruments, one gated, started at once, queued or pulled, paused, aborted, failed, with manual actions in between: do state, fields and reported fates agree; does the engine implement `RunLifecycle`; are claims respected and ended runs still; does a pause take effect, is every action answered | 350 777 |
| `emergency` | critical flags, envelope, holds, faults and raising polls at any tick, with every answer to them and an agent at the spool: is a run monitored, are overrides confined, is nothing measured held, is an emergency left only when clear | 1 927 078 |
| `holds` | holds coming and going on a magnet and another instrument that may fall mute: is an episode remembered until it ends (`EpisodeIsNotForgotten`), does a failing run stop its own ramps only, do ramps end, is a hold answered by standby or escalation | 253 908 |
| `points` | whole runs and probes of three procedures with reading loops, met by a mute instrument, a full disk or a hold anywhere: are rows their points, files whole, instruments safe, and does the run end | 335 773 |
| `gates` | violated: a pause while a gate's ramp is under way (section 5) | 1 233 |
| `sessions` | three instruments, two of which share a driver: is no session closed under one who needs it, and is what was released free, does a fault agree with its count, does a run keep its sessions, does an instrument that shares none recover | 96 100 |
| `queue` | two requests edited while the engine asks, answers late, shutdown at any time: does the bridge implement `RunTickets`, do clients see the queue, is the engine never stuck in its question | 265 474 |
| `drain` | three requests of ten kinds that start, queue and end runs and change the policy, dropped at any moment of a drain, one crash, fault or decision of the window: one true answer, nothing carried out and no run ended without the authority of that moment, everything settled | 544 937 |
| `records` | two experiments around two runs, failing writes of records and of the pointer, crashes, late news, policy by a request file: nothing silently stale, records true, numbers unique, policy that of the record | 2 566 919 |
| `endings` | three analyses of two runs, cancelled, timed out, crashed, refused and outlived by their container, while experiments are switched: one ending each, of their own, in their own record, for all | 220 952 |
| `eln_safety` | two publishes sharing a figure on a created and a linked page: a section once and whole, `published` only of what is there, pages accounted for | 479 594 |
| `eln_progress` | the worker with its timer and backoff: a publish arrives, or a person is asked for what only a person can mend | 226 127 |

Every property has a mutant in `PROJECT.json` under which its run finds it violated: a
refused action kept at the head of its queue, a scope cleared before it is stopped, a
point stamped before its columns are written, and so on.

### Bounds, and why they are enough

- **Engine** (`runs`): two runs, two instruments, one queued run, one queued action, ramps
  of one advance. Every property relates the run in flight to one other (the next, or the
  one refused before); two instruments are needed where one is claimed and one is free,
  and for a dispatch that fails halfway. `emergency`: one instrument, run and agent,
  one spooled request, since conditions act on each instrument alone. The proofs cover the rest.
- **Ramps**: two instruments, of all kinds between them, two attempts before escalation,
  one upset, one start and one action: an interrupted ramp, a repeated hold and a mute
  instrument in one behaviour. Properties are of single instruments or of two.
- **Measurement**: sweeps of two points, a settling time of two (so that a wait can be cut
  short in the middle), one disturbance. The first point differs from the others, and the
  second from the last by nothing.
- **Station**: three instruments, two sharing one session; two errors tolerated, two
  upsets, two operator changes.
- **Queue**: two requests, four questions, three edits, two commands: a late answer with
  the next question behind it takes two questions.
- **Drain**: three requests, so that one is handled, one is in the batch and one arrives;
  of two agents, so that one may end the other's run. A crash, a fault or a decision of the
  window: what the window decides, a file of the drain may decide too, and beside a fault.
- **Records**: two experiments, two runs, two troubles, three commands under way. One
  experiment may have been moved in (`MovedIn`). Every write may fail, and is counted as a
  trouble, but for the clearing of a stale pointer at a restart, which fails uncounted.
- **Analysis**: three requests show a queue behind a worker; two of them are of one run.
- **ELN**: two publishes share a figure; a fault, a crash, two links. The pages the
  notebook may create are alike and symmetrical; nothing else is.

Deadlock is checked except in `queue`, `drain`, `endings` and `records`, where requests and
bounds get used up and nothing need happen any more.

### Fairness

Straight-line code that has begun goes on, and what a timer or an event loop serves is
served. Nothing is assumed of clients, conditions, hardware or remote services unless
said here.

- **Orchestrator**: `SF` of the tick's beginning (a periodic timer among the clients'
  commands; a chain takes the thread out of `loop` and back, so weak fairness would not
  do), `WF` of `Chain` and `TickGoesOn`. `runs` leaves out exceptions while polling: with
  one at every poll the code never reaches the drain and promises nothing.
- **Ramps**: `WF` of the tick, of each supply's own motion and of the throttle's clock.
- **Measurement**: `WF` of commands being sent, of the tick, of time.
- **Station**: `WF` of polling, of a run ending, of the operator's recovery from ERROR;
  `SF` of Connect and Retry, that is of an operator who tries again: the property says
  what the code offers such an operator.
- **RunQueueBridge**: `WF` of the engine's thread and of the timeout; nothing of the client.
- **RequestSpool**: `WF` of `Drain`, a block of the tick. **AnalysisRunner**: `WF` of the
  process's ending being delivered and of the timer, not of the worker, which may hang.
- **ElnOutbox**: `WF` of the worker, of delivered outcomes, of timer and backoff; faults
  are bounded, as a notebook that never answers owes nothing.

## 4. The proofs

Eight modules, 17 382 obligations. They hold for every value of the constants under the
named assumptions of each model (tables have their types, names are distinct, bounds are
natural numbers). TLC has checked each inductive invariant on a run before its proof.

| module | theorem | what it says |
|---|---|---|
| `OrchestratorProofs` | `TypeCorrectness` | types |
| | `RunsAndStatesAgree` | `[]RunStateConsistent` |
| | `PauseRequestsArePending` | a pause request lives only until its measurement is saved |
| | `RunsAreMonitored`, `OverridesAreConfined`, `PointsAreMeasuredUnheld` | the invariants of `emergency` |
| | `EmergencyIsKept`, `StandDownIsKept`, `EmergenciesAreHonoured` | `EmergencyIsHonoured` and its two halves |
| | `RunsKeepTheirClaims`, `EndedRunsAreStopped` | the action properties of `runs` |
| | `RunsFollowTheirLifecycle` | the refinement of `RunLifecycle` |
| `MeasurementProofs` | `TypesAreKept` | types |
| | `RowsAreTrue` | `[]RowsAreTheirPoints` |
| | `FilesAreWhole` | `[]FilesHoldWholePoints` |
| | `RunsAreLeftSafe` | `LeftSafe` |
| `StationProofs` | `TypeCorrectness`, `FaultsAgree` | types, `[]FaultMatchesErrors` |
| | `SessionsAreNotStolen`, `ReleasedSessionsAreFree`, `SessionsAreWhereTheyBelong` | the halves of `SessionsFollowTheirVIs`, and it |
| | `RunsKeepTheirSessions` | `RunKeepsItsSessions` |
| `RunQueueBridgeProofs` | `TypesAreKept`, `ClientsSeeTheQueue` | types, `[]BroadcastsConverge` |
| | `QueueImplementsTickets` | the refinement of `RunTickets` |
| `RequestSpoolProofs` | `TypesAreKept`, `AnsweredOnce`, `AgentsActByRight` | types, `[]OneTrueAnswer`, `ActsByRight` |
| `SessionRecordsProofs` | `TypesAreKept`, `StalenessIsShown`, `RunsAreNumberedApart` | types, `[]NothingSilentlyStale`, `[]NumbersAreUnique` |
| | `PolicyIsFollowed`, `RecordsAreTrue` | `[]PolicyFollowsTheRecord`, `[]RecordsTellTheTruth` |
| `AnalysisRunnerProofs` | `TypesAreKept`, `EveryRequestEndsOnce`, `VerdictsAreTheirOwn` | types, `[]OneEnding`, `[]OwnVerdict` |
| | `RunsAreRepresented`, `RecordsAreUntouched` | a run is represented by a completed bundle of its own; `WrongRecordUntouched` |
| `ElnOutboxProofs` | `TypesAreKept`, `SectionsStayWhole` | types, `[]SectionsAreWhole` |
| | `PublishedIsTrue`, `PagesStayAccountedFor` | `[]PublishedIsOnAPage`, `[]PagesAccountedFor` |

The stated invariants are seldom inductive. What was added, and why:

- **Orchestrator**: a pause is taken only from a state that steps a run (`PausedMidStep`),
  else a resume could return to IDLE with a run, or straight into a measurement;
  `run_queue` finds IDLE, and a nested call returns IDLE, INITIATING or ERROR
  (`ChainFindsIdle`), else a chain could start a run over another; a tick past its
  EMERGENCY block has dealt with every critical condition (`EmergencySeen`); one past its
  run-failure block that will measure has no watched instrument held, whatever spooled
  commands come between (`HoldsSeen`). For the refinement, `RunsOfAppend` and
  `RunsOfHeadTail`: projecting the queue on its runs commutes with its operations.
- **Measurement**: a row is its point for two reasons. Its cells are their own because the
  loop stands before one cell with the changing slots at that cell's values and the others
  at their only one (`AtWork`, `Prepared`), so a reading is right when taken
  (`ReadingsAreTheirOwn`). It is read in place because the axis is where the index says and
  has rested at least what the wait clock has counted (`InPlace`), which needs a ramp to be
  under way or at its goal (`AxisIsSomewhere`) and each state to do only what belongs to it
  (`InItsState`, `NothingYet`). Whole files are a count of the index against points saved
  and stamped (`Points`). Safety at the end is that the commands that remain will switch
  off what the opening may have switched on (`SwitchedOff`, `OnlyItsSlots`). The nested
  loop's cells are numbered by mixed radix; its arithmetic (`Divides` and the lemmas after
  it) is proved for any two counts.
- **Station**: two live instruments that share a driver find it in the pool
  (`SharedIsOpen`), so opening for one never replaces the session of another; what a run
  claims is live (`ClaimsAreLive`).
- **RunQueueBridge**: the cache is the queue (`Told`); a question is asked once, by an
  engine without a run (`QuestionsAreOpen`, `OneAsker`, `IdleWhenAsking`); and a run is in
  one of four places (`OpenInQueue`, `OpenAtClient`, `OpenInAnswer`, `OpenAtEngine`,
  `Located`), which is what the refinement mapping reads off.
- **RequestSpool**: `Right(n)`, of each request apart: in the directory or with the engine,
  not both, it is fresh; once carried out it is nowhere. Requests whose file could not be
  removed (`stuck`) are excepted, by the property too. For `ActsByRight`, the batch follows
  the queued actions in the order of the files (`InTurn`), and a queued action was rightful
  when it was queued and is so until a later request changes the policy (`Deferred`).
- **SessionRecords**: every number that was given belongs to a file (`NumbersAreTaken`),
  the files of a folder are numbered without a gap (`FilesAreDense`); the policy in force is
  what the commands on their way leave, unless it was set apart (`Followed`, `Enforced`); for
  the truth of records, news is in order (`InOrder`), concerns
  the open experiment's runs only, or those of one adrift (`OnlyTheirs`, `Headed`), and each entry agrees with history up to
  the news still coming (`BooksAreTrue`).
- **AnalysisRunner**: a request is counted in one place (`Accounted`), `_failure` is of the
  active one (`StruckIsKnown`), orphans were struck (`OrphansAreStruck`).
- **ElnOutbox**: the ledger knows only what is on the page (`LedgerIsTrue`), the append is
  decided on what the page holds (`AppendsOnce`, `AppendedIsTrue`), done means done
  (`DoneIsTrue`), and a page is created only while none
  is recorded (`OneCreation`).

**Only model-checked.** Liveness under fairness is out of the provers' reach:
`PauseTakesEffect`, `ActionsAreAnswered`, `RampsEnd`, `HoldIsAnswered`, `RunsEnd`,
`RecoversAlone`, `EngineCarriesOn`, `RequestsAreSettled`, `EveryAnalysisEnds`,
`PublishArrives`. `EpisodeIsNotForgotten` and `OthersKeepRamping` of `Ramps` are action
properties without a proof. `ProbeSubsample` is compared with its definition on short
sweeps: that would be an induction over data. `GateOpens` is false.

A few leaves name their prover (`ZenonT`, `SMTT`): they need more than the default time.

## 5. Where code and documents part

One is shown by a run. `gates`: pausing during `INITIATION_GATE` stops the ramp that the
imaging gate has started; `resume_procedure` (`orchestrator.py:1811`) sends targets again
only for INITIATING, RAMPING and STANDBY, so the gate waits for ever, against the docstring
at line 1786 ("From PAUSED: restarts the held ramps and unfreezes the wait clock, and the run
picks up where it was held").

The others were met while modelling. The models follow the code.

Engine (`core/orchestrator.py`):
- a queued run that is refused leaves `_next_run_owner` to the next run (1529, comment 670);
- standby-all aborts, the abort starts the next queued run, and the standbys are then sent
  against it (2399, 2392); an abort in ERROR or IDLE ends nothing and starts the queue
  (1846), and one that chains to a refused run is answered with that refusal;
- a nested handler answers the one verdict that is open (2956);
- a resume that raises halfway stays PAUSED with a ramp moving (1816, 1715);
- a hold enforced while PAUSED at a gate: the resume measures with the instrument in
  standby (1811);
- a failing run stops the standby that enforcement has sent on the same tick (4038, 3769);
- ramps of a stand-down are not stepped in EMERGENCY or ERROR (3986, whose docstring names
  PAUSED as the one exception); a standby plan's targets are not among those waited for
  (3966); monitoring may be stopped with a manual ramp still queued (1117);
- one mute instrument ends the stepping of all ramps, and puts the machine into ERROR
  (`station.py:1613`, against 370 and `test_l3_orchestrator.py:961`).

Ramps: `TARGET_REACHED` of a retargeted or lapsed ramp is not confirmed (`rampable.py:62`);
the heater's `standby()` leaves its generator, and `initiate()` its standby bit; an
overridden VI keeps its attempts (comment 4342-4345); `stop_ramp` answers success though
the failure was swallowed.

Measurement: the first point of imaging is not settled, as its gates are stepped side by
side; a hold enforced in a paused wait or gate moves the axis, and the point is measured
there; a pause during standby's ramp lets the run finish `done` with the magnet off zero;
an exception while closing the file or in the meter's standby skips the remaining safe-off
commands (4026; "Each cleanup step is individually guarded", 4007-4017). `RowsAreTheirPoints`
and `LeftSafe` name exactly these exceptions. A save that fails at the first point leaves a
file of empty rows; gate and wait clocks run on while paused or ramped again (`gates.py:48`).

Station: a dead session that is shared can never be reopened (recovery "retry" in
`availability.py`); a failed identity check leaves a session in the pool with nobody on it;
Retry of a stale instrument resets its count to one; a failed rebuild leaves the old VI on
a closed session.

Run queue: a late answer takes a run from the queue that nobody starts (`instrument_host.py`
279-287, `run_queue.py:1017`, against the docstring of `ask`).

Request spool: a file that cannot be removed is taken and carried out again (297-303); a
crash or a full disk loses answers (68-71); files left over are executed at the next start
with the gate open, as a restart forgets that the kill switch was closed; a file that claims
to be the operator's is refused even for `emergency_standby` (640-660; README.md:17 says that
it is never refused); a manual action admitted because the experiment was unattended is
carried out although a later file of the drain has set attendance (`roles.py:322`); the
`abort_procedure` inside standby-all names no actor and passes as the operator's, so an agent
that may recover ends another's run with no takeover recorded (`orchestrator.py:2399`,
against 1830-1834).

Session: `set_attendance` and envelope changes through the spool change the engine alone,
and setting the recorded value is then a no-op (`manager.py:433-439`, whose docstring says
the two can never be out of step); deleting the newest file reuses its
number (`run_naming.py:56`, "Numbers are never reused", README.md:119); one flag shows the
health of all records (1242); failing to write active.json while switching leaves the engine with the policy and the folder
of the experiment before (507-511), while closing it leaves a closed record live, whose
unfinished runs a crash then leaves as "running" for good; switching during a run writes
its news into the other experiment's entry of that number (842, `models.py:433`).

Analysis: a container may outlive its killed client, so two may run; an unsealed folder
reads as legacy claims; a good report after the timer counts as failed; a crash loses what
was queued.

ELN: a failure in the middle of a job records it as it was given, and its progress is lost
(`publishing.py:518`, against `outbox.py:16`); outcomes are lost when the application closes
before `_drained` (`service.py:570`), the page is then never known and its publishes wait;
creating and uploading are repeated when not answered; a re-link queues nothing; publishing
twice before the first outcome repeats runs; a torn journal line swallows the next revision.

## 6. What is not modelled, and why

Of what is modelled: verdicts and who is told what, `shutdown` of the engine, the
measurement of what is not swept (time series), identities and users, session index
reconciliation, `set_run_folder` by a request file, a reused folder of a script analysis
(script ids carry a microsecond timestamp, `gateway/tools.py:3233`), the remote append held
back for an edit. Text, formats, units and layout
everywhere.

Of the rest: stall detection, status mirror and run buffer (they report and do not act; of
the candidates the first), trends and their tiers (pure data), feeds and logs (append
only), MCP and `ctl` (translation), drafting, blocks and recipes (user code and fits),
drivers (I/O and simulated physics), GUI (presentation), configuration and troubleshooting
tools. Six hazards have no property; their notes in `PROJECT.json` say why, mostly since
the code does what the hazard says.

## 7. What comes next

1. `Ramps`: its two action properties. `OthersKeepRamping` is a matter of one step and the
   types; `EpisodeIsNotForgotten` needs that attempts are kept for held instruments only
   and that an escalated one has reached the limit.
2. Stall detection against a definition over the history of readings; the status mirror
   and the run buffer with late joiners.
3. The engine's verdicts: each command answered once, nested handlers included.
4. `decide`, the gateway's action classes and the trend tiers as operators compared with
   reference definitions.
