---------------------------- MODULE RequestSpool ----------------------------
(***************************************************************************)
(* The request spool: a directory of request files that clients in other   *)
(* processes drop, that the engine's tick takes, judges and carries out,   *)
(* and a file of verdicts that the clients read                            *)
(* (i2as/core/request_spool.py, Orchestrator._drain_request_spool, the     *)
(* permission model of i2as/session/gateway/roles.py).                     *)
(*                                                                         *)
(* Requests are numbered in the order of their files' modification times,   *)
(* in which a listing, a batch and the queue of actions keep them: each is  *)
(* the set of its numbers, the smallest of which comes first.               *)
(* One action is one file operation or one command; the engine's thread    *)
(* does nothing else while a drain lasts, but clients write and read at    *)
(* any moment, and the application may die between any two actions.  Of a  *)
(* command's work there is what decides another request: the run in flight, *)
(* those that wait in the engine's queue, attendance and the kill switch.   *)
(***************************************************************************)
EXTENDS Naturals, Sequences

CONSTANTS None,           \* no run
          Operator,       \* a run of the window's, and its owner
          Templates,      \* the request files that may be dropped
          Caps,           \* the values of spool_max_role
          Gates,          \* the settings of the kill switch, with "active"
          DiskFaults,     \* the file operations that may fail
          MaxRequests,
          MaxUpsets       \* bound: disk faults, crashes and decisions of the window

Roles    == {"observer", "analyst", "debug", "session"}
Endings  == {"abort_procedure", "submit_global_action"}
Policies == {"set_attendance", "set_agent_gate"}
Commands == {"run_procedure", "submit_vi_action", "emergency_standby"} \cup Endings \cup Policies
Request  == [command : Commands, kind : {"agent", "system", "operator"}, actor : STRING,
             role : Roles, takeover : BOOLEAN, readable : BOOLEAN]
Faults   == {"unlink", "append"}

ASSUME TemplatesAssumption == Templates \subseteq Request
ASSUME PolicyAssumption ==
    Caps \subseteq Roles /\ "active" \in Gates /\ DiskFaults \subseteq Faults
ASSUME NamesAssumption ==
    None # Operator /\ {None, Operator} \cap (Nat \cup {t.actor : t \in Templates}) = {}
ASSUME BoundsAssumption == {MaxRequests, MaxUpsets} \subseteq Nat

VARIABLES
    req,      \* the requests, in the order in which they were dropped
    files,    \* the requests directory
    up,       \* the application runs
    entries,  \* engine: the files listed by this tick's take() and not read yet
    batch,    \* engine: the requests taken and not handled
    actions,  \* engine: the manual actions queued by this drain
    cap, gate, attended,   \* spool_max_role, the kill switch, set_attendance
    run,      \* the run in flight: None, Operator, or the request that asked for it
    queued,   \* _procedure_queue: the requests whose runs wait
    answers,  \* verdicts.jsonl
    carried,  \* history: how often each request's method has been called
    lost,     \* history: the requests whose answer a crash or a full disk took
    stuck,    \* history: the requests whose file could not be removed
    upsets    \* counter of the bound

engine == <<entries, batch, actions>>
vars   == <<req, files, up, engine, cap, gate, attended, run, queued, answers, carried, lost, stuck, upsets>>
-----------------------------------------------------------------------------
Numbers   == DOMAIN req
First(n, s) == n \in s /\ \A m \in s : n <= m
Held      == batch \cup actions
Quiet     == entries = {} /\ batch = {} /\ actions = {}
AnswersTo(n) == {i \in DOMAIN answers : answers[i].request = n}
Codes     == {"OK", "BLOCKED", "BLOCKED_ROLE", "FAILED"}

Init ==
    /\ req = <<>> /\ files = {} /\ carried = <<>>
    /\ up = TRUE /\ Quiet
    /\ cap \in Caps /\ gate = "active" /\ attended = TRUE /\ run = None /\ queued = <<>>
    /\ answers = <<>> /\ lost = {} /\ stuck = {}
    /\ upsets = 0
-----------------------------------------------------------------------------
(* The client.                                                             *)

\* Bound: a request that is taken again counts as one more.
Room == Len(req) < IF stuck = {} THEN MaxRequests ELSE MaxRequests - 1

\* write_request: the file appears whole, by a rename.  The client that stops
\* waiting for the verdict (wait_for_verdict) leaves it where it is.
WriteRequest(t) ==
    /\ Room
    /\ req' = Append(req, t)
    /\ files' = files \cup {Len(req) + 1}
    /\ carried' = Append(carried, 0)
    /\ UNCHANGED <<up, engine, cap, gate, attended, run, queued, answers, lost, stuck, upsets>>

-----------------------------------------------------------------------------
(* The engine's verdicts.                                                  *)

Upset    == upsets < MaxUpsets /\ upsets' = upsets + 1
Fault(f) == f \in DiskFaults /\ Upset

\* record_verdict and _fail, through _append: an OSError is logged and nothing else.
Record(n, code) ==
    \/ /\ answers' = Append(answers, [request |-> n, code |-> code])
       /\ UNCHANGED <<lost, upsets>>
    \/ /\ Fault("append")
       /\ lost' = lost \cup {n}
       /\ UNCHANGED answers
-----------------------------------------------------------------------------
(* take().                                                                 *)

ListRequests ==
    /\ up /\ Quiet
    /\ files # {}
    /\ entries' = files
    /\ UNCHANGED <<req, files, up, batch, actions, cap, gate, attended, run, queued, answers,
                   carried, lost, stuck, upsets>>

Removed(n) == files' = files \ {n}

\* _take_one: read, unlink, parse.  A file that could not be read, or not be
\* parsed, is unlinked too; one that could not be unlinked is handled as well.
TakeOne_KeepsUnparsed(n) ==
    /\ First(n, entries)
    /\ entries' = entries \ {n}
    /\ \/ /\ ~req[n].readable
          /\ UNCHANGED <<files, batch, stuck>>
          /\ Record(n, "FAILED")
       \/ /\ req[n].readable
          /\ Removed(n)
          /\ batch' = batch \cup {n}
          /\ UNCHANGED <<answers, lost, stuck, upsets>>
    /\ UNCHANGED <<req, up, actions, cap, gate, attended, run, queued, carried>>
TakeOne(n) ==
    /\ First(n, entries)
    /\ entries' = entries \ {n}
    /\ \/ /\ ~req[n].readable
          /\ Removed(n)
          /\ Record(n, "FAILED")
          /\ UNCHANGED <<batch, stuck>>
       \/ /\ req[n].readable
          /\ Removed(n)
          /\ batch' = batch \cup {n}
          /\ UNCHANGED <<answers, lost, stuck, upsets>>
       \/ /\ req[n].readable
          /\ UNCHANGED files /\ Room /\ Fault("unlink")
          /\ stuck' = stuck \cup {n}
          /\ batch' = batch \cup {n}
          /\ UNCHANGED <<answers, lost>>
    /\ UNCHANGED <<req, up, actions, cap, gate, attended, run, queued, carried>>
-----------------------------------------------------------------------------
(* Who may do what.                                                        *)

Row(observer, analyst, debug, session) ==
    [observer |-> observer, analyst |-> analyst, debug |-> debug, session |-> session]
\* PERMISSION_MATRIX, the class of an action and the role that takes it.
Matrix ==
    [read        |-> Row("permitted", "permitted", "permitted", "permitted"),
     recovery    |-> Row("refused", "refused", "unattended_only", "permitted"),
     run_control |-> Row("refused", "refused", "refused", "permitted"),
     envelope    |-> Row("refused", "refused", "refused", "refused"),
     analysis    |-> Row("refused", "permitted", "refused", "permitted"),
     eln         |-> Row("refused", "refused", "refused", "refused")]
Rank == [refused |-> 0, unattended_only |-> 1, permitted |-> 2]

\* role_within_ceiling: cell by cell, since the roles are in no one order.
WithinCeiling(role) ==
    \A class \in DOMAIN Matrix : Rank[Matrix[class][role]] <= Rank[Matrix[class][cap]]

\* COMMAND_ACTION_CLASSES, for these commands.
ClassOf(command) ==
    CASE command \in {"run_procedure", "abort_procedure"} -> "run_control"
      [] command \in Policies -> "envelope"
      [] OTHER -> "recovery"

Grants(role, class) ==
    \/ Matrix[class][role] = "permitted"
    \/ Matrix[class][role] = "unattended_only" /\ ~attended

\* _take_one's and authorize_spooled's refusals, and submit's own look at the gate.
Admits(t) ==
    /\ t.kind # "operator"
    /\ t.command # "emergency_standby" =>
         /\ WithinCeiling(t.role)
         /\ t.kind = "agent" => gate = "active" /\ Grants(t.role, ClassOf(t.command))

\* Who started a run, or put it into the queue, owns it.
Owner == IF run \in {None, Operator} THEN run ELSE req[run].actor

OwnerAdmits_ByKind(t) ==
    t.kind # "agent" \/ run # Operator \/ t.takeover
\* _run_owner_admission: an agent ends its own run, or takes over with a reason.
OwnerAdmits(t) ==
    t.kind # "agent" \/ Owner \in {None, t.actor} \/ t.takeover
-----------------------------------------------------------------------------
(* The handling of one request: authorize, then submit.                    *)

Answered(n, code) ==
    Record(n, code) /\ UNCHANGED <<carried, run, queued, attended, gate, actions>>

\* The method runs and its verdict closes the command.
Does(n, code) == carried' = [carried EXCEPT ![n] = @ + 1] /\ Record(n, code)

\* The state, the envelope or a condition stands against the command; one that
\* raises before it does anything is FAILED instead, which is the same here.
Objects(n) == Answered(n, "BLOCKED")

\* The run that follows (run_queue): the first of the engine's queue, or one of
\* the client's, or none; or it is refused, as when no experiment is open.
NextRun ==
    IF queued = <<>> THEN run' \in {None, Operator} /\ UNCHANGED queued
    ELSE run' = Head(queued) /\ queued' = Tail(queued)
NextIsRefused ==
    run' = None /\ queued' = IF queued = <<>> THEN queued ELSE Tail(queued)

\* The refusal of the run that would follow answers the command that ended this one.
Aborts(n) ==
    /\ \/ NextRun /\ Does(n, "OK")
       \/ NextIsRefused /\ Does(n, "BLOCKED")
    /\ UNCHANGED <<attended, gate, actions>>

\* Started, or it waits: for the run in flight, or for the machine to be IDLE.
RunProcedure(n) ==
    \/ /\ \/ run = None /\ run' = n /\ UNCHANGED queued
          \/ queued' = Append(queued, n) /\ UNCHANGED run
       /\ Does(n, "OK") /\ UNCHANGED <<attended, gate, actions>>
    \/ Objects(n)

\* It goes on with the queue; it is ignored in an emergency.
AbortProcedure(n) ==
    IF OwnerAdmits(req[n])
    THEN Aborts(n) \/ Objects(n)
    ELSE Answered(n, "BLOCKED_ROLE")

\* Admitted: it waits for the drain of the manual actions, its verdict deferred.
SubmitViAction(n) ==
    \/ /\ actions' = actions \cup {n}
       /\ UNCHANGED <<carried, run, queued, attended, gate, answers, lost, upsets>>
    \/ Objects(n)

\* standby_all: its own call of abort_procedure names no actor and so passes as the
\* operator's, whoever's run it is.  The standbys it queues answer to nobody.
SubmitGlobalAction(n) ==
    IF run # None THEN Aborts(n)
    ELSE Does(n, "OK") /\ UNCHANGED <<run, queued, attended, gate, actions>>

EmergencyStandby(n) ==
    run' = None /\ Does(n, "OK") /\ UNCHANGED <<queued, attended, gate, actions>>

SetPolicy(n) ==
    /\ \/ req[n].command = "set_attendance" /\ attended' \in BOOLEAN /\ UNCHANGED gate
       \/ req[n].command = "set_agent_gate" /\ gate' \in Gates /\ UNCHANGED attended
    /\ Does(n, "OK") /\ UNCHANGED <<run, queued, actions>>

Method(n) ==
    LET command == req[n].command IN
      \/ command = "run_procedure" /\ RunProcedure(n)
      \/ command = "abort_procedure" /\ AbortProcedure(n)
      \/ command = "submit_vi_action" /\ SubmitViAction(n)
      \/ command = "submit_global_action" /\ SubmitGlobalAction(n)
      \/ command = "emergency_standby" /\ EmergencyStandby(n)
      \/ SetPolicy(n)

Handle_Skips(n) ==
    /\ entries = {} /\ First(n, batch)
    /\ batch' = batch \ {n}
    /\ IF Admits(req[n]) THEN Method(n)
       ELSE UNCHANGED <<answers, lost, upsets, carried, run, queued, attended, gate, actions>>
    /\ UNCHANGED <<req, files, up, entries, cap, stuck>>
Handle(n) ==
    /\ entries = {} /\ First(n, batch)
    /\ batch' = batch \ {n}
    /\ IF Admits(req[n]) THEN Method(n) ELSE Answered(n, "BLOCKED_ROLE")
    /\ UNCHANGED <<req, files, up, entries, cap, stuck>>

\* The drain of the manual actions that follows in the same tick; the action is
\* judged against the station once more.
DrainAction(n) ==
    /\ entries = {} /\ batch = {} /\ First(n, actions)
    /\ actions' = actions \ {n}
    /\ \/ \E code \in {"OK", "FAILED"} : Does(n, code)
       \/ Record(n, "BLOCKED") /\ UNCHANGED carried
    /\ UNCHANGED <<req, files, up, entries, batch, cap, gate, attended, run, queued, stuck>>
-----------------------------------------------------------------------------
(* Everyone else.                                                          *)

\* The window's calls reach the engine's loop between two ticks; there are those
\* that change something.
Decides == up /\ Quiet /\ Upset

SetAttendance == Decides /\ attended' = ~attended /\ UNCHANGED <<gate, run, queued>>
SetAgentGate  == Decides /\ gate' \in Gates \ {gate} /\ UNCHANGED <<attended, run, queued>>
StartsRun ==
    /\ Decides /\ run = None
    /\ (run' = Operator /\ UNCHANGED queued) \/ (queued # <<>> /\ (NextRun \/ NextIsRefused))
    /\ UNCHANGED <<gate, attended>>
\* Done, and the next one follows; or failed or aborted, and it waits.
RunEnds ==
    /\ Decides /\ run # None
    /\ NextRun \/ NextIsRefused \/ (run' = None /\ UNCHANGED queued)
    /\ UNCHANGED <<gate, attended>>

Window ==
    /\ SetAttendance \/ SetAgentGate \/ StartsRun \/ RunEnds
    /\ UNCHANGED <<req, files, up, engine, cap, answers, carried, lost, stuck>>

\* The application is closed or killed; what it holds of a drain is gone.
Crash ==
    /\ up /\ Upset
    /\ up' = FALSE
    /\ entries' = {} /\ batch' = {} /\ actions' = {}
    /\ lost' = lost \cup Held
    /\ UNCHANGED <<req, files, cap, gate, attended, run, queued, answers, carried, stuck>>

\* A new engine: its defaults, and whatever lies in the directory.
Start ==
    /\ ~up /\ up' = TRUE
    /\ gate' = "active" /\ attended' = TRUE /\ run' = None /\ queued' = <<>>
    /\ UNCHANGED <<req, files, engine, cap, answers, carried, lost, stuck, upsets>>

Drain == ListRequests \/ \E n \in Numbers : TakeOne(n) \/ Handle(n) \/ DrainAction(n)

Next ==
    \/ \E t \in Templates : WriteRequest(t)
    \/ Drain \/ Window \/ Crash \/ Start

Spec == Init /\ [][Next]_vars

\* The tick's timer runs as long as the application does; nothing restarts it.
FairSpec == Spec /\ WF_vars(Drain)
-----------------------------------------------------------------------------
\* Every variable has its type, and an application that is not running holds
\* no part of a drain.
TypeOK ==
    /\ req \in Seq(Templates) /\ Len(req) <= MaxRequests
    /\ {files, entries, batch, actions} \subseteq SUBSET Numbers
    /\ up \in BOOLEAN /\ (~up => Quiet)
    /\ cap \in Caps /\ gate \in Gates /\ attended \in BOOLEAN
    /\ run \in {None, Operator} \cup Numbers /\ queued \in Seq(Numbers)
    /\ answers \in Seq([request : Numbers, code : Codes])
    /\ carried \in [Numbers -> Nat] /\ lost \subseteq Numbers /\ stuck \subseteq Numbers

\* A request is carried out at most once and answered at most once, whatever
\* crashes, and its answer tells the truth: OK and it was carried out, or a
\* refusal and it was not (take() removes a file before it is submitted).  Until
\* then it lies in the directory or with the engine, or its answer was lost.  Only
\* a file that could not be removed is taken again, and only a command that ended
\* a run may be answered with the refusal of the next one.
OneTrueAnswer ==
    \A n \in Numbers \ stuck :
      /\ carried[n] <= 1
      /\ \A i, j \in AnswersTo(n) : i = j
      /\ \A i \in AnswersTo(n) :
           /\ answers[i].code = "OK" => carried[n] = 1
           /\ answers[i].code \in {"BLOCKED", "BLOCKED_ROLE"} =>
                carried[n] = 0 \/ (answers[i].code = "BLOCKED" /\ req[n].command \in Endings)
      /\ AnswersTo(n) = {} => n \in files \cup Held \cup lost

\* An agent's request that has to be granted, as it is by the gate, by its role
\* and by the role that is the spool's ceiling; a later request than it that has
\* changed the policy.
Bound(n) == req[n].kind = "agent" /\ req[n].command # "emergency_standby"
Rightful(n) ==
    /\ gate = "active"
    /\ Grants(req[n].role, ClassOf(req[n].command))
    /\ Grants(cap, ClassOf(req[n].command))
Overtaken(n) == \E m \in Numbers : m > n /\ carried[m] > 0 /\ req[m].command \in Policies

\* What a drain carries out, and by whom it ends a run.
Authorized ==
    \A n \in Numbers :
      carried'[n] > carried[n] /\ Bound(n) => Rightful(n) \/ (n \in actions /\ Overtaken(n))
OwnersDecide ==
    up /\ run # None /\ run' # run =>
      \/ Quiet
      \/ \E n \in batch :
           /\ carried'[n] > carried[n]
           /\ \/ req[n].command \in {"emergency_standby", "submit_global_action"}
              \/ req[n].kind = "system" \/ req[n].actor = Owner \/ req[n].takeover

\* Whatever the other requests of a drain change while it lasts, and however long
\* a request has lain on the disk, an agent's is carried out only with the authority
\* of that moment (authorize_spooled, _agent_gate_refusal).  The one exception is a
\* manual action: it was judged when it was queued, and is carried out though a
\* later request of the batch has changed the policy (_tick_body judges the station
\* again, not the authority).  And while the application runs a run is ended between
\* two drains, by the window or itself; by an emergency, or a standby of everything;
\* or by a request of the system, of its owner, or of an agent that declares a
\* takeover (_run_owner_admission).
ActsByRight == [][Authorized /\ OwnersDecide]_vars

\* As long as the application runs it comes, again and again, to a moment when
\* every request that was dropped has been answered, or its answer was lost with
\* a crash or on a full disk.
RequestsAreSettled ==
    []<>(~up \/ \A n \in Numbers : AnswersTo(n) # {} \/ n \in lost)
=============================================================================
