--------------------------- MODULE RunQueueBridge ---------------------------
(***************************************************************************)
(* The run queue across two threads.  The client owns the queue; the       *)
(* engine, on the instrument thread, asks for the next run when it is due  *)
(* and waits for the answer no longer than a timeout; in between there are *)
(* two event queues and a snapshot (i2as/core/instrument_host.py,          *)
(* i2as/core/orchestrator_proxy.py, i2as/session/run_queue.py).            *)
(*                                                                         *)
(* Of the engine there is only what meets the queue: whether it is IDLE,   *)
(* and its calls of run_queue.  Its timer stands for the ticks that        *)
(* shutdown has to stop.                                                   *)
(***************************************************************************)
EXTENDS Naturals, SequencesExt

CONSTANTS None, Unanswered,
          Specs,                \* the runs a client may queue
          MaxAsks, MaxEdits,    \* bounds: questions asked, changes of the queue
          MaxCommands           \* bound: run_queue commands sent

ASSUME NamesAssumption == {None, Unanswered} \cap Specs = {} /\ None # Unanswered
ASSUME BoundsAssumption == {MaxAsks, MaxEdits, MaxCommands} \subseteq Nat

VARIABLES
    queue,     \* client: the waiting specs
    client,    \* client: what its thread is doing
    inbox,     \* client: the calls and events its loop has not handled
    shown,     \* client: the entries of the last QueueChanged it received
    cache,     \* _QueueSnapshotCache, written by the client, read by the engine
    calls,     \* engine: the calls posted to it and not handled
    eng,       \* engine: what its thread is doing, and with which spec
    run,       \* engine: the run in flight, or None when it is IDLE
    timer,     \* engine: whether its tick timer runs
    answer,    \* of each question asked, its answer or Unanswered
    abandoned, \* the questions whose wait has timed out
    fate,      \* history: how each spec has ended, if it has
    edits, commands  \* counters of the bounds

vars == <<queue, client, inbox, shown, cache, calls, eng, run, timer, answer,
          abandoned, fate, edits, commands>>

Client == <<queue, client, inbox, shown, cache>>
-----------------------------------------------------------------------------
Fates == {"new", "open", "started", "refused", "removed"}
\* The thread of each side: its loop turns ("loop"), or it is inside a handler.
Loop      == [at |-> "loop", ask |-> 0, spec |-> None]
In(at, n, s) == [at |-> at, ask |-> n, spec |-> s]

Init ==
    /\ queue = <<>> /\ cache = <<>> /\ shown = <<>>
    /\ client = Loop /\ eng = Loop
    /\ inbox = <<>> /\ calls = <<>>
    /\ run = None /\ timer = TRUE
    /\ answer = <<>> /\ abandoned = {}
    /\ fate = [s \in Specs |-> "new"]
    /\ edits = 0 /\ commands = 0

\* emit QueueChanged: the entries as the engine sees them, on their way to the
\* client.
Shows(entries) == [kind |-> "shown", entries |-> entries]
Asks(n)        == [kind |-> "ask", ask |-> n]
-----------------------------------------------------------------------------
(* The client.                                                             *)

\* A change of the queue, first half of its broadcast: the entries are pushed
\* into the cache before the broadcast is posted.
Changed_PushesFirst(q, at) == queue' = q /\ cache' = queue /\ client' = at
Changed(q, at) == queue' = q /\ cache' = q /\ client' = at

Edits ==
    /\ client.at = "loop" /\ edits < MaxEdits
    /\ edits' = edits + 1
    /\ UNCHANGED <<inbox, shown, calls, eng, run, timer, answer, abandoned, commands>>

Add(s) ==
    /\ Edits
    /\ fate[s] = "new"
    /\ fate' = [fate EXCEPT ![s] = "open"]
    /\ Changed(Append(queue, s), In("posting", 0, None))

RemoveSpec(i) ==
    /\ Edits
    /\ i \in DOMAIN queue
    /\ fate' = [fate EXCEPT ![queue[i]] = "removed"]
    /\ Changed(RemoveAt(queue, i), In("posting", 0, None))

\* move by one place, towards the front.
Move(i) ==
    /\ Edits
    /\ i \in 2 .. Len(queue)
    /\ Changed([queue EXCEPT ![i] = queue[i - 1], ![i - 1] = queue[i]], In("posting", 0, None))
    /\ UNCHANGED fate

Clear ==
    /\ Edits
    /\ queue # <<>>
    /\ fate' = [s \in Specs |-> IF s \in Range(queue) THEN "removed" ELSE fate[s]]
    /\ Changed(<<>>, In("posting", 0, None))

\* The queue's "run" button.
SendRunQueue ==
    /\ client.at = "loop" /\ commands < MaxCommands
    /\ commands' = commands + 1
    /\ calls' = Append(calls, "run_queue")
    /\ UNCHANGED <<Client, eng, run, timer, answer, abandoned, fate, edits>>

\* take_next_spec, run for a question whether or not anyone still waits for it.
TakeNextSpec ==
    /\ client.at = "loop" /\ inbox # <<>> /\ Head(inbox).kind = "ask"
    /\ inbox' = Tail(inbox)
    /\ LET n == Head(inbox).ask IN
         IF queue = <<>>
         THEN answer' = [answer EXCEPT ![n] = None] /\ UNCHANGED <<queue, cache, client>>
         ELSE Changed(Tail(queue), In("posting", n, Head(queue))) /\ UNCHANGED answer
    /\ UNCHANGED <<shown, calls, eng, run, timer, abandoned, fate, edits, commands>>

\* The second half of a broadcast; a question is answered after it.
PostPublish ==
    /\ client.at = "posting"
    /\ calls' = Append(calls, "publish")
    /\ answer' = IF client.ask = 0 THEN answer ELSE [answer EXCEPT ![client.ask] = client.spec]
    /\ client' = Loop
    /\ UNCHANGED <<queue, inbox, shown, cache, eng, run, timer, abandoned, fate, edits, commands>>

Receive ==
    /\ client.at = "loop" /\ inbox # <<>> /\ Head(inbox).kind = "shown"
    /\ inbox' = Tail(inbox)
    /\ shown' = Head(inbox).entries
    /\ UNCHANGED <<queue, client, cache, calls, eng, run, timer, answer, abandoned, fate, edits, commands>>

\* shutdown: stop and quit travel as one call, and the client's thread blocks.
Shutdown ==
    /\ client.at = "loop"
    /\ calls' = Append(calls, "stop")
    /\ client' = In("joining", 0, None)
    /\ UNCHANGED <<queue, inbox, shown, cache, eng, run, timer, answer, abandoned, fate, edits, commands>>

\* The wait ends with the instrument thread, or after its own timeout, and then
\* the process takes what is left of that thread with it.
Leave ==
    /\ client.at = "joining"
    /\ client' = In("gone", 0, None)
    /\ eng' = IF eng.at = "ended" THEN eng ELSE In("killed", 0, None)
    /\ UNCHANGED <<queue, inbox, shown, cache, calls, run, timer, answer, abandoned, fate, edits, commands>>

-----------------------------------------------------------------------------
(* The engine.                                                             *)

\* ask: the question is put into the client's event queue.
Ask ==
    /\ Len(answer) < MaxAsks
    /\ answer' = Append(answer, Unanswered)
    /\ inbox' = Append(inbox, Asks(Len(answer) + 1))
    /\ eng' = In("asking", Len(answer) + 1, None)

Called(call) == eng.at = "loop" /\ calls # <<>> /\ Head(calls) = call

RunQueue_Any ==
    /\ Called("run_queue")
    /\ calls' = Tail(calls)
    /\ Ask
    /\ UNCHANGED <<queue, client, shown, cache, run, timer, abandoned, fate, edits, commands>>
\* run_queue is refused unless the engine is IDLE.
RunQueue ==
    /\ Called("run_queue")
    /\ calls' = Tail(calls)
    /\ IF run = None THEN Ask ELSE UNCHANGED <<answer, inbox, eng>>
    /\ UNCHANGED <<queue, client, shown, cache, run, timer, abandoned, fate, edits, commands>>

PublishQueue ==
    /\ Called("publish")
    /\ calls' = Tail(calls)
    /\ inbox' = Append(inbox, Shows(cache))
    /\ UNCHANGED <<queue, client, shown, cache, eng, run, timer, answer, abandoned, fate, edits, commands>>

AskAnswered ==
    /\ eng.at = "asking" /\ answer[eng.ask] # Unanswered
    /\ eng' = IF answer[eng.ask] = None THEN Loop
              ELSE In("building", 0, answer[eng.ask])
    /\ UNCHANGED <<Client, calls, run, timer, answer, abandoned, fate, edits, commands>>

AskTimesOut_UnlessJoining ==
    /\ eng.at = "asking" /\ answer[eng.ask] = Unanswered /\ client.at # "joining"
    /\ eng' = Loop
    /\ abandoned' = abandoned \cup {eng.ask}
    /\ UNCHANGED <<Client, calls, run, timer, answer, fate, edits, commands>>
\* The wait times out: the engine carries on without a run, and the question
\* stays where it is.
AskTimesOut ==
    /\ eng.at = "asking" /\ answer[eng.ask] = Unanswered
    /\ eng' = Loop
    /\ abandoned' = abandoned \cup {eng.ask}
    /\ UNCHANGED <<Client, calls, run, timer, answer, fate, edits, commands>>

\* build_spec and run_procedure: the run starts, or is refused, and in either
\* case it is no longer in the queue.
BuildAndStart ==
    /\ eng.at = "building"
    /\ eng' = Loop
    /\ \/ /\ run' = eng.spec
          /\ fate' = [fate EXCEPT ![eng.spec] = "started"]
          /\ inbox' = Append(inbox, Shows(cache))
       \/ /\ fate' = [fate EXCEPT ![eng.spec] = "refused"]
          /\ UNCHANGED <<run, inbox>>
    /\ UNCHANGED <<queue, client, shown, cache, calls, timer, answer, abandoned, edits, commands>>

\* The run ends: finished or aborted, the next one is asked for; failed, not.
RunEnds ==
    /\ eng.at = "loop" /\ timer /\ run # None
    /\ run' = None
    /\ Ask \/ UNCHANGED <<answer, inbox, eng>>
    /\ UNCHANGED <<queue, client, shown, cache, calls, timer, abandoned, fate, edits, commands>>

\* _stop_engine and quit, on the engine's own thread.
Stop ==
    /\ Called("stop")
    /\ timer' = FALSE
    /\ eng' = In("ended", 0, None)
    /\ calls' = Tail(calls)
    /\ UNCHANGED <<Client, run, answer, abandoned, fate, edits, commands>>

EngineSteps == RunQueue \/ PublishQueue \/ AskAnswered \/ BuildAndStart \/ Stop
-----------------------------------------------------------------------------
Next == \/ \E s \in Specs : Add(s)
        \/ \E i \in DOMAIN queue : RemoveSpec(i) \/ Move(i)
        \/ Clear \/ SendRunQueue \/ Shutdown \/ Leave
        \/ TakeNextSpec \/ PostPublish \/ Receive
        \/ RunQueue \/ PublishQueue \/ AskAnswered \/ AskTimesOut \/ BuildAndStart
        \/ RunEnds \/ Stop

Spec == Init /\ [][Next]_vars

\* The engine's event loop turns and its wait is bounded.  Of the client nothing
\* is assumed: its loop may be blocked for good.
Fairness == WF_vars(EngineSteps) /\ WF_vars(AskTimesOut)

FairSpec == Spec /\ Fairness
-----------------------------------------------------------------------------
(* Properties.                                                              *)

Entries  == Seq(Specs)
Messages == [kind : {"shown"}, entries : Entries] \cup [kind : {"ask"}, ask : Nat]

TypeOK ==
    /\ queue \in Entries /\ cache \in Entries /\ shown \in Entries
    /\ client \in [at : {"loop", "posting", "joining", "gone"}, ask : Nat, spec : Specs \cup {None}]
    /\ eng \in [at : {"loop", "asking", "building", "ended", "killed"}, ask : Nat, spec : Specs \cup {None}]
    /\ inbox \in Seq(Messages)
    /\ calls \in Seq({"run_queue", "publish", "stop"})
    /\ run \in Specs \cup {None} /\ timer \in BOOLEAN
    /\ answer \in Seq(Specs \cup {None, Unanswered})
    /\ abandoned \subseteq DOMAIN answer
    /\ fate \in [Specs -> Fates]
    /\ edits \in Nat /\ commands \in Nat
    /\ client.at # "posting" => client.spec = None
    /\ client.ask = 0 <=> client.spec = None
    /\ client.ask # 0 => client.ask \in DOMAIN answer
    /\ eng.at = "asking" => eng.ask \in DOMAIN answer
    /\ eng.at # "asking" => eng.ask = 0
    /\ eng.at = "building" <=> eng.spec # None

\* What clients show converges to the queue: when no broadcast is on its way to
\* the engine, the last one on its way to the client, or received, is the queue
\* as it is ("describes the queue as the client had it when it asked").
LastShown(entries) ==
    \/ entries = shown /\ \A i \in DOMAIN inbox : inbox[i].kind = "ask"
    \/ \E i \in DOMAIN inbox :
          inbox[i] = Shows(entries) /\ \A j \in DOMAIN inbox : j > i => inbox[j].kind = "ask"
BroadcastsConverge ==
    client.at # "posting" /\ (\A i \in DOMAIN calls : calls[i] # "publish") => LastShown(queue)

\* "An engine that cannot get an answer must carry on rather than stop ticking":
\* its loop always turns again, whether the client answers, is blocked, or is
\* itself waiting for the engine to stop, unless the process ends.
EngineCarriesOn == []<>(eng.at \in {"loop", "ended", "killed"})

\* The runs, seen from outside: RunTickets says what may become of them.  A run
\* taken for a question nobody waits for is lost from then on.
Lost(s) == \/ \E n \in abandoned : answer[n] = s \/ (client.spec = s /\ client.ask = n)
           \/ eng.at = "killed" /\ fate[s] = "open" /\ \A i \in DOMAIN queue : queue[i] # s
Stage(s) ==
    CASE fate[s] = "open" -> IF Lost(s) THEN "lost"
                             ELSE IF s \in Range(queue) THEN "waiting" ELSE "due"
      [] fate[s] = "started" -> IF run = s THEN "running" ELSE "over"
      [] OTHER -> fate[s]
Tickets == INSTANCE RunTickets WITH stage <- [s \in Specs |-> Stage(s)]
ImplementsRunTickets == Tickets!Spec
=============================================================================
