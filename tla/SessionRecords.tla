---------------------------- MODULE SessionRecords ----------------------------
(***************************************************************************)
(* The experiment records of a session: session/manager.py on the client's  *)
(* thread over session/store.py on disk, with what it pushes down to the    *)
(* engine (core/orchestrator.py) and the news of runs it hears from there.  *)
(* Each side handles one message at a time; both directions are FIFO.       *)
(*                                                                         *)
(* An experiment is its serial number. An envelope is whether the record    *)
(* bounds the sample; titles, findings, queues and files' contents are left *)
(* out. A run is its place in `history`, which is what really happened; a   *)
(* record knows it by its number, as the code does.                         *)
(***************************************************************************)
EXTENDS Integers, Sequences, FiniteSets, FiniteSetsExt

CONSTANTS MaxExperiments, MaxCalls,
          MaxWork,        \* bound: runs, and changes of the policy
          MaxTroubles,    \* bound: crashes, and writes that raise OSError
          MovedIn,        \* open experiments whose folders a person has put there
          Asked           \* the policies that experiments are started with

ASSUME BoundsAssumption ==
    /\ {MaxExperiments, MaxCalls} \subseteq Nat \ {0}
    /\ {MaxTroubles, MaxWork} \subseteq Nat
    /\ MovedIn \subseteq 1..MaxExperiments
    /\ Asked \subseteq [attended : BOOLEAN, bounded : BOOLEAN]

VARIABLES disk,      \* experiment -> its experiment.json, or NoRecord
          pointer,   \* active.json
          files,     \* experiment -> the numbers of the run files in its data/
          current,   \* the manager's open experiment, 0 for none
          record,    \* ... and its record in memory
          saveOk,    \* _store_save_ok: what the GUI shows of the store
          calls,     \* commands posted to the engine
          engine,    \* the policy installed there: attended, bounded, folder
          news,      \* the engine's signals and events on their way back
          history,   \* every run that was placed: its folder, number and fate
          apart,     \* settings that a failed switch or a request file left apart
          adrift,    \* experiments whose record was let go while its file was
                     \* behind, or that hear of runs of another or not of their own
          troubles, changes

vars == <<disk, pointer, files, current, record, saveOk, calls, engine, news,
          history, apart, adrift, troubles, changes>>
clientVars == <<disk, pointer, current, record, saveOk, adrift>>
engineVars == <<files, engine, history>>

Experiments == 1..MaxExperiments
NoRecord    == [made |-> FALSE, open |-> FALSE, attended |-> TRUE, bounded |-> FALSE, runs |-> <<>>]
Stored      == {e \in Experiments : disk[e].made}
Flying      == {r \in DOMAIN history : history[r].fate = "running"}
Settings    == {"bounded", "attended"}

\* Whether writes succeed.
Failed(ok) == IF ok THEN 0 ELSE 1
Spend(n)   == troubles' = troubles + n /\ troubles' <= MaxTroubles

Init ==
    /\ disk = [e \in Experiments |-> [NoRecord EXCEPT !.made = e \in MovedIn, !.open = e \in MovedIn]]
    /\ pointer = 0
    /\ files = [e \in Experiments |-> {}]
    /\ current = 0 /\ record = NoRecord /\ saveOk = TRUE
    /\ calls = <<>> /\ news = <<>> /\ history = <<>>
    /\ engine = [attended |-> TRUE, bounded |-> FALSE, folder |-> 0]
    /\ apart = {} /\ adrift = {} /\ troubles = 0 /\ changes = 0
-----------------------------------------------------------------------------
(* The manager. *)

Call(what, value) == [what |-> what, value |-> value]

Post(cs) == /\ Len(calls) + Len(cs) <= MaxCalls
            /\ calls' = calls \o cs

Install_WithoutAttendance(e, r) == <<Call("bounded", r.bounded), Call("folder", e)>>

\* The policy of a record that becomes live, as three commands.
Install(e, r) == <<Call("bounded", r.bounded), Call("attended", r.attended), Call("folder", e)>>

Written_CallsItSaved(e, r, ok) ==
    disk' = (IF ok THEN [disk EXCEPT ![e] = r] ELSE disk) /\ saveOk' = TRUE

\* _save_current: a failed write leaves the file as it was and is shown as bad
\* health, until the next write of any record succeeds.
Written(e, r, ok) ==
    disk' = (IF ok THEN [disk EXCEPT ![e] = r] ELSE disk) /\ saveOk' = ok
SaveCurrent(e, r) == \E ok \in BOOLEAN : Written(e, r, ok) /\ Spend(Failed(ok))

\* Runs are under way, or asked for, whose news may come to another experiment.
Busy == Flying # {} \/ news # <<>> \/ \E i \in DOMAIN calls : calls[i].what = "run"
Mixed(es) == IF Busy THEN es ELSE {}

LetGo == IF current # 0 /\ disk[current] # record THEN {current} ELSE {}

StartExperiment(attended, bounded) ==
    LET e == Max(Stored \cup {0}) + 1                   \* next_experiment_number
        r == [made |-> TRUE, open |-> TRUE, attended |-> attended, bounded |-> bounded, runs |-> <<>>]
    IN  /\ current = 0 /\ e \in Experiments
        /\ disk' = [disk EXCEPT ![e] = r]
        /\ \E ok \in BOOLEAN :
             /\ Spend(Failed(ok))
             /\ IF ok
                THEN /\ pointer' = e /\ current' = e /\ record' = r
                     /\ Post(Install(e, r)) /\ apart' = {} /\ adrift' = adrift \cup Mixed({e})
                ELSE UNCHANGED <<pointer, current, record, calls, apart, adrift>>
        /\ UNCHANGED <<engineVars, saveOk, news, changes>>

\* When the pointer cannot be written the record, closed by then, stays live.
CloseExperiment ==
    LET r == [record EXCEPT !.open = FALSE]
    IN  /\ current # 0
        /\ \E ok \in BOOLEAN, points \in BOOLEAN :
             /\ Written(current, r, ok) /\ Spend(Failed(ok) + Failed(points))
             /\ IF points
                THEN /\ pointer' = 0 /\ current' = 0 /\ record' = NoRecord
                     /\ Post(<<Call("bounded", FALSE), Call("folder", 0)>>)
                     /\ apart' = apart \ {"bounded", "folder"}
                     /\ adrift' = adrift \cup (IF ok THEN Mixed({current}) ELSE {current})
                ELSE record' = r /\ UNCHANGED <<pointer, current, calls, apart, adrift>>
        /\ UNCHANGED <<engineVars, news, changes>>

\* Loads the target and stops tracking the current one, which is left as its
\* file last was.  When the pointer cannot be written the target is live already
\* and nothing is installed: the engine keeps the policy, and the folder, of before.
SwitchExperiment(e) ==
    /\ e \in Stored /\ disk[e].open
    /\ current' = e /\ record' = disk[e]
    /\ \E ok \in BOOLEAN :
         /\ Spend(Failed(ok))
         /\ IF ok
            THEN /\ pointer' = e /\ Post(Install(e, disk[e])) /\ apart' = {}
                 /\ adrift' = adrift \cup LetGo \cup Mixed({current, e} \ {0})
            ELSE /\ adrift' = adrift \cup ({current, e} \ {0})
                 /\ apart' = Settings \cup {"folder"} /\ UNCHANGED <<pointer, calls>>
    /\ UNCHANGED <<engineVars, disk, saveOk, news, changes>>

Requested == Cardinality({i \in DOMAIN calls : calls[i].what = "run"})
MayWork   == Len(history) + Requested + changes < MaxWork
Change    == MayWork /\ changes' = changes + 1

SetExperimentEnvelope(bounded) ==
    LET r == [record EXCEPT !.bounded = bounded]
    IN  /\ current # 0 /\ Change
        /\ record' = r /\ SaveCurrent(current, r)
        /\ Post(<<Call("bounded", bounded)>>) /\ apart' = apart \ {"bounded"}
        /\ UNCHANGED <<engineVars, pointer, current, news, adrift>>

\* The attendance toggle: through the record when one is open, which it changes
\* only when it differs, and straight to the engine otherwise.
SetAttended(attended) ==
    LET r == [record EXCEPT !.attended = attended]
    IN  /\ Change
        /\ IF current # 0
           THEN /\ record.attended # attended
                /\ record' = r /\ SaveCurrent(current, r)
           ELSE UNCHANGED <<record, disk, saveOk, troubles>>
        /\ Post(<<Call("attended", attended)>>) /\ apart' = apart \ {"attended"}
        /\ UNCHANGED <<engineVars, pointer, current, news, adrift>>

RequestRun ==
    /\ MayWork /\ Post(<<Call("run", 0)>>)
    /\ UNCHANGED <<clientVars, engineVars, news, apart, troubles, changes>>
-----------------------------------------------------------------------------
(* The engine. *)

NextRunNumber_ByRecord(e) == Len(record.runs) + 1

\* next_run_number: one more than the highest number of a file in the folder.
NextRunNumber(e) == Max(files[e] \cup {0}) + 1

Tell(kinds, r) == news' = news \o [i \in DOMAIN kinds |-> [kind |-> kinds[i], run |-> r]]

\* run_procedure: refused with no folder or while a run is in flight; else the
\* run is placed and initiated, and only a run that starts is announced. One
\* that fails has made its file or not.
BeginRun ==
    LET e == engine.folder
        n == NextRunNumber(e)
        Placed(fate) == Append(history, [folder |-> e, number |-> n, fate |-> fate])
    IN  IF e = 0 \/ Flying # {} THEN UNCHANGED <<files, history, news>>
        ELSE \/ /\ files' = [files EXCEPT ![e] = @ \cup {n}]
                /\ history' = Placed("running")
                /\ Tell(<<"started", "owner">>, Len(history) + 1)
             \/ /\ files' = [files EXCEPT ![e] = @ \cup {n}]
                /\ history' = Placed("never started")
                /\ UNCHANGED news
             \/ UNCHANGED <<files, history, news>>

TakeCall ==
    LET c == Head(calls)
    IN  /\ calls # <<>>
        /\ calls' = Tail(calls)
        /\ engine' = CASE c.what = "bounded"  -> [engine EXCEPT !.bounded = c.value]
                       [] c.what = "attended" -> [engine EXCEPT !.attended = c.value]
                       [] c.what = "folder"   -> [engine EXCEPT !.folder = c.value]
                       [] OTHER               -> engine
        /\ IF c.what = "run" THEN BeginRun ELSE UNCHANGED <<files, history, news>>
        /\ UNCHANGED <<clientVars, apart, troubles, changes>>

\* set_attendance or set_experiment_envelope from the spool: a request file of the
\* system reaches the engine, which knows no record, past the manager.
PolicyByFile(what, value) ==
    /\ engine[what] # value /\ Change
    /\ engine' = [engine EXCEPT ![what] = value]
    /\ apart' = IF \E i \in DOMAIN calls : calls[i].what = what THEN apart
                ELSE apart \cup {what}
    /\ UNCHANGED <<clientVars, files, calls, news, history, troubles>>

\* "done" stands for "aborted" too.  Bound: every other run fails.
EndRun ==
    \E r \in Flying :
        /\ history' = [history EXCEPT ![r].fate = IF r % 2 = 1 THEN "done" ELSE "failed"]
        /\ Tell(<<"ended">>, r)
        /\ UNCHANGED <<clientVars, files, engine, calls, apart, troubles, changes>>
-----------------------------------------------------------------------------
(* What the manager hears of runs. *)

\* find_run: the first entry of that number.
Found(n) == {i \in DOMAIN record.runs :
               /\ record.runs[i].number = n
               /\ \A j \in 1..(i - 1) : record.runs[j].number # n}

RunStarted(r) ==
    [record EXCEPT !.runs =
        Append(@, [number |-> history[r].number, run |-> r, owner |-> 0, status |-> "running"])]

OwnerStamped(i, r) == [record EXCEPT !.runs[i].owner = r]
RunFinished(i, r)  == [record EXCEPT !.runs[i].status = history[r].fate]

Hear ==
    LET m == Head(news)
        n == history[m.run].number
        Write(r) == record' = r /\ SaveCurrent(current, r)
    IN  /\ news # <<>>
        /\ news' = Tail(news)
        /\ IF current = 0 \/ (m.kind # "started" /\ Found(n) = {})
           THEN UNCHANGED <<record, disk, saveOk, troubles>>
           ELSE \/ m.kind = "started" /\ Write(RunStarted(m.run))
                \/ m.kind = "owner" /\ \E i \in Found(n) : Write(OwnerStamped(i, m.run))
                \/ m.kind = "ended" /\ \E i \in Found(n) : Write(RunFinished(i, m.run))
        /\ UNCHANGED <<engineVars, pointer, current, calls, apart, adrift, changes>>
-----------------------------------------------------------------------------
(* The application dies and is started again: what was in memory, and what was *)
(* in transit, is gone. The active experiment is resumed if it is still open,  *)
(* its unfinished runs as failed; a pointer to one that is not is cleared, or  *)
(* stays when it cannot be written.                                            *)

Resumed_AsItWas(r) == r

Resumed(r) ==
    [r EXCEPT !.runs = [i \in DOMAIN @ |->
        IF @[i].status = "running" THEN [@[i] EXCEPT !.status = "failed"] ELSE @[i]]]

Restart ==
    LET resumes == pointer # 0 /\ disk[pointer].open
        r       == Resumed(disk[pointer])
        Untold(x) == history[x].fate = "running" \/ \E i \in DOMAIN news : news[i].run = x
    IN  /\ history' = [x \in DOMAIN history |->
                         IF Untold(x) THEN [history[x] EXCEPT !.fate = "lost"] ELSE history[x]]
        /\ engine' = [attended |-> TRUE, bounded |-> FALSE, folder |-> 0]
        /\ news' = <<>> /\ apart' = {} /\ adrift' = adrift \cup LetGo
        /\ IF resumes
           THEN /\ pointer' = pointer /\ current' = pointer /\ record' = r
                /\ \E ok \in BOOLEAN :
                     /\ ok \/ r # disk[pointer]
                     /\ Written(pointer, r, ok) /\ Spend(1 + Failed(ok))
                /\ calls' = <<Call("folder", 0)>> \o Install(pointer, r)
           ELSE /\ current' = 0 /\ record' = NoRecord /\ saveOk' = TRUE
                /\ \E ok \in BOOLEAN :
                     /\ ok \/ pointer # 0
                     /\ pointer' = (IF ok THEN 0 ELSE pointer) /\ Spend(1)   \* this write not counted
                /\ calls' = <<Call("folder", 0)>> /\ UNCHANGED disk
        /\ UNCHANGED <<files, changes>>

Next ==
    \/ \E p \in Asked : StartExperiment(p.attended, p.bounded)
    \/ CloseExperiment
    \/ \E e \in Experiments : SwitchExperiment(e)
    \/ \E b \in BOOLEAN : SetExperimentEnvelope(b)
    \/ \E a \in BOOLEAN : SetAttended(a)
    \/ RequestRun
    \/ TakeCall
    \/ \E what \in Settings, value \in BOOLEAN : PolicyByFile(what, value)
    \/ EndRun
    \/ Hear
    \/ Restart

Spec == Init /\ [][Next]_vars
-----------------------------------------------------------------------------
(* Properties. *)

Fates    == {"running", "done", "failed", "lost", "never started"}
Entries  == [number : Nat, run : Nat \ {0}, owner : Nat, status : Fates]
Records  == [made : BOOLEAN, open : BOOLEAN, attended : BOOLEAN, bounded : BOOLEAN,
             runs : Seq(Entries)]
Calls    == [what : Settings, value : BOOLEAN]
                \cup [what : {"folder"}, value : Experiments \cup {0}]
                \cup [what : {"run"}, value : {0}]

\* Every variable has its type.
TypeOK ==
    /\ disk \in [Experiments -> Records] /\ record \in Records
    /\ {pointer, current} \subseteq Experiments \cup {0}
    /\ files \in [Experiments -> SUBSET Nat] /\ saveOk \in BOOLEAN
    /\ calls \in Seq(Calls)
    /\ engine \in [attended : BOOLEAN, bounded : BOOLEAN, folder : Experiments \cup {0}]
    /\ news \in Seq([kind : {"started", "owner", "ended"}, run : Nat \ {0}])
    /\ \A i \in DOMAIN news : news[i].run \in DOMAIN history
    /\ history \in Seq([folder : Experiments, number : Nat, fate : Fates])
    /\ apart \subseteq Settings \cup {"folder"}
    /\ adrift \subseteq Experiments
    /\ troubles \in 0 .. MaxTroubles /\ changes \in Nat

\* The live record and its file differ only while the store is shown as failing:
\* "so a stale disk copy is never silent" (_save_current).
NothingSilentlyStale == saveOk /\ current # 0 => disk[current] = record

Book(e)    == IF e = current THEN record ELSE disk[e]
Awaited(r) == {news[i].kind : i \in {j \in DOMAIN news : news[j].run = r}}

\* What an entry of the record b says of its run: who started it and how it ended
\* are this run's own, and it is called running only while it runs or its end is
\* on the way. An end that a crash kept from being told is a failure; only a record
\* that was closed, and could not be let go of before the crash, still calls the
\* run running, as no start repairs a closed one.
TellsTheTruth(entry, b) ==
    LET fate == history[entry.run].fate
    IN  /\ entry.owner \in {0, entry.run}
        /\ \/ /\ entry.status = "running"
              /\ fate = "running" \/ "ended" \in Awaited(entry.run) \/ (fate = "lost" /\ ~b.open)
           \/ entry.status = fate
           \/ entry.status = "failed" /\ fate = "lost"

\* Every run that started is recorded, in the experiment whose folder holds its
\* file, with its own owner and its own ending: whatever dies, fails to be written
\* or comes late (_on_run_started, _on_engine_event, _on_run_finished, the resume).
\* Two kinds of experiments are excepted: one whose record was let go while its
\* file was behind, and one whose news went to another record, because it was
\* closed or switched with runs under way, or by a switch that failed half-way.
RecordsTellTheTruth ==
    \A e \in Experiments \ adrift :
        /\ \A i \in DOMAIN Book(e).runs : TellsTheTruth(Book(e).runs[i], Book(e))
        /\ \A r \in DOMAIN history :
              \/ history[r].folder # e \/ history[r].fate \in {"never started", "lost"}
              \/ "started" \in Awaited(r)
              \/ \E i \in DOMAIN Book(e).runs : Book(e).runs[i].run = r

\* What the engine will enforce once it has taken the commands on their way to it
\* is the policy of the live record, and with none open it runs nothing
\* (start_experiment, switch_experiment, close_experiment, set_attended, the resume).
\* Two things set it apart, and only in what they touch and until that is posted
\* again: a switch whose pointer could not be written, after which the engine has
\* all of the old policy, and a request file, which changes one setting in the
\* engine alone. A toggle to what the record says already posts nothing.
After(s, n, now, what, value) ==    \* the first n commands of s
    \/ now = value /\ \A j \in 1 .. n : s[j].what # what
    \/ \E j \in 1 .. n :
         /\ s[j].what = what /\ s[j].value = value
         /\ \A k \in j + 1 .. n : s[k].what # what
PolicyFollowsTheRecord ==
    LET n == Len(calls)
    IN  /\ "folder" \notin apart => After(calls, n, engine.folder, "folder", current)
        /\ "bounded" \notin apart
             => After(calls, n, engine.bounded, "bounded", current # 0 /\ record.bounded)
        /\ current # 0 /\ "attended" \notin apart
             => After(calls, n, engine.attended, "attended", record.attended)

\* A run's number is its identity in its experiment: no two runs of one folder
\* have the same, across crashes and runs that never started (next_run_number).
NumbersAreUnique ==
    \A r, q \in DOMAIN history :
        r # q /\ history[r].folder = history[q].folder => history[r].number # history[q].number
=============================================================================
