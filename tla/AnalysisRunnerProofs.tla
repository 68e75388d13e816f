------------------------- MODULE AnalysisRunnerProofs -------------------------
(***************************************************************************)
(* What the analyses of runs keep to, for any requests about any runs of    *)
(* any experiments, and however often the disk refuses a seal or the        *)
(* application dies.                                                        *)
(***************************************************************************)
EXTENDS AnalysisRunner, TLAPS

\* Where a request is: asked for or not, it is in one place at most.
Accounted ==
    \A r \in Requests :
        B(r \in queue) + B(active = r) + told[r] + B(r \in lost) = B(r \in taken)

\* What struck the worker is remembered with it until its end; nothing strikes
\* a request that waits or has not been made.
StruckIsKnown ==
    /\ active # None => (failure # "" <=> active \in struck)
    /\ \A r \in struck : r \in taken /\ r \notin queue

\* A bundle is the end of its request.
SealedIsOver == \A r \in Requests : bundle[r] # "none" => told[r] > 0

\* A container outlives its worker only because this was killed, or because
\* the application died.
OrphansAreStruck == orphans \subseteq struck \cup lost

Ind ==
    /\ TypeOK /\ Accounted /\ StruckIsKnown /\ SealedIsOver /\ OrphansAreStruck
    /\ OwnVerdict /\ RepresentedByItsOwn

USE RunsAssumption, BoundsAssumption
-----------------------------------------------------------------------------
(* What the model's operators do.                                           *)

LEMMA WhatFinishDoes ==
    ASSUME TypeOK, NEW S, S \subseteq Requests, NEW good, Finish(S, good)
    PROVE  /\ told' \in [Requests -> Nat] /\ bundle' \in [Requests -> Outcomes]
           /\ faults' \in 0 .. MaxFaults
           /\ \A r \in Requests \ S : told'[r] = told[r] /\ bundle'[r] = bundle[r]
           /\ \A r \in S : told'[r] = told[r] + 1
           /\ \A r \in S : \/ bundle'[r] = bundle[r]
                           \/ r \in good /\ bundle'[r] = "ok"
                           \/ r \notin good /\ bundle'[r] = "failed"
<1>1. told \in [Requests -> Nat] /\ bundle \in [Requests -> Outcomes] /\ faults \in 0 .. MaxFaults
  BY DEF TypeOK
<1>2. told' = [r \in Requests |-> IF r \in S THEN told[r] + 1 ELSE told[r]]
  BY DEF Finish
<1>3. PICK refused \in SUBSET S :
        /\ faults' = IF refused = {} THEN faults ELSE faults + 1
        /\ faults' <= MaxFaults
        /\ bundle' = [r \in Requests |-> IF r \notin S \ refused THEN bundle[r]
                                      ELSE IF r \in good THEN "ok" ELSE "failed"]
  BY DEF Finish
<1>4. told' \in [Requests -> Nat] /\ faults' \in 0 .. MaxFaults
  BY <1>1, <1>2, <1>3
<1>5. bundle' \in [Requests -> Outcomes]
  BY <1>1, <1>3 DEF Outcomes
<1>6. \A r \in Requests : told'[r] = IF r \in S THEN told[r] + 1 ELSE told[r]
  BY <1>2
<1>7. \A r \in Requests : bundle'[r] = IF r \notin S \ refused THEN bundle[r]
                                      ELSE IF r \in good THEN "ok" ELSE "failed"
  BY <1>3
<1> QED BY <1>4, <1>5, <1>6, <1>7

LEMMA WhatStartNextDoes ==
    ASSUME NEW q, NEW missed, StartNext(q, missed)
    PROVE  \/ /\ missed = q /\ queue' = {} /\ active' = None /\ process' = "none"
              /\ timer' = FALSE /\ failure' = failure
           \/ /\ \E r \in q \ missed : active' = r /\ queue' = q \ (missed \cup {r})
              /\ process' = "working" /\ timer' = TRUE /\ failure' = ""
BY DEF StartNext, FailureAtLaunch

LEMMA WhatKillDoes ==
    ASSUME Kill, process \in {"none", "working", "dying", "exited", "crashed"}
    PROVE  /\ process' \in {"none", "working", "dying", "exited", "crashed"}
           /\ process = "none" => process' = "none"
           /\ orphans' \in {orphans, orphans \cup {active}}
           /\ process = "none" => orphans' = orphans
BY DEF Kill

\* A request that waits or is at work has not ended, was not lost, is in no other
\* place, and nothing is sealed in its folder.
LEMMA OnePlace ==
    ASSUME Ind, NEW r \in Requests
    PROVE  /\ r \in queue => active # r /\ told[r] = 0 /\ r \notin lost /\ r \in taken
           /\ active = r => told[r] = 0 /\ r \notin lost /\ r \in taken
           /\ r \in lost => told[r] = 0 /\ r \in taken
           /\ r \notin taken => told[r] = 0 /\ r \notin lost /\ r \notin queue /\ active # r
           /\ told[r] = 0 => bundle[r] = "none"
<1>1. told[r] \in Nat /\ bundle[r] \in Outcomes
  BY DEF Ind, TypeOK
<1>2. B(r \in queue) + B(active = r) + told[r] + B(r \in lost) = B(r \in taken)
  BY DEF Ind, Accounted
<1>3. told[r] = 0 => bundle[r] = "none"
  BY <1>1 DEF Ind, SealedIsOver
<1> QED BY <1>1, <1>2, <1>3 DEF B
-----------------------------------------------------------------------------
(* The steps.                                                               *)

LEMMA StartKeeps ==
    ASSUME Ind, NEW r \in Requests, Start(r)
    PROVE  Ind'
<1>1. /\ r \notin taken /\ taken' = taken \cup {r} /\ earlier' \in [Requests -> SUBSET Requests]
      /\ UNCHANGED <<experiment, closed, selected, report, orphans, lost, switches>>
      /\ TypeOK /\ HomeOf[RunOf[r]] = experiment
  BY DEF Ind, TypeOK, Start, manager
<1>2. /\ told[r] = 0 /\ r \notin lost /\ r \notin queue /\ active # r /\ bundle[r] = "none"
      /\ r \notin struck
  BY <1>1, OnePlace DEF Ind, StruckIsKnown
<1>3. CASE active # None
  <2>1. /\ queue' = queue \cup {r}
        /\ UNCHANGED <<active, process, failure, timer, bundle, told, struck, faults>>
    BY <1>3 DEF Start, worker
  <2>2. TypeOK'
    BY <1>1, <1>3, <2>1 DEF TypeOK
  <2>3. Accounted'
    <3>1. told \in [Requests -> Nat]
      BY <1>1 DEF TypeOK
    <3>2. ASSUME NEW x \in Requests
          PROVE  B(x \in queue') + B(active' = x) + told'[x] + B(x \in lost') = B(x \in taken')
      <4>1. /\ told'[x] = told[x] /\ told[x] \in Nat
            /\ B(x \in queue) + B(active = x) + told[x] + B(x \in lost) = B(x \in taken)
            /\ active' = active /\ lost' = lost
        BY <1>1, <2>1, <3>1 DEF Ind, Accounted
      <4>2. CASE x = r
        BY <1>1, <1>2, <2>1, <4>1, <4>2 DEF B
      <4>3. CASE x # r
        <5>1. (x \in queue' <=> x \in queue) /\ (x \in taken' <=> x \in taken)
          BY <1>1, <2>1, <4>3
        <5> QED BY <4>1, <5>1 DEF B
      <4> QED BY <4>2, <4>3
    <3> QED BY <3>2 DEF Accounted
  <2>4. StruckIsKnown' /\ SealedIsOver' /\ OrphansAreStruck'
    BY <1>1, <1>2, <2>1 DEF Ind, StruckIsKnown, SealedIsOver, OrphansAreStruck
  <2>5. OwnVerdict' /\ RepresentedByItsOwn'
    BY <1>1, <2>1 DEF Ind, OwnVerdict, RepresentedByItsOwn
  <2> QED BY <2>2, <2>3, <2>4, <2>5 DEF Ind
<1>4. CASE active = None
  <2>1. PICK missed \in SUBSET (queue \cup {r}) :
          StartNext(queue \cup {r}, missed) /\ Finish(missed, {}) /\ struck' = struck \cup missed
    BY <1>4 DEF Start
  <2>2. queue = {} /\ process = "none"
    BY <1>1, <1>4 DEF TypeOK
  <2>3. /\ missed \subseteq {r} /\ StartNext({r}, missed)
    <3>1. queue \cup {r} = {r}
      BY <2>2
    <3> QED BY <2>1, <3>1
  <2>13. missed \subseteq Requests /\ told \in [Requests -> Nat] /\ selected \in [Runs -> Requests \cup {None}]
    BY <1>1, <2>3 DEF TypeOK
  <2>4. \/ /\ missed = {r} /\ queue' = {} /\ active' = None /\ process' = "none"
           /\ timer' = FALSE /\ failure' = failure
        \/ /\ missed = {} /\ active' = r /\ queue' = {}
           /\ process' = "working" /\ timer' = TRUE /\ failure' = ""
    <3>1. {r} \ {} = {r} /\ {r} \ ({} \cup {r}) = {} /\ (missed = {} \/ missed = {r})
      BY <2>3
    <3>2. CASE missed = {r}
      BY <2>3, <3>2, WhatStartNextDoes
    <3>3. CASE missed = {}
      <4>1. \E x \in {r} : active' = x /\ queue' = {r} \ ({} \cup {x})
        BY <2>3, <3>1, <3>3, WhatStartNextDoes
      <4>2. active' = r /\ queue' = {}
        BY <3>1, <4>1
      <4>3. process' = "working" /\ timer' = TRUE /\ failure' = ""
        BY <2>3, <3>3, WhatStartNextDoes
      <4> QED BY <3>3, <4>2, <4>3
    <3> QED BY <3>1, <3>2, <3>3
  <2>5. /\ told' \in [Requests -> Nat] /\ bundle' \in [Requests -> Outcomes]
        /\ faults' \in 0 .. MaxFaults
        /\ \A x \in Requests \ missed : told'[x] = told[x] /\ bundle'[x] = bundle[x]
        /\ \A x \in missed : told'[x] = told[x] + 1 /\ bundle'[x] \in {bundle[x], "failed"}
    <3>0. PICK none : none = {}
      OBVIOUS
    <3>1. TypeOK /\ missed \subseteq Requests /\ Finish(missed, none)
      BY <1>1, <2>1, <2>13, <3>0
    <3>2. /\ told' \in [Requests -> Nat] /\ bundle' \in [Requests -> Outcomes]
          /\ faults' \in 0 .. MaxFaults
          /\ \A x \in Requests \ missed : told'[x] = told[x] /\ bundle'[x] = bundle[x]
          /\ \A x \in missed : told'[x] = told[x] + 1
          /\ \A x \in missed : \/ bundle'[x] = bundle[x]
                               \/ x \in none /\ bundle'[x] = "ok"
                               \/ x \notin none /\ bundle'[x] = "failed"
      BY <3>1, WhatFinishDoes
    <3> QED BY <3>0, <3>2
  <2>6. TypeOK'
    BY <1>1, <2>1, <2>3, <2>4, <2>5, ZenonT(60) DEF TypeOK
  <2>7. Accounted'
    <3>1. ASSUME NEW x \in Requests, x # r
          PROVE  B(x \in queue') + B(active' = x) + told'[x] + B(x \in lost') = B(x \in taken')
      <4>1. ~(x \in queue') /\ active' # x /\ ~(x \in queue) /\ active # x /\ x \notin missed
        BY <1>4, <2>2, <2>3, <2>4, <3>1
      <4> QED BY <1>1, <2>5, <3>1, <4>1 DEF Ind, Accounted, B
    <3>2. B(r \in queue') + B(active' = r) + told'[r] + B(r \in lost') = B(r \in taken')
      <4>1. told'[r] = IF active' = r THEN 0 ELSE 1
        <5>1. r # None /\ (r \in missed => active' = None) /\ (r \notin missed => active' = r)
          BY <2>4
        <5>2. r \in missed => told'[r] = 1
          BY <1>2, <2>5
        <5>3. r \notin missed => told'[r] = 0
          BY <1>2, <2>5
        <5> QED BY <5>1, <5>2, <5>3
      <4>2. ~(r \in queue') /\ ~(r \in lost') /\ r \in taken'
        BY <1>1, <1>2, <2>4
      <4> QED BY <4>1, <4>2 DEF B
    <3> QED BY <3>1, <3>2 DEF Accounted
  <2>8. StruckIsKnown'
    BY <1>1, <1>2, <2>1, <2>3, <2>4 DEF Ind, StruckIsKnown
  <2>9. SealedIsOver'
    BY <2>3, <2>13, <2>5 DEF Ind, SealedIsOver
  <2>10. OrphansAreStruck'
    BY <1>1, <2>1 DEF Ind, OrphansAreStruck
  <2>11. OwnVerdict'
    BY <1>1, <1>2, <2>1, <2>3, <2>5 DEF Ind, OwnVerdict
  <2>12. RepresentedByItsOwn'
    BY <1>1, <1>2, <2>3, <2>13, <2>5 DEF Ind, RepresentedByItsOwn
  <2> QED BY <2>6, <2>7, <2>8, <2>9, <2>10, <2>11, <2>12 DEF Ind
<1> QED BY <1>3, <1>4

LEMMA FinishedKeeps ==
    ASSUME Ind, Finished
    PROVE  Ind'
<1> DEFINE struckNow == IF process = "exited" THEN {} ELSE {active}
<1>1. PICK missed \in SUBSET queue :
        /\ StartNext(queue, missed)
        /\ Finish({active} \cup missed, Completed)
        /\ struck' = struck \cup missed \cup struckNow
  BY DEF Finished
<1>2. /\ active \in Requests /\ process \in Ended
      /\ UNCHANGED <<experiment, closed, report, orphans, taken, earlier, lost, switches>>
      /\ TypeOK /\ missed \subseteq Requests
  BY DEF Ind, TypeOK, Finished
<1>3. \/ /\ missed = queue /\ queue' = {} /\ active' = None /\ process' = "none"
         /\ timer' = FALSE /\ failure' = failure
      \/ /\ \E r \in queue \ missed : active' = r /\ queue' = queue \ (missed \cup {r})
         /\ process' = "working" /\ timer' = TRUE /\ failure' = ""
  BY <1>1, WhatStartNextDoes
<1>4. PICK S : S = {active} \cup missed
  OBVIOUS
<1>5. /\ told' \in [Requests -> Nat] /\ bundle' \in [Requests -> Outcomes]
      /\ faults' \in 0 .. MaxFaults
      /\ \A x \in Requests \ S : told'[x] = told[x] /\ bundle'[x] = bundle[x]
      /\ \A x \in S : told'[x] = told[x] + 1
      /\ \A x \in S : \/ bundle'[x] = bundle[x]
                      \/ x \in Completed /\ bundle'[x] = "ok"
                      \/ x \notin Completed /\ bundle'[x] = "failed"
  <2>1. S \subseteq Requests /\ Finish(S, Completed)
    BY <1>1, <1>2, <1>4
  <2> HIDE DEF Completed
  <2> QED BY <1>2, <2>1, WhatFinishDoes
<1>6. /\ \A x \in S : x \in taken /\ told[x] = 0 /\ x \notin lost /\ bundle[x] = "none"
      /\ active \notin queue
      /\ \A x \in queue : x \notin struck
  BY <1>2, <1>4, OnePlace DEF Ind, StruckIsKnown
<1>7. \A x \in Completed : x = active /\ report[x] = "ok" /\ failure = "" /\ process = "exited"
  BY DEF Completed, Clean
<1>8. bundle'[active] = "ok" => active \in Completed
  BY <1>4, <1>5, <1>6
<1>9. /\ selected' \in [Runs -> Requests \cup {None}]
      /\ \A run \in Runs : \/ selected'[run] = selected[run]
                           \/ /\ selected'[run] = active /\ RunOf[active] = run
                              /\ bundle'[active] = "ok" /\ HomeOf[run] = experiment
  BY <1>2 DEF Finished, Selects, TypeOK, Runs
<1>10. TypeOK'
  <2>1. struck' \subseteq Requests /\ queue' \subseteq Requests /\ active' \in Requests \cup {None}
    BY <1>1, <1>2, <1>3 DEF TypeOK
  <2>2. /\ process' \in {"none", "working", "dying", "exited", "crashed"}
        /\ failure' \in {"", "timed out", "cancelled"} /\ timer' \in BOOLEAN
        /\ active' = None => queue' = {} /\ process' = "none" /\ ~timer'
    <3>1. failure \in {"", "timed out", "cancelled"} /\ None \notin Requests
      BY <1>2 DEF TypeOK
    <3>2. \A x \in queue \ missed : x # None
      BY <1>2, <3>1 DEF TypeOK
    <3>3. CASE queue' = {} /\ active' = None /\ process' = "none" /\ timer' = FALSE /\ failure' = failure
      BY <3>1, <3>3
    <3>4. CASE /\ \E r \in queue \ missed : active' = r /\ queue' = queue \ (missed \cup {r})
               /\ process' = "working" /\ timer' = TRUE /\ failure' = ""
      BY <3>2, <3>4
    <3> QED BY <1>3, <3>3, <3>4
  <2> QED BY <1>2, <1>5, <1>9, <2>1, <2>2 DEF TypeOK
<1>11. Accounted'
  <2>1. ASSUME NEW x \in Requests
        PROVE  B(x \in queue') + B(active' = x) + told'[x] + B(x \in lost') = B(x \in taken')
    <3>1. /\ x \in S => told'[x] = told[x] + 1
          /\ x \notin S => told'[x] = told[x]
          /\ told[x] \in Nat
          /\ B(x \in queue) + B(active = x) + told[x] + B(x \in lost) = B(x \in taken)
          /\ lost' = lost /\ taken' = taken
      BY <1>2, <1>5 DEF Ind, Accounted, TypeOK
    <3>2. /\ x \in S => ~(x \in queue') /\ active' # x
          /\ x \in S => told[x] = 0 /\ x \in taken /\ x \notin lost
          /\ x \notin S => active # x /\ (x \in queue <=> x \in queue' \/ active' = x)
          /\ ~(x \in queue' /\ active' = x)
      BY <1>2, <1>3, <1>4, <1>6
    <3> QED BY <3>1, <3>2 DEF B
  <2> QED BY <2>1 DEF Accounted
<1>12. StruckIsKnown'
  BY <1>1, <1>2, <1>3, <1>4, <1>6 DEF Ind, StruckIsKnown
<1>13. SealedIsOver'
  <2>1. told \in [Requests -> Nat]
    BY <1>2 DEF TypeOK
  <2> QED BY <1>5, <2>1 DEF Ind, SealedIsOver
<1>14. OrphansAreStruck'
  BY <1>1, <1>2 DEF Ind, OrphansAreStruck
<1>15. OwnVerdict'
  <2>1. ASSUME NEW x \in Requests, x \notin S
        PROVE  /\ bundle'[x] = "ok" => report'[x] = "ok" /\ x \notin struck'
               /\ bundle'[x] = "failed" /\ report'[x] = "ok" => x \in struck'
    BY <1>1, <1>2, <1>4, <1>5, <2>1 DEF Ind, OwnVerdict
  <2>2. ASSUME NEW x \in missed
        PROVE  /\ bundle'[x] # "ok" /\ x \in struck'
    BY <1>1, <1>4, <1>5, <1>6, <1>7
  <2>3. /\ bundle'[active] = "ok" => report'[active] = "ok" /\ active \notin struck'
        /\ bundle'[active] = "failed" /\ report'[active] = "ok" => active \in struck'
    <3>1. active \notin missed /\ (active \in struck <=> failure # "")
      BY <1>2, <1>6 DEF Ind, StruckIsKnown
    <3>2. CASE active \in Completed
      <4>1. report[active] = "ok" /\ failure = "" /\ process = "exited"
        BY <1>7, <3>2
      <4>2. bundle'[active] \in {"none", "ok"}
        BY <1>4, <1>5, <1>6, <3>2
      <4> QED BY <1>1, <1>2, <3>1, <4>1, <4>2
    <3>3. CASE active \notin Completed
      <4>1. bundle'[active] # "ok"
        BY <1>8, <3>3
      <4>2. report[active] = "ok" => active \in struck'
        BY <1>1, <3>1, <3>3 DEF Completed, Clean
      <4> QED BY <1>2, <4>1, <4>2
    <3> QED BY <3>2, <3>3
  <2> QED BY <1>4, <2>1, <2>2, <2>3 DEF OwnVerdict
<1>16. RepresentedByItsOwn'
  <2>1. ASSUME NEW run \in Runs, selected'[run] # None
        PROVE  RunOf[selected'[run]] = run /\ bundle'[selected'[run]] = "ok"
    <3>1. CASE selected'[run] = selected[run]
      <4>1. selected[run] \in Requests /\ RunOf[selected[run]] = run /\ bundle[selected[run]] = "ok"
        <5>1. selected \in [Runs -> Requests \cup {None}]
          BY <1>2 DEF TypeOK
        <5> QED BY <2>1, <3>1, <5>1 DEF Ind, RepresentedByItsOwn
      <4> QED BY <1>5, <1>6, <3>1, <4>1
    <3> QED BY <1>9, <2>1, <3>1
  <2> QED BY <2>1 DEF RepresentedByItsOwn
<1> QED BY <1>10, <1>11, <1>12, <1>13, <1>14, <1>15, <1>16 DEF Ind

LEMMA TimerFiresKeeps ==
    ASSUME Ind, TimerFires
    PROVE  Ind'
<1>1. /\ timer' = FALSE /\ failure' = "timed out" /\ struck' = struck \cup {active}
      /\ Kill /\ timer
      /\ UNCHANGED <<experiment, closed, selected, queue, active, report, bundle, taken, earlier,
                     told, lost, faults, switches>>
      /\ TypeOK
  BY DEF Ind, TimerFires, manager, disk, bounds
<1>2. active \in Requests
  BY <1>1 DEF TypeOK
<1>3. active \in taken /\ active \notin queue /\ bundle[active] = "none"
  BY <1>2, OnePlace
<1>4. /\ process' \in {"none", "working", "dying", "exited", "crashed"}
      /\ orphans' \in {orphans, orphans \cup {active}}
  BY <1>1, WhatKillDoes DEF TypeOK
<1>5. TypeOK'
  BY <1>1, <1>2, <1>4 DEF TypeOK
<1>6. Accounted' /\ SealedIsOver' /\ RepresentedByItsOwn'
  BY <1>1 DEF Ind, Accounted, SealedIsOver, RepresentedByItsOwn
<1>7. StruckIsKnown'
  BY <1>1, <1>3 DEF Ind, StruckIsKnown
<1>8. OrphansAreStruck'
  BY <1>1, <1>4 DEF Ind, OrphansAreStruck
<1>9. OwnVerdict'
  BY <1>1, <1>3 DEF Ind, OwnVerdict
<1> QED BY <1>5, <1>6, <1>7, <1>8, <1>9 DEF Ind

LEMMA CancelKeeps ==
    ASSUME Ind, NEW R, Cancel(R)
    PROVE  Ind'
<1> DEFINE off == {r \in queue : RunOf[r] \in R}
           hit == {r \in {active} : RunOf[r] \in R}
<1>1. PICK S : S = off
  OBVIOUS
<1>2. /\ active # None /\ queue' = queue \ S /\ Finish(S, {}) /\ struck' = struck \cup S \cup hit
      /\ UNCHANGED <<experiment, closed, selected, active, timer, report, taken, earlier, lost,
                     switches>>
      /\ TypeOK
  BY <1>1 DEF Ind, Cancel, CancelledOf, manager
<1>3. IF hit # {} THEN failure' = "cancelled" /\ Kill ELSE UNCHANGED <<failure, process, orphans>>
  BY DEF Cancel
<1>4. S \subseteq queue /\ S \subseteq Requests /\ active \in Requests /\ hit \in {{}, {active}}
  BY <1>1, <1>2 DEF TypeOK
<1> HIDE DEF off, hit
<1>5. /\ told' \in [Requests -> Nat] /\ bundle' \in [Requests -> Outcomes]
      /\ faults' \in 0 .. MaxFaults
      /\ \A x \in Requests \ S : told'[x] = told[x] /\ bundle'[x] = bundle[x]
      /\ \A x \in S : told'[x] = told[x] + 1 /\ bundle'[x] \in {bundle[x], "failed"}
  <2>0. PICK none : none = {}
    OBVIOUS
  <2>1. Finish(S, none)
    BY <1>2, <2>0
  <2>2. /\ told' \in [Requests -> Nat] /\ bundle' \in [Requests -> Outcomes]
        /\ faults' \in 0 .. MaxFaults
        /\ \A x \in Requests \ S : told'[x] = told[x] /\ bundle'[x] = bundle[x]
        /\ \A x \in S : told'[x] = told[x] + 1
        /\ \A x \in S : \/ bundle'[x] = bundle[x]
                        \/ x \in none /\ bundle'[x] = "ok"
                        \/ x \notin none /\ bundle'[x] = "failed"
    BY <1>2, <1>4, <2>1, WhatFinishDoes
  <2> QED BY <2>0, <2>2
<1>6. /\ \A x \in S : x \in taken /\ told[x] = 0 /\ x \notin lost /\ bundle[x] = "none"
      /\ active \notin queue /\ active \in taken /\ bundle[active] = "none"
  BY <1>4, OnePlace
<1>7. /\ process' \in {"none", "working", "dying", "exited", "crashed"}
      /\ failure' \in {"", "timed out", "cancelled"}
      /\ orphans' \in {orphans, orphans \cup hit}
      /\ hit = {} => failure' = failure
      /\ hit = {active} => failure' # ""
  <2>1. /\ process \in {"none", "working", "dying", "exited", "crashed"}
        /\ failure \in {"", "timed out", "cancelled"}
    BY <1>2 DEF TypeOK
  <2>2. CASE hit = {}
    BY <1>3, <2>1, <2>2
  <2>3. CASE hit = {active}
    BY <1>3, <2>1, <2>3, WhatKillDoes
  <2> QED BY <1>4, <2>2, <2>3
<1>8. TypeOK'
  <2>1. struck' \subseteq Requests /\ orphans' \subseteq Requests /\ queue' \subseteq Requests
    BY <1>2, <1>4, <1>7 DEF TypeOK
  <2>2. /\ experiment' \in Experiments \cup {None} /\ closed' \subseteq Experiments
        /\ selected' \in [Runs -> Requests \cup {None}] /\ active' \in Requests \cup {None}
        /\ timer' \in BOOLEAN /\ report' \in [Requests -> Outcomes]
        /\ taken' \subseteq Requests /\ earlier' \in [Requests -> SUBSET Requests]
        /\ lost' \subseteq Requests /\ switches' \in 0 .. MaxSwitches
    BY <1>2 DEF TypeOK
  <2>3. active' # None
    BY <1>2
  <2> QED BY <1>5, <1>7, <2>1, <2>2, <2>3 DEF TypeOK
<1>9. Accounted'
  <2>1. ASSUME NEW x \in Requests
        PROVE  B(x \in queue') + B(active' = x) + told'[x] + B(x \in lost') = B(x \in taken')
    <3>1. /\ told[x] \in Nat /\ lost' = lost /\ taken' = taken /\ active' = active
          /\ B(x \in queue) + B(active = x) + told[x] + B(x \in lost) = B(x \in taken)
      BY <1>2 DEF Ind, Accounted, TypeOK
    <3>2. CASE x \in S
      <4>1. /\ x \in queue /\ ~(x \in queue') /\ told'[x] = told[x] + 1
            /\ told[x] = 0 /\ active # x
        BY <1>2, <1>4, <1>5, <1>6, <3>2
      <4> QED BY <3>1, <4>1 DEF B
    <3>3. CASE x \notin S
      <4>1. (x \in queue' <=> x \in queue) /\ told'[x] = told[x]
        BY <1>2, <1>5, <3>3
      <4> QED BY <3>1, <4>1 DEF B
    <3> QED BY <3>2, <3>3
  <2> QED BY <2>1 DEF Accounted
<1>10. StruckIsKnown'
  BY <1>2, <1>4, <1>6, <1>7 DEF Ind, StruckIsKnown
<1>11. SealedIsOver'
  <2>1. told \in [Requests -> Nat]
    BY <1>2 DEF TypeOK
  <2> QED BY <1>5, <2>1 DEF Ind, SealedIsOver
<1>12. OrphansAreStruck'
  BY <1>2, <1>7 DEF Ind, OrphansAreStruck
<1>13. OwnVerdict'
  BY <1>2, <1>4, <1>5, <1>6 DEF Ind, OwnVerdict
<1>14. RepresentedByItsOwn'
  <2>1. ASSUME NEW run \in Runs, selected[run] # None
        PROVE  RunOf[selected[run]] = run /\ bundle'[selected[run]] = "ok"
    <3>1. selected[run] \in Requests /\ RunOf[selected[run]] = run /\ bundle[selected[run]] = "ok"
      <4>1. selected \in [Runs -> Requests \cup {None}]
        BY <1>2 DEF TypeOK
      <4> QED BY <2>1, <4>1 DEF Ind, RepresentedByItsOwn
    <3> QED BY <1>5, <1>6, <3>1
  <2> QED BY <1>2, <2>1 DEF RepresentedByItsOwn
<1> QED BY <1>8, <1>9, <1>10, <1>11, <1>12, <1>13, <1>14 DEF Ind

LEMMA WriteReportKeeps ==
    ASSUME Ind, NEW r \in Requests, NEW status \in {"ok", "failed"}, WriteReport(r, status)
    PROVE  Ind'
<1>1. /\ (r = active /\ process = "working") \/ r \in orphans
      /\ report[r] = "none" /\ report' = [report EXCEPT ![r] = status]
      /\ UNCHANGED <<experiment, closed, selected, queue, active, process, failure, timer, bundle,
                     orphans, taken, earlier, told, struck, lost, faults, switches>>
      /\ TypeOK
  BY DEF Ind, WriteReport, manager, worker, history, bounds
<1>2. report' \in [Requests -> Outcomes] /\ \A x \in Requests \ {r} : report'[x] = report[x]
  BY <1>1 DEF TypeOK, Outcomes
<1>3. TypeOK'
  BY <1>1, <1>2 DEF TypeOK
<1>4. Accounted' /\ StruckIsKnown' /\ SealedIsOver' /\ OrphansAreStruck' /\ RepresentedByItsOwn'
  BY <1>1 DEF Ind, Accounted, StruckIsKnown, SealedIsOver, OrphansAreStruck, RepresentedByItsOwn
<1>5. OwnVerdict'
  <2>1. ASSUME NEW x \in Requests
        PROVE  /\ bundle'[x] = "ok" => report'[x] = "ok" /\ x \notin struck'
               /\ bundle'[x] = "failed" /\ report'[x] = "ok" => x \in struck'
    <3>1. /\ bundle[x] = "ok" => report[x] = "ok" /\ x \notin struck
          /\ bundle[x] = "failed" /\ report[x] = "ok" => x \in struck
      BY DEF Ind, OwnVerdict
    <3>2. CASE x # r
      BY <1>1, <1>2, <3>1, <3>2
    <3>3. CASE x = r
      <4>1. bundle[r] # "none" => r \in orphans /\ r \notin lost
        BY <1>1, OnePlace DEF Ind
      <4>2. bundle[r] # "none" => r \in struck
        BY <4>1 DEF Ind, OrphansAreStruck
      <4> QED BY <1>1, <3>1, <3>3, <4>2
    <3> QED BY <3>2, <3>3
  <2> QED BY <2>1 DEF OwnVerdict
<1> QED BY <1>3, <1>4, <1>5 DEF Ind

LEMMA WorkerEndsKeeps ==
    ASSUME Ind, WorkerEnds
    PROVE  Ind'
<1>1. /\ process = "working" /\ process' \in {"exited", "crashed"}
      /\ UNCHANGED <<experiment, closed, selected, queue, active, failure, timer, report, bundle,
                     orphans, taken, earlier, told, struck, lost, faults, switches>>
      /\ TypeOK
  BY DEF Ind, WorkerEnds, manager, disk, history, bounds
<1>2. TypeOK'
  BY <1>1 DEF TypeOK
<1>3. Accounted' /\ StruckIsKnown' /\ SealedIsOver' /\ OrphansAreStruck' /\ RepresentedByItsOwn'
  BY <1>1 DEF Ind, Accounted, StruckIsKnown, SealedIsOver, OrphansAreStruck, RepresentedByItsOwn
<1>4. OwnVerdict'
  BY <1>1 DEF Ind, OwnVerdict
<1> QED BY <1>2, <1>3, <1>4 DEF Ind

LEMMA ContainerEndsKeeps ==
    ASSUME Ind, NEW r \in Requests, ContainerEnds(r)
    PROVE  Ind'
<1>1. /\ orphans' = orphans \ {r}
      /\ UNCHANGED <<experiment, closed, selected, queue, active, process, failure, timer, report,
                     bundle, taken, earlier, told, struck, lost, faults, switches>>
      /\ TypeOK
  BY DEF Ind, ContainerEnds, manager, worker, disk, history, bounds
<1>2. TypeOK'
  BY <1>1 DEF TypeOK
<1>3. Accounted' /\ StruckIsKnown' /\ SealedIsOver' /\ OrphansAreStruck' /\ RepresentedByItsOwn'
  BY <1>1 DEF Ind, Accounted, StruckIsKnown, SealedIsOver, OrphansAreStruck, RepresentedByItsOwn
<1>4. OwnVerdict'
  BY <1>1 DEF Ind, OwnVerdict
<1> QED BY <1>2, <1>3, <1>4 DEF Ind

\* The experiments only change what is open, what is closed and what represents
\* a run.
LEMMA ExperimentsKeep ==
    ASSUME Ind,
           \/ \E run \in Runs : \E r \in Requests \cup {None} : SelectBundle(run, r)
           \/ \E e \in Experiments : SwitchExperiment(e)
           \/ CloseExperiment
    PROVE  Ind'
<1>1. /\ UNCHANGED <<queue, active, process, failure, timer, report, bundle, orphans,
                     taken, earlier, told, struck, lost, faults>>
      /\ TypeOK
  BY DEF Ind, SelectBundle, SwitchExperiment, CloseExperiment, worker, disk, history
<1>2. switches < MaxSwitches /\ switches' = switches + 1
  BY DEF SelectBundle, SwitchExperiment, CloseExperiment, Switch
<1>3. switches' \in 0 .. MaxSwitches
  <2>1. switches \in 0 .. MaxSwitches
    BY <1>1 DEF TypeOK
  <2> QED BY <1>2, <2>1
<1>4. /\ experiment' \in Experiments \cup {None} /\ closed' \subseteq Experiments
      /\ selected' \in [Runs -> Requests \cup {None}]
      /\ RepresentedByItsOwn'
  <2>1. /\ experiment \in Experiments \cup {None} /\ closed \subseteq Experiments
        /\ selected \in [Runs -> Requests \cup {None}]
        /\ RepresentedByItsOwn
    BY <1>1 DEF Ind, TypeOK
  <2>2. ASSUME NEW run \in Runs, NEW r \in Requests \cup {None}, SelectBundle(run, r)
        PROVE  /\ experiment' = experiment /\ closed' = closed
               /\ selected' \in [Runs -> Requests \cup {None}] /\ RepresentedByItsOwn'
    BY <1>1, <2>1, <2>2 DEF SelectBundle, RepresentedByItsOwn
  <2>3. ASSUME NEW e \in Experiments, SwitchExperiment(e)
        PROVE  /\ experiment' = e /\ closed' = closed /\ selected' = selected
    BY <2>3 DEF SwitchExperiment
  <2>4. CASE CloseExperiment
    BY <1>1, <2>1, <2>4 DEF CloseExperiment, RepresentedByItsOwn
  <2>5. ASSUME selected' = selected  PROVE RepresentedByItsOwn'
    BY <1>1, <2>1, <2>5 DEF RepresentedByItsOwn
  <2> QED BY <2>1, <2>2, <2>3, <2>4, <2>5
<1>5. TypeOK'
  BY <1>1, <1>3, <1>4 DEF TypeOK
<1>6. Accounted' /\ StruckIsKnown' /\ SealedIsOver' /\ OrphansAreStruck'
  BY <1>1 DEF Ind, Accounted, StruckIsKnown, SealedIsOver, OrphansAreStruck
<1>7. OwnVerdict'
  BY <1>1 DEF Ind, OwnVerdict
<1> QED BY <1>4, <1>5, <1>6, <1>7 DEF Ind

LEMMA CrashKeeps ==
    ASSUME Ind, Crash
    PROVE  Ind'
<1>1. /\ lost' = lost \cup queue \cup ({active} \ {None})
      /\ orphans' \in {orphans, orphans \cup (IF process = "working" THEN {active} ELSE {})}
      /\ queue' = {} /\ active' = None /\ process' = "none" /\ failure' = "" /\ timer' = FALSE
      /\ UNCHANGED <<experiment, closed, selected, report, bundle, taken, earlier, told, struck,
                     switches>>
      /\ TypeOK
  BY DEF Ind, Crash, manager, disk
<1>2. faults' \in 0 .. MaxFaults
  <2>1. faults \in 0 .. MaxFaults /\ faults < MaxFaults /\ faults' = faults + 1
    BY <1>1 DEF TypeOK, Crash
  <2> QED BY <2>1
<1>3. process = "working" => active \in Requests
  BY <1>1 DEF TypeOK
<1>4. TypeOK'
  <2>1. lost' \subseteq Requests /\ orphans' \subseteq Requests
    BY <1>1, <1>3 DEF TypeOK
  <2> QED BY <1>1, <1>2, <2>1 DEF TypeOK
<1>5. Accounted'
  <2>1. ASSUME NEW x \in Requests
        PROVE  B(x \in queue') + B(active' = x) + told'[x] + B(x \in lost') = B(x \in taken')
    <3>1. /\ told[x] \in Nat /\ told' = told /\ taken' = taken
          /\ B(x \in queue) + B(active = x) + told[x] + B(x \in lost) = B(x \in taken)
      BY <1>1 DEF Ind, Accounted, TypeOK
    <3>2. /\ ~(x \in queue') /\ active' # x
          /\ x \in lost' <=> x \in lost \/ x \in queue \/ active = x
      BY <1>1
    <3> QED BY <3>1, <3>2 DEF B
  <2> QED BY <2>1 DEF Accounted
<1>6. StruckIsKnown' /\ SealedIsOver' /\ RepresentedByItsOwn'
  BY <1>1 DEF Ind, StruckIsKnown, SealedIsOver, RepresentedByItsOwn
<1>7. OrphansAreStruck'
  BY <1>1, <1>3 DEF Ind, OrphansAreStruck
<1>8. OwnVerdict'
  BY <1>1 DEF Ind, OwnVerdict
<1> QED BY <1>4, <1>5, <1>6, <1>7, <1>8 DEF Ind
-----------------------------------------------------------------------------
LEMMA InitHolds == Init => Ind
<1> SUFFICES ASSUME Init PROVE Ind
  OBVIOUS
<1>1. TypeOK
  <2>1. /\ experiment \in Experiments /\ closed = {} /\ selected \in [Runs -> Requests \cup {None}]
        /\ report \in [Requests -> Outcomes] /\ bundle \in [Requests -> Outcomes]
        /\ earlier \in [Requests -> SUBSET Requests] /\ told \in [Requests -> Nat]
    BY DEF Init, Outcomes
  <2>2. 0 \in 0 .. MaxFaults /\ 0 \in 0 .. MaxSwitches
    BY DEF BoundsAssumption
  <2> QED BY <2>1, <2>2 DEF Init, TypeOK
<1>2. Accounted
  <2>1. \A r \in Requests : told[r] = 0 /\ r \notin queue /\ active # r /\ r \notin lost /\ r \notin taken
    BY DEF Init, RunsAssumption
  <2>2. ASSUME NEW r \in Requests
        PROVE  B(r \in queue) + B(active = r) + told[r] + B(r \in lost) = B(r \in taken)
    <3>1. told[r] = 0 /\ ~(r \in queue) /\ ~(active = r) /\ ~(r \in lost) /\ ~(r \in taken)
      BY <2>1
    <3> QED BY <3>1 DEF B
  <2> QED BY <2>2 DEF Accounted
<1>3. StruckIsKnown /\ SealedIsOver /\ OrphansAreStruck /\ OwnVerdict /\ RepresentedByItsOwn
  BY DEF Init, StruckIsKnown, SealedIsOver, OrphansAreStruck, OwnVerdict, RepresentedByItsOwn
<1> QED BY <1>1, <1>2, <1>3 DEF Ind

LEMMA StepHolds == Ind /\ [Next]_vars => Ind'
<1> SUFFICES ASSUME Ind, [Next]_vars PROVE Ind'
  OBVIOUS
<1>1. CASE UNCHANGED vars
  BY <1>1 DEF vars, manager, worker, disk, history, bounds, Ind, TypeOK, Accounted, StruckIsKnown,
              SealedIsOver, OrphansAreStruck, OwnVerdict, RepresentedByItsOwn
<1>2. ASSUME NEW r \in Requests, Start(r) \/ ContainerEnds(r)  PROVE Ind'
  BY <1>2, StartKeeps, ContainerEndsKeeps
<1>3. ASSUME NEW r \in Requests, NEW status \in {"ok", "failed"}, WriteReport(r, status)  PROVE Ind'
  BY <1>3, WriteReportKeeps
<1>4. CASE Finished \/ TimerFires \/ WorkerEnds \/ Crash
  BY <1>4, FinishedKeeps, TimerFiresKeeps, WorkerEndsKeeps, CrashKeeps
<1>5. ASSUME NEW R, Cancel(R)  PROVE Ind'
  BY <1>5, CancelKeeps
<1>6. CASE \/ \E run \in Runs : \E r \in Requests \cup {None} : SelectBundle(run, r)
           \/ \E e \in Experiments : SwitchExperiment(e)
           \/ CloseExperiment
  BY <1>6, ExperimentsKeep
<1> QED BY <1>1, <1>2, <1>3, <1>4, <1>5, <1>6 DEF Next

LEMMA Invariance == Spec => []Ind
BY InitHolds, StepHolds, PTL DEF Spec
-----------------------------------------------------------------------------
\* Every variable keeps its type, and nothing waits without a worker.
THEOREM TypesAreKept == Spec => []TypeOK
BY Invariance, PTL DEF Ind

\* However the queue, the timer, the cancellations and the crashes interleave, a
\* request ends once: it waits, is at work, is over or was lost with the
\* application, and never two of these.
THEOREM EveryRequestEndsOnce == Spec => []OneEnding
<1>1. Ind => OneEnding
  BY DEF Ind, Accounted, OneEnding, TypeOK, B
<1> QED BY <1>1, Invariance, PTL

\* No bundle carries the verdict of another request, although one _failure serves
\* them all: ok means that its own report was ok and nothing struck it.
THEOREM VerdictsAreTheirOwn == Spec => []OwnVerdict
BY Invariance, PTL DEF Ind

\* A run is represented by a completed bundle of its own or by none.
THEOREM RunsAreRepresented == Spec => []RepresentedByItsOwn
BY Invariance, PTL DEF Ind

\* A late ending does not write into the record of an experiment that is not open,
\* and nothing that was sealed is sealed again.
THEOREM RecordsAreUntouched == Spec => WrongRecordUntouched
<1>1. Ind /\ [Next]_vars =>
        [/\ \A run \in Runs : selected'[run] # selected[run] => HomeOf[run] = experiment
         /\ \A r \in Requests : bundle[r] # "none" => bundle'[r] = bundle[r]]_vars
  <2> SUFFICES ASSUME Ind, Next
               PROVE  /\ \A run \in Runs : selected'[run] # selected[run] => HomeOf[run] = experiment
                      /\ \A r \in Requests : bundle[r] # "none" => bundle'[r] = bundle[r]
    OBVIOUS
  <2>1. \A run \in Runs : selected'[run] # selected[run] => HomeOf[run] = experiment
    <3>1. TypeOK
      BY DEF Ind
    <3>2. CASE Finished
      BY <3>1, <3>2 DEF Finished, Selects, TypeOK
    <3>3. ASSUME NEW run \in Runs, NEW r \in Requests \cup {None}, SelectBundle(run, r)
          PROVE  \A x \in Runs : selected'[x] # selected[x] => HomeOf[x] = experiment
      BY <3>1, <3>3 DEF SelectBundle, TypeOK
    <3>4. CASE selected' = selected
      BY <3>4
    <3> QED BY <3>2, <3>3, <3>4
            DEF Next, Start, ContainerEnds, WriteReport, TimerFires, WorkerEnds, Crash, Cancel,
                SwitchExperiment, CloseExperiment, manager
  <2>2. ASSUME NEW r \in Requests, bundle[r] # "none"  PROVE bundle'[r] = bundle[r]
    <3>1. TypeOK /\ r \notin queue /\ active # r /\ r \in taken
      BY <2>2, OnePlace DEF Ind
    <3>2. ASSUME NEW S, S \subseteq Requests, NEW good, Finish(S, good), r \notin S
          PROVE  bundle'[r] = bundle[r]
      BY <3>1, <3>2, WhatFinishDoes
    <3>3. CASE bundle' = bundle
      BY <3>3
    <3>4. ASSUME NEW x \in Requests, Start(x)  PROVE bundle'[r] = bundle[r]
      <4>1. CASE active = None
        <5>1. PICK missed \in SUBSET (queue \cup {x}) : Finish(missed, {})
          BY <3>4, <4>1 DEF Start
        <5>2. x # r /\ queue \subseteq Requests
          BY <3>1, <3>4 DEF Start, TypeOK
        <5> QED BY <3>1, <3>2, <5>1, <5>2
      <4>2. CASE active # None
        BY <3>4, <4>2 DEF Start
      <4> QED BY <4>1, <4>2
    <3>5. CASE Finished
      <4>1. PICK missed \in SUBSET queue : Finish({active} \cup missed, Completed)
        BY <3>5 DEF Finished
      <4>2. active \in Requests /\ queue \subseteq Requests
        BY <3>1, <3>5 DEF Finished, TypeOK
      <4> QED BY <3>1, <3>2, <4>1, <4>2
    <3>6. ASSUME NEW R, Cancel(R)  PROVE bundle'[r] = bundle[r]
      <4>1. PICK S : S = {q \in queue : RunOf[q] \in R}
        OBVIOUS
      <4>2. Finish(S, {}) /\ S \subseteq Requests /\ r \notin S
        BY <3>1, <3>6, <4>1 DEF Cancel, TypeOK
      <4> QED BY <3>2, <4>2
    <3> QED BY <3>3, <3>4, <3>5, <3>6
            DEF Next, ContainerEnds, WriteReport, TimerFires, WorkerEnds, Crash, SelectBundle,
                SwitchExperiment, CloseExperiment, disk
  <2> QED BY <2>1, <2>2
<1> QED BY <1>1, Invariance, PTL DEF Spec, WrongRecordUntouched
=============================================================================
