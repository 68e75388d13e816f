-------------------------- MODULE RequestSpoolProofs --------------------------
(***************************************************************************)
(* What the request spool promises, for any requests and any number of      *)
(* them, and however often the application dies and the disk fails.         *)
(***************************************************************************)
EXTENDS RequestSpool, SequenceTheorems, TLAPS

Answer == [request : Numbers, code : Codes]

\* A request that lies in the directory or with the engine has not been
\* carried out and not been answered, and it is in one of these places.
Fresh(n) == carried[n] = 0 /\ AnswersTo(n) = {}
Right(n) ==
    /\ n \in files \cup Held => Fresh(n)
    /\ n \notin files \cap Held /\ n \notin batch \cap actions
    /\ carried[n] <= 1
    /\ \A i, j \in AnswersTo(n) : i = j
    /\ \A i \in AnswersTo(n) :
         /\ answers[i].code = "OK" => carried[n] = 1
         /\ answers[i].code \in {"BLOCKED", "BLOCKED_ROLE"} =>
              carried[n] = 0 \/ (answers[i].code = "BLOCKED" /\ req[n].command \in Endings)
    /\ AnswersTo(n) = {} => n \in files \cup Held \cup lost

Ind == TypeOK /\ entries \subseteq files /\ \A n \in Numbers \ stuck : Right(n)

\* The code with which a command that has been carried out may be answered.
Closes(n, code) ==
    code \in {"OK", "FAILED"} \/ (code = "BLOCKED" /\ req[n].command \in Endings)

USE TemplatesAssumption, PolicyAssumption, NamesAssumption, BoundsAssumption
-----------------------------------------------------------------------------
\* The run that follows comes out of the queue; so does one that is refused.
LEMMA NextTyped ==
    ASSUME TypeOK, NextRun \/ NextIsRefused
    PROVE  run' \in {None, Operator} \cup Numbers /\ queued' \in Seq(Numbers)
<1>1. queued \in Seq(Numbers)
  BY DEF TypeOK
<1>2. CASE queued = <<>>
  BY <1>1, <1>2 DEF NextRun, NextIsRefused
<1>3. CASE queued # <<>>
  <2>1. Head(queued) \in Numbers /\ Tail(queued) \in Seq(Numbers)
    BY <1>1, <1>3, HeadTailProperties
  <2> QED BY <1>3, <2>1 DEF NextRun, NextIsRefused
<1> QED BY <1>2, <1>3

\* An answer is recorded, or lost; it is about one request.
LEMMA Recorded ==
    ASSUME TypeOK, NEW n \in Numbers, NEW code \in Codes, Record(n, code), req' = req
    PROVE  /\ answers' \in Seq(Answer)' /\ lost' \subseteq Numbers /\ lost \subseteq lost'
           /\ \A m : m # n => AnswersTo(m)' = AnswersTo(m) /\ (m \in lost' <=> m \in lost)
           /\ \A i \in DOMAIN answers : answers'[i] = answers[i]
           /\ AnswersTo(n) = {} =>
                \/ AnswersTo(n)' = {} /\ n \in lost'
                \/ \E k : AnswersTo(n)' = {k} /\ answers'[k].code = code
<1>1. answers \in Seq(Answer) /\ lost \subseteq Numbers /\ Numbers' = Numbers
  BY DEF TypeOK, Answer, Numbers
<1>2. CASE answers' = Append(answers, [request |-> n, code |-> code]) /\ lost' = lost
  <2>1. [request |-> n, code |-> code] \in Answer
    BY DEF Answer
  <2>2. /\ answers' \in Seq(Answer)
        /\ DOMAIN answers = 1 .. Len(answers) /\ Len(answers) \in Nat
        /\ DOMAIN answers' = 1 .. Len(answers) + 1
        /\ \A i \in 1 .. Len(answers) : answers'[i] = answers[i]
        /\ answers'[Len(answers) + 1] = [request |-> n, code |-> code]
    BY <1>1, <1>2, <2>1, AppendProperties, LenProperties
  <2> PICK k : k = Len(answers) + 1
    OBVIOUS
  <2>3. /\ DOMAIN answers' = DOMAIN answers \cup {k} /\ k \notin DOMAIN answers
        /\ \A i \in DOMAIN answers : answers'[i] = answers[i]
        /\ answers'[k].request = n /\ answers'[k].code = code
    BY <2>2
  <2>4. \A m : m # n => AnswersTo(m)' = AnswersTo(m)
    BY <2>3 DEF AnswersTo
  <2>5. AnswersTo(n) = {} => AnswersTo(n)' = {k}
    BY <2>3 DEF AnswersTo
  <2>6. Seq(Answer)' = Seq(Answer)
    BY <1>1 DEF Answer, Codes
  <2> QED BY <1>1, <1>2, <2>2, <2>3, <2>4, <2>5, <2>6
<1>3. CASE lost' = lost \cup {n} /\ answers' = answers
  <2>1. Seq(Answer)' = Seq(Answer)
    BY <1>1 DEF Answer, Codes
  <2>2. \A m : AnswersTo(m)' = AnswersTo(m)
    BY <1>3 DEF AnswersTo
  <2> QED BY <1>1, <1>3, <2>1, <2>2
<1> QED BY <1>2, <1>3 DEF Record

\* What is right of a request stays right in a step that is not about it.
LEMMA OthersStay ==
    ASSUME NEW m, Right(m), req'[m] = req[m], AnswersTo(m)' = AnswersTo(m), carried'[m] = carried[m],
           m \in lost => m \in lost',
           \A i \in AnswersTo(m) : answers'[i] = answers[i],
           m \in files' <=> m \in files, m \in batch' <=> m \in batch,
           m \in actions' <=> m \in actions
    PROVE  Right(m)'
BY DEF Right, Fresh, Held

\* A step that ends what is to be done about a request.
LEMMA Concludes ==
    ASSUME Ind, NEW n \in Numbers, NEW code \in Codes, Record(n, code), req' = req, stuck' = stuck,
           n \notin stuck => Fresh(n),
           \/ carried' = carried /\ code # "OK"
           \/ carried' = [carried EXCEPT ![n] = @ + 1] /\ Closes(n, code),
           n \notin stuck => n \notin files' \cup batch' \cup actions',
           \A m : m # n => /\ m \in files' <=> m \in files
                           /\ m \in batch' <=> m \in batch
                           /\ m \in actions' <=> m \in actions
    PROVE  \A m \in Numbers' \ stuck' : Right(m)'
<1>1. /\ \A m : m # n => AnswersTo(m)' = AnswersTo(m) /\ (m \in lost' <=> m \in lost)
      /\ \A i \in DOMAIN answers : answers'[i] = answers[i]
      /\ AnswersTo(n) = {} =>
                \/ AnswersTo(n)' = {} /\ n \in lost'
                \/ \E k : AnswersTo(n)' = {k} /\ answers'[k].code = code
  BY Recorded DEF Ind
<1>2. carried \in [Numbers -> Nat] /\ Numbers' = Numbers
  BY DEF Ind, TypeOK, Numbers
<1>3. ASSUME NEW m \in Numbers \ stuck, m # n  PROVE Right(m)'
  <2>1. carried'[m] = carried[m]
    BY <1>2, <1>3
  <2>2. \A i \in AnswersTo(m) : answers'[i] = answers[i]
    BY <1>1 DEF AnswersTo
  <2>3. Right(m)
    BY DEF Ind
  <2> QED BY <1>1, <1>3, <2>1, <2>2, <2>3, OthersStay
<1>4. ASSUME n \notin stuck  PROVE Right(n)'
  <2>1. carried[n] = 0 /\ AnswersTo(n) = {}
    BY <1>4 DEF Fresh
  <2>2. \/ carried'[n] = 0 /\ code # "OK"
        \/ carried'[n] = 1 /\ Closes(n, code)
    BY <1>2, <2>1
  <2>3. n \notin files' \cup Held'
    BY <1>4 DEF Held
  <2>4. \/ AnswersTo(n)' = {} /\ n \in lost'
        \/ \E k : AnswersTo(n)' = {k} /\ answers'[k].code = code
    BY <1>1, <2>1
  <2> QED BY <2>2, <2>3, <2>4 DEF Right, Held, Closes
<1> QED BY <1>2, <1>3, <1>4
-----------------------------------------------------------------------------
(* The steps.                                                               *)

\* A request that is dropped is a new one, and changes nothing of the others.
LEMMA Written ==
    ASSUME TypeOK, NEW t \in Templates, WriteRequest(t), NEW n, n = Len(req) + 1
    PROVE  /\ req' \in Seq(Templates) /\ Len(req') = n /\ Len(req') <= MaxRequests /\ n \in Nat
           /\ Numbers \subseteq Nat /\ Numbers' = Numbers \cup {n} /\ n \notin Numbers
           /\ carried \in [Numbers -> Nat] /\ carried' \in [Numbers' -> Nat] /\ carried'[n] = 0
           /\ \A m \in Numbers : carried'[m] = carried[m] /\ req'[m] = req[m]
<1>1. /\ req \in Seq(Templates) /\ Len(req) \in Nat /\ Numbers = 1 .. Len(req)
      /\ req' \in Seq(Templates) /\ Len(req') = n /\ Numbers' = Numbers \cup {n} /\ n \notin Numbers
      /\ n <= MaxRequests /\ \A m \in Numbers : req'[m] = req[m]
  BY AppendProperties, LenProperties, SMTT(40) DEF TypeOK, Numbers, WriteRequest, Room
<1>2. /\ carried \in [Numbers -> Nat] /\ carried' \in [Numbers' -> Nat]
      /\ carried'[n] = 0 /\ \A m \in Numbers : carried'[m] = carried[m]
  <2>1. carried \in [1 .. Len(req) -> Nat]
    BY <1>1 DEF TypeOK
  <2>2. carried \in Seq(Nat) /\ Len(carried) = Len(req)
    <3>1. carried \in Seq(Nat)
      BY <1>1, <2>1, SeqDef
    <3> QED BY <1>1, <2>1, <3>1, LenProperties
  <2>3. carried' = Append(carried, 0)
    BY DEF WriteRequest
  <2>4. /\ carried' \in Seq(Nat) /\ Len(carried') = n /\ carried'[n] = 0
        /\ \A m \in 1 .. Len(req) : carried'[m] = carried[m]
    BY <2>2, <2>3, AppendProperties
  <2>5. carried' \in [1 .. n -> Nat]
    BY <2>4, LenProperties
  <2>6. 1 .. n = Numbers'
    BY <1>1
  <2> QED BY <1>1, <2>1, <2>4, <2>5, <2>6
<1>3. Numbers \subseteq Nat /\ n \in Nat
  BY <1>1
<1> QED BY <1>1, <1>2, <1>3

LEMMA WriteRequestKeeps ==
    ASSUME Ind, NEW t \in Templates, WriteRequest(t)
    PROVE  Ind'
<1> PICK n : n = Len(req) + 1
  OBVIOUS
<1>1. /\ req' \in Seq(Templates) /\ Len(req') <= MaxRequests
      /\ Numbers' = Numbers \cup {n} /\ n \notin Numbers
  BY Written DEF Ind
<1>2. /\ carried' \in [Numbers' -> Nat] /\ carried'[n] = 0
      /\ \A m \in Numbers : carried'[m] = carried[m] /\ req'[m] = req[m]
  BY Written DEF Ind
<1>3. /\ files' = files \cup {n}
      /\ UNCHANGED <<up, entries, batch, actions, cap, gate, attended, run, queued, answers, lost, stuck>>
      /\ TypeOK
  BY DEF Ind, WriteRequest, engine
<1>4. answers \in Seq([request : Numbers, code : Codes]) /\ answers' \in Seq([request : Numbers', code : Codes])
  <2>1. answers \in Seq([request : Numbers, code : Codes])
    BY <1>3 DEF TypeOK
  <2>2. [request : Numbers, code : Codes] \subseteq [request : Numbers', code : Codes]
    BY <1>1
  <2> QED BY <1>3, <2>1, <2>2, SeqMonotonic
<1>5. TypeOK'
  <2>1. queued' \in Seq(Numbers')
    BY <1>1, <1>3, SeqMonotonic DEF TypeOK
  <2> QED BY <1>1, <1>2, <1>3, <1>4, <2>1 DEF TypeOK, Quiet
<1>6. \A m : AnswersTo(m)' = AnswersTo(m)
  BY <1>3 DEF AnswersTo
<1>7. ASSUME NEW m \in Numbers \ stuck  PROVE Right(m)'
  <2>1. Right(m)
    BY DEF Ind
  <2> QED BY <1>1, <1>2, <1>3, <1>6, <2>1, OthersStay
<1>8. Right(n)'
  <2>1. AnswersTo(n) = {}
    <3> DEFINE S == [request : Numbers, code : Codes]
    <3>1. answers \in Seq(S) /\ \A a \in S : a.request \in Numbers
      BY <1>4
    <3> HIDE DEF S
    <3>2. \A i \in DOMAIN answers : answers[i] \in S
      BY <3>1, LenProperties, ElementOfSeq
    <3>3. \A i \in DOMAIN answers : answers[i].request \in Numbers
      BY <3>1, <3>2
    <3> QED BY <1>1, <3>3 DEF AnswersTo
  <2>2. n \notin Held'
    BY <1>1, <1>3 DEF TypeOK, Held
  <2> QED BY <1>2, <1>3, <1>6, <2>1, <2>2 DEF Right, Fresh, Held
<1>9. entries' \subseteq files'
  BY <1>3 DEF Ind
<1> QED BY <1>1, <1>3, <1>5, <1>7, <1>8, <1>9 DEF Ind

LEMMA ListRequestsKeeps ==
    ASSUME Ind, ListRequests
    PROVE  Ind'
<1>1. /\ entries' = files
      /\ UNCHANGED <<req, files, up, batch, actions, cap, gate, attended, run, queued, answers, carried,
                     lost, stuck>>
      /\ TypeOK /\ up /\ Numbers' = Numbers
  BY DEF Ind, ListRequests, Numbers
<1>2. TypeOK'
  BY <1>1 DEF TypeOK
<1>3. ASSUME NEW m \in Numbers \ stuck  PROVE Right(m)'
  BY <1>1, OthersStay DEF Ind, AnswersTo
<1> QED BY <1>1, <1>2, <1>3 DEF Ind

\* The answer's type carries over: the requests only grow in number.
LEMMA AnswersTyped ==
    ASSUME TypeOK, NEW n \in Numbers, NEW code \in Codes, Record(n, code), req' = req
    PROVE  answers' \in Seq([request : Numbers, code : Codes])' /\ lost' \subseteq Numbers'
BY Recorded DEF Answer, Numbers

LEMMA TakeOneKeeps ==
    ASSUME Ind, NEW n \in Numbers, TakeOne(n)
    PROVE  Ind'
<1>1. /\ n \in entries /\ n \in files /\ entries' = entries \ {n} /\ entries \subseteq files
      /\ UNCHANGED <<req, up, actions, cap, gate, attended, run, queued, carried>>
      /\ TypeOK /\ Numbers' = Numbers
  BY DEF Ind, TakeOne, First, Numbers
<1>2. n \notin stuck => Fresh(n) /\ n \notin batch /\ n \notin actions
  BY <1>1 DEF Ind, Right, Held
<1>3. up
  BY <1>1 DEF TypeOK, Quiet
<1>4. CASE files' = files \ {n} /\ Record(n, "FAILED") /\ UNCHANGED <<batch, stuck>>
  <2>1. answers' \in Seq([request : Numbers, code : Codes])' /\ lost' \subseteq Numbers'
    BY <1>1, <1>4, AnswersTyped DEF Codes
  <2>2. TypeOK'
    BY <1>1, <1>3, <1>4, <2>1 DEF TypeOK
  <2>3. \A m \in Numbers' \ stuck' : Right(m)'
    BY <1>1, <1>2, <1>4, Concludes DEF Codes
  <2> QED BY <1>1, <1>4, <2>2, <2>3 DEF Ind
<1>5. CASE files' = files \ {n} /\ batch' = batch \cup {n} /\ UNCHANGED <<answers, lost, stuck>>
  <2>1. TypeOK'
    BY <1>1, <1>3, <1>5 DEF TypeOK
  <2>2. \A m : AnswersTo(m)' = AnswersTo(m)
    BY <1>5 DEF AnswersTo
  <2>3. ASSUME NEW m \in Numbers \ stuck, m # n  PROVE Right(m)'
    BY <1>1, <1>5, <2>2, <2>3, OthersStay DEF Ind
  <2>4. ASSUME n \notin stuck  PROVE Right(n)'
    BY <1>1, <1>2, <1>5, <2>2, <2>4 DEF Right, Fresh, Held
  <2> QED BY <1>1, <1>5, <2>1, <2>3, <2>4 DEF Ind
<1>6. CASE /\ files' = files /\ stuck' = stuck \cup {n} /\ batch' = batch \cup {n}
           /\ UNCHANGED <<answers, lost>>
  <2>1. TypeOK'
    BY <1>1, <1>3, <1>6 DEF TypeOK
  <2>2. \A m : AnswersTo(m)' = AnswersTo(m)
    BY <1>6 DEF AnswersTo
  <2>3. ASSUME NEW m \in Numbers \ stuck, m # n  PROVE Right(m)'
    BY <1>1, <1>6, <2>2, <2>3, OthersStay DEF Ind
  <2> QED BY <1>1, <1>6, <2>1, <2>3 DEF Ind
<1> QED BY <1>4, <1>5, <1>6 DEF TakeOne, Removed

\* What the handling of a request does: it concludes it, or puts a manual
\* action into the queue.  Only an admitted one does more than answer, only a
\* policy's changes the policy, and only one that may ends a run.
LEMMA WhatHandlingDoes ==
    ASSUME Ind, NEW n \in Numbers, Handle(n)
    PROVE  /\ run' \in {None, Operator} \cup Numbers /\ queued' \in Seq(Numbers)
           /\ attended' \in BOOLEAN /\ gate' \in Gates
           /\ \/ \E code \in Codes :
                   /\ Record(n, code) /\ actions' = actions
                   /\ \/ carried' = carried /\ code # "OK"
                      \/ carried' = [carried EXCEPT ![n] = @ + 1] /\ Closes(n, code)
              \/ actions' = actions \cup {n} /\ UNCHANGED <<carried, answers, lost>>
           /\ ~Admits(req[n]) => UNCHANGED <<carried, run, gate, attended, actions>>
           /\ \/ UNCHANGED <<gate, attended>>
              \/ req[n].command \in Policies /\ actions' = actions
                 /\ carried' = [carried EXCEPT ![n] = @ + 1]
           /\ \/ run = None \/ run' = run
              \/ /\ carried' = [carried EXCEPT ![n] = @ + 1]
                 /\ \/ req[n].command \in {"emergency_standby", "submit_global_action"}
                    \/ OwnerAdmits(req[n])
<1>1. TypeOK /\ queued \in Seq(Numbers)
  BY DEF Ind, TypeOK
<1> DEFINE Typed == /\ run' \in {None, Operator} \cup Numbers /\ queued' \in Seq(Numbers)
                    /\ attended' \in BOOLEAN /\ gate' \in Gates
           Same  == UNCHANGED <<gate, attended>>
<1>2. ASSUME NEW code \in Codes, code # "OK", Answered(n, code)
      PROVE  Typed /\ Same /\ Record(n, code) /\ UNCHANGED <<actions, carried, run>>
  BY <1>1, <1>2 DEF Answered, TypeOK
<1>3. ASSUME Aborts(n), req[n].command \in Endings
      PROVE  /\ Typed /\ Same /\ actions' = actions
             /\ \E code \in Codes : Record(n, code) /\ Closes(n, code)
             /\ carried' = [carried EXCEPT ![n] = @ + 1]
  BY <1>1, <1>3, NextTyped DEF Aborts, Does, Codes, Closes, TypeOK
<1>4. CASE ~Admits(req[n])
  BY <1>2, <1>4 DEF Handle, Codes
<1>5. CASE Admits(req[n])
  <2>1. Method(n)
    BY <1>5 DEF Handle
  <2>2. CASE RunProcedure(n)
    <3>1. CASE Objects(n)
      BY <1>2, <1>5, <3>1 DEF Objects, Codes
    <3>2. CASE ~Objects(n)
      <4>1. /\ Same /\ actions' = actions /\ Record(n, "OK")
            /\ carried' = [carried EXCEPT ![n] = @ + 1] /\ (run = None \/ run' = run)
        BY <2>2, <3>2 DEF RunProcedure, Does
      <4>2. Append(queued, n) \in Seq(Numbers)
        BY <1>1, AppendProperties
      <4>3. Typed
        BY <1>1, <2>2, <3>2, <4>2 DEF RunProcedure, TypeOK
      <4> QED BY <1>5, <4>1, <4>3 DEF Codes, Closes
    <3> QED BY <3>1, <3>2
  <2>3. CASE AbortProcedure(n) /\ req[n].command = "abort_procedure"
    BY <1>2, <1>3, <1>5, <2>3 DEF AbortProcedure, Objects, Codes, Endings
  <2>4. CASE SubmitViAction(n)
    BY <1>1, <1>2, <1>5, <2>4 DEF SubmitViAction, Objects, Codes, TypeOK
  <2>5. CASE SubmitGlobalAction(n) /\ req[n].command = "submit_global_action"
    <3>1. CASE run # None
      BY <1>3, <1>5, <2>5, <3>1 DEF SubmitGlobalAction, Endings
    <3>2. CASE run = None
      BY <1>1, <1>5, <2>5, <3>2 DEF SubmitGlobalAction, Does, Codes, Closes, TypeOK
    <3> QED BY <3>1, <3>2
  <2>6. CASE EmergencyStandby(n) /\ req[n].command = "emergency_standby"
    BY <1>1, <1>5, <2>6 DEF EmergencyStandby, Does, Codes, Closes, TypeOK
  <2>7. CASE SetPolicy(n)
    BY <1>1, <1>5, <2>7 DEF SetPolicy, Does, Codes, Closes, Policies, TypeOK
  <2> QED BY <2>1, <2>2, <2>3, <2>4, <2>5, <2>6, <2>7 DEF Method
<1> QED BY <1>4, <1>5

LEMMA HandleKeeps ==
    ASSUME Ind, NEW n \in Numbers, Handle(n)
    PROVE  Ind'
<1>1. /\ n \in batch /\ batch' = batch \ {n}
      /\ UNCHANGED <<req, files, up, entries, cap, stuck>>
      /\ entries \subseteq files /\ TypeOK /\ Numbers' = Numbers
  BY DEF Ind, Handle, First, Numbers
<1>2. n \notin stuck => Fresh(n) /\ n \notin files /\ n \notin actions
  BY <1>1 DEF Ind, Right, Held
<1>3. up
  BY <1>1 DEF TypeOK, Quiet
<1>4. /\ run' \in {None, Operator} \cup Numbers /\ queued' \in Seq(Numbers)
      /\ attended' \in BOOLEAN /\ gate' \in Gates
  BY WhatHandlingDoes
<1>5. ASSUME NEW code \in Codes, Record(n, code), actions' = actions,
             \/ carried' = carried /\ code # "OK"
             \/ carried' = [carried EXCEPT ![n] = @ + 1] /\ Closes(n, code)
      PROVE  Ind'
  <2>1. answers' \in Seq([request : Numbers, code : Codes])' /\ lost' \subseteq Numbers'
    BY <1>1, <1>5, AnswersTyped
  <2>2. carried' \in [Numbers -> Nat]
    BY <1>1, <1>5, SMTT(40) DEF TypeOK
  <2>3. TypeOK'
    BY <1>1, <1>3, <1>4, <1>5, <2>1, <2>2 DEF TypeOK
  <2>4. \A m \in Numbers' \ stuck' : Right(m)'
    BY <1>1, <1>2, <1>5, Concludes
  <2> QED BY <1>1, <2>3, <2>4 DEF Ind
<1>6. CASE actions' = actions \cup {n} /\ UNCHANGED <<carried, answers, lost>>
  <2>1. TypeOK'
    BY <1>1, <1>3, <1>4, <1>6 DEF TypeOK
  <2>2. \A m : AnswersTo(m)' = AnswersTo(m)
    BY <1>6 DEF AnswersTo
  <2>3. ASSUME NEW m \in Numbers \ stuck, m # n  PROVE Right(m)'
    BY <1>1, <1>6, <2>2, <2>3, OthersStay DEF Ind
  <2>4. ASSUME n \notin stuck  PROVE Right(n)'
    BY <1>1, <1>2, <1>6, <2>2, <2>4 DEF Right, Fresh, Held
  <2> QED BY <1>1, <1>6, <2>1, <2>3, <2>4 DEF Ind
<1> QED BY <1>5, <1>6, WhatHandlingDoes

LEMMA DrainActionKeeps ==
    ASSUME Ind, NEW n \in Numbers, DrainAction(n)
    PROVE  Ind'
<1>1. /\ n \in actions /\ actions' = actions \ {n}
      /\ UNCHANGED <<req, files, up, entries, batch, cap, gate, attended, run, queued, stuck>>
      /\ entries \subseteq files /\ TypeOK /\ Numbers' = Numbers
  BY DEF Ind, DrainAction, First, Numbers
<1>2. n \notin stuck => Fresh(n) /\ n \notin files /\ n \notin batch
  BY <1>1 DEF Ind, Right, Held
<1>3. up
  BY <1>1 DEF TypeOK, Quiet
<1>4. PICK code \in Codes :
        /\ Record(n, code)
        /\ \/ carried' = carried /\ code # "OK"
           \/ carried' = [carried EXCEPT ![n] = @ + 1] /\ Closes(n, code)
  BY DEF DrainAction, Does, Codes, Closes
<1>5. answers' \in Seq([request : Numbers, code : Codes])' /\ lost' \subseteq Numbers'
  BY <1>1, <1>4, AnswersTyped
<1>6. carried' \in [Numbers -> Nat]
  BY <1>1, <1>4, SMTT(40) DEF TypeOK
<1>7. TypeOK'
  BY <1>1, <1>3, <1>5, <1>6 DEF TypeOK
<1>8. \A m \in Numbers' \ stuck' : Right(m)'
  BY <1>1, <1>2, <1>4, Concludes
<1> QED BY <1>1, <1>7, <1>8 DEF Ind

LEMMA WindowKeeps ==
    ASSUME Ind, Window
    PROVE  Ind'
<1>1. /\ UNCHANGED <<req, files, up, entries, batch, actions, cap, answers, carried, lost, stuck>>
      /\ TypeOK /\ Numbers' = Numbers /\ entries \subseteq files
  BY DEF Ind, Window, engine, Numbers
<1>2. gate' \in Gates /\ attended' \in BOOLEAN /\ run' \in {None, Operator} \cup Numbers
      /\ queued' \in Seq(Numbers)
  BY <1>1, NextTyped DEF Window, SetAttendance, SetAgentGate, StartsRun, RunEnds, TypeOK
<1>3. TypeOK'
  BY <1>1, <1>2 DEF TypeOK, Quiet
<1>4. ASSUME NEW m \in Numbers \ stuck  PROVE Right(m)'
  BY <1>1, OthersStay DEF Ind, AnswersTo
<1> QED BY <1>1, <1>3, <1>4 DEF Ind

LEMMA CrashKeeps ==
    ASSUME Ind, Crash
    PROVE  Ind'
<1>1. /\ up' = FALSE /\ entries' = {} /\ batch' = {} /\ actions' = {} /\ lost' = lost \cup Held
      /\ UNCHANGED <<req, files, cap, gate, attended, run, queued, answers, carried, stuck>>
      /\ TypeOK /\ Numbers' = Numbers
  BY DEF Ind, Crash, Numbers
<1>2. TypeOK'
  BY <1>1 DEF TypeOK, Quiet, Held
<1>3. \A m : AnswersTo(m)' = AnswersTo(m)
  BY <1>1 DEF AnswersTo
<1>4. ASSUME NEW m \in Numbers \ stuck  PROVE Right(m)'
  <2>1. Right(m)
    BY DEF Ind
  <2> QED BY <1>1, <1>3, <2>1 DEF Right, Fresh, Held
<1> QED BY <1>1, <1>2, <1>4 DEF Ind

LEMMA StartKeeps ==
    ASSUME Ind, Start
    PROVE  Ind'
<1>1. /\ up' = TRUE /\ gate' = "active" /\ attended' = TRUE /\ run' = None /\ queued' = <<>>
      /\ UNCHANGED <<req, files, entries, batch, actions, cap, answers, carried, lost, stuck>>
      /\ TypeOK /\ Numbers' = Numbers /\ entries \subseteq files
  BY DEF Ind, Start, engine, Numbers
<1>2. TypeOK'
  BY <1>1 DEF TypeOK
<1>3. ASSUME NEW m \in Numbers \ stuck  PROVE Right(m)'
  BY <1>1, OthersStay DEF Ind, AnswersTo
<1> QED BY <1>1, <1>2, <1>3 DEF Ind
-----------------------------------------------------------------------------
LEMMA InitHolds == Init => Ind
<1> SUFFICES ASSUME Init PROVE Ind
  OBVIOUS
<1>1. Numbers = {}
  BY DEF Init, Numbers
<1>2. req \in Seq(Templates) /\ Len(req) = 0 /\ answers \in Seq([request : Numbers, code : Codes])
  BY EmptySeq DEF Init
<1>3. carried \in [Numbers -> Nat]
  BY <1>1 DEF Init
<1>4. TypeOK
  <2>1. /\ files = {} /\ entries = {} /\ batch = {} /\ actions = {} /\ lost = {} /\ stuck = {}
        /\ up = TRUE /\ cap \in Caps /\ gate \in Gates /\ attended = TRUE /\ run = None /\ queued = <<>>
    BY DEF Init, Quiet
  <2>2. Len(req) <= MaxRequests
    BY <1>2
  <2> QED BY <1>2, <1>3, <2>1, <2>2 DEF TypeOK
<1> QED BY <1>1, <1>4 DEF Init, Ind, Quiet

LEMMA StepHolds == Ind /\ [Next]_vars => Ind'
<1> SUFFICES ASSUME Ind, [Next]_vars PROVE Ind'
  OBVIOUS
<1>1. CASE UNCHANGED vars
  <2>1. /\ UNCHANGED <<req, files, up, entries, batch, actions, cap, gate, attended, run, queued, answers,
                       carried, lost, stuck>>
        /\ TypeOK /\ Numbers' = Numbers /\ entries \subseteq files
    BY <1>1 DEF Ind, vars, engine, Numbers
  <2>2. TypeOK'
    BY <2>1 DEF TypeOK, Quiet
  <2>3. ASSUME NEW m \in Numbers \ stuck  PROVE Right(m)'
    BY <2>1, OthersStay DEF Ind, AnswersTo
  <2> QED BY <2>1, <2>2, <2>3 DEF Ind
<1>2. ASSUME NEW t \in Templates, WriteRequest(t)  PROVE Ind'
  BY <1>2, WriteRequestKeeps
<1>3. CASE ListRequests
  BY <1>3, ListRequestsKeeps
<1>4. ASSUME NEW n \in Numbers, TakeOne(n) \/ Handle(n) \/ DrainAction(n)  PROVE Ind'
  BY <1>4, TakeOneKeeps, HandleKeeps, DrainActionKeeps
<1>5. CASE Window
  BY <1>5, WindowKeeps
<1>6. CASE Crash
  BY <1>6, CrashKeeps
<1>7. CASE Start
  BY <1>7, StartKeeps
<1> QED BY <1>1, <1>2, <1>3, <1>4, <1>5, <1>6, <1>7 DEF Next, Drain

LEMMA Invariance == Spec => []Ind
BY InitHolds, StepHolds, PTL DEF Spec
-----------------------------------------------------------------------------
(* Authority.                                                               *)

\* A queued action was right when it was judged, and is still, or a later
\* request of its batch has changed the policy; the queue is older than the batch.
InTurn ==
    /\ entries # {} => actions = {}
    /\ \A a \in actions, b \in batch : a < b
Deferred == \A n \in actions : Bound(n) => Rightful(n) \/ Overtaken(n)

\* What a role within the ceiling is granted, the ceiling is granted.
LEMMA CeilingCovers ==
    ASSUME NEW role \in Roles, cap \in Roles, WithinCeiling(role), NEW command, Grants(role, ClassOf(command))
    PROVE  Grants(cap, ClassOf(command))
<1>1. PICK class \in {"run_control", "envelope", "recovery"} : class = ClassOf(command)
  BY DEF ClassOf
<1>2. class \in DOMAIN Matrix
  BY DEF Matrix
<1>3. Rank[Matrix[class][role]] <= Rank[Matrix[class][cap]]
  BY <1>2 DEF WithinCeiling
<1>4. Matrix[class][cap] \in {"refused", "unattended_only", "permitted"}
  BY DEF Matrix, Row, Roles
<1> QED BY <1>1, <1>3, <1>4 DEF Grants, Rank

\* An admitted request is rightful.
LEMMA AdmittedIsRightful ==
    ASSUME TypeOK, NEW n \in Numbers, Admits(req[n]), Bound(n)
    PROVE  Rightful(n)
<1>1. req[n] \in Templates /\ req[n].role \in Roles /\ cap \in Roles
  BY LenProperties, ElementOfSeq DEF TypeOK, Numbers, Request
<1> QED BY <1>1, CeilingCovers DEF Admits, Bound, Rightful

LEMMA TurnHolds ==
    ASSUME Ind, InTurn, Deferred, [Next]_vars
    PROVE  InTurn' /\ Deferred'
<1>1. /\ TypeOK /\ carried \in [Numbers -> Nat] /\ Numbers \subseteq Nat
      /\ actions \subseteq Numbers /\ batch \subseteq Numbers
  BY LenProperties DEF Ind, TypeOK, Numbers
<1>2. ASSUME actions' = {}  PROVE InTurn' /\ Deferred'
  BY <1>2 DEF InTurn, Deferred
<1>3. CASE UNCHANGED vars
  BY <1>3 DEF vars, engine, InTurn, Deferred, Bound, Rightful, Overtaken, Grants, Numbers
<1>4. ASSUME NEW t \in Templates, WriteRequest(t)  PROVE InTurn' /\ Deferred'
  <2>1. /\ \A m \in Numbers : m \in Numbers' /\ carried'[m] = carried[m] /\ req'[m] = req[m]
    BY <1>1, <1>4, Written
  <2>2. UNCHANGED <<entries, batch, actions, gate, cap, attended>>
    BY <1>4 DEF WriteRequest, engine
  <2>3. ASSUME NEW n \in actions, Bound(n)', Rightful(n) \/ Overtaken(n)
        PROVE  Rightful(n)' \/ Overtaken(n)'
    <3>1. CASE Rightful(n)
      BY <1>1, <2>1, <2>2, <3>1 DEF Rightful, Grants
    <3>2. CASE Overtaken(n)
      BY <1>1, <2>1, <3>2 DEF Overtaken
    <3> QED BY <2>3, <3>1, <3>2
  <2> QED BY <1>1, <2>1, <2>2, <2>3 DEF InTurn, Deferred, Bound
<1>5. CASE ListRequests \/ Window \/ Crash \/ Start
  <2>1. actions' = {}
    BY <1>1, <1>5 DEF ListRequests, Window, SetAttendance, SetAgentGate, StartsRun, RunEnds, Decides,
                      Crash, Start, Quiet, engine, TypeOK
  <2> QED BY <1>2, <2>1
<1>6. ASSUME NEW n \in Numbers, TakeOne(n)  PROVE InTurn' /\ Deferred'
  BY <1>2, <1>6 DEF TakeOne, First, InTurn
<1>7. ASSUME NEW n \in Numbers, Handle(n)  PROVE InTurn' /\ Deferred'
  <2>1. /\ entries' = {} /\ batch' = batch \ {n} /\ n \in batch /\ \A b \in batch : n <= b
        /\ UNCHANGED <<req, cap>> /\ Numbers' = Numbers
    BY <1>7 DEF Handle, First, Numbers
  <2>2. actions' = actions \/ actions' = actions \cup {n}
    BY <1>7, WhatHandlingDoes
  <2>3. InTurn'
    BY <1>1, <2>1, <2>2 DEF InTurn
  <2>4. /\ carried' = carried \/ carried' = [carried EXCEPT ![n] = @ + 1]
        /\ \/ UNCHANGED <<gate, attended>>
           \/ req[n].command \in Policies /\ actions' = actions
              /\ carried' = [carried EXCEPT ![n] = @ + 1]
        /\ ~Admits(req[n]) => actions' = actions
    BY <1>7, WhatHandlingDoes
  <2>5. ASSUME NEW a \in actions, Overtaken(a)  PROVE Overtaken(a)'
    BY <1>1, <2>1, <2>4, <2>5 DEF Overtaken
  <2>6. CASE UNCHANGED <<gate, attended>>
    <3>1. \A a : Rightful(a)' = Rightful(a)
      BY <2>1, <2>6 DEF Rightful, Grants
    <3>2. ASSUME n \in actions', n \notin actions, Bound(n)  PROVE Rightful(n)'
      BY <1>1, <2>4, <3>1, <3>2, AdmittedIsRightful
    <3> QED BY <2>1, <2>2, <2>3, <2>5, <3>1, <3>2 DEF Deferred, Bound
  <2>7. CASE req[n].command \in Policies /\ actions' = actions /\ carried' = [carried EXCEPT ![n] = @ + 1]
    <3>1. \A a \in actions : n > a
      BY <1>1, <2>1 DEF InTurn
    <3>2. carried'[n] > 0
      BY <1>1, <2>7
    <3>3. \A a \in actions : Overtaken(a)'
      BY <2>1, <2>7, <3>1, <3>2 DEF Overtaken
    <3> QED BY <2>3, <2>7, <3>3 DEF Deferred
  <2> QED BY <2>4, <2>6, <2>7
<1>8. ASSUME NEW n \in Numbers, DrainAction(n)  PROVE InTurn' /\ Deferred'
  <2>1. /\ actions' = actions \ {n} /\ UNCHANGED <<req, cap, gate, attended, batch, entries>>
        /\ Numbers' = Numbers /\ entries = {}
        /\ carried' = carried \/ carried' = [carried EXCEPT ![n] = @ + 1]
    BY <1>8 DEF DrainAction, Does, Numbers
  <2>2. ASSUME NEW a \in actions, Rightful(a) \/ Overtaken(a)  PROVE Rightful(a)' \/ Overtaken(a)'
    <3>1. CASE Rightful(a)
      BY <2>1, <3>1 DEF Rightful, Grants
    <3>2. CASE Overtaken(a)
      BY <1>1, <2>1, <3>2 DEF Overtaken
    <3> QED BY <2>2, <3>1, <3>2
  <2> QED BY <2>1, <2>2 DEF InTurn, Deferred, Bound
<1> QED BY <1>3, <1>4, <1>5, <1>6, <1>7, <1>8 DEF Next, Drain

LEMMA TurnIsKept == Spec => [](InTurn /\ Deferred)
<1>1. Init => InTurn /\ Deferred
  BY DEF Init, Quiet, InTurn, Deferred
<1>2. Ind /\ InTurn /\ Deferred /\ [Next]_vars => (InTurn /\ Deferred)'
  BY TurnHolds
<1> QED BY <1>1, <1>2, Invariance, PTL DEF Spec
-----------------------------------------------------------------------------
\* Every variable keeps its type, and an application that does not run holds no
\* part of a drain.
THEOREM TypesAreKept == Spec => []TypeOK
BY Invariance, PTL DEF Ind

\* A request is carried out at most once and answered at most once, truthfully,
\* and it is in the directory or with the engine until it is answered or its
\* answer is lost: however many requests there are, whatever crashes.
THEOREM AnsweredOnce == Spec => []OneTrueAnswer
<1>1. Ind => OneTrueAnswer
  BY DEF Ind, Right, OneTrueAnswer
<1> QED BY <1>1, Invariance, PTL

\* An agent's request is carried out only with the authority of that moment, but for a
\* manual action that a later request of its batch has overtaken; and a run in
\* flight is ended through the spool by those only who may: for any requests.
THEOREM AgentsActByRight == Spec => ActsByRight
<1>1. ASSUME Ind, Deferred, Next  PROVE Authorized /\ OwnersDecide
  <2>1. TypeOK /\ carried \in [Numbers -> Nat] /\ req \in Seq(Templates) /\ Numbers = 1 .. Len(req)
    BY <1>1, LenProperties DEF Ind, TypeOK, Numbers
  <2>2. CASE \E t \in Templates : WriteRequest(t)
    <3>1. \A n \in Numbers : carried'[n] = carried[n]
      BY <2>1, <2>2, Written
    <3>2. run' = run
      BY <2>2 DEF WriteRequest
    <3>3. \A n \in Numbers : ~(carried'[n] > carried[n])
      BY <2>1, <3>1
    <3> QED BY <3>2, <3>3 DEF Authorized, OwnersDecide
  <2>3. CASE ListRequests \/ Window \/ Crash \/ Start
    BY <2>1, <2>3 DEF ListRequests, Window, SetAttendance, SetAgentGate, StartsRun, RunEnds, Decides,
                      Crash, Start, Authorized, OwnersDecide
  <2>4. ASSUME NEW m \in Numbers, TakeOne(m)  PROVE Authorized /\ OwnersDecide
    BY <2>1, <2>4 DEF TakeOne, Authorized, OwnersDecide
  <2>5. ASSUME NEW m \in Numbers, DrainAction(m)  PROVE Authorized /\ OwnersDecide
    <3>1. /\ m \in actions /\ run' = run
          /\ carried' = carried \/ carried' = [carried EXCEPT ![m] = @ + 1]
      BY <2>5 DEF DrainAction, First, Does
    <3>2. ASSUME NEW n \in Numbers, carried'[n] > carried[n]  PROVE n = m
      BY <2>1, <3>1, <3>2
    <3> QED BY <1>1, <3>1, <3>2 DEF Deferred, Authorized, OwnersDecide
  <2>6. ASSUME NEW m \in Numbers, Handle(m)  PROVE Authorized /\ OwnersDecide
    <3>1. carried' = carried \/ carried' = [carried EXCEPT ![m] = @ + 1]
      BY <1>1, <2>6, WhatHandlingDoes
    <3>2. ASSUME NEW n \in Numbers, carried'[n] > carried[n]  PROVE n = m /\ Admits(req[n])
      BY <1>1, <2>1, <2>6, <3>1, <3>2, WhatHandlingDoes
    <3>3. Authorized
      BY <2>1, <3>2, AdmittedIsRightful DEF Authorized
    <3>4. ASSUME run # None, run' # run
          PROVE  /\ carried' = [carried EXCEPT ![m] = @ + 1] /\ Admits(req[m])
                 /\ \/ req[m].command \in {"emergency_standby", "submit_global_action"}
                    \/ OwnerAdmits(req[m])
      BY <1>1, <2>6, <3>4, WhatHandlingDoes
    <3>5. ASSUME run # None, OwnerAdmits(req[m]), Admits(req[m])
          PROVE  req[m].kind = "system" \/ req[m].actor = Owner \/ req[m].takeover
      <4>1. req[m] \in Templates /\ req[m].kind \in {"agent", "system", "operator"}
        BY <2>1, ElementOfSeq DEF Request
      <4>2. Owner # None
        <5>1. run \in Numbers => req[run] \in Templates
          BY <2>1, ElementOfSeq
        <5> QED BY <2>1, <3>5, <5>1 DEF Owner, TypeOK
      <4> QED BY <3>5, <4>1, <4>2 DEF OwnerAdmits, Admits
    <3>6. m \in batch /\ (carried' = [carried EXCEPT ![m] = @ + 1] => carried'[m] > carried[m])
      BY <2>1, <2>6 DEF Handle, First
    <3> QED BY <3>3, <3>4, <3>5, <3>6 DEF OwnersDecide
  <2> QED BY <1>1, <2>2, <2>3, <2>4, <2>5, <2>6 DEF Next, Drain
<1>2. Ind /\ Deferred /\ [Next]_vars => [Authorized /\ OwnersDecide]_vars
  BY <1>1
<1>3. Spec => [](InTurn /\ Deferred)
  BY TurnIsKept
<1> QED BY <1>2, <1>3, Invariance, PTL DEF Spec, ActsByRight
=============================================================================
