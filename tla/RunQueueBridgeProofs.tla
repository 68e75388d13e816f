------------------------- MODULE RunQueueBridgeProofs -------------------------
(***************************************************************************)
(* What the run queue promises, for any runs and any number of questions    *)
(* and changes: clients are shown the queue as it is, and every run goes    *)
(* the way RunTickets allows, whatever the two threads do.                  *)
(***************************************************************************)
EXTENDS RunQueueBridge, SequenceTheorems, TLAPS

\* Clients are told of the queue as it is: the cache never lags behind it.
Told == cache = queue /\ BroadcastsConverge

\* The questions on their way to the client: asked once each and unanswered,
\* the one that the client is answering not among them.
QuestionsAreOpen ==
    /\ \A i \in DOMAIN inbox : inbox[i].kind = "ask" =>
         /\ inbox[i].ask \in DOMAIN answer
         /\ answer[inbox[i].ask] = Unanswered
         /\ inbox[i].ask # client.ask
         /\ \A j \in DOMAIN inbox :
              inbox[j].kind = "ask" /\ inbox[j].ask = inbox[i].ask => j = i
    /\ client.ask # 0 => answer[client.ask] = Unanswered

\* Nobody waits for an unanswered question but the engine, and only while it
\* has no run.
OneAsker ==
    eng.at # "killed" =>
        /\ \A n \in DOMAIN answer : answer[n] = Unanswered =>
             n \in abandoned \/ (eng.at = "asking" /\ eng.ask = n)
        /\ eng.at = "asking" => eng.ask \notin abandoned

IdleWhenAsking ==
    /\ eng.at \in {"asking", "building"} => run = None
    /\ run # None => fate[run] = "started"

\* A run is in one place: in the queue, with the client or with the engine, or
\* in the answer that the engine or nobody waits for.
OpenInQueue ==
    /\ IsInjective(queue)
    /\ \A s \in Range(queue) :
         /\ fate[s] = "open"
         /\ client.spec # s /\ eng.spec # s
         /\ \A n \in DOMAIN answer : answer[n] # s
OpenAtClient ==
    client.spec # None =>
        /\ fate[client.spec] = "open"
        /\ eng.spec # client.spec
        /\ \A n \in DOMAIN answer : answer[n] # client.spec
Collected(n) == ~(eng.at = "asking" /\ eng.ask = n) /\ n \notin abandoned
OpenInAnswer ==
    \A n \in DOMAIN answer : answer[n] \in Specs =>
        /\ \A m \in DOMAIN answer : answer[m] = answer[n] => m = n
        /\ fate[answer[n]] # "new"
        /\ ~Collected(n) => fate[answer[n]] = "open" /\ eng.spec # answer[n]
        /\ Collected(n) /\ eng.at # "killed" =>
             fate[answer[n]] \in {"started", "refused"} \/ eng.spec = answer[n]
OpenAtEngine == eng.spec # None => fate[eng.spec] = "open"

\* A run that is open is somewhere, unless the process has taken it with it.
Located ==
    eng.at # "killed" => \A s \in Specs : fate[s] = "open" =>
        \/ s \in Range(queue) \/ client.spec = s \/ eng.spec = s
        \/ \E n \in DOMAIN answer : answer[n] = s /\ ~Collected(n)

\* The engine ends only once the client waits for it to.
EndsLast ==
    /\ eng.at = "killed" => client.at = "gone"
    /\ client.at \in {"loop", "posting"} =>
         eng.at # "ended" /\ \A i \in DOMAIN calls : calls[i] # "stop"

Ind == /\ TypeOK /\ Told /\ QuestionsAreOpen /\ OneAsker /\ IdleWhenAsking
       /\ OpenInQueue /\ OpenAtClient /\ OpenInAnswer /\ OpenAtEngine /\ Located /\ EndsLast

USE NamesAssumption, BoundsAssumption
-----------------------------------------------------------------------------
(* Sequences.                                                               *)

LEMMA Appended ==
    ASSUME NEW S, NEW s \in Seq(S), NEW e \in S
    PROVE  /\ Append(s, e) \in Seq(S)
           /\ DOMAIN Append(s, e) = 1 .. Len(s) + 1 /\ DOMAIN s = 1 .. Len(s)
           /\ Len(s) \in Nat /\ Len(Append(s, e)) = Len(s) + 1
           /\ \A i \in 1 .. Len(s) : Append(s, e)[i] = s[i]
           /\ Append(s, e)[Len(s) + 1] = e
BY AppendProperties, LenProperties

LEMMA Tailed ==
    ASSUME NEW S, NEW s \in Seq(S), s # <<>>
    PROVE  /\ Tail(s) \in Seq(S)
           /\ Head(s) = s[1] /\ s[1] \in S
           /\ Len(s) \in Nat \ {0} /\ DOMAIN s = 1 .. Len(s)
           /\ DOMAIN Tail(s) = 1 .. Len(s) - 1
           /\ \A i \in 1 .. Len(s) - 1 : Tail(s)[i] = s[i + 1]
BY HeadTailProperties, LenProperties, EmptySeq

\* What removing one entry leaves: those before it, and those after it moved up.
LEMMA Removed ==
    ASSUME NEW S, NEW s \in Seq(S), NEW i \in DOMAIN s
    PROVE  /\ RemoveAt(s, i) \in Seq(S)
           /\ DOMAIN s = 1 .. Len(s) /\ Len(s) \in Nat
           /\ DOMAIN RemoveAt(s, i) = 1 .. Len(s) - 1
           /\ \A j \in 1 .. Len(s) - 1 : RemoveAt(s, i)[j] = IF j < i THEN s[j] ELSE s[j + 1]
<1> DEFINE a == SubSeq(s, 1, i - 1)
           b == SubSeq(s, i + 1, Len(s))
<1>1. Len(s) \in Nat /\ DOMAIN s = 1 .. Len(s) /\ \A j \in 1 .. Len(s) : s[j] \in S
  BY LenProperties, ElementOfSeq
<1>2. a \in Seq(S) /\ Len(a) = i - 1 /\ \A j \in 1 .. i - 1 : a[j] = s[j]
  BY <1>1, SubSeqProperties
<1>3. b \in Seq(S) /\ Len(b) = Len(s) - i /\ \A j \in 1 .. Len(s) - i : b[j] = s[i + j]
  <2>1. i + 1 \in Int /\ Len(s) \in Int /\ \A k \in i + 1 .. Len(s) : s[k] \in S
    BY <1>1
  <2>2. /\ b \in Seq(S) /\ Len(b) = IF i + 1 <= Len(s) THEN Len(s) - (i + 1) + 1 ELSE 0
        /\ \A j \in 1 .. Len(s) - (i + 1) + 1 : b[j] = s[i + 1 + j - 1]
    BY <2>1, SubSeqProperties, SMTT(40)
  <2> HIDE DEF b
  <2>3. Len(b) = Len(s) - i
    BY <1>1, <2>2, SMTT(40)
  <2>4. ASSUME NEW j \in 1 .. Len(s) - i  PROVE b[j] = s[i + j]
    <3>1. j \in 1 .. Len(s) - (i + 1) + 1 /\ i + 1 + j - 1 = i + j
      BY <1>1
    <3> QED BY <2>2, <3>1
  <2> QED BY <2>2, <2>3, <2>4
<1>4. RemoveAt(s, i) = a \o b
  BY DEF RemoveAt
<1> HIDE DEF a, b
<1> DEFINE r == a \o b
<1>5. /\ r \in Seq(S) /\ Len(r) = Len(a) + Len(b)
      /\ \A j \in 1 .. Len(a) + Len(b) : r[j] = IF j <= Len(a) THEN a[j] ELSE b[j - Len(a)]
  BY <1>2, <1>3, ConcatProperties, ZenonT(60)
<1> HIDE DEF r
<1>6. Len(r) = Len(s) - 1 /\ DOMAIN r = 1 .. Len(s) - 1
  BY <1>1, <1>2, <1>3, <1>5, LenProperties, SMTT(40)
<1>7. \A j \in 1 .. Len(s) - 1 : r[j] = IF j <= i - 1 THEN a[j] ELSE b[j - (i - 1)]
  BY <1>1, <1>2, <1>3, <1>5, SMTT(40)
<1>8. \A j \in 1 .. Len(s) - 1 : r[j] = IF j < i THEN s[j] ELSE s[j + 1]
  <2> TAKE j \in 1 .. Len(s) - 1
  <2>1. CASE j < i
    BY <1>1, <1>2, <1>7, <2>1
  <2>2. CASE ~(j < i)
    <3>1. j - (i - 1) \in 1 .. Len(s) - i /\ i + (j - (i - 1)) = j + 1
      BY <1>1, <2>2
    <3>2. b[j - (i - 1)] = s[j + 1]
      BY <1>3, <3>1
    <3> QED BY <1>1, <1>7, <2>2, <3>2
  <2> QED BY <2>1, <2>2
<1> QED BY <1>1, <1>4, <1>5, <1>6, <1>8 DEF r

\* What a queue without repetitions holds after each of its changes.
LEMMA AppendedHolds ==
    ASSUME NEW S, NEW s \in Seq(S), NEW e \in S
    PROVE  /\ Range(Append(s, e)) = Range(s) \cup {e}
           /\ IsInjective(s) /\ e \notin Range(s) => IsInjective(Append(s, e))
BY Appended DEF Range, IsInjective

LEMMA TailedHolds ==
    ASSUME NEW S, NEW s \in Seq(S), s # <<>>, IsInjective(s)
    PROVE  /\ Head(s) \in Range(s) /\ Range(Tail(s)) = Range(s) \ {Head(s)}
           /\ IsInjective(Tail(s))
<1> DEFINE r == Tail(s)
<1>1. /\ Head(s) = s[1] /\ Len(s) \in Nat \ {0} /\ DOMAIN s = 1 .. Len(s)
      /\ DOMAIN r = 1 .. Len(s) - 1
      /\ \A i \in 1 .. Len(s) - 1 : r[i] = s[i + 1]
  BY Tailed
<1> HIDE DEF r
<1>2. \A i \in DOMAIN s : i # 1 => i - 1 \in DOMAIN r /\ r[i - 1] = s[i]
  BY <1>1
<1>3. \A i \in DOMAIN r : i + 1 \in DOMAIN s /\ i + 1 # 1 /\ r[i] = s[i + 1]
  BY <1>1
<1>4. 1 \in DOMAIN s /\ \A i, j \in DOMAIN r : i + 1 = j + 1 => i = j
  BY <1>1
<1>5. IsInjective(r)
  BY <1>3, <1>4 DEF IsInjective
<1>6. Range(r) = Range(s) \ {s[1]}
  BY <1>2, <1>3, <1>4 DEF Range, IsInjective
<1> QED BY <1>1, <1>4, <1>5, <1>6 DEF Range, r

LEMMA RemovedHolds ==
    ASSUME NEW S, NEW s \in Seq(S), NEW i \in DOMAIN s, IsInjective(s)
    PROVE  /\ Range(RemoveAt(s, i)) = Range(s) \ {s[i]}
           /\ IsInjective(RemoveAt(s, i))
<1> DEFINE r == RemoveAt(s, i)
           from(j) == IF j < i THEN j ELSE j + 1
<1>1. /\ Len(s) \in Nat /\ DOMAIN s = 1 .. Len(s) /\ DOMAIN r = 1 .. Len(s) - 1
      /\ \A j \in 1 .. Len(s) - 1 : r[j] = IF j < i THEN s[j] ELSE s[j + 1]
  BY Removed
<1> HIDE DEF r
<1>2. \A j \in DOMAIN r : from(j) \in DOMAIN s /\ from(j) # i /\ r[j] = s[from(j)]
  BY <1>1
<1>3. \A j, k \in DOMAIN r : from(j) = from(k) => j = k
  BY <1>1
<1>4. \A k \in DOMAIN s : k # i => \E j \in DOMAIN r : from(j) = k
  <2>1. ASSUME NEW k \in DOMAIN s, k # i
        PROVE  from(IF k < i THEN k ELSE k - 1) = k /\ (IF k < i THEN k ELSE k - 1) \in DOMAIN r
    BY <1>1, <2>1
  <2> QED BY <2>1
<1> HIDE DEF from
<1>5. Range(r) = Range(s) \ {s[i]} /\ IsInjective(r)
  BY <1>2, <1>3, <1>4 DEF Range, IsInjective
<1> QED BY <1>5 DEF r

LEMMA MovedHolds ==
    ASSUME NEW S, NEW s \in Seq(S), NEW i \in 2 .. Len(s), IsInjective(s)
    PROVE  LET r == [s EXCEPT ![i] = s[i - 1], ![i - 1] = s[i]]
           IN  r \in Seq(S) /\ Range(r) = Range(s) /\ IsInjective(r)
<1> DEFINE r == [s EXCEPT ![i] = s[i - 1], ![i - 1] = s[i]]
           from(j) == IF j = i THEN i - 1 ELSE IF j = i - 1 THEN i ELSE j
<1>1. Len(s) \in Nat /\ DOMAIN s = 1 .. Len(s) /\ \A j \in 1 .. Len(s) : s[j] \in S
  BY LenProperties, ElementOfSeq
<1>2. i \in 1 .. Len(s) /\ i - 1 \in 1 .. Len(s) /\ i - 1 # i
  BY <1>1
<1>3. [s EXCEPT ![i] = s[i - 1]] \in Seq(S) /\ Len([s EXCEPT ![i] = s[i - 1]]) = Len(s)
  BY <1>1, <1>2, ExceptSeq
<1>4. r \in Seq(S)
  BY <1>1, <1>2, <1>3, ExceptSeq
<1>5. DOMAIN r = DOMAIN s /\ \A j \in DOMAIN s : r[j] = s[from(j)]
  BY <1>1, <1>2
<1>6. \A j \in DOMAIN s : from(j) \in DOMAIN s /\ from(from(j)) = j
  BY <1>1, <1>2
<1> HIDE DEF r, from
<1>7. Range(r) = Range(s) /\ IsInjective(r)
  BY <1>5, <1>6 DEF Range, IsInjective
<1> QED BY <1>4, <1>7 DEF r
-----------------------------------------------------------------------------
(* The steps.                                                               *)

LEMMA AddKeeps ==
    ASSUME Ind, NEW s \in Specs, Add(s)
    PROVE  Ind'
<1>1. s \notin Range(queue)
  BY DEF Ind, OpenInQueue, Add
<1>2. queue' \in Entries /\ Range(queue') = Range(queue) \cup {s} /\ IsInjective(queue')
  BY <1>1, Appended, AppendedHolds DEF Ind, TypeOK, Entries, OpenInQueue, Add, Changed
<1>3. TypeOK'
  BY <1>2 DEF Ind, TypeOK, Fates, Add, Edits, Changed, In
<1>4. Told'
  BY DEF Ind, Told, BroadcastsConverge, Add, Edits, Changed, In
<1>5. QuestionsAreOpen'
  BY DEF Ind, TypeOK, QuestionsAreOpen, Add, Edits, Changed, In
<1>6. OneAsker'
  BY DEF Ind, OneAsker, Add, Edits, Changed, In
<1>7. IdleWhenAsking' /\ OpenAtEngine'
  BY DEF Ind, TypeOK, IdleWhenAsking, OpenAtEngine, Add, Edits, Changed, In
<1>8. OpenInQueue'
  <2>1. client'.spec = None /\ eng.spec # s /\ \A n \in DOMAIN answer : answer[n] # s
    BY DEF Ind, TypeOK, OpenAtEngine, OpenInAnswer, Add, Edits, Changed, In
  <2> QED BY <1>2, <2>1 DEF Ind, TypeOK, OpenInQueue, Add, Edits, Changed, In
<1>9. OpenAtClient'
  BY DEF Ind, OpenAtClient, Add, Edits, Changed, In
<1>10. OpenInAnswer'
  BY DEF Ind, TypeOK, OpenInAnswer, Collected, Add, Edits, Changed, In
<1>11. Located'
  BY <1>2 DEF Ind, TypeOK, Located, Collected, Add, Edits, Changed, In
<1>12. EndsLast'
  BY DEF Ind, EndsLast, Add, Edits, Changed, In
<1> QED BY <1>3, <1>4, <1>5, <1>6, <1>7, <1>8, <1>9, <1>10, <1>11, <1>12 DEF Ind

LEMMA RemoveKeeps ==
    ASSUME Ind, NEW i \in DOMAIN queue, RemoveSpec(i)
    PROVE  Ind'
<1>1. queue[i] \in Specs /\ queue[i] \in Range(queue)
  BY LenProperties, ElementOfSeq DEF Ind, TypeOK, Entries, Range
<1>2. /\ queue' \in Entries /\ Range(queue') = Range(queue) \ {queue[i]}
      /\ IsInjective(queue')
  BY Removed, RemovedHolds, SMTT(40) DEF Ind, TypeOK, Entries, OpenInQueue, RemoveSpec, Changed
<1>3. /\ fate \in [Specs -> Fates] /\ fate' = [fate EXCEPT ![queue[i]] = "removed"]
      /\ fate[queue[i]] = "open"
      /\ client.spec = None /\ client'.spec = None /\ eng.spec # queue[i]
      /\ \A n \in DOMAIN answer : answer[n] # queue[i]
  BY <1>1 DEF Ind, TypeOK, OpenInQueue, RemoveSpec, Edits, Changed, In
<1>4. TypeOK'
  BY <1>1, <1>2 DEF Ind, TypeOK, Fates, RemoveSpec, Edits, Changed, In
<1>5. Told'
  BY DEF Ind, Told, BroadcastsConverge, RemoveSpec, Edits, Changed, In
<1>6. QuestionsAreOpen'
  BY DEF Ind, TypeOK, QuestionsAreOpen, RemoveSpec, Edits, Changed, In
<1>7. OneAsker'
  BY DEF Ind, OneAsker, RemoveSpec, Edits, Changed, In
<1>8. IdleWhenAsking' /\ OpenAtEngine'
  BY <1>1, <1>3 DEF Ind, TypeOK, IdleWhenAsking, OpenAtEngine, RemoveSpec, Edits, Changed, In
<1>9. OpenInQueue'
  BY <1>1, <1>2, <1>3 DEF Ind, TypeOK, OpenInQueue, RemoveSpec, Edits, Changed, In
<1>10. OpenAtClient'
  BY <1>3 DEF OpenAtClient
<1>11. OpenInAnswer'
  BY <1>1, <1>3 DEF Ind, TypeOK, OpenInAnswer, Collected, RemoveSpec, Edits, Changed, In
<1>12. Located'
  BY <1>1, <1>2, <1>3 DEF Ind, Located, Collected, RemoveSpec, Edits, Changed, In
<1>13. EndsLast'
  BY DEF Ind, EndsLast, RemoveSpec, Edits, Changed, In
<1> QED BY <1>4, <1>5, <1>6, <1>7, <1>8, <1>9, <1>10, <1>11, <1>12, <1>13 DEF Ind

LEMMA MoveKeeps ==
    ASSUME Ind, NEW i \in DOMAIN queue, Move(i)
    PROVE  Ind'
<1>1. queue' \in Entries /\ Range(queue') = Range(queue) /\ IsInjective(queue')
  BY MovedHolds DEF Ind, TypeOK, Entries, OpenInQueue, Move, Changed
<1>2. client.spec = None /\ client'.spec = None
  BY DEF Ind, TypeOK, Move, Edits, Changed, In
<1>3. TypeOK'
  BY <1>1, SMTT(40) DEF Ind, TypeOK, Move, Edits, Changed, In
<1>4. Told'
  BY DEF Ind, Told, BroadcastsConverge, Move, Edits, Changed, In
<1>5. QuestionsAreOpen'
  BY DEF Ind, TypeOK, QuestionsAreOpen, Move, Edits, Changed, In
<1>6. OneAsker' /\ IdleWhenAsking' /\ OpenAtEngine'
  BY DEF Ind, OneAsker, IdleWhenAsking, OpenAtEngine, Move, Edits
<1>7. OpenInQueue' /\ OpenAtClient'
  BY <1>1, <1>2 DEF Ind, TypeOK, OpenInQueue, OpenAtClient, Move, Edits
<1>8. OpenInAnswer'
  BY DEF Ind, OpenInAnswer, Collected, Move, Edits
<1>9. Located'
  BY <1>1, <1>2 DEF Ind, Located, Collected, Move, Edits
<1>10. EndsLast'
  BY DEF Ind, EndsLast, Move, Edits, Changed, In
<1> QED BY <1>3, <1>4, <1>5, <1>6, <1>7, <1>8, <1>9, <1>10 DEF Ind

LEMMA ClearKeeps ==
    ASSUME Ind, Clear
    PROVE  Ind'
<1>1. queue' = <<>> /\ queue' \in Entries /\ Range(queue') = {} /\ IsInjective(queue')
  BY EmptySeq DEF Entries, Range, IsInjective, Clear, Changed
<1>2. /\ client.spec = None /\ client'.spec = None
      /\ \A s \in Range(queue) : eng.spec # s /\ \A n \in DOMAIN answer : answer[n] # s
  BY DEF Ind, TypeOK, OpenInQueue, Clear, Edits, Changed, In
<1>3. TypeOK'
  BY <1>1 DEF Ind, TypeOK, Fates, Clear, Edits, Changed, In
<1>4. Told'
  BY DEF Ind, Told, BroadcastsConverge, Clear, Edits, Changed, In
<1>5. QuestionsAreOpen'
  BY DEF Ind, TypeOK, QuestionsAreOpen, Clear, Edits, Changed, In
<1>6. OneAsker'
  BY DEF Ind, OneAsker, Clear, Edits, Changed, In
<1>7. IdleWhenAsking' /\ OpenAtEngine'
  BY <1>2 DEF Ind, TypeOK, IdleWhenAsking, OpenInQueue, OpenAtEngine, Clear, Edits, Changed, In
<1>8. OpenInQueue' /\ OpenAtClient'
  BY <1>1, <1>2 DEF OpenInQueue, OpenAtClient
<1>9. OpenInAnswer'
  BY <1>2 DEF Ind, TypeOK, OpenInAnswer, Collected, Clear, Edits, Changed, In
<1>10. Located'
  BY <1>1, <1>2 DEF Ind, Located, Collected, Clear, Edits, Changed, In
<1>11. EndsLast'
  BY DEF Ind, EndsLast, Clear, Edits, Changed, In
<1> QED BY <1>3, <1>4, <1>5, <1>6, <1>7, <1>8, <1>9, <1>10, <1>11 DEF Ind

LEMMA SendRunQueueKeeps ==
    ASSUME Ind, SendRunQueue
    PROVE  Ind'
<1>1. /\ calls' \in Seq({"run_queue", "publish", "stop"})
      /\ DOMAIN calls \subseteq DOMAIN calls' /\ \A i \in DOMAIN calls : calls'[i] = calls[i]
      /\ \A i \in DOMAIN calls' : i \in DOMAIN calls \/ calls'[i] = "run_queue"
  BY Appended DEF Ind, TypeOK, SendRunQueue
<1>2. TypeOK'
  BY <1>1 DEF Ind, TypeOK, SendRunQueue, Client
<1>3. Told'
  BY <1>1 DEF Ind, Told, BroadcastsConverge, LastShown, SendRunQueue, Client
<1>4. QuestionsAreOpen' /\ OneAsker' /\ IdleWhenAsking' /\ OpenAtEngine'
  BY DEF Ind, QuestionsAreOpen, OneAsker, IdleWhenAsking, OpenAtEngine, SendRunQueue, Client
<1>5. OpenInQueue' /\ OpenAtClient'
  BY DEF Ind, OpenInQueue, OpenAtClient, SendRunQueue, Client
<1>6. OpenInAnswer' /\ Located'
  BY DEF Ind, OpenInAnswer, Located, Collected, SendRunQueue, Client
<1>7. EndsLast'
  BY <1>1 DEF Ind, EndsLast, SendRunQueue, Client
<1> QED BY <1>2, <1>3, <1>4, <1>5, <1>6, <1>7 DEF Ind

\* What the client's loop takes from its inbox.
LEMMA InboxTailed ==
    ASSUME TypeOK, inbox # <<>>
    PROVE  /\ Head(inbox) \in Messages /\ Head(inbox) = inbox[1]
           /\ Tail(inbox) \in Seq(Messages) /\ 1 \in DOMAIN inbox
           /\ \A i \in DOMAIN Tail(inbox) :
                i \in Nat /\ i + 1 \in DOMAIN inbox /\ i + 1 # 1 /\ Tail(inbox)[i] = inbox[i + 1]
           /\ \A i \in DOMAIN inbox : i \in Nat /\ inbox[i] \in Messages
           /\ \A i \in DOMAIN inbox : i # 1 => i - 1 \in DOMAIN Tail(inbox)
<1>1. /\ Tail(inbox) \in Seq(Messages) /\ Head(inbox) = inbox[1]
      /\ Len(inbox) \in Nat \ {0} /\ DOMAIN inbox = 1 .. Len(inbox)
      /\ DOMAIN Tail(inbox) = 1 .. Len(inbox) - 1
      /\ \A i \in 1 .. Len(inbox) - 1 : Tail(inbox)[i] = inbox[i + 1]
  BY Tailed DEF TypeOK
<1>2. \A i \in DOMAIN inbox : inbox[i] \in Messages
  BY <1>1, ElementOfSeq DEF TypeOK
<1> QED BY <1>1, <1>2

LEMMA TakeNextSpecKeeps ==
    ASSUME Ind, TakeNextSpec
    PROVE  Ind'
<1> DEFINE n == Head(inbox).ask
           s == Head(queue)
<1>1. /\ inbox # <<>> /\ Head(inbox).kind = "ask" /\ inbox' = Tail(inbox)
      /\ client.at = "loop" /\ client.spec = None /\ client.ask = 0
      /\ UNCHANGED <<shown, calls, eng, run, timer, abandoned, fate, edits, commands>>
      /\ TypeOK
  BY DEF Ind, TypeOK, TakeNextSpec
<1>2. /\ Head(inbox) = inbox[1] /\ inbox[1].kind = "ask" /\ inbox' \in Seq(Messages)
      /\ 1 \in DOMAIN inbox
      /\ \A i \in DOMAIN inbox' : /\ i \in Nat /\ i + 1 \in DOMAIN inbox /\ i + 1 # 1
                                  /\ inbox'[i] = inbox[i + 1]
      /\ \A i \in DOMAIN inbox : i \in Nat /\ (i # 1 => i - 1 \in DOMAIN inbox')
  BY <1>1, InboxTailed
<1>3. n \in DOMAIN answer /\ answer[n] = Unanswered /\ n \in Nat /\ n # 0
  BY <1>1, <1>2, LenProperties DEF Ind, TypeOK, QuestionsAreOpen
<1>4. \A i \in DOMAIN inbox' : inbox'[i].kind = "ask" =>
        /\ inbox'[i].ask \in DOMAIN answer /\ answer[inbox'[i].ask] = Unanswered
        /\ inbox'[i].ask # n
        /\ \A j \in DOMAIN inbox' :
             inbox'[j].kind = "ask" /\ inbox'[j].ask = inbox'[i].ask => j = i
  <2>1. \A i, j \in DOMAIN inbox' : i + 1 = j + 1 => i = j
    BY <1>2
  <2>2. ASSUME NEW i \in DOMAIN inbox', inbox'[i].kind = "ask"
        PROVE  /\ inbox'[i].ask \in DOMAIN answer /\ answer[inbox'[i].ask] = Unanswered
               /\ inbox'[i].ask # n
    <3>1. i + 1 \in DOMAIN inbox /\ inbox'[i] = inbox[i + 1] /\ i + 1 # 1
      BY <1>2
    <3> QED BY <1>1, <1>2, <2>2, <3>1, ZenonT(60) DEF Ind, QuestionsAreOpen
  <2>3. ASSUME NEW i \in DOMAIN inbox', NEW j \in DOMAIN inbox', inbox'[i].kind = "ask",
               inbox'[j].kind = "ask", inbox'[j].ask = inbox'[i].ask
        PROVE  j = i
    <3>1. /\ i + 1 \in DOMAIN inbox /\ inbox'[i] = inbox[i + 1]
          /\ j + 1 \in DOMAIN inbox /\ inbox'[j] = inbox[j + 1]
      BY <1>2
    <3>2. j + 1 = i + 1
      BY <2>3, <3>1 DEF Ind, QuestionsAreOpen
    <3> QED BY <2>1, <3>2
  <2> QED BY <2>2, <2>3
<1>5. EndsLast'
  BY <1>1 DEF Ind, EndsLast, TakeNextSpec, Changed, In
<1>6. CASE queue = <<>>
  <2>1. UNCHANGED <<queue, cache, client>> /\ answer' = [answer EXCEPT ![n] = None]
    BY <1>6 DEF TakeNextSpec
  <2>2. /\ answer' \in Seq(Specs \cup {None, Unanswered}) /\ DOMAIN answer' = DOMAIN answer
        /\ \A m \in DOMAIN answer : answer'[m] = IF m = n THEN None ELSE answer[m]
    BY <1>3, <2>1, ExceptSeq, LenProperties DEF Ind, TypeOK
  <2> HIDE DEF n
  <2>3. TypeOK'
    BY <1>1, <1>2, <2>1, <2>2 DEF TypeOK
  <2>4. Told'
    <3>1. ASSUME NEW q, LastShown(q)  PROVE LastShown(q)'
      <4>1. CASE q = shown /\ \A i \in DOMAIN inbox : inbox[i].kind = "ask"
        BY <1>1, <1>2, <4>1 DEF LastShown
      <4>2. CASE \E i \in DOMAIN inbox :
                   inbox[i] = Shows(q) /\ \A j \in DOMAIN inbox : j > i => inbox[j].kind = "ask"
        <5>1. PICK i \in DOMAIN inbox :
                   inbox[i] = Shows(q) /\ \A j \in DOMAIN inbox : j > i => inbox[j].kind = "ask"
          BY <4>2
        <5>2. i # 1
          BY <1>2, <5>1 DEF Shows
        <5>3. i - 1 \in DOMAIN inbox' /\ inbox'[i - 1] = Shows(q)
          <6>1. i - 1 \in DOMAIN inbox' /\ i - 1 + 1 = i
            BY <1>2, <5>2
          <6> QED BY <1>2, <5>1, <6>1
        <5>4. \A j \in DOMAIN inbox' : j > i - 1 => inbox'[j].kind = "ask"
          <6>1. \A j \in DOMAIN inbox' : j > i - 1 => j + 1 > i
            BY <1>2
          <6> QED BY <1>2, <5>1, <6>1
        <5> QED BY <5>3, <5>4 DEF LastShown, Shows
      <4> QED BY <3>1, <4>1, <4>2 DEF LastShown
    <3> QED BY <1>1, <2>1, <3>1 DEF Ind, Told, BroadcastsConverge
  <2>5. QuestionsAreOpen'
    BY <1>1, <1>4, <2>1, <2>2 DEF QuestionsAreOpen
  <2>6. OneAsker' /\ IdleWhenAsking' /\ OpenAtEngine'
    BY <1>1, <2>2 DEF Ind, OneAsker, IdleWhenAsking, OpenAtEngine
  <2>7. OpenInQueue'
    BY <1>1, <2>1, <2>2, EmptySeq DEF Ind, OpenInQueue, Range
  <2>8. OpenAtClient'
    BY <1>1, <2>1 DEF OpenAtClient
  <2>9. OpenInAnswer'
    BY <1>1, <2>2 DEF Ind, OpenInAnswer, Collected
  <2>10. Located'
    BY <1>1, <2>1, <2>2, <1>3 DEF Ind, Located, Collected
  <2> QED BY <1>5, <2>3, <2>4, <2>5, <2>6, <2>7, <2>8, <2>9, <2>10 DEF Ind
<1>7. CASE queue # <<>>
  <2>1. /\ queue' = Tail(queue) /\ cache' = Tail(queue)
        /\ client' = [at |-> "posting", ask |-> n, spec |-> s] /\ answer' = answer
    BY <1>7 DEF TakeNextSpec, Changed, In
  <2>2. /\ queue' \in Entries /\ s \in Range(queue) /\ s \in Specs
        /\ Range(queue') = Range(queue) \ {s} /\ IsInjective(queue')
    BY <1>7, <2>1, Tailed, TailedHolds DEF Ind, TypeOK, Entries, OpenInQueue
  <2>3. /\ fate[s] = "open" /\ eng.spec # s /\ \A m \in DOMAIN answer : answer[m] # s
    BY <2>2 DEF Ind, OpenInQueue
  <2> HIDE DEF n, s
  <2>4. TypeOK'
    BY <1>1, <1>2, <1>3, <2>1, <2>2 DEF TypeOK
  <2>5. Told'
    BY <2>1 DEF Told, BroadcastsConverge
  <2>6. QuestionsAreOpen'
    BY <1>3, <1>4, <2>1 DEF QuestionsAreOpen
  <2>7. OneAsker' /\ IdleWhenAsking' /\ OpenAtEngine'
    BY <1>1, <2>1 DEF Ind, OneAsker, IdleWhenAsking, OpenAtEngine
  <2>8. OpenInQueue' /\ OpenAtClient'
    BY <1>1, <2>1, <2>2, <2>3 DEF Ind, OpenInQueue, OpenAtClient
  <2>9. OpenInAnswer'
    BY <1>1, <2>1 DEF Ind, OpenInAnswer, Collected
  <2>10. Located'
    BY <1>1, <2>1, <2>2 DEF Ind, Located, Collected
  <2> QED BY <1>5, <2>4, <2>5, <2>6, <2>7, <2>8, <2>9, <2>10 DEF Ind
<1> QED BY <1>6, <1>7

LEMMA PostPublishKeeps ==
    ASSUME Ind, PostPublish
    PROVE  Ind'
<1> DEFINE n == client.ask
           s == client.spec
<1>1. /\ client.at = "posting" /\ client' = [at |-> "loop", ask |-> 0, spec |-> None]
      /\ calls' = Append(calls, "publish")
      /\ answer' = IF n = 0 THEN answer ELSE [answer EXCEPT ![n] = s]
      /\ UNCHANGED <<queue, inbox, shown, cache, eng, run, timer, abandoned, fate, edits, commands>>
      /\ TypeOK /\ (n = 0 <=> s = None) /\ s \in Specs \cup {None}
  BY DEF Ind, TypeOK, PostPublish, Loop
<1>2. n # 0 => n \in DOMAIN answer /\ answer[n] = Unanswered
  BY <1>1 DEF Ind, TypeOK, QuestionsAreOpen
<1>3. /\ answer' \in Seq(Specs \cup {None, Unanswered}) /\ DOMAIN answer' = DOMAIN answer
      /\ \A m \in DOMAIN answer : answer'[m] = IF m = n THEN s ELSE answer[m]
      /\ 0 \notin DOMAIN answer
  <2>1. answer \in Seq(Specs \cup {None, Unanswered}) /\ DOMAIN answer = 1 .. Len(answer)
        /\ Len(answer) \in Nat
    BY <1>1, LenProperties DEF TypeOK
  <2>2. CASE n = 0
    BY <1>1, <2>1, <2>2
  <2>3. CASE n # 0
    BY <1>1, <1>2, <2>1, <2>3, ExceptSeq, LenProperties
  <2> QED BY <2>2, <2>3
<1>4. /\ calls' \in Seq({"run_queue", "publish", "stop"})
      /\ \E i \in DOMAIN calls' : calls'[i] = "publish"
      /\ \A i \in DOMAIN calls' : calls'[i] = "publish" \/ (i \in DOMAIN calls /\ calls'[i] = calls[i])
  <2>1. /\ calls' \in Seq({"run_queue", "publish", "stop"})
        /\ DOMAIN calls' = 1 .. Len(calls) + 1 /\ DOMAIN calls = 1 .. Len(calls)
        /\ Len(calls) \in Nat
        /\ \A i \in 1 .. Len(calls) : calls'[i] = calls[i]
        /\ calls'[Len(calls) + 1] = "publish"
    BY <1>1, Appended DEF TypeOK
  <2> QED BY <2>1
<1> HIDE DEF n, s
<1>5. TypeOK'
  BY <1>1, <1>3, <1>4 DEF TypeOK
<1>6. Told'
  BY <1>1, <1>4 DEF Ind, Told, BroadcastsConverge
<1>7. QuestionsAreOpen'
  BY <1>1, <1>3 DEF Ind, QuestionsAreOpen, n
<1>8. OneAsker' /\ IdleWhenAsking' /\ OpenAtEngine'
  BY <1>1, <1>2, <1>3 DEF Ind, OneAsker, IdleWhenAsking, OpenAtEngine
<1>9. s # None =>
        /\ fate[s] = "open" /\ eng.spec # s /\ s \notin Range(queue)
        /\ \A m \in DOMAIN answer : answer[m] # s
  BY DEF Ind, OpenAtClient, OpenInQueue, s
<1>10. OpenInQueue' /\ OpenAtClient'
  <2>1. None \notin Range(queue)
    BY <1>1, LenProperties, ElementOfSeq DEF TypeOK, Entries, Range
  <2> QED BY <1>1, <1>3, <1>9, <2>1 DEF Ind, OpenInQueue, OpenAtClient
<1>11. n # 0 => ~Collected(n) \/ eng.at = "killed"
  BY <1>2 DEF Ind, OneAsker, Collected
<1>12. OpenInAnswer'
  BY <1>1, <1>2, <1>3, <1>9, <1>11 DEF Ind, OpenInAnswer, Collected
<1>13. Located'
  BY <1>1, <1>2, <1>3, <1>9, <1>11 DEF Ind, Located, Collected, s
<1>14. EndsLast'
  BY <1>1, <1>4 DEF Ind, EndsLast
<1> QED BY <1>5, <1>6, <1>7, <1>8, <1>10, <1>12, <1>13, <1>14 DEF Ind

LEMMA ReceiveKeeps ==
    ASSUME Ind, Receive
    PROVE  Ind'
<1>1. /\ inbox # <<>> /\ Head(inbox).kind = "shown" /\ inbox' = Tail(inbox)
      /\ shown' = Head(inbox).entries
      /\ UNCHANGED <<queue, client, cache, calls, eng, run, timer, answer, abandoned, fate,
                     edits, commands>>
      /\ TypeOK
  BY DEF Ind, Receive
<1>2. /\ Head(inbox) \in Messages /\ Head(inbox) = inbox[1] /\ inbox' \in Seq(Messages)
      /\ 1 \in DOMAIN inbox
      /\ \A i \in DOMAIN inbox' : /\ i \in Nat /\ i + 1 \in DOMAIN inbox /\ i + 1 # 1
                                  /\ inbox'[i] = inbox[i + 1]
      /\ \A i \in DOMAIN inbox : i \in Nat /\ (i # 1 => i - 1 \in DOMAIN inbox')
  BY <1>1, InboxTailed
<1>3. shown' \in Entries
  BY <1>1, <1>2 DEF Messages
<1>4. TypeOK'
  BY <1>1, <1>2, <1>3 DEF TypeOK
<1>5. Told'
  <2>1. ASSUME NEW q, LastShown(q)  PROVE LastShown(q)'
    <3>1. PICK i \in DOMAIN inbox :
               inbox[i] = Shows(q) /\ \A j \in DOMAIN inbox : j > i => inbox[j].kind = "ask"
      BY <1>1, <1>2, <2>1 DEF LastShown
    <3>2. CASE i = 1
      <4>1. shown' = q
        BY <1>1, <1>2, <3>1, <3>2 DEF Shows
      <4>2. \A j \in DOMAIN inbox' : j + 1 > 1
        BY <1>2
      <4>3. \A j \in DOMAIN inbox' : inbox'[j].kind = "ask"
        BY <1>2, <3>1, <3>2, <4>2
      <4> QED BY <4>1, <4>3 DEF LastShown
    <3>3. CASE i # 1
      <4>1. i - 1 \in DOMAIN inbox' /\ i - 1 + 1 = i
        BY <1>2, <3>3
      <4>2. inbox'[i - 1] = Shows(q)
        BY <1>2, <3>1, <4>1
      <4>3. \A j \in DOMAIN inbox' : j > i - 1 => j + 1 > i
        BY <1>2
      <4>4. \A j \in DOMAIN inbox' : j > i - 1 => inbox'[j].kind = "ask"
        BY <1>2, <3>1, <4>3
      <4> QED BY <4>1, <4>2, <4>4 DEF LastShown, Shows
    <3> QED BY <3>2, <3>3
  <2> QED BY <1>1, <2>1 DEF Ind, Told, BroadcastsConverge
<1>6. QuestionsAreOpen'
  <2>1. \A i, j \in DOMAIN inbox' : i + 1 = j + 1 => i = j
    BY <1>2
  <2>2. ASSUME NEW i \in DOMAIN inbox', inbox'[i].kind = "ask"
        PROVE  /\ inbox'[i].ask \in DOMAIN answer /\ answer[inbox'[i].ask] = Unanswered
               /\ inbox'[i].ask # client.ask
    BY <1>2, <2>2 DEF Ind, QuestionsAreOpen
  <2>3. ASSUME NEW i \in DOMAIN inbox', NEW j \in DOMAIN inbox', inbox'[i].kind = "ask",
               inbox'[j].kind = "ask", inbox'[j].ask = inbox'[i].ask
        PROVE  j = i
    <3>1. /\ i + 1 \in DOMAIN inbox /\ inbox'[i] = inbox[i + 1]
          /\ j + 1 \in DOMAIN inbox /\ inbox'[j] = inbox[j + 1]
      BY <1>2
    <3>2. j + 1 = i + 1
      BY <2>3, <3>1 DEF Ind, QuestionsAreOpen
    <3> QED BY <2>1, <3>2
  <2> QED BY <1>1, <2>2, <2>3 DEF Ind, QuestionsAreOpen
<1>7. OneAsker' /\ IdleWhenAsking' /\ OpenAtEngine' /\ EndsLast'
  BY <1>1 DEF Ind, OneAsker, IdleWhenAsking, OpenAtEngine, EndsLast
<1>8. OpenInQueue' /\ OpenAtClient'
  BY <1>1 DEF Ind, OpenInQueue, OpenAtClient
<1>9. OpenInAnswer' /\ Located'
  BY <1>1 DEF Ind, OpenInAnswer, Located, Collected
<1> QED BY <1>4, <1>5, <1>6, <1>7, <1>8, <1>9 DEF Ind

LEMMA ShutdownKeeps ==
    ASSUME Ind, Shutdown
    PROVE  Ind'
<1>1. /\ client' = [at |-> "joining", ask |-> 0, spec |-> None]
      /\ client.ask = 0 /\ client.spec = None /\ client.at = "loop"
      /\ UNCHANGED <<queue, inbox, shown, cache, eng, run, timer, answer, abandoned, fate,
                     edits, commands>>
  BY DEF Ind, TypeOK, Shutdown, In
<1>2. /\ calls' \in Seq({"run_queue", "publish", "stop"})
      /\ DOMAIN calls \subseteq DOMAIN calls' /\ \A i \in DOMAIN calls : calls'[i] = calls[i]
  BY Appended DEF Ind, TypeOK, Shutdown
<1>3. TypeOK'
  BY <1>1, <1>2 DEF Ind, TypeOK
<1>4. Told'
  BY <1>1, <1>2 DEF Ind, Told, BroadcastsConverge, LastShown
<1>5. QuestionsAreOpen' /\ EndsLast'
  <2>1. eng.at # "killed"
    BY <1>1 DEF Ind, EndsLast
  <2> QED BY <1>1, <2>1 DEF Ind, TypeOK, QuestionsAreOpen, EndsLast
<1>6. OneAsker' /\ IdleWhenAsking' /\ OpenAtEngine'
  BY <1>1 DEF Ind, OneAsker, IdleWhenAsking, OpenAtEngine
<1>7. OpenInQueue' /\ OpenAtClient'
  BY <1>1 DEF Ind, OpenInQueue, OpenAtClient
<1>8. OpenInAnswer' /\ Located'
  BY <1>1 DEF Ind, OpenInAnswer, Located, Collected
<1> QED BY <1>3, <1>4, <1>5, <1>6, <1>7, <1>8 DEF Ind

LEMMA LeaveKeeps ==
    ASSUME Ind, Leave
    PROVE  Ind'
<1>1. /\ client' = [at |-> "gone", ask |-> 0, spec |-> None]
      /\ client.ask = 0 /\ client.spec = None /\ client.at = "joining"
      /\ eng' = IF eng.at = "ended" THEN eng ELSE [at |-> "killed", ask |-> 0, spec |-> None]
      /\ UNCHANGED <<queue, inbox, shown, cache, calls, run, timer, answer, abandoned, fate,
                     edits, commands>>
  BY DEF Ind, TypeOK, Leave, In
<1>2. eng.at = "ended" => eng.spec = None
  BY DEF Ind, TypeOK
<1>3. TypeOK'
  BY <1>1 DEF Ind, TypeOK
<1>4. Told'
  BY <1>1 DEF Ind, Told, BroadcastsConverge, LastShown
<1>5. QuestionsAreOpen' /\ EndsLast'
  BY <1>1 DEF Ind, TypeOK, QuestionsAreOpen, EndsLast
<1>6. OneAsker' /\ IdleWhenAsking' /\ OpenAtEngine'
  BY <1>1, <1>2 DEF Ind, OneAsker, IdleWhenAsking, OpenAtEngine
<1>7. OpenInQueue' /\ OpenAtClient'
  <2>1. None \notin Range(queue)
    BY LenProperties, ElementOfSeq DEF Ind, TypeOK, Entries, Range
  <2> QED BY <1>1, <1>2, <2>1 DEF Ind, OpenInQueue, OpenAtClient
<1>8. OpenInAnswer'
  BY <1>1, <1>2 DEF Ind, OpenInAnswer, Collected
<1>9. Located'
  BY <1>1, <1>2 DEF Ind, Located, Collected
<1> QED BY <1>3, <1>4, <1>5, <1>6, <1>7, <1>8, <1>9 DEF Ind

\* A message put at the end of the inbox, and a call taken from the engine's.
LEMMA InboxAppended ==
    ASSUME TypeOK, NEW m \in Messages
    PROVE  /\ Append(inbox, m) \in Seq(Messages)
           /\ Len(inbox) \in Nat /\ Len(inbox) + 1 \notin DOMAIN inbox
           /\ DOMAIN Append(inbox, m) = DOMAIN inbox \cup {Len(inbox) + 1}
           /\ \A i \in DOMAIN inbox : i \in Nat /\ i < Len(inbox) + 1 /\ Append(inbox, m)[i] = inbox[i]
           /\ Append(inbox, m)[Len(inbox) + 1] = m
<1>1. /\ Append(inbox, m) \in Seq(Messages)
      /\ DOMAIN Append(inbox, m) = 1 .. Len(inbox) + 1 /\ DOMAIN inbox = 1 .. Len(inbox)
      /\ Len(inbox) \in Nat
      /\ \A i \in 1 .. Len(inbox) : Append(inbox, m)[i] = inbox[i]
      /\ Append(inbox, m)[Len(inbox) + 1] = m
  BY Appended DEF TypeOK
<1> QED BY <1>1

LEMMA CallTaken ==
    ASSUME TypeOK, calls # <<>>
    PROVE  /\ Tail(calls) \in Seq({"run_queue", "publish", "stop"})
           /\ \A i \in DOMAIN Tail(calls) : \E j \in DOMAIN calls : Tail(calls)[i] = calls[j]
           /\ \A j \in DOMAIN calls :
                calls[j] = Head(calls) \/ \E i \in DOMAIN Tail(calls) : Tail(calls)[i] = calls[j]
<1> DEFINE r == Tail(calls)
<1>1. /\ r \in Seq({"run_queue", "publish", "stop"})
      /\ Head(calls) = calls[1] /\ Len(calls) \in Nat \ {0} /\ DOMAIN calls = 1 .. Len(calls)
      /\ DOMAIN r = 1 .. Len(calls) - 1
      /\ \A i \in 1 .. Len(calls) - 1 : r[i] = calls[i + 1]
  BY Tailed DEF TypeOK
<1> HIDE DEF r
<1>2. \A i \in DOMAIN r : i + 1 \in DOMAIN calls /\ r[i] = calls[i + 1]
  BY <1>1
<1>3. \A j \in DOMAIN calls : j # 1 => j - 1 \in DOMAIN r /\ r[j - 1] = calls[j]
  BY <1>1
<1> QED BY <1>1, <1>2, <1>3 DEF r

\* What Told says is not disturbed by a question put into the inbox.
LEMMA AskedIsNotShown ==
    ASSUME TypeOK, NEW m \in Messages, m.kind = "ask", inbox' = Append(inbox, m), shown' = shown,
           NEW q, LastShown(q)
    PROVE  LastShown(q)'
<1>1. /\ DOMAIN inbox' = DOMAIN inbox \cup {Len(inbox) + 1}
      /\ \A i \in DOMAIN inbox : inbox'[i] = inbox[i]
      /\ inbox'[Len(inbox) + 1] = m
  BY InboxAppended
<1> QED BY <1>1 DEF LastShown, Shows

\* The engine, with no run in flight any more, asks.
LEMMA AskKeeps ==
    ASSUME Ind, Ask, eng.at = "loop", run' = None,
           UNCHANGED <<queue, client, shown, cache, timer, abandoned, fate, edits, commands>>,
           calls' \in Seq({"run_queue", "publish", "stop"}),
           \A i \in DOMAIN calls' : \E j \in DOMAIN calls : calls'[i] = calls[j],
           \A j \in DOMAIN calls :
                calls[j] = "run_queue" \/ \E i \in DOMAIN calls' : calls'[i] = calls[j]
    PROVE  Ind'
<1> DEFINE n == Len(answer) + 1
<1>1. /\ answer' = Append(answer, Unanswered) /\ inbox' = Append(inbox, Asks(n))
      /\ eng' = [at |-> "asking", ask |-> n, spec |-> None]
      /\ TypeOK /\ eng.spec = None
  BY DEF Ind, TypeOK, Ask, In
<1>2. /\ answer' \in Seq(Specs \cup {None, Unanswered})
      /\ DOMAIN answer' = DOMAIN answer \cup {n} /\ n \notin DOMAIN answer
      /\ n \in Nat /\ n # 0
      /\ \A m \in DOMAIN answer : answer'[m] = answer[m]
      /\ answer'[n] = Unanswered
  <2>1. /\ answer' \in Seq(Specs \cup {None, Unanswered})
        /\ DOMAIN answer' = 1 .. Len(answer) + 1 /\ DOMAIN answer = 1 .. Len(answer)
        /\ Len(answer) \in Nat
        /\ \A i \in 1 .. Len(answer) : answer'[i] = answer[i]
        /\ answer'[Len(answer) + 1] = Unanswered
    BY <1>1, Appended DEF TypeOK
  <2> QED BY <2>1
<1>3. Asks(n) \in Messages /\ Asks(n).kind = "ask" /\ Asks(n).ask = n
  BY <1>2 DEF Messages, Asks
<1>4. /\ inbox' \in Seq(Messages)
      /\ DOMAIN inbox' = DOMAIN inbox \cup {Len(inbox) + 1}
      /\ \A i \in DOMAIN inbox : inbox'[i] = inbox[i]
      /\ inbox'[Len(inbox) + 1] = Asks(n)
  BY <1>1, <1>3, InboxAppended
<1>5. \A q : LastShown(q) => LastShown(q)'
  BY <1>1, <1>3, AskedIsNotShown
<1> HIDE DEF n
<1>6. TypeOK'
  BY <1>1, <1>2, <1>4 DEF TypeOK
<1>7. Told'
  BY <1>5 DEF Ind, Told, BroadcastsConverge
<1>8. QuestionsAreOpen'
  <2>1. \A i \in DOMAIN inbox : inbox[i].kind = "ask" =>
          /\ inbox'[i].ask \in DOMAIN answer' /\ answer'[inbox'[i].ask] = Unanswered
          /\ inbox'[i].ask # client'.ask /\ inbox'[i].ask # n
    BY <1>2, <1>4 DEF Ind, QuestionsAreOpen
  <2>2. client.ask # n /\ (client.ask # 0 => answer'[client.ask] = Unanswered)
    BY <1>1, <1>2 DEF Ind, TypeOK, QuestionsAreOpen
  <2> QED BY <1>2, <1>3, <1>4, <2>1, <2>2 DEF Ind, QuestionsAreOpen
<1>9. OneAsker' /\ IdleWhenAsking' /\ OpenAtEngine'
  BY <1>1, <1>2 DEF Ind, TypeOK, OneAsker, IdleWhenAsking, OpenAtEngine
<1>10. OpenInQueue'
  <2>1. {None, Unanswered} \cap Range(queue) = {}
    BY <1>1, LenProperties, ElementOfSeq DEF TypeOK, Entries, Range
  <2> QED BY <1>1, <1>2, <2>1 DEF Ind, OpenInQueue
<1>11. OpenAtClient'
  BY <1>1, <1>2 DEF Ind, TypeOK, OpenAtClient
<1>12. OpenInAnswer'
  <2>1. \A m \in DOMAIN answer : Collected(m)' <=> Collected(m)
    BY <1>1, <1>2 DEF Collected
  <2> HIDE DEF Collected
  <2> QED BY <1>1, <1>2, <2>1 DEF Ind, OpenInAnswer
<1>13. Located'
  BY <1>1, <1>2 DEF Ind, Located, Collected
<1>14. EndsLast'
  BY <1>1 DEF Ind, EndsLast
<1> QED BY <1>6, <1>7, <1>8, <1>9, <1>10, <1>11, <1>12, <1>13, <1>14 DEF Ind

LEMMA RunQueueKeeps ==
    ASSUME Ind, RunQueue
    PROVE  Ind'
<1>1. /\ eng.at = "loop" /\ calls # <<>> /\ Head(calls) = "run_queue" /\ calls' = Tail(calls)
      /\ UNCHANGED <<queue, client, shown, cache, run, timer, abandoned, fate, edits, commands>>
      /\ TypeOK
  BY DEF Ind, RunQueue, Called
<1>2. /\ calls' \in Seq({"run_queue", "publish", "stop"})
      /\ \A i \in DOMAIN calls' : \E j \in DOMAIN calls : calls'[i] = calls[j]
      /\ \A j \in DOMAIN calls :
           calls[j] = "run_queue" \/ \E i \in DOMAIN calls' : calls'[i] = calls[j]
  BY <1>1, CallTaken
<1>3. CASE run = None
  BY <1>1, <1>2, <1>3, AskKeeps DEF RunQueue
<1>4. CASE run # None
  <2>1. UNCHANGED <<answer, inbox, eng>>
    BY <1>4 DEF RunQueue
  <2>2. TypeOK'
    BY <1>1, <1>2, <2>1 DEF TypeOK
  <2>3. Told' /\ EndsLast'
    BY <1>1, <1>2, <2>1, SMTT(40) DEF Ind, Told, BroadcastsConverge, LastShown, EndsLast
  <2>4. QuestionsAreOpen' /\ OneAsker' /\ IdleWhenAsking' /\ OpenAtEngine'
    BY <1>1, <2>1 DEF Ind, QuestionsAreOpen, OneAsker, IdleWhenAsking, OpenAtEngine
  <2>5. OpenInQueue' /\ OpenAtClient'
    BY <1>1, <2>1 DEF Ind, OpenInQueue, OpenAtClient
  <2>6. OpenInAnswer' /\ Located'
    BY <1>1, <2>1 DEF Ind, OpenInAnswer, Located, Collected
  <2> QED BY <2>2, <2>3, <2>4, <2>5, <2>6 DEF Ind
<1> QED BY <1>3, <1>4

\* The queue is told of, last of all that is on its way to the client.
LEMMA ToldLast ==
    ASSUME TypeOK, NEW q \in Entries, inbox' = Append(inbox, Shows(q))
    PROVE  /\ LastShown(q)' /\ inbox' \in Seq(Messages)
           /\ DOMAIN inbox \subseteq DOMAIN inbox' /\ \A i \in DOMAIN inbox : inbox'[i] = inbox[i]
           /\ \A i \in DOMAIN inbox' : inbox'[i].kind = "ask" => i \in DOMAIN inbox
<1>1. Shows(q) \in Messages /\ Shows(q).kind = "shown"
  BY DEF Messages, Shows
<1>2. /\ inbox' \in Seq(Messages)
      /\ Len(inbox) \in Nat
      /\ DOMAIN inbox' = DOMAIN inbox \cup {Len(inbox) + 1}
      /\ \A i \in DOMAIN inbox : i \in Nat /\ i < Len(inbox) + 1 /\ inbox'[i] = inbox[i]
      /\ inbox'[Len(inbox) + 1] = Shows(q)
  BY <1>1, InboxAppended
<1>3. \A i \in DOMAIN inbox' : ~(i > Len(inbox) + 1)
  BY <1>2
<1>4. LastShown(q)'
  BY <1>2, <1>3 DEF LastShown, Shows
<1> QED BY <1>1, <1>2, <1>4

LEMMA PublishQueueKeeps ==
    ASSUME Ind, PublishQueue
    PROVE  Ind'
<1>1. /\ calls # <<>> /\ calls' = Tail(calls) /\ inbox' = Append(inbox, Shows(queue))
      /\ cache = queue /\ queue \in Entries
      /\ UNCHANGED <<queue, client, shown, cache, eng, run, timer, answer, abandoned, fate,
                     edits, commands>>
      /\ TypeOK
  BY DEF Ind, TypeOK, Told, PublishQueue, Called
<1>2. /\ calls' \in Seq({"run_queue", "publish", "stop"})
      /\ \A i \in DOMAIN calls' : \E j \in DOMAIN calls : calls'[i] = calls[j]
  BY <1>1, CallTaken
<1>3. /\ LastShown(queue)' /\ inbox' \in Seq(Messages)
      /\ DOMAIN inbox \subseteq DOMAIN inbox' /\ \A i \in DOMAIN inbox : inbox'[i] = inbox[i]
      /\ \A i \in DOMAIN inbox' : inbox'[i].kind = "ask" => i \in DOMAIN inbox
  BY <1>1, ToldLast
<1>4. TypeOK'
  BY <1>1, <1>2, <1>3 DEF TypeOK
<1>5. Told' /\ EndsLast'
  BY <1>1, <1>2, <1>3 DEF Ind, Told, BroadcastsConverge, EndsLast
<1>6. QuestionsAreOpen'
  BY <1>1, <1>3 DEF Ind, QuestionsAreOpen
<1>7. OneAsker' /\ IdleWhenAsking' /\ OpenAtEngine'
  BY <1>1 DEF Ind, OneAsker, IdleWhenAsking, OpenAtEngine
<1>8. OpenInQueue' /\ OpenAtClient'
  BY <1>1 DEF Ind, OpenInQueue, OpenAtClient
<1>9. OpenInAnswer' /\ Located'
  BY <1>1 DEF Ind, OpenInAnswer, Located, Collected
<1> QED BY <1>4, <1>5, <1>6, <1>7, <1>8, <1>9 DEF Ind

LEMMA AskAnsweredKeeps ==
    ASSUME Ind, AskAnswered
    PROVE  Ind'
<1>0. eng.ask \in DOMAIN answer
  BY DEF Ind, TypeOK, AskAnswered
<1> PICK n \in DOMAIN answer : n = eng.ask
  BY <1>0
<1> PICK s : s = answer[n]
  OBVIOUS
<1>1. /\ eng.at = "asking" /\ s # Unanswered /\ eng.spec = None /\ n \in DOMAIN answer
      /\ eng' = IF s = None THEN [at |-> "loop", ask |-> 0, spec |-> None]
                ELSE [at |-> "building", ask |-> 0, spec |-> s]
      /\ UNCHANGED <<queue, client, inbox, shown, cache, calls, run, timer, answer, abandoned, fate,
                     edits, commands>>
      /\ TypeOK
  BY DEF Ind, TypeOK, AskAnswered, Client, Loop, In
<1>2. s \in Specs \cup {None}
  BY <1>1, LenProperties, ElementOfSeq DEF TypeOK
<1>3. n \notin abandoned
  BY <1>1 DEF Ind, OneAsker
<1>4. s # None => /\ fate[s] = "open" /\ s \notin Range(queue) /\ client.spec # s
                  /\ \A m \in DOMAIN answer : answer[m] = s => m = n
  <2>1. s # None => fate[s] = "open" /\ \A m \in DOMAIN answer : answer[m] = s => m = n
    BY <1>1, <1>2 DEF Ind, OpenInAnswer, Collected
  <2>2. s \notin Range(queue) /\ (s # None => client.spec # s)
    BY <1>1 DEF Ind, OpenInQueue, OpenAtClient
  <2> QED BY <2>1, <2>2
<1>5. TypeOK'
  BY <1>1, <1>2 DEF TypeOK
<1>6. Told' /\ QuestionsAreOpen'
  BY <1>1 DEF Ind, Told, BroadcastsConverge, LastShown, QuestionsAreOpen
<1>7. OneAsker'
  BY <1>1 DEF Ind, OneAsker
<1>8. IdleWhenAsking' /\ OpenAtEngine'
  BY <1>1, <1>4 DEF Ind, IdleWhenAsking, OpenAtEngine
<1>9. OpenInQueue' /\ OpenAtClient'
  <2>1. None \notin Range(queue)
    BY <1>1, LenProperties, ElementOfSeq DEF TypeOK, Entries, Range
  <2> QED BY <1>1, <1>4, <2>1 DEF Ind, OpenInQueue, OpenAtClient
<1>10. OpenInAnswer'
  <2>1. \A m \in DOMAIN answer : m # n => (Collected(m)' <=> Collected(m))
    BY <1>1 DEF Collected
  <2>2. Collected(n)'
    BY <1>1, <1>3 DEF Collected
  <2> HIDE DEF Collected
  <2>3. ASSUME NEW m \in DOMAIN answer, answer[m] \in Specs, m # n
        PROVE  /\ ~Collected(m) => answer[m] # s
               /\ Collected(m) => fate[answer[m]] \in {"started", "refused"}
    BY <1>1, <1>4, <2>3 DEF Ind, OpenInAnswer
  <2> QED BY <1>1, <1>2, <1>4, <2>1, <2>2, <2>3 DEF Ind, OpenInAnswer
<1>11. Located'
  BY <1>1, <1>3 DEF Ind, Located, Collected
<1>12. EndsLast'
  BY <1>1 DEF Ind, EndsLast
<1> QED BY <1>5, <1>6, <1>7, <1>8, <1>9, <1>10, <1>11, <1>12 DEF Ind

LEMMA AskTimesOutKeeps ==
    ASSUME Ind, AskTimesOut
    PROVE  Ind'
<1> DEFINE n == eng.ask
<1>1. /\ eng.at = "asking" /\ answer[n] = Unanswered /\ eng.spec = None /\ n \in DOMAIN answer
      /\ eng' = [at |-> "loop", ask |-> 0, spec |-> None]
      /\ abandoned' = abandoned \cup {n}
      /\ UNCHANGED <<queue, client, inbox, shown, cache, calls, run, timer, answer, fate,
                     edits, commands>>
      /\ TypeOK
  BY DEF Ind, TypeOK, AskTimesOut, Client, Loop
<1>2. \A m : Collected(m)' <=> Collected(m)
  BY <1>1 DEF Collected
<1>3. TypeOK'
  BY <1>1 DEF TypeOK
<1>4. Told' /\ QuestionsAreOpen'
  BY <1>1 DEF Ind, Told, BroadcastsConverge, LastShown, QuestionsAreOpen
<1>5. OneAsker' /\ IdleWhenAsking' /\ OpenAtEngine'
  BY <1>1 DEF Ind, OneAsker, IdleWhenAsking, OpenAtEngine
<1>6. OpenInQueue' /\ OpenAtClient'
  BY <1>1 DEF Ind, OpenInQueue, OpenAtClient
<1> HIDE DEF Collected
<1>7. OpenInAnswer' /\ Located'
  BY <1>1, <1>2 DEF Ind, OpenInAnswer, Located
<1>8. EndsLast'
  BY <1>1 DEF Ind, EndsLast
<1> QED BY <1>3, <1>4, <1>5, <1>6, <1>7, <1>8 DEF Ind

LEMMA BuildAndStartKeeps ==
    ASSUME Ind, BuildAndStart
    PROVE  Ind'
<1> DEFINE s == eng.spec
<1>1. /\ eng.at = "building" /\ eng' = [at |-> "loop", ask |-> 0, spec |-> None]
      /\ s \in Specs /\ fate[s] = "open" /\ fate \in [Specs -> Fates] /\ run = None
      /\ \/ run' = s /\ fate' = [fate EXCEPT ![s] = "started"] /\ inbox' = Append(inbox, Shows(queue))
         \/ run' = run /\ fate' = [fate EXCEPT ![s] = "refused"] /\ inbox' = inbox
      /\ UNCHANGED <<queue, client, shown, cache, calls, timer, answer, abandoned, edits, commands>>
      /\ TypeOK /\ cache = queue /\ queue \in Entries
  BY DEF Ind, TypeOK, Told, IdleWhenAsking, OpenAtEngine, BuildAndStart, Loop
<1>2. /\ inbox' \in Seq(Messages)
      /\ DOMAIN inbox \subseteq DOMAIN inbox' /\ \A i \in DOMAIN inbox : inbox'[i] = inbox[i]
      /\ \A i \in DOMAIN inbox' : inbox'[i].kind = "ask" => i \in DOMAIN inbox
      /\ LastShown(queue) => LastShown(queue)'
  BY <1>1, ToldLast DEF TypeOK, LastShown
<1>3. s \notin Range(queue) /\ client.spec # s /\ eng.ask = 0
  BY <1>1 DEF Ind, TypeOK, OpenInQueue, OpenAtClient
<1>4. /\ fate' \in [Specs -> Fates] /\ fate'[s] \in {"started", "refused"}
      /\ \A x \in Specs : x # s => fate'[x] = fate[x]
  BY <1>1 DEF Fates
<1> HIDE DEF s
<1>5. TypeOK'
  BY <1>1, <1>2, <1>4 DEF TypeOK
<1>6. Told'
  BY <1>1, <1>2 DEF Ind, Told, BroadcastsConverge
<1>7. QuestionsAreOpen'
  BY <1>1, <1>2 DEF Ind, QuestionsAreOpen
<1>8. OneAsker'
  BY <1>1 DEF Ind, OneAsker
<1>9. IdleWhenAsking' /\ OpenAtEngine'
  BY <1>1 DEF IdleWhenAsking, OpenAtEngine
<1>10. OpenInQueue' /\ OpenAtClient'
  <2>1. Range(queue) \subseteq Specs /\ client.spec \in Specs \cup {None}
    BY <1>1, LenProperties, ElementOfSeq DEF TypeOK, Entries, Range
  <2> QED BY <1>1, <1>3, <1>4, <2>1 DEF Ind, OpenInQueue, OpenAtClient
<1>11. OpenInAnswer'
  <2>1. \A m : Collected(m)' <=> Collected(m)
    BY <1>1 DEF Collected
  <2> HIDE DEF Collected
  <2>2. ASSUME NEW m \in DOMAIN answer, answer[m] \in Specs
        PROVE  /\ answer[m] = s => Collected(m)
               /\ answer[m] # s => fate'[answer[m]] = fate[answer[m]]
    BY <1>4, <2>2 DEF Ind, OpenInAnswer, s
  <2>3. fate'[s] \notin {"new", "open"}
    BY <1>4
  <2> QED BY <1>1, <1>4, <2>1, <2>2, <2>3 DEF Ind, OpenInAnswer, s
<1>12. Located'
  BY <1>1, <1>4 DEF Ind, Located, Collected, s
<1>13. EndsLast'
  BY <1>1 DEF Ind, EndsLast
<1> QED BY <1>5, <1>6, <1>7, <1>8, <1>9, <1>10, <1>11, <1>12, <1>13 DEF Ind

LEMMA RunEndsKeeps ==
    ASSUME Ind, RunEnds
    PROVE  Ind'
<1>1. /\ eng.at = "loop" /\ run' = None
      /\ UNCHANGED <<queue, client, shown, cache, calls, timer, abandoned, fate, edits, commands>>
      /\ TypeOK
  BY DEF Ind, RunEnds
<1>2. CASE Ask
  BY <1>1, <1>2, AskKeeps DEF TypeOK
<1>3. CASE UNCHANGED <<answer, inbox, eng>>
  <2>1. TypeOK'
    BY <1>1, <1>3 DEF TypeOK
  <2>2. Told' /\ EndsLast'
    BY <1>1, <1>3 DEF Ind, Told, BroadcastsConverge, LastShown, EndsLast
  <2>3. QuestionsAreOpen' /\ OneAsker' /\ IdleWhenAsking' /\ OpenAtEngine'
    BY <1>1, <1>3 DEF Ind, QuestionsAreOpen, OneAsker, IdleWhenAsking, OpenAtEngine
  <2>4. OpenInQueue' /\ OpenAtClient'
    BY <1>1, <1>3 DEF Ind, OpenInQueue, OpenAtClient
  <2>5. OpenInAnswer' /\ Located'
    BY <1>1, <1>3 DEF Ind, OpenInAnswer, Located, Collected
  <2> QED BY <2>1, <2>2, <2>3, <2>4, <2>5 DEF Ind
<1> QED BY <1>2, <1>3 DEF RunEnds

LEMMA StopKeeps ==
    ASSUME Ind, Stop
    PROVE  Ind'
<1>1. /\ eng.at = "loop" /\ eng' = [at |-> "ended", ask |-> 0, spec |-> None] /\ timer' = FALSE
      /\ calls # <<>> /\ Head(calls) = "stop" /\ calls' = Tail(calls)
      /\ UNCHANGED <<queue, client, inbox, shown, cache, run, answer, abandoned, fate, edits, commands>>
      /\ TypeOK
  BY DEF Ind, Stop, Called, Client, In
<1>2. /\ calls' \in Seq({"run_queue", "publish", "stop"})
      /\ \A i \in DOMAIN calls' : \E j \in DOMAIN calls : calls'[i] = calls[j]
      /\ \A j \in DOMAIN calls :
           calls[j] = "stop" \/ \E i \in DOMAIN calls' : calls'[i] = calls[j]
      /\ \E j \in DOMAIN calls : calls[j] = "stop"
  BY <1>1, CallTaken, Tailed DEF TypeOK
<1>3. client.at \notin {"loop", "posting"} /\ eng.spec = None
  BY <1>1, <1>2 DEF Ind, TypeOK, EndsLast
<1>4. TypeOK'
  BY <1>1, <1>2 DEF TypeOK
<1>5. Told' /\ EndsLast'
  BY <1>1, <1>2, <1>3 DEF Ind, Told, BroadcastsConverge, LastShown, EndsLast
<1>6. QuestionsAreOpen' /\ OneAsker' /\ IdleWhenAsking' /\ OpenAtEngine'
  BY <1>1 DEF Ind, QuestionsAreOpen, OneAsker, IdleWhenAsking, OpenAtEngine
<1>7. OpenInQueue' /\ OpenAtClient'
  BY <1>1, <1>3 DEF Ind, OpenInQueue, OpenAtClient
<1>8. OpenInAnswer' /\ Located'
  BY <1>1, <1>3 DEF Ind, OpenInAnswer, Located, Collected
<1> QED BY <1>4, <1>5, <1>6, <1>7, <1>8 DEF Ind

LEMMA StutterKeeps ==
    ASSUME Ind, UNCHANGED vars
    PROVE  Ind'
<1>1. TypeOK' /\ Told' /\ EndsLast'
  BY DEF Ind, TypeOK, Told, BroadcastsConverge, LastShown, EndsLast, vars
<1>2. QuestionsAreOpen' /\ OneAsker' /\ IdleWhenAsking' /\ OpenAtEngine'
  BY DEF Ind, QuestionsAreOpen, OneAsker, IdleWhenAsking, OpenAtEngine, vars
<1>3. OpenInQueue' /\ OpenAtClient' /\ OpenInAnswer' /\ Located'
  BY DEF Ind, OpenInQueue, OpenAtClient, OpenInAnswer, Located, Collected, vars
<1> QED BY <1>1, <1>2, <1>3 DEF Ind
-----------------------------------------------------------------------------
LEMMA InitHolds == Init => Ind
<1> SUFFICES ASSUME Init  PROVE Ind
  OBVIOUS
<1>1. /\ \A S : <<>> \in Seq(S)
      /\ Range(<<>>) = {} /\ IsInjective(<<>>) /\ DOMAIN <<>> = {}
  BY EmptySeq DEF Range, IsInjective
<1>2. TypeOK
  BY <1>1 DEF Init, Loop, TypeOK, Entries, Fates
<1>3. Told /\ QuestionsAreOpen /\ OneAsker /\ IdleWhenAsking
  BY <1>1 DEF Init, Loop, Told, BroadcastsConverge, LastShown, QuestionsAreOpen, OneAsker, IdleWhenAsking
<1>4. OpenInQueue /\ OpenAtClient /\ OpenInAnswer /\ OpenAtEngine /\ Located /\ EndsLast
  BY <1>1 DEF Init, Loop, OpenInQueue, OpenAtClient, OpenInAnswer, OpenAtEngine, Located, EndsLast
<1> QED BY <1>2, <1>3, <1>4 DEF Ind

LEMMA StepHolds == Ind /\ [Next]_vars => Ind'
BY AddKeeps, RemoveKeeps, MoveKeeps, ClearKeeps, SendRunQueueKeeps, TakeNextSpecKeeps,
   PostPublishKeeps, ReceiveKeeps, ShutdownKeeps, LeaveKeeps, RunQueueKeeps, PublishQueueKeeps,
   AskAnsweredKeeps, AskTimesOutKeeps, BuildAndStartKeeps, RunEndsKeeps, StopKeeps, StutterKeeps
   DEF Next

LEMMA Invariance == Spec => []Ind
BY InitHolds, StepHolds, PTL DEF Spec

\* Every variable has its type.
THEOREM TypesAreKept == Spec => []TypeOK
<1>1. Ind => TypeOK
  BY DEF Ind
<1> QED BY <1>1, Invariance, PTL

\* Clients are shown the queue as it is, whatever the number of changes, the
\* length of the queue and the order in which the two threads get to them.
THEOREM ClientsSeeTheQueue == Spec => []BroadcastsConverge
<1>1. Ind => BroadcastsConverge
  BY DEF Ind, Told
<1> QED BY <1>1, Invariance, PTL
-----------------------------------------------------------------------------
(* The queue implements RunTickets.                                         *)

\* A run that has left the queue and for which the engine waits, or which it has.
Due(s) == \/ client.spec = s /\ client.ask \notin abandoned
          \/ eng.spec = s
          \/ eng.at = "asking" /\ answer[eng.ask] = s

\* The stages, said with where a run is and not with where it is not.
Now(s) == IF fate[s] = "open"
          THEN IF s \in Range(queue) THEN "waiting" ELSE IF Due(s) THEN "due" ELSE "lost"
          ELSE IF fate[s] = "started" THEN IF run = s THEN "running" ELSE "over"
          ELSE fate[s]
StagesAre == \A s \in Specs : Stage(s) = Now(s)

LEMMA StageOf == Ind => StagesAre
<1> SUFFICES ASSUME Ind, NEW s \in Specs  PROVE Stage(s) = Now(s)
  BY DEF StagesAre
<1>1. CASE fate[s] = "open"
  <2>1. CASE s \in Range(queue)
    <3>1. ~Lost(s)
      <4>1. client.spec # s /\ \A n \in DOMAIN answer : answer[n] # s
        BY <2>1 DEF Ind, OpenInQueue
      <4>2. \E i \in DOMAIN queue : queue[i] = s
        BY <2>1 DEF Range
      <4> QED BY <4>1, <4>2 DEF Ind, TypeOK, Lost
    <3> QED BY <1>1, <2>1, <3>1 DEF Stage, Now
  <2>2. CASE s \notin Range(queue)
    <3>1. Lost(s) <=> ~Due(s)
      <4>1. CASE eng.at = "killed"
        <5>1. client.spec = None /\ eng.spec = None
          BY <4>1 DEF Ind, TypeOK, EndsLast
        <5>2. \A i \in DOMAIN queue : queue[i] # s
          BY <2>2 DEF Range
        <5> QED BY <1>1, <4>1, <5>1, <5>2 DEF Lost, Due
      <4>2. CASE eng.at # "killed"
        <5>1. \/ client.spec = s \/ eng.spec = s
              \/ \E n \in DOMAIN answer : answer[n] = s /\ ~Collected(n)
          BY <1>1, <2>2, <4>2 DEF Ind, Located
        <5>2. CASE client.spec = s
          <6>1. /\ eng.spec # s /\ \A n \in DOMAIN answer : answer[n] # s
            BY <5>2 DEF Ind, OpenAtClient
          <6>2. eng.at = "asking" => eng.ask \in DOMAIN answer
            BY DEF Ind, TypeOK
          <6>3. abandoned \subseteq DOMAIN answer
            BY DEF Ind, TypeOK
          <6> QED BY <4>2, <5>2, <6>1, <6>2, <6>3 DEF Lost, Due
        <5>3. CASE eng.spec = s
          <6>1. client.spec # s
            BY <5>3 DEF Ind, TypeOK, OpenAtClient
          <6>2. \A n \in abandoned : answer[n] # s
            BY <5>3 DEF Ind, TypeOK, OpenInAnswer, Collected
          <6> QED BY <4>2, <5>3, <6>1, <6>2 DEF Lost, Due
        <5>4. ASSUME NEW n \in DOMAIN answer, answer[n] = s, ~Collected(n)  PROVE Lost(s) <=> ~Due(s)
          <6>1. client.spec # s /\ eng.spec # s /\ \A m \in DOMAIN answer : answer[m] = s => m = n
            BY <5>4 DEF Ind, OpenAtClient, OpenInAnswer
          <6>2. /\ eng.at = "asking" => eng.ask \in DOMAIN answer /\ eng.ask \notin abandoned
                /\ abandoned \subseteq DOMAIN answer
            BY <4>2 DEF Ind, TypeOK, OneAsker
          <6> QED BY <4>2, <5>4, <6>1, <6>2 DEF Lost, Due, Collected
        <5> QED BY <5>1, <5>2, <5>3, <5>4
      <4> QED BY <4>1, <4>2
    <3> QED BY <1>1, <2>2, <3>1 DEF Stage, Now
  <2> QED BY <2>1, <2>2
<1>2. CASE fate[s] # "open"
  BY <1>2 DEF Stage, Now
<1> QED BY <1>1, <1>2

\* Only one run is due, and none while another is running.
LEMMA OneIsDue ==
    ASSUME Ind
    PROVE  /\ \A s \in Specs : Due(s) => /\ run = None /\ fate[s] = "open" /\ s \notin Range(queue)
                                      /\ eng.at \in {"asking", "building"}
           /\ \A s, x \in Specs : Due(s) /\ Due(x) => s = x
           /\ run # None => fate[run] = "started"
<1>1. ASSUME NEW s \in Specs, Due(s)
      PROVE  /\ run = None /\ fate[s] = "open" /\ s \notin Range(queue)
             /\ \/ client.spec = s /\ eng.at = "asking" /\ answer[eng.ask] = Unanswered /\ eng.spec = None
                \/ client.spec # s /\ eng.spec = s /\ eng.at = "building"
                \/ client.spec # s /\ eng.at = "asking" /\ answer[eng.ask] = s /\ eng.spec = None
  <2>1. CASE client.spec = s /\ client.ask \notin abandoned
    <3>1. client.ask # 0 /\ client.at = "posting" /\ client.ask \in DOMAIN answer
      BY <2>1 DEF Ind, TypeOK
    <3>2. answer[client.ask] = Unanswered /\ eng.at # "killed"
      BY <3>1 DEF Ind, QuestionsAreOpen, EndsLast
    <3>3. eng.at = "asking" /\ eng.ask = client.ask
      BY <2>1, <3>1, <3>2 DEF Ind, OneAsker
    <3> QED BY <2>1, <3>2, <3>3 DEF Ind, TypeOK, IdleWhenAsking, OpenInQueue, OpenAtClient
  <2>2. CASE eng.spec = s
    <3>1. client.spec # s
      BY <2>2 DEF Ind, OpenAtClient
    <3> QED BY <2>2, <3>1 DEF Ind, TypeOK, IdleWhenAsking, OpenInQueue, OpenAtEngine
  <2>3. CASE eng.at = "asking" /\ answer[eng.ask] = s
    <3>1. eng.ask \in DOMAIN answer /\ eng.spec = None /\ ~Collected(eng.ask)
      BY <2>3 DEF Ind, TypeOK, Collected
    <3>2. client.spec # s /\ fate[s] = "open" /\ s \notin Range(queue)
      BY <2>3, <3>1 DEF Ind, OpenAtClient, OpenInQueue, OpenInAnswer
    <3> QED BY <2>3, <3>1, <3>2 DEF Ind, IdleWhenAsking
  <2> QED BY <1>1, <2>1, <2>2, <2>3 DEF Due
<1>2. run # None => fate[run] = "started"
  BY DEF Ind, IdleWhenAsking
<1> QED BY <1>1, <1>2

\* One run goes from one stage to another, and no other run goes anywhere.
LEMMA MovesOne ==
    ASSUME StagesAre, StagesAre', NEW CONSTANT x \in Specs, NEW CONSTANT from, NEW CONSTANT to,
           Now(x) = from, Now(x)' = to, \A s \in Specs : s # x => Now(s)' = Now(s)
    PROVE  Tickets!Moves(x, from, to)
<1>1. \A s \in Specs : Stage(s) = Now(s) /\ Stage(s)' = Now(s)'
  BY DEF StagesAre
<1> QED BY <1>1 DEF Tickets!Moves

\* No run goes anywhere.
Still == UNCHANGED [s \in Specs |-> Stage(s)]
LEMMA MovesNone ==
    ASSUME StagesAre, StagesAre', \A s \in Specs : Now(s)' = Now(s)
    PROVE  Still
<1>1. \A s \in Specs : Stage(s) = Now(s) /\ Stage(s)' = Now(s)'
  BY DEF StagesAre
<1> QED BY <1>1 DEF Still

\* What is waiting is removed, some of it or all.
LEMMA RemovesSome ==
    ASSUME StagesAre, StagesAre', NEW CONSTANT gone \in SUBSET Specs,
           \A s \in gone : Now(s) = "waiting" /\ Now(s)' = "removed",
           \A s \in Specs : s \notin gone => Now(s)' = Now(s)
    PROVE  Tickets!Next
<1>1. \A s \in Specs : Stage(s) = Now(s) /\ Stage(s)' = Now(s)'
  BY DEF StagesAre
<1>2. Tickets!Remove(gone)
  BY <1>1 DEF Tickets!Remove
<1> QED BY <1>2 DEF Tickets!Next

Implemented == Tickets!Next \/ Still

LEMMA AddImplements ==
    ASSUME Ind, StagesAre, StagesAre', NEW CONSTANT s \in Specs, Add(s)
    PROVE  Implemented
<1>1. /\ fate[s] = "new" /\ fate \in [Specs -> Fates] /\ fate' = [fate EXCEPT ![s] = "open"]
      /\ client.spec = None /\ client'.spec = None
      /\ UNCHANGED <<eng, run, answer, abandoned>>
  BY DEF Ind, TypeOK, Add, Edits, Changed, In
<1>2. Range(queue') = Range(queue) \cup {s}
  BY AppendedHolds DEF Ind, TypeOK, Entries, Add, Changed
<1>3. Now(s) = "new" /\ Now(s)' = "waiting"
  BY <1>1, <1>2 DEF Now
<1>4. \A x \in Specs : x # s => Now(x)' = Now(x)
  BY <1>1, <1>2 DEF Now, Due
<1>5. Tickets!Moves(s, "new", "waiting")
  BY <1>3, <1>4, MovesOne
<1> QED BY <1>5 DEF Implemented, Tickets!Next, Tickets!Wait

LEMMA RemoveImplements ==
    ASSUME Ind, StagesAre, StagesAre', NEW i \in DOMAIN queue, RemoveSpec(i)
    PROVE  Implemented
<1>1. queue[i] \in Specs
  BY LenProperties, ElementOfSeq DEF Ind, TypeOK, Entries
<1> PICK s \in Specs : s = queue[i]
  BY <1>1
<1>2. /\ fate \in [Specs -> Fates] /\ fate' = [fate EXCEPT ![s] = "removed"]
      /\ client.spec = None /\ client'.spec = None
      /\ UNCHANGED <<eng, run, answer, abandoned>>
  BY DEF Ind, TypeOK, RemoveSpec, Edits, Changed, In
<1>3. Range(queue') = Range(queue) \ {s}
  BY RemovedHolds, SMTT(40) DEF Ind, TypeOK, Entries, OpenInQueue, RemoveSpec, Changed
<1>4. s \in Range(queue) /\ fate[s] = "open"
  BY DEF Ind, OpenInQueue, Range
<1>5. Now(s) = "waiting" /\ Now(s)' = "removed"
  BY <1>2, <1>4 DEF Now
<1>6. \A x \in Specs : x # s => Now(x)' = Now(x)
  BY <1>2, <1>3 DEF Now, Due
<1>7. Tickets!Next
  <2>1. {s} \in SUBSET Specs /\ \A x \in {s} : Now(x) = "waiting" /\ Now(x)' = "removed"
    BY <1>5
  <2>2. \A x \in Specs : x \notin {s} => Now(x)' = Now(x)
    BY <1>6
  <2> HIDE DEF Now
  <2> QED BY <2>1, <2>2, RemovesSome
<1> QED BY <1>7 DEF Implemented

LEMMA ClearImplements ==
    ASSUME Ind, StagesAre, StagesAre', Clear
    PROVE  Implemented
<1>1. Range(queue) \subseteq Specs
  BY LenProperties, ElementOfSeq DEF Ind, TypeOK, Entries, Range
<1> PICK gone \in SUBSET Specs : gone = Range(queue)
  BY <1>1
<1>2. /\ fate' = [s \in Specs |-> IF s \in gone THEN "removed" ELSE fate[s]]
      /\ client.spec = None /\ client'.spec = None
      /\ UNCHANGED <<eng, run, answer, abandoned>>
  BY DEF Ind, TypeOK, Clear, Edits, Changed, In
<1>3. Range(queue') = {}
  BY EmptySeq DEF Range, Clear, Changed
<1>4. \A s \in gone : fate[s] = "open"
  BY DEF Ind, OpenInQueue
<1>5. \A s \in gone : Now(s) = "waiting" /\ Now(s)' = "removed"
  BY <1>2, <1>4 DEF Now
<1>6. \A s \in Specs : s \notin gone => Now(s)' = Now(s)
  BY <1>2, <1>3 DEF Now, Due
<1>7. Tickets!Next
  BY <1>5, <1>6, RemovesSome
<1> QED BY <1>7 DEF Implemented

\* The steps that no run can tell.
LEMMA QuietImplements ==
    ASSUME Ind, StagesAre, StagesAre', Range(queue') = Range(queue),
           client.spec = None, client'.spec = None,
           eng'.spec = eng.spec, eng'.at = "asking" <=> eng.at = "asking", eng'.ask = eng.ask,
           UNCHANGED <<run, answer, abandoned, fate>>
    PROVE  Implemented
<1>1. \A s \in Specs : Now(s)' = Now(s)
  BY DEF Now, Due
<1> QED BY <1>1, MovesNone DEF Implemented

LEMMA SilentImplements ==
    ASSUME Ind, StagesAre, StagesAre',
           UNCHANGED <<queue, client, eng, run, answer, abandoned, fate>>
    PROVE  Implemented
<1>1. \A s \in Specs : Now(s)' = Now(s)
  BY DEF Now, Due
<1> QED BY <1>1, MovesNone DEF Implemented

LEMMA TakeNextSpecImplements ==
    ASSUME Ind, StagesAre, StagesAre', TakeNextSpec
    PROVE  Implemented
<1>1. /\ Head(inbox) = inbox[1] /\ 1 \in DOMAIN inbox /\ Head(inbox).kind = "ask"
      /\ client.spec = None /\ client.at = "loop"
      /\ UNCHANGED <<eng, run, abandoned, fate>>
  BY InboxTailed DEF Ind, TypeOK, TakeNextSpec
<1>2. /\ Head(inbox).ask \in DOMAIN answer /\ answer[Head(inbox).ask] = Unanswered
  BY <1>1 DEF Ind, QuestionsAreOpen
<1> PICK n \in DOMAIN answer : n = Head(inbox).ask
  BY <1>2
<1>3. CASE queue = <<>>
  <2>1. /\ answer' = [answer EXCEPT ![n] = None] /\ UNCHANGED <<queue, client>>
        /\ answer[n] = Unanswered
    BY <1>2, <1>3 DEF TakeNextSpec
  <2>2. /\ answer \in [DOMAIN answer -> Specs \cup {None, Unanswered}]
        /\ eng.at = "asking" => eng.ask \in DOMAIN answer
    BY LenProperties, ElementOfSeq DEF Ind, TypeOK
  <2>3. \A s \in Specs : Now(s)' = Now(s)
    BY <1>1, <2>1, <2>2 DEF Now, Due
  <2> QED BY <2>3, MovesNone DEF Implemented
<1>4. CASE queue # <<>>
  <2>1. Head(queue) \in Specs /\ Head(queue) \in Range(queue) /\ Range(queue') = Range(queue) \ {Head(queue)}
    <3>1. queue \in Seq(Specs) /\ IsInjective(queue) /\ queue' = Tail(queue)
      BY <1>4 DEF Ind, TypeOK, Entries, OpenInQueue, TakeNextSpec, Changed
    <3> QED BY <1>4, <3>1, Tailed, TailedHolds
  <2> PICK s \in Specs : s = Head(queue)
    BY <2>1
  <2>2. client' = [at |-> "posting", ask |-> n, spec |-> s] /\ answer' = answer
    BY <1>4 DEF TakeNextSpec, Changed, In
  <2>3. fate[s] = "open" /\ eng.spec # s /\ \A m \in DOMAIN answer : answer[m] # s
    BY <2>1 DEF Ind, OpenInQueue
  <2>4. \A x \in Specs : x # s => Now(x)' = Now(x)
    BY <1>1, <2>1, <2>2 DEF Now, Due
  <2>5. Now(s) = "waiting"
    BY <2>1, <2>3 DEF Now
  <2>6. CASE n \in abandoned
    <3>1. ~Due(s)'
      <4>1. eng.at = "asking" => eng.ask \in DOMAIN answer
        BY DEF Ind, TypeOK
      <4> QED BY <1>1, <2>2, <2>3, <2>6, <4>1 DEF Due
    <3>2. Now(s)' = "lost"
      BY <1>1, <2>1, <2>3, <3>1 DEF Now
    <3>3. Tickets!Moves(s, "waiting", "lost")
      BY <2>4, <2>5, <3>2, MovesOne
    <3> QED BY <3>3 DEF Implemented, Tickets!Next, Tickets!Lose
  <2>7. CASE n \notin abandoned
    <3>1. eng.at = "asking" /\ eng.ask = n /\ answer[n] = Unanswered
      BY <1>1, <1>2, <2>7 DEF Ind, OneAsker, EndsLast
    <3>2. run = None /\ eng.spec = None
      BY <3>1 DEF Ind, TypeOK, IdleWhenAsking
    <3>3. \A x \in Specs : ~Due(x) /\ run # x
      BY <1>1, <3>1, <3>2 DEF Due
    <3>4. \A x \in Specs : Now(x) \notin {"due", "running"}
      <4>1. fate \in [Specs -> Fates]
        BY DEF Ind, TypeOK
      <4> QED BY <3>3, <4>1 DEF Now, Fates
    <3>5. Tickets!Free
      BY <3>4 DEF Tickets!Free, StagesAre
    <3>6. Now(s)' = "due"
      BY <1>1, <2>1, <2>2, <2>3, <2>7 DEF Now, Due
    <3>7. Tickets!Moves(s, "waiting", "due")
      BY <2>4, <2>5, <3>6, MovesOne
    <3> QED BY <3>5, <3>7 DEF Implemented, Tickets!Next, Tickets!Take
  <2> QED BY <2>6, <2>7
<1> QED BY <1>3, <1>4

LEMMA PostPublishImplements ==
    ASSUME Ind, StagesAre, StagesAre', PostPublish
    PROVE  Implemented
<1>0. /\ client.at = "posting" /\ client' = [at |-> "loop", ask |-> 0, spec |-> None]
      /\ answer' = IF client.ask = 0 THEN answer ELSE [answer EXCEPT ![client.ask] = client.spec]
      /\ UNCHANGED <<queue, eng, run, abandoned, fate>>
      /\ client.ask = 0 <=> client.spec = None
      /\ client.spec \in Specs \cup {None}
      /\ client.ask # 0 => client.ask \in DOMAIN answer
      /\ eng.at = "asking" => eng.ask \in DOMAIN answer
  BY DEF Ind, TypeOK, PostPublish, Loop
<1>1. CASE client.ask = 0
  BY <1>0, <1>1, QuietImplements
<1>2. CASE client.ask # 0
  <2> PICK n \in DOMAIN answer : n = client.ask
    BY <1>0, <1>2
  <2> PICK s \in Specs : s = client.spec
    BY <1>0, <1>2
  <2>1. answer' = [answer EXCEPT ![n] = s] /\ answer[n] = Unanswered
    BY <1>0, <1>2 DEF Ind, QuestionsAreOpen
  <2>2. /\ n \notin abandoned => eng.at = "asking" /\ eng.ask = n
        /\ n \in abandoned /\ eng.at = "asking" => eng.ask # n
    BY <1>0, <2>1 DEF Ind, OneAsker, EndsLast
  <2>3. eng.spec # s /\ \A m \in DOMAIN answer : answer[m] # s
    BY <1>0, <1>2 DEF Ind, OpenAtClient
  <2>4. Due(s)' <=> Due(s)
    <3>1. CASE n \in abandoned
      BY <1>0, <2>1, <2>2, <2>3, <3>1 DEF Due
    <3>2. CASE n \notin abandoned
      BY <1>0, <2>1, <2>2, <3>2 DEF Due
    <3> QED BY <3>1, <3>2
  <2>5. \A x \in Specs : x # s => (Due(x)' <=> Due(x))
    BY <1>0, <2>1 DEF Due
  <2> HIDE DEF Due
  <2>6. \A x \in Specs : Now(x)' = Now(x)
    BY <1>0, <2>4, <2>5 DEF Now
  <2> QED BY <2>6, MovesNone DEF Implemented
<1> QED BY <1>1, <1>2

LEMMA LeaveImplements ==
    ASSUME Ind, StagesAre, StagesAre', Leave
    PROVE  Implemented
<1>1. /\ client.spec = None /\ client'.spec = None
      /\ eng' = IF eng.at = "ended" THEN eng ELSE [at |-> "killed", ask |-> 0, spec |-> None]
      /\ UNCHANGED <<queue, run, answer, abandoned, fate>>
  BY DEF Ind, TypeOK, Leave, In
<1>2. CASE eng.at = "ended"
  BY <1>1, <1>2, QuietImplements
<1>3. CASE eng.at # "ended"
  <2>1. \A s \in Specs : ~Due(s)'
    BY <1>1, <1>3 DEF Due
  <2>2. CASE \E s \in Specs : Due(s)
    <3> PICK s \in Specs : Due(s)
      BY <2>2
    <3>1. /\ fate[s] = "open" /\ s \notin Range(queue)
          /\ \A x \in Specs : x # s => ~Due(x)
      BY OneIsDue
    <3> HIDE DEF Due
    <3>2. Now(s) = "due" /\ Now(s)' = "lost"
      BY <1>1, <2>1, <3>1 DEF Now
    <3>3. \A x \in Specs : x # s => Now(x)' = Now(x)
      BY <1>1, <2>1, <3>1 DEF Now
    <3>4. Tickets!Moves(s, "due", "lost")
      BY <3>2, <3>3, MovesOne
    <3> QED BY <3>4 DEF Implemented, Tickets!Next, Tickets!Lose
  <2>3. CASE \A s \in Specs : ~Due(s)
    <3> HIDE DEF Due
    <3>1. \A s \in Specs : Now(s)' = Now(s)
      BY <1>1, <2>1, <2>3 DEF Now
    <3> QED BY <3>1, MovesNone DEF Implemented
  <2> QED BY <2>2, <2>3
<1> QED BY <1>2, <1>3

\* A question, of which no run can tell as long as nobody has answered it.
LEMMA AskedQuietly ==
    ASSUME Ind, Ask, eng.at = "loop", UNCHANGED <<queue, client, abandoned, fate>>
    PROVE  \A s \in Specs : Due(s)' <=> Due(s)
<1>1. /\ answer' = Append(answer, Unanswered) /\ eng.spec = None
      /\ eng' = [at |-> "asking", ask |-> Len(answer) + 1, spec |-> None]
  BY DEF Ind, TypeOK, Ask, In
<1>2. answer'[Len(answer) + 1] = Unanswered
  BY <1>1, Appended DEF Ind, TypeOK
<1> QED BY <1>1, <1>2 DEF Due

LEMMA RunQueueImplements ==
    ASSUME Ind, StagesAre, StagesAre', RunQueue
    PROVE  Implemented
<1>1. /\ eng.at = "loop" /\ UNCHANGED <<queue, client, run, abandoned, fate>>
      /\ Ask \/ UNCHANGED <<answer, eng>>
  BY DEF RunQueue, Called
<1>2. CASE Ask
  <2>1. \A s \in Specs : Due(s)' <=> Due(s)
    BY <1>1, <1>2, AskedQuietly
  <2> HIDE DEF Due
  <2>2. \A s \in Specs : Now(s)' = Now(s)
    BY <1>1, <2>1 DEF Now
  <2> QED BY <2>2, MovesNone DEF Implemented
<1>3. CASE UNCHANGED <<answer, eng>>
  BY <1>1, <1>3, SilentImplements
<1> QED BY <1>1, <1>2, <1>3

LEMMA AskAnsweredImplements ==
    ASSUME Ind, StagesAre, StagesAre', AskAnswered
    PROVE  Implemented
<1>1. /\ eng.at = "asking" /\ eng.spec = None
      /\ eng' = IF answer[eng.ask] = None THEN [at |-> "loop", ask |-> 0, spec |-> None]
                ELSE [at |-> "building", ask |-> 0, spec |-> answer[eng.ask]]
      /\ UNCHANGED <<queue, client, run, answer, abandoned, fate>>
  BY DEF Ind, TypeOK, AskAnswered, Client, Loop, In
<1>2. \A s \in Specs : Due(s)' <=> Due(s)
  BY <1>1 DEF Due
<1> HIDE DEF Due
<1>3. \A s \in Specs : Now(s)' = Now(s)
  BY <1>1, <1>2 DEF Now
<1> QED BY <1>3, MovesNone DEF Implemented

LEMMA AskTimesOutImplements ==
    ASSUME Ind, StagesAre, StagesAre', AskTimesOut
    PROVE  Implemented
<1>1. /\ eng.at = "asking" /\ eng.spec = None /\ answer[eng.ask] = Unanswered
      /\ eng' = [at |-> "loop", ask |-> 0, spec |-> None]
      /\ abandoned' = abandoned \cup {eng.ask}
      /\ UNCHANGED <<queue, client, run, answer, fate>>
      /\ eng.ask \notin abandoned /\ eng.ask \in DOMAIN answer
  BY DEF Ind, TypeOK, OneAsker, AskTimesOut, Client, Loop
<1>2. CASE client.spec # None /\ client.ask = eng.ask
  <2> PICK s \in Specs : s = client.spec
    BY <1>2 DEF Ind, TypeOK
  <2>1. fate[s] = "open" /\ s \notin Range(queue) /\ Due(s) /\ ~Due(s)'
    BY <1>1, <1>2 DEF Ind, OpenInQueue, OpenAtClient, Due
  <2>2. \A x \in Specs : x # s => (Due(x)' <=> Due(x))
    BY <1>1, <1>2 DEF Due
  <2> HIDE DEF Due
  <2>3. Now(s) = "due" /\ Now(s)' = "lost"
    BY <1>1, <2>1 DEF Now
  <2>4. \A x \in Specs : x # s => Now(x)' = Now(x)
    BY <1>1, <2>2 DEF Now
  <2>5. Tickets!Moves(s, "due", "lost")
    BY <2>3, <2>4, MovesOne
  <2> QED BY <2>5 DEF Implemented, Tickets!Next, Tickets!Lose
<1>3. CASE ~(client.spec # None /\ client.ask = eng.ask)
  <2>1. \A s \in Specs : Due(s)' <=> Due(s)
    BY <1>1, <1>3 DEF Due
  <2> HIDE DEF Due
  <2>2. \A s \in Specs : Now(s)' = Now(s)
    BY <1>1, <2>1 DEF Now
  <2> QED BY <2>2, MovesNone DEF Implemented
<1> QED BY <1>2, <1>3

LEMMA BuildAndStartImplements ==
    ASSUME Ind, StagesAre, StagesAre', BuildAndStart
    PROVE  Implemented
<1>1. /\ eng.at = "building" /\ eng.spec \in Specs /\ run = None
      /\ eng' = [at |-> "loop", ask |-> 0, spec |-> None]
      /\ UNCHANGED <<queue, client, answer, abandoned>>
  BY DEF Ind, TypeOK, IdleWhenAsking, BuildAndStart, Loop
<1> PICK s \in Specs : s = eng.spec
  BY <1>1
<1>2. fate[s] = "open" /\ s \notin Range(queue) /\ client.spec # s /\ fate \in [Specs -> Fates]
  BY <1>1 DEF Ind, TypeOK, OpenInQueue, OpenAtClient, OpenAtEngine
<1>3. Now(s) = "due"
  BY <1>2 DEF Now, Due
<1>4. \A x \in Specs : x # s => (Due(x)' <=> Due(x))
  BY <1>1 DEF Due
<1> HIDE DEF Due
<1>5. \/ run' = s /\ fate' = [fate EXCEPT ![s] = "started"]
      \/ run' = run /\ fate' = [fate EXCEPT ![s] = "refused"]
  BY DEF BuildAndStart
<1>6. CASE run' = s /\ fate' = [fate EXCEPT ![s] = "started"]
  <2>1. Now(s)' = "running"
    BY <1>2, <1>6 DEF Now
  <2>2. \A x \in Specs : x # s => Now(x)' = Now(x)
    BY <1>1, <1>2, <1>4, <1>6 DEF Now
  <2>3. Tickets!Moves(s, "due", "running")
    BY <1>3, <2>1, <2>2, MovesOne
  <2> QED BY <2>3 DEF Implemented, Tickets!Next, Tickets!Start
<1>7. CASE run' = run /\ fate' = [fate EXCEPT ![s] = "refused"]
  <2>1. Now(s)' = "refused"
    BY <1>2, <1>7 DEF Now
  <2>2. \A x \in Specs : x # s => Now(x)' = Now(x)
    BY <1>1, <1>2, <1>4, <1>7 DEF Now
  <2>3. Tickets!Moves(s, "due", "refused")
    BY <1>3, <2>1, <2>2, MovesOne
  <2> QED BY <2>3 DEF Implemented, Tickets!Next, Tickets!Refuse
<1> QED BY <1>5, <1>6, <1>7

LEMMA RunEndsImplements ==
    ASSUME Ind, StagesAre, StagesAre', RunEnds
    PROVE  Implemented
<1>1. /\ eng.at = "loop" /\ run \in Specs /\ run' = None /\ fate[run] = "started"
      /\ UNCHANGED <<queue, client, abandoned, fate>>
      /\ Ask \/ UNCHANGED <<answer, eng>>
  BY DEF Ind, TypeOK, IdleWhenAsking, RunEnds
<1> PICK s \in Specs : s = run
  BY <1>1
<1>2. \A x \in Specs : Due(x)' <=> Due(x)
  <2>1. CASE Ask
    BY <1>1, <2>1, AskedQuietly
  <2>2. CASE UNCHANGED <<answer, eng>>
    BY <1>1, <2>2 DEF Due
  <2> QED BY <1>1, <2>1, <2>2
<1> HIDE DEF Due
<1>3. Now(s) = "running" /\ Now(s)' = "over"
  BY <1>1 DEF Now
<1>4. \A x \in Specs : x # s => Now(x)' = Now(x)
  BY <1>1, <1>2 DEF Now
<1>5. Tickets!Moves(s, "running", "over")
  BY <1>3, <1>4, MovesOne
<1> QED BY <1>5 DEF Implemented, Tickets!Next, Tickets!End

LEMMA MoveImplements ==
    ASSUME Ind, StagesAre, StagesAre', NEW i \in DOMAIN queue, Move(i)
    PROVE  Implemented
<1>1. Range(queue') = Range(queue)
  BY MovedHolds DEF Ind, TypeOK, Entries, OpenInQueue, Move, Changed
<1>2. /\ client.spec = None /\ client'.spec = None
      /\ UNCHANGED <<eng, run, answer, abandoned, fate>>
  BY DEF Ind, TypeOK, Move, Edits, Changed, In
<1> QED BY <1>1, <1>2, QuietImplements

LEMMA QuietSteps ==
    ASSUME Ind, StagesAre, StagesAre',
           SendRunQueue \/ Receive \/ Shutdown \/ PublishQueue \/ Stop \/ UNCHANGED vars
    PROVE  Implemented
<1>1. CASE SendRunQueue \/ Receive \/ PublishQueue \/ UNCHANGED vars
  <2>1. UNCHANGED <<queue, client, eng, run, answer, abandoned, fate>>
    BY <1>1 DEF SendRunQueue, Receive, PublishQueue, Client, vars
  <2> QED BY <2>1, SilentImplements
<1>2. CASE Shutdown
  <2>1. /\ client.spec = None /\ client'.spec = None
        /\ UNCHANGED <<queue, eng, run, answer, abandoned, fate>>
    BY <1>2 DEF Ind, TypeOK, Shutdown, In
  <2> QED BY <2>1, QuietImplements
<1>3. CASE Stop
  <2>1. /\ eng.at = "loop" /\ eng' = [at |-> "ended", ask |-> 0, spec |-> None]
        /\ eng.spec = None /\ eng.ask = 0 /\ client.at \notin {"loop", "posting"}
        /\ UNCHANGED <<queue, client, run, answer, abandoned, fate>>
    <3>1. calls # <<>> /\ Head(calls) = "stop" /\ eng.at = "loop"
      BY <1>3 DEF Stop, Called
    <3>2. Head(calls) = calls[1] /\ 1 \in DOMAIN calls
      BY <3>1, Tailed DEF Ind, TypeOK
    <3> QED BY <1>3, <3>1, <3>2 DEF Ind, TypeOK, EndsLast, Stop, Client, In
  <2>2. client.spec = None
    BY <2>1 DEF Ind, TypeOK
  <2> QED BY <2>1, <2>2, QuietImplements
<1> QED BY <1>1, <1>2, <1>3

LEMMA StepImplements ==
    ASSUME Ind, StagesAre, StagesAre', [Next]_vars
    PROVE  Implemented
BY AddImplements, RemoveImplements, MoveImplements, ClearImplements, TakeNextSpecImplements,
   PostPublishImplements, LeaveImplements, RunQueueImplements, AskAnsweredImplements,
   AskTimesOutImplements, BuildAndStartImplements, RunEndsImplements, QuietSteps
   DEF Next

\* Every run put into the queue goes its one way through the stages of RunTickets
\* and never back, one at a time through the engine, whatever the two threads do
\* and in whatever order: the queue, the questions and the answers implement it.
THEOREM QueueImplementsTickets == Spec => ImplementsRunTickets
<1>1. Init => Tickets!Init
  <2> SUFFICES ASSUME Init  PROVE \A s \in Specs : Stage(s) = "new"
    BY DEF Tickets!Init
  <2> QED BY DEF Init, Stage
<1>2. Ind /\ Ind' /\ [Next]_vars => [Tickets!Next]_([s \in Specs |-> Stage(s)])
  <2> SUFFICES ASSUME Ind, Ind', [Next]_vars
               PROVE  [Tickets!Next]_([s \in Specs |-> Stage(s)])
    OBVIOUS
  <2>1. StagesAre
    BY StageOf
  <2>2. StagesAre'
    BY StageOf, PTL
  <2>3. Implemented
    BY <2>1, <2>2, StepImplements
  <2> QED BY <2>3 DEF Implemented, Still
<1> QED BY <1>1, <1>2, Invariance, PTL DEF Spec, ImplementsRunTickets, Tickets!Spec
=============================================================================
