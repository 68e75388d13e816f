---------------------------- MODULE StationProofs ----------------------------
(***************************************************************************)
(* What Station promises, for any station: any instruments, any sharing of  *)
(* driver sessions, any number of errors tolerated.                         *)
(***************************************************************************)
EXTENDS Station, TLAPS

Pools == [Drivers -> {"none", "good", "dead"}]

\* Two live VIs that share a driver find it in the pool, so that opening one's
\* missing sessions never reaches the other's.
SharedIsOpen ==
    \A v, w \in live : v # w => \A d \in Uses[v] \cap Uses[w] : pool[d] # "none"

ClaimsAreLive == engine = "RUN" => claims \subseteq live

Ind == /\ TypeOK /\ FaultMatchesErrors /\ NobodyElsesSessionIsClosed
       /\ ReleasedIsFree /\ SharedIsOpen /\ ClaimsAreLive

USE UsesAssumption, ErrorsAssumption, BoundsAssumption
-----------------------------------------------------------------------------
(* The pool of sessions.                                                    *)

\* Opening what a VI misses touches no other session and closes none.
LEMMA OpeningKeeps ==
    ASSUME NEW v \in VIs, NEW p \in Pools,
           NEW q, q \in PartlyOpened(v, p) \/ q = Opened(v, p)
    PROVE  /\ q \in Pools
           /\ \A d \in Drivers :
                q[d] = p[d] \/ (d \in Uses[v] /\ p[d] = "none" /\ q[d] = "good")
BY DEF Pools, PartlyOpened, Opened, With, Missing

\* Opening all of it leaves none of its sessions missing.
LEMMA OpenedIsOpen ==
    ASSUME NEW v \in VIs, NEW p \in Pools
    PROVE  \A d \in Uses[v] : Opened(v, p)[d] # "none"
BY DEF Pools, Opened, With, Missing

\* Releasing sessions closes these and no others.
LEMMA ReleasingCloses ==
    ASSUME NEW p \in Pools, NEW D \in SUBSET Drivers
    PROVE  /\ Without(p, D) \in Pools
           /\ \A d \in Drivers : Without(p, D)[d] = IF d \in D THEN "none" ELSE p[d]
BY DEF Pools, Without

\* What is exclusive to a VI is its own, and no other's of the set.
LEMMA ExclusiveIsOwn ==
    ASSUME NEW v \in VIs, NEW S \in SUBSET VIs
    PROVE  /\ Exclusive(v, S) \in SUBSET Drivers /\ Exclusive(v, S) \subseteq Uses[v]
           /\ Exclusive(v, VIs) \subseteq Exclusive(v, S)
           /\ \A w \in S : w # v => Exclusive(v, S) \cap Uses[w] = {}
           /\ \A d \in Uses[v] \ Exclusive(v, S) : \E w \in S : w # v /\ d \in Uses[w]
BY DEF Exclusive

\* A connect: the pool changes for the sessions of this VI only, and loses none
\* but those that no other configured VI uses.
LEMMA ConnectPool ==
    ASSUME TypeOK, NEW v \in VIs, ConnectInstrument(v)
    PROVE  /\ pool' \in Pools
           /\ \A d \in Drivers : d \notin Uses[v] => pool'[d] = pool[d]
           /\ \A d \in Drivers : pool'[d] = "none" => pool[d] = "none" \/ d \in Exclusive(v, VIs)
           /\ ConnectSucceeds(v) => \A d \in Uses[v] : pool'[d] # "none"
<1> DEFINE E == Exclusive(v, VIs)
<1>1. pool \in Pools /\ Uses[v] \subseteq Drivers
  BY DEF TypeOK, Pools
<1>2. E \in SUBSET Drivers /\ E \subseteq Uses[v]
  BY ExclusiveIsOwn
<1>3. Opened(v, pool) \in Pools
  BY <1>1, OpeningKeeps
<1>4. CASE pool' \in PartlyOpened(v, pool) \/ pool' = Opened(v, pool)
  <2>1. /\ pool' \in Pools
        /\ \A d \in Drivers : d \notin Uses[v] => pool'[d] = pool[d]
        /\ \A d \in Drivers : pool'[d] = "none" => pool[d] = "none"
    BY <1>1, <1>4, OpeningKeeps
  <2>2. ConnectSucceeds(v) => \A d \in Uses[v] : pool'[d] # "none"
    BY <1>1, OpenedIsOpen DEF ConnectSucceeds
  <2> QED BY <2>1, <2>2
<1>5. CASE ConnectIsNotAnswered(v)
  <2>1. pool' = Without(Opened(v, pool), E)
    BY <1>5 DEF ConnectIsNotAnswered
  <2>2. pool' \in Pools
    BY <2>1, <1>2, <1>3, ReleasingCloses
  <2>3. \A d \in Drivers : pool'[d] = IF d \in E THEN "none" ELSE Opened(v, pool)[d]
    BY <2>1, <1>2, <1>3, ReleasingCloses
  <2>4. \A d \in Drivers : d \notin Uses[v] => pool'[d] = pool[d]
    BY <2>3, <1>1, <1>2, OpeningKeeps
  <2>5. \A d \in Drivers : pool'[d] = "none" => pool[d] = "none" \/ d \in E
    BY <2>3, <1>1, OpeningKeeps
  <2>6. ConnectSucceeds(v) => \A d \in Uses[v] : pool'[d] # "none"
    BY <1>1, OpenedIsOpen DEF ConnectSucceeds
  <2> QED BY <2>2, <2>4, <2>5, <2>6
<1> QED
  BY <1>4, <1>5 DEF ConnectInstrument, ConnectOpensPartly, ConnectCannotBuild, ConnectSucceeds

\* A rebuild: the same, for the sessions no other live VI shares; and either it
\* stays disconnected, or it holds nothing closed and misses nothing.
LEMMA RebuildPool ==
    ASSUME TypeOK, NEW v \in VIs, RetryDisconnected(v)
    PROVE  /\ pool' \in Pools
           /\ \A d \in Drivers : d \notin Uses[v] => pool'[d] = pool[d]
           /\ \A d \in Drivers : d \notin Exclusive(v, live) /\ pool[d] # "none" => pool'[d] = pool[d]
           /\ \A d \in Drivers : pool'[d] = "none" => pool[d] = "none" \/ d \in Exclusive(v, live)
           /\ \/ /\ broken' = Break(Exclusive(v, live))
                 /\ Fault(v, MaxErrors, "disconnected")
              \/ /\ broken' = [Break(Exclusive(v, live)) EXCEPT ![v] = {}]
                 /\ NoFault(v) \/ Fault(v, 1, "stale")
                 /\ \A d \in Uses[v] : pool'[d] # "none"
<1> DEFINE D == Exclusive(v, live)
           p == Without(pool, D)
<1>1. pool \in Pools /\ Uses[v] \subseteq Drivers /\ live \in SUBSET VIs
  BY DEF TypeOK, Pools
<1>2. D \in SUBSET Drivers /\ D \subseteq Uses[v] /\ Exclusive(v, VIs) \subseteq D
  BY <1>1, ExclusiveIsOwn
<1>3. p \in Pools /\ \A d \in Drivers : p[d] = IF d \in D THEN "none" ELSE pool[d]
  BY <1>1, <1>2, ReleasingCloses
<1>4. Rebuild(v, D, p)
  BY DEF RetryDisconnected
<1>5. /\ Opened(v, p) \in Pools
      /\ \A d \in Drivers : Opened(v, p)[d] = p[d]
             \/ (d \in Uses[v] /\ p[d] = "none" /\ Opened(v, p)[d] = "good")
      /\ \A d \in Uses[v] : Opened(v, p)[d] # "none"
  BY <1>3, OpeningKeeps, OpenedIsOpen
<1>6. \/ pool' \in PartlyOpened(v, p) \/ pool' = Opened(v, p)
      \/ pool' = Without(Opened(v, p), Exclusive(v, VIs))
  BY <1>4 DEF Rebuild
<1>7. /\ pool' \in Pools
      /\ \A d \in Drivers : \/ pool'[d] = p[d]
                            \/ d \in Uses[v] /\ p[d] = "none" /\ pool'[d] = "good"
                            \/ d \in Exclusive(v, VIs) /\ pool'[d] = "none"
  <2>1. CASE pool' \in PartlyOpened(v, p) \/ pool' = Opened(v, p)
    BY <1>3, <2>1, OpeningKeeps
  <2>2. CASE pool' = Without(Opened(v, p), Exclusive(v, VIs))
    <3>1. /\ pool' \in Pools
          /\ \A d \in Drivers :
               pool'[d] = IF d \in Exclusive(v, VIs) THEN "none" ELSE Opened(v, p)[d]
      BY <2>2, <1>2, <1>5, ReleasingCloses
    <3> QED BY <3>1, <1>5
  <2> QED BY <1>6, <2>1, <2>2
<1>8. \/ broken' = Break(D) /\ Fault(v, MaxErrors, "disconnected")
      \/ /\ broken' = [Break(D) EXCEPT ![v] = {}]
         /\ NoFault(v) \/ Fault(v, 1, "stale")
         /\ pool' = Opened(v, p)
  BY <1>4 DEF Rebuild, StaysDisconnected
<1>9. /\ \A d \in Drivers : d \notin Uses[v] => pool'[d] = pool[d]
      /\ \A d \in Drivers : d \notin D /\ pool[d] # "none" => pool'[d] = pool[d]
      /\ \A d \in Drivers : pool'[d] = "none" => pool[d] = "none" \/ d \in D
  BY <1>1, <1>2, <1>3, <1>7
<1> QED BY <1>5, <1>7, <1>8, <1>9
-----------------------------------------------------------------------------
(* The steps, one by one.                                                   *)

\* What each step is, for a case analysis.
LEMMA Steps ==
    ASSUME [Next]_vars
    PROVE  \/ \E d \in Drivers : SwitchOff(d) \/ SwitchOn(d)
           \/ \E v \in VIs : ConnectInstrument(v) \/ DisconnectInstrument(v)
           \/ \E v \in VIs : RetryStale(v) \/ RetryDisconnected(v) \/ AcknowledgeFault(v)
           \/ Poll \/ \E C \in SUBSET VIs : StartRun(C)
           \/ EndRun \/ RecoverFromError
           \/ UNCHANGED vars
BY DEF Next, Operator

\* The error count stays within its limit.
LEMMA CountsBounded ==
    ASSUME TypeOK
    PROVE  \A v \in VIs : Counted(v) \in 0 .. MaxErrors /\ KindOf(Counted(v)) \in Kinds
BY DEF TypeOK, Counted, KindOf, Kinds

\* Releasing sessions breaks live VIs only, and those that use them.
LEMMA BreakFacts ==
    ASSUME TypeOK, NEW D \in SUBSET Drivers
    PROVE  /\ Break(D) \in [VIs -> SUBSET Drivers]
           /\ \A w \in VIs : Break(D)[w] = IF w \in live THEN broken[w] \cup (D \cap Uses[w])
                                           ELSE broken[w]
BY DEF TypeOK, Break

\* The types hold at first and are kept by every step.
LEMMA TypeInit == Init => TypeOK
BY DEF Init, TypeOK, Kinds, Pools

LEMMA TypeStep ==
    ASSUME TypeOK, [Next]_vars
    PROVE  TypeOK'
<1> USE DEF TypeOK
<1>1. ASSUME NEW d \in Drivers, SwitchOff(d) \/ SwitchOn(d)
      PROVE  TypeOK'
  BY <1>1 DEF SwitchOff, SwitchOn, Upset, faults
<1>2. ASSUME NEW v \in VIs, ConnectInstrument(v)
      PROVE  TypeOK'
  <2>1. pool' \in Pools
    BY <1>2, ConnectPool
  <2> QED
    BY <1>2, <2>1 DEF Pools, ConnectInstrument, ConnectOpensPartly, ConnectCannotBuild,
       ConnectIsNotAnswered, ConnectSucceeds, StaysOffline, NoFault, Upset, faults, Kinds
<1>3. ASSUME NEW v \in VIs, DisconnectInstrument(v)
      PROVE  TypeOK'
  <2> DEFINE D == Exclusive(v, live)
  <2>1. D \in SUBSET Drivers
    BY ExclusiveIsOwn
  <2>2. Without(pool, D) \in Pools /\ Break(D) \in [VIs -> SUBSET Drivers]
    BY <2>1, ReleasingCloses, BreakFacts DEF Pools
  <2> QED
    BY <1>3, <2>2 DEF Pools, DisconnectInstrument, Edit, NoFault, Kinds
<1>4. ASSUME NEW v \in VIs, RetryStale(v) \/ AcknowledgeFault(v)
      PROVE  TypeOK'
  BY <1>4 DEF RetryStale, AcknowledgeFault, Edit, NoFault, Fault, Kinds
<1>5. ASSUME NEW v \in VIs, RetryDisconnected(v)
      PROVE  TypeOK'
  <2> DEFINE D == Exclusive(v, live)
  <2>1. D \in SUBSET Drivers
    BY ExclusiveIsOwn
  <2>2. Break(D) \in [VIs -> SUBSET Drivers]
    BY <2>1, BreakFacts
  <2>3. pool' \in Pools /\ broken' \in [VIs -> SUBSET Drivers]
    BY <1>5, <2>2, RebuildPool
  <2>4. NoFault(v) \/ Fault(v, 1, "stale") \/ Fault(v, MaxErrors, "disconnected")
    BY <1>5, RebuildPool
  <2>5. errors' \in [VIs -> 0 .. MaxErrors] /\ fault' \in [VIs -> Kinds] /\ acked' \subseteq VIs
    BY <2>4 DEF NoFault, Fault, Kinds
  <2>6. upsets' \in 0 .. MaxUpsets
    BY <1>5 DEF RetryDisconnected, Rebuild, Upset
  <2> QED BY <1>5, <2>3, <2>5, <2>6 DEF RetryDisconnected, Pools
<1>6. CASE Poll
  BY <1>6, CountsBounded DEF Poll
<1>7. ASSUME NEW C \in SUBSET VIs, StartRun(C)
      PROVE  TypeOK'
  BY <1>7 DEF StartRun, faults
<1>8. CASE EndRun \/ RecoverFromError
  BY <1>8 DEF EndRun, RecoverFromError, faults
<1>9. CASE UNCHANGED vars
  BY <1>9 DEF vars, faults
<1> QED BY <1>1, <1>2, <1>3, <1>4, <1>5, <1>6, <1>7, <1>8, <1>9, Steps
-----------------------------------------------------------------------------
(* Counts, conditions and registries.                                       *)

LEMMA FaultInit == Init => FaultMatchesErrors
BY DEF Init, FaultMatchesErrors, KindOf

LEMMA FaultStep ==
    ASSUME TypeOK, FaultMatchesErrors, [Next]_vars
    PROVE  FaultMatchesErrors'
<1> USE DEF TypeOK, FaultMatchesErrors
<1>1. ASSUME NEW d \in Drivers, SwitchOff(d) \/ SwitchOn(d)
      PROVE  FaultMatchesErrors'
  BY <1>1 DEF SwitchOff, SwitchOn, faults
<1>2. ASSUME NEW v \in VIs, ConnectInstrument(v)
      PROVE  FaultMatchesErrors'
  <2>1. CASE ConnectSucceeds(v)
    BY <2>1 DEF ConnectSucceeds, NoFault, KindOf
  <2>2. CASE ~ConnectSucceeds(v)
    <3>1. v \notin live /\ StaysOffline(v)
      BY <1>2, <2>2 DEF ConnectInstrument, ConnectOpensPartly, ConnectCannotBuild, ConnectIsNotAnswered
    <3> QED BY <3>1 DEF StaysOffline, faults
  <2> QED BY <2>1, <2>2
<1>3. ASSUME NEW v \in VIs, DisconnectInstrument(v)
      PROVE  FaultMatchesErrors'
  BY <1>3, SMTT(40) DEF DisconnectInstrument, NoFault, KindOf
<1>4. ASSUME NEW v \in VIs, RetryStale(v)
      PROVE  FaultMatchesErrors'
  BY <1>4 DEF RetryStale, NoFault, Fault, KindOf
<1>5. ASSUME NEW v \in VIs, RetryDisconnected(v)
      PROVE  FaultMatchesErrors'
  <2>1. NoFault(v) \/ Fault(v, 1, "stale") \/ Fault(v, MaxErrors, "disconnected")
    BY <1>5, RebuildPool
  <2> QED BY <1>5, <2>1 DEF RetryDisconnected, NoFault, Fault, KindOf
<1>6. ASSUME NEW v \in VIs, AcknowledgeFault(v)
      PROVE  FaultMatchesErrors'
  BY <1>6 DEF AcknowledgeFault
<1>7. CASE Poll
  <2>1. \A v \in VIs : v \notin live => KindOf(Counted(v)) = "none"
    BY DEF Counted, KindOf
  <2> QED BY <1>7, <2>1 DEF Poll
<1>8. ASSUME NEW C \in SUBSET VIs, StartRun(C)
      PROVE  FaultMatchesErrors'
  BY <1>8 DEF StartRun, faults
<1>9. CASE EndRun \/ RecoverFromError \/ UNCHANGED vars
  BY <1>9 DEF EndRun, RecoverFromError, vars, faults
<1> QED BY <1>1, <1>2, <1>3, <1>4, <1>5, <1>6, <1>7, <1>8, <1>9, Steps
-----------------------------------------------------------------------------
(* The sessions.                                                            *)

LEMMA SharedInit == Init => SharedIsOpen
BY DEF Init, SharedIsOpen, Reachable

\* Only a driver that one live VI uses alone is ever closed.
LEMMA SharedStep ==
    ASSUME TypeOK, SharedIsOpen, [Next]_vars
    PROVE  SharedIsOpen'
<1> USE DEF TypeOK, SharedIsOpen
<1>1. ASSUME NEW d \in Drivers, SwitchOff(d) \/ SwitchOn(d)
      PROVE  SharedIsOpen'
  BY <1>1 DEF SwitchOff, SwitchOn
<1>2. ASSUME NEW v \in VIs, ConnectInstrument(v)
      PROVE  SharedIsOpen'
  <2>1. \A d \in Drivers : pool'[d] = "none" => pool[d] = "none" \/ d \in Exclusive(v, VIs)
    BY <1>2, ConnectPool
  <2>2. \A w \in VIs : w # v => Exclusive(v, VIs) \cap Uses[w] = {}
    BY ExclusiveIsOwn
  <2>3. CASE ConnectSucceeds(v)
    <3>1. \A d \in Uses[v] : pool'[d] # "none"
      BY <1>2, <2>3, ConnectPool
    <3>2. live' = live \cup {v}
      BY <2>3 DEF ConnectSucceeds
    <3> QED BY <2>1, <2>2, <3>1, <3>2
  <2>4. CASE live' = live /\ v \notin live
    BY <2>1, <2>2, <2>4
  <2> QED
    BY <1>2, <2>3, <2>4 DEF ConnectInstrument, ConnectOpensPartly, ConnectCannotBuild,
       ConnectIsNotAnswered, StaysOffline
<1>3. ASSUME NEW v \in VIs, DisconnectInstrument(v)
      PROVE  SharedIsOpen'
  <2> DEFINE D == Exclusive(v, live)
  <2>1. D \in SUBSET Drivers /\ \A w \in live : w # v => D \cap Uses[w] = {}
    BY ExclusiveIsOwn
  <2>2. \A d \in Drivers : Without(pool, D)[d] = IF d \in D THEN "none" ELSE pool[d]
    BY <2>1, ReleasingCloses DEF Pools
  <2> QED BY <1>3, <2>1, <2>2 DEF DisconnectInstrument
<1>4. ASSUME NEW v \in VIs, RetryDisconnected(v)
      PROVE  SharedIsOpen'
  <2>1. \A w \in live : w # v => Exclusive(v, live) \cap Uses[w] = {}
    BY ExclusiveIsOwn
  <2>2. \A d \in Drivers : pool'[d] = "none" => pool[d] = "none" \/ d \in Exclusive(v, live)
    BY <1>4, RebuildPool
  <2> QED BY <1>4, <2>1, <2>2 DEF RetryDisconnected
<1>5. ASSUME NEW v \in VIs, RetryStale(v) \/ AcknowledgeFault(v)
      PROVE  SharedIsOpen'
  BY <1>5 DEF RetryStale, AcknowledgeFault
<1>6. CASE Poll \/ EndRun \/ RecoverFromError \/ UNCHANGED vars
  BY <1>6 DEF Poll, EndRun, RecoverFromError, vars
<1>7. ASSUME NEW C \in SUBSET VIs, StartRun(C)
      PROVE  SharedIsOpen'
  BY <1>7 DEF StartRun
<1> QED BY <1>1, <1>2, <1>3, <1>4, <1>5, <1>6, <1>7, Steps

LEMMA NobodyInit == Init => NobodyElsesSessionIsClosed
BY DEF Init, NobodyElsesSessionIsClosed, Reachable

LEMMA NobodyStep ==
    ASSUME TypeOK, FaultMatchesErrors, NobodyElsesSessionIsClosed, [Next]_vars
    PROVE  NobodyElsesSessionIsClosed'
<1> USE DEF TypeOK, NobodyElsesSessionIsClosed
<1>1. ASSUME NEW d \in Drivers, SwitchOff(d) \/ SwitchOn(d)
      PROVE  NobodyElsesSessionIsClosed'
  BY <1>1 DEF SwitchOff, SwitchOn, faults
<1>2. ASSUME NEW v \in VIs, ConnectInstrument(v)
      PROVE  NobodyElsesSessionIsClosed'
  <2>1. \A d \in Drivers : pool'[d] = "none" => pool[d] = "none" \/ d \in Exclusive(v, VIs)
    BY <1>2, ConnectPool
  <2>2. \A w \in VIs : w # v => Exclusive(v, VIs) \cap Uses[w] = {}
    BY ExclusiveIsOwn
  <2>3. v \notin live
    BY <1>2 DEF ConnectInstrument
  <2>4. CASE ConnectSucceeds(v)
    <3>1. \A d \in Uses[v] : pool'[d] # "none"
      BY <1>2, <2>4, ConnectPool
    <3>2. /\ live' = live \cup {v} /\ broken' = [broken EXCEPT ![v] = {}]
          /\ fault' = [fault EXCEPT ![v] = "none"]
      BY <2>4 DEF ConnectSucceeds, NoFault
    <3> QED BY <2>1, <2>2, <3>1, <3>2
  <2>5. CASE StaysOffline(v)
    <3>1. live' = live /\ broken' = broken /\ fault' = fault
      BY <2>5 DEF StaysOffline, faults
    <3> QED BY <2>1, <2>2, <2>3, <3>1
  <2> QED
    BY <1>2, <2>4, <2>5 DEF ConnectInstrument, ConnectOpensPartly, ConnectCannotBuild,
       ConnectIsNotAnswered
<1>3. ASSUME NEW v \in VIs, DisconnectInstrument(v)
      PROVE  NobodyElsesSessionIsClosed'
  <2> DEFINE D == Exclusive(v, live)
  <2>1. D \in SUBSET Drivers /\ \A w \in live : w # v => D \cap Uses[w] = {}
    BY ExclusiveIsOwn
  <2>2. \A d \in Drivers : Without(pool, D)[d] = IF d \in D THEN "none" ELSE pool[d]
    BY <2>1, ReleasingCloses DEF Pools
  <2>3. /\ pool' = Without(pool, D) /\ broken' = [Break(D) EXCEPT ![v] = {}]
        /\ live' = live \ {v} /\ fault' = [fault EXCEPT ![v] = "none"]
    BY <1>3 DEF DisconnectInstrument, NoFault
  <2>4. \A w \in live' : broken'[w] = broken[w] /\ fault'[w] = fault[w]
    <3> SUFFICES ASSUME NEW w \in live' PROVE broken'[w] = broken[w] /\ fault'[w] = fault[w]
      OBVIOUS
    <3>1. w \in live /\ w \in VIs /\ w # v /\ D \cap Uses[w] = {}
      BY <2>1, <2>3
    <3>2. Break(D) \in [VIs -> SUBSET Drivers] /\ Break(D)[w] = broken[w] \cup (D \cap Uses[w])
      BY <2>1, <3>1, BreakFacts
    <3>3. Break(D)[w] = broken[w]
      BY <3>1, <3>2
    <3> QED BY <2>3, <3>1, <3>2, <3>3
  <2> QED BY <2>1, <2>2, <2>3, <2>4
<1>4. ASSUME NEW v \in VIs, RetryStale(v)
      PROVE  NobodyElsesSessionIsClosed'
  <2>1. /\ v \in live /\ fault[v] # "disconnected" /\ live' = live /\ broken' = broken /\ pool' = pool
        /\ \A w \in VIs : w # v => fault'[w] = fault[w]
    BY <1>4 DEF RetryStale, NoFault, Fault
  <2> QED BY <2>1
<1>5. ASSUME NEW v \in VIs, RetryDisconnected(v)
      PROVE  NobodyElsesSessionIsClosed'
  <2> DEFINE D == Exclusive(v, live)
  <2>1. D \in SUBSET Drivers /\ D \subseteq Uses[v] /\ \A w \in live : w # v => D \cap Uses[w] = {}
    BY ExclusiveIsOwn
  <2>2. v \in live /\ live' = live
    BY <1>5 DEF RetryDisconnected
  <2>3. \A d \in Drivers : pool'[d] = "none" => pool[d] = "none" \/ d \in D
    BY <1>5, RebuildPool
  <2>4. \A w \in live : w # v => broken'[w] = broken[w] /\ fault'[w] = fault[w]
    <3> SUFFICES ASSUME NEW w \in live, w # v PROVE broken'[w] = broken[w] /\ fault'[w] = fault[w]
      OBVIOUS
    <3>1. w \in VIs /\ D \cap Uses[w] = {}
      BY <2>1
    <3>2. Break(D) \in [VIs -> SUBSET Drivers] /\ Break(D)[w] = broken[w] \cup (D \cap Uses[w])
      BY <2>1, <3>1, BreakFacts
    <3>3. Break(D)[w] = broken[w]
      BY <3>1, <3>2
    <3>4. broken' = Break(D) \/ broken' = [Break(D) EXCEPT ![v] = {}]
      BY <1>5, RebuildPool
    <3>5. NoFault(v) \/ Fault(v, 1, "stale") \/ Fault(v, MaxErrors, "disconnected")
      BY <1>5, RebuildPool
    <3>6. fault'[w] = fault[w]
      BY <3>1, <3>5 DEF NoFault, Fault
    <3> QED BY <3>1, <3>2, <3>3, <3>4, <3>6
  <2>5. \/ broken'[v] = broken[v] \cup D /\ fault'[v] = "disconnected"
        \/ broken'[v] = {} /\ \A d \in Uses[v] : pool'[d] # "none"
    <3>1. Break(D) \in [VIs -> SUBSET Drivers] /\ Break(D)[v] = broken[v] \cup D
      BY <2>1, <2>2, BreakFacts
    <3>2. CASE broken' = Break(D) /\ Fault(v, MaxErrors, "disconnected")
      BY <3>1, <3>2 DEF Fault
    <3>3. CASE /\ broken' = [Break(D) EXCEPT ![v] = {}]
               /\ \A d \in Uses[v] : pool'[d] # "none"
      BY <3>1, <3>3
    <3> QED BY <1>5, <3>2, <3>3, RebuildPool
  <2> QED BY <2>1, <2>2, <2>3, <2>4, <2>5
<1>6. CASE Poll
  <2>1. \A v \in live : broken[v] # {} => fault'[v] = "disconnected"
    <3> SUFFICES ASSUME NEW v \in live, broken[v] # {} PROVE fault'[v] = "disconnected"
      OBVIOUS
    <3>1. v \in VIs /\ errors[v] \in 0 .. MaxErrors /\ KindOf(errors[v]) = "disconnected"
      BY DEF FaultMatchesErrors
    <3>2. errors[v] = MaxErrors
      BY <3>1 DEF KindOf
    <3>3. Counted(v) = MaxErrors
      BY <3>1, <3>2 DEF Counted, Answers
    <3>4. fault'[v] = KindOf(MaxErrors)
      BY <1>6, <3>1, <3>3 DEF Poll
    <3> QED BY <3>4 DEF KindOf
  <2> QED BY <1>6, <2>1 DEF Poll
<1>7. ASSUME NEW v \in VIs, AcknowledgeFault(v)
      PROVE  NobodyElsesSessionIsClosed'
  BY <1>7 DEF AcknowledgeFault
<1>8. CASE EndRun \/ RecoverFromError \/ UNCHANGED vars
  BY <1>8 DEF EndRun, RecoverFromError, vars, faults
<1>9. ASSUME NEW C \in SUBSET VIs, StartRun(C)
      PROVE  NobodyElsesSessionIsClosed'
  BY <1>9 DEF StartRun, faults
<1> QED BY <1>1, <1>2, <1>3, <1>4, <1>5, <1>6, <1>7, <1>8, <1>9, Steps

LEMMA ReleasedInit == Init => ReleasedIsFree
BY SMTT(40) DEF Init, ReleasedIsFree, TypeOK

LEMMA ReleasedStep ==
    ASSUME TypeOK, ReleasedIsFree, [Next]_vars
    PROVE  ReleasedIsFree'
<1> USE DEF TypeOK, ReleasedIsFree
<1>1. ASSUME NEW d \in Drivers, SwitchOff(d) \/ SwitchOn(d)
      PROVE  ReleasedIsFree'
  BY <1>1 DEF SwitchOff, SwitchOn
<1>2. ASSUME NEW v \in VIs, ConnectInstrument(v)
      PROVE  ReleasedIsFree'
  <2>1. \A d \in Drivers : d \notin Uses[v] => pool'[d] = pool[d]
    BY <1>2, ConnectPool
  <2>2. /\ v \in live' \/ "connect_failed" \in tags'[v]
        /\ \A w \in VIs : w # v => tags'[w] = tags[w] /\ (w \in live' <=> w \in live)
    BY <1>2 DEF ConnectInstrument, ConnectOpensPartly, ConnectCannotBuild,
       ConnectIsNotAnswered, ConnectSucceeds, StaysOffline
  <2> QED BY <2>1, <2>2
<1>3. ASSUME NEW v \in VIs, DisconnectInstrument(v)
      PROVE  ReleasedIsFree'
  <2> DEFINE D == Exclusive(v, live)
  <2>1. /\ D \in SUBSET Drivers /\ D \subseteq Uses[v]
        /\ \A d \in Uses[v] \ D : \E w \in live : w # v /\ d \in Uses[w]
    BY ExclusiveIsOwn
  <2>2. \A d \in Drivers : Without(pool, D)[d] = IF d \in D THEN "none" ELSE pool[d]
    BY <2>1, ReleasingCloses DEF Pools
  <2>3. /\ pool' = Without(pool, D) /\ live' = live \ {v}
        /\ \A w \in VIs : w # v => tags'[w] = tags[w]
    BY <1>3 DEF DisconnectInstrument
  <2> QED BY <2>1, <2>2, <2>3
<1>4. ASSUME NEW v \in VIs, RetryDisconnected(v)
      PROVE  ReleasedIsFree'
  <2>1. \A d \in Drivers : d \notin Uses[v] => pool'[d] = pool[d]
    BY <1>4, RebuildPool
  <2> QED BY <1>4, <2>1 DEF RetryDisconnected
<1>5. ASSUME NEW v \in VIs, RetryStale(v) \/ AcknowledgeFault(v)
      PROVE  ReleasedIsFree'
  BY <1>5 DEF RetryStale, AcknowledgeFault
<1>6. CASE Poll \/ EndRun \/ RecoverFromError \/ UNCHANGED vars
  BY <1>6 DEF Poll, EndRun, RecoverFromError, vars
<1>7. ASSUME NEW C \in SUBSET VIs, StartRun(C)
      PROVE  ReleasedIsFree'
  BY <1>7 DEF StartRun
<1> QED BY <1>1, <1>2, <1>3, <1>4, <1>5, <1>6, <1>7, Steps
-----------------------------------------------------------------------------
(* The run.                                                                 *)

LEMMA ClaimsStep ==
    ASSUME TypeOK, ClaimsAreLive, [Next]_vars
    PROVE  ClaimsAreLive'
<1> USE DEF TypeOK, ClaimsAreLive
<1>1. ASSUME NEW d \in Drivers, SwitchOff(d) \/ SwitchOn(d)
      PROVE  ClaimsAreLive'
  BY <1>1 DEF SwitchOff, SwitchOn
<1>2. ASSUME NEW v \in VIs, ConnectInstrument(v) \/ DisconnectInstrument(v)
      PROVE  ClaimsAreLive'
  BY <1>2 DEF ConnectInstrument, DisconnectInstrument, MayRelease
<1>3. ASSUME NEW v \in VIs, RetryStale(v) \/ RetryDisconnected(v) \/ AcknowledgeFault(v)
      PROVE  ClaimsAreLive'
  BY <1>3 DEF RetryStale, RetryDisconnected, AcknowledgeFault
<1>4. CASE Poll \/ EndRun \/ RecoverFromError \/ UNCHANGED vars
  BY <1>4 DEF Poll, EndRun, RecoverFromError, vars
<1>5. ASSUME NEW C \in SUBSET VIs, StartRun(C)
      PROVE  ClaimsAreLive'
  BY <1>5 DEF StartRun
<1> QED BY <1>1, <1>2, <1>3, <1>4, <1>5, Steps

\* No step that leaves a run in flight touches the sessions it claims.
LEMMA RunKept ==
    ASSUME TypeOK, SharedIsOpen, ClaimsAreLive, [Next]_vars,
           engine = "RUN", engine' = "RUN", NEW c \in claims
    PROVE  /\ c \in live' /\ broken'[c] = broken[c]
           /\ \A d \in Uses[c] : pool'[d] = pool[d] \/ pool'[d] = "dead"
<1> USE DEF TypeOK
<1>0. c \in VIs /\ c \in live /\ Uses[c] \subseteq Drivers
  BY DEF ClaimsAreLive
<1> DEFINE Goal == /\ c \in live' /\ broken'[c] = broken[c]
                   /\ \A d \in Uses[c] : pool'[d] = pool[d] \/ pool'[d] = "dead"
<1>1. ASSUME NEW d \in Drivers, SwitchOff(d) \/ SwitchOn(d)
      PROVE  Goal
  BY <1>0, <1>1 DEF SwitchOff, SwitchOn
<1>2. ASSUME NEW v \in VIs, ConnectInstrument(v)
      PROVE  Goal
  BY <1>2 DEF ConnectInstrument
<1>3. ASSUME NEW v \in VIs, DisconnectInstrument(v)
      PROVE  Goal
  <2> DEFINE D == Exclusive(v, live)
  <2>1. v \notin claims /\ D \in SUBSET Drivers /\ D \cap Uses[c] = {}
    BY <1>0, <1>3, ExclusiveIsOwn DEF DisconnectInstrument, MayRelease
  <2>2. \A d \in Drivers : Without(pool, D)[d] = IF d \in D THEN "none" ELSE pool[d]
    BY <2>1, ReleasingCloses DEF Pools
  <2>3. Break(D) \in [VIs -> SUBSET Drivers] /\ Break(D)[c] = broken[c]
    BY <1>0, <2>1, BreakFacts, ZenonT(60)
  <2> QED BY <1>0, <1>3, <2>1, <2>2, <2>3 DEF DisconnectInstrument
<1>4. ASSUME NEW v \in VIs, RetryDisconnected(v)
      PROVE  Goal
  <2> DEFINE D == Exclusive(v, live)
  <2>1. v \in live /\ v # c /\ live' = live
    BY <1>4 DEF RetryDisconnected, MayRebuild
  <2>2. D \in SUBSET Drivers /\ D \cap Uses[c] = {}
    BY <1>0, <2>1, ExclusiveIsOwn
  <2>3. Break(D) \in [VIs -> SUBSET Drivers] /\ Break(D)[c] = broken[c]
    BY <1>0, <2>2, BreakFacts, ZenonT(60)
  <2>4. broken'[c] = broken[c]
    BY <1>0, <1>4, <2>1, <2>3, RebuildPool
  <2>5. \A d \in Uses[c] : pool'[d] = pool[d]
    <3> SUFFICES ASSUME NEW d \in Uses[c] PROVE pool'[d] = pool[d]
      OBVIOUS
    <3>1. CASE d \notin Uses[v]
      BY <1>0, <1>4, <3>1, RebuildPool
    <3>2. CASE d \in Uses[v]
      <4>1. pool[d] # "none" /\ d \notin D
        BY <1>0, <2>1, <2>2, <3>2 DEF SharedIsOpen
      <4> QED BY <1>0, <1>4, <4>1, RebuildPool
    <3> QED BY <3>1, <3>2
  <2> QED BY <1>0, <2>1, <2>4, <2>5
<1>5. ASSUME NEW v \in VIs, RetryStale(v) \/ AcknowledgeFault(v)
      PROVE  Goal
  BY <1>0, <1>5 DEF RetryStale, AcknowledgeFault
<1>6. CASE Poll \/ EndRun \/ RecoverFromError \/ UNCHANGED vars
  BY <1>0, <1>6 DEF Poll, EndRun, RecoverFromError, vars
<1>7. ASSUME NEW C \in SUBSET VIs, StartRun(C)
      PROVE  Goal
  BY <1>7 DEF StartRun
<1> QED BY <1>1, <1>2, <1>3, <1>4, <1>5, <1>6, <1>7, Steps
-----------------------------------------------------------------------------
(* The theorems.                                                            *)

LEMMA IndInit == Init => Ind
<1> SUFFICES ASSUME Init PROVE Ind
  OBVIOUS
<1>1. ClaimsAreLive
  BY DEF Init, ClaimsAreLive
<1> QED BY <1>1, TypeInit, FaultInit, NobodyInit, ReleasedInit, SharedInit DEF Ind

LEMMA IndStep == Ind /\ [Next]_vars => Ind'
BY TypeStep, FaultStep, NobodyStep, ReleasedStep, SharedStep, ClaimsStep DEF Ind

LEMMA IndAlways == Spec => []Ind
BY IndInit, IndStep, PTL DEF Spec

\* The registries, the pool, the counts and the conditions have their types.
THEOREM TypeCorrectness == Spec => []TypeOK
<1>1. Ind => TypeOK
  BY DEF Ind
<1> QED BY <1>1, IndAlways, PTL

\* Whichever command or poll wrote last, the error count, the comm condition, its
\* acknowledgement and the two registries agree.
THEOREM FaultsAgree == Spec => []FaultMatchesErrors
<1>1. Ind => FaultMatchesErrors
  BY DEF Ind
<1> QED BY <1>1, IndAlways, PTL

\* Closing sessions for one VI never takes them from another.
THEOREM SessionsAreNotStolen == Spec => []NobodyElsesSessionIsClosed
<1>1. Ind => NobodyElsesSessionIsClosed
  BY DEF Ind
<1> QED BY <1>1, IndAlways, PTL

\* What the operator has released, and not tried to connect since, holds no session;
\* one that a failed connect or identity check has opened may stay.
THEOREM ReleasedSessionsAreFree == Spec => []ReleasedIsFree
<1>1. Ind => ReleasedIsFree
  BY DEF Ind
<1> QED BY <1>1, IndAlways, PTL

\* No VI loses its session to another's, and what has been released is free.
THEOREM SessionsAreWhereTheyBelong == Spec => []SessionsFollowTheirVIs
<1>1. Ind => SessionsFollowTheirVIs
  BY DEF Ind, SessionsFollowTheirVIs
<1> QED BY <1>1, IndAlways, PTL

\* A run keeps the sessions of what it claims, whatever the operator does beside it.
THEOREM RunsKeepTheirSessions == Spec => RunKeepsItsSessions
<1>1. Ind /\ [Next]_vars =>
        [engine = "RUN" /\ engine' = "RUN" =>
           \A v \in claims :
             /\ v \in live' /\ broken'[v] = broken[v]
             /\ \A d \in Uses[v] : pool'[d] = pool[d] \/ pool'[d] = "dead"]_vars
  BY RunKept DEF Ind
<1> QED BY <1>1, IndAlways, PTL DEF Spec, RunKeepsItsSessions
=============================================================================
