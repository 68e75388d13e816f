------------------------------ MODULE Station ------------------------------
(***************************************************************************)
(* The connections of a station: a pool of driver sessions that Virtual    *)
(* Instruments share by configuration, the offline registry, the comm      *)
(* conditions that polling records, and the operator's Connect, Disconnect,*)
(* Retry and Acknowledge (i2as/core/station.py and the Orchestrator's      *)
(* gates in front of it, i2as/core/orchestrator.py).                       *)
(*                                                                         *)
(* A VI holds the driver objects it was built with.  When one is closed    *)
(* the VI keeps it: broken[v] are the drivers of v whose object is closed, *)
(* although the pool may hold a newer one.  A session whose instrument was *)
(* switched off may be dead for good.  Of the engine there is whether a    *)
(* run is in flight and what it claims.                                    *)
(***************************************************************************)
EXTENDS Naturals, FiniteSets

CONSTANTS VIs, Drivers,
          Uses,        \* the driver aliases of each VI's build recipe
          MaxErrors,   \* max_vi_errors
          MaxUpsets,   \* bound: faults of the hardware and of constructors
          MaxEdits     \* bound: disconnects, acknowledges, retries of a stale VI

ASSUME UsesAssumption == Uses \in [VIs -> SUBSET Drivers] /\ \A v \in VIs : Uses[v] # {}
ASSUME ErrorsAssumption == MaxErrors \in Nat \ {0, 1}
ASSUME BoundsAssumption == MaxUpsets \in Nat /\ MaxEdits \in Nat

VARIABLES
    on,       \* the instruments that are switched on
    pool,     \* _drivers: of each alias no session, a good or a dead one
    live,     \* the VIs in _virtual_instruments; the others are offline
    broken,   \* of each VI the drivers whose object it holds is closed
    tags,     \* of each offline VI the tags of its OfflineInstrument
    errors,   \* _error_counts
    fault,    \* the kind of each VI's comm condition, or "none"
    acked,    \* the VIs whose comm condition is acknowledged
    engine,   \* IDLE, RUN or ERROR
    claims,   \* the VIs the run in flight claims
    upsets, edits   \* counters of the bounds

faults == <<errors, fault, acked>>
vars   == <<on, pool, live, broken, tags, faults, engine, claims, upsets, edits>>
-----------------------------------------------------------------------------
Kinds == {"none", "stale", "disconnected"}

\* Whether an instrument would answer the driver objects of this pool ...
Reachable(v, p) == \A d \in Uses[v] : d \in on /\ p[d] = "good"
\* ... and whether it answers the VI as it stands.
Answers(v) == broken[v] = {} /\ Reachable(v, pool)

\* _exclusive_aliases: v's drivers that none of the others needs.
Exclusive_Mine(v, others) == Uses[v]
Exclusive(v, others) == Uses[v] \ UNION {Uses[w] : w \in others \ {v}}

Without(p, D) == [d \in Drivers |-> IF d \in D THEN "none" ELSE p[d]]
With(p, D)    == [d \in Drivers |-> IF d \in D THEN "good" ELSE p[d]]
Missing(v, p) == {d \in Uses[v] : p[d] = "none"}
\* The pools after v's missing drivers were constructed up to one that is off.
PartlyOpened(v, p) ==
    {With(p, D) : D \in {S \in SUBSET Missing(v, p) : \E d \in Missing(v, p) \ S : d \notin on}}
Opened(v, p) == With(p, Missing(v, p))

\* _release_drivers, as the VIs that stay live see it.
Break(D) == [v \in VIs |-> IF v \in live THEN broken[v] \cup (D \cap Uses[v]) ELSE broken[v]]

NoFault_KeepsAcknowledged(v) ==
    /\ errors' = [errors EXCEPT ![v] = 0]
    /\ fault' = [fault EXCEPT ![v] = "none"]
    /\ UNCHANGED acked
NoFault(v) ==
    /\ errors' = [errors EXCEPT ![v] = 0]
    /\ fault' = [fault EXCEPT ![v] = "none"]
    /\ acked' = acked \ {v}
Fault(v, n, kind) ==
    /\ errors' = [errors EXCEPT ![v] = n]
    /\ fault' = [fault EXCEPT ![v] = kind]
    /\ UNCHANGED acked

\* build_station: a driver is constructed or not, a VI is live when all of its
\* drivers were and it answered the identity check.
Init ==
    /\ on \in SUBSET Drivers
    /\ pool \in [Drivers -> {"none", "good"}]
    /\ \A d \in on : pool[d] = "good"
    /\ live = {v \in VIs : Reachable(v, pool)}
    /\ broken = [v \in VIs |-> {}]
    /\ tags = [v \in VIs |-> IF v \in live THEN {} ELSE {"connect_failed"}]
    /\ errors = [v \in VIs |-> 0] /\ fault = [v \in VIs |-> "none"] /\ acked = {}
    /\ engine = "IDLE" /\ claims = {}
    /\ upsets = 0 /\ edits = 0
-----------------------------------------------------------------------------
(* The hardware.                                                           *)

Upset == upsets < MaxUpsets /\ upsets' = upsets + 1

SwitchOff(d) ==
    /\ Upset
    /\ d \in on /\ on' = on \ {d}
    /\ pool[d] # "none" /\ pool' \in {pool, [pool EXCEPT ![d] = "dead"]}
    /\ UNCHANGED <<live, broken, tags, faults, engine, claims, edits>>

SwitchOn(d) ==
    /\ d \notin on /\ on' = on \cup {d}
    /\ UNCHANGED <<pool, live, broken, tags, faults, engine, claims, upsets, edits>>
-----------------------------------------------------------------------------
(* Connect.                                                                *)

StaysOffline(v) ==
    /\ tags' = [tags EXCEPT ![v] = @ \cup {"connect_failed"}]
    /\ UNCHANGED <<live, broken, faults>>

\* A driver does not open: the ones before it stay in the pool.
ConnectOpensPartly(v) ==
    /\ pool' \in PartlyOpened(v, pool)
    /\ StaysOffline(v) /\ UNCHANGED upsets

\* The VI's constructor raises: nothing is released.
ConnectCannotBuild(v) ==
    /\ Upset
    /\ pool' = Opened(v, pool)
    /\ StaysOffline(v)

\* The identity check fails: what no other configured VI names is released.
ConnectIsNotAnswered_KeepsSession(v) ==
    /\ ~Reachable(v, Opened(v, pool))
    /\ pool' = Opened(v, pool)
    /\ StaysOffline(v) /\ UNCHANGED upsets
ConnectIsNotAnswered(v) ==
    /\ ~Reachable(v, Opened(v, pool))
    /\ pool' = Without(Opened(v, pool), Exclusive(v, VIs))
    /\ StaysOffline(v) /\ UNCHANGED upsets

ConnectSucceeds(v) ==
    /\ Reachable(v, Opened(v, pool))
    /\ pool' = Opened(v, pool)
    /\ live' = live \cup {v}
    /\ broken' = [broken EXCEPT ![v] = {}]
    /\ tags' = [tags EXCEPT ![v] = {}]
    /\ NoFault(v) /\ UNCHANGED upsets

ConnectInstrument(v) ==
    /\ engine = "IDLE" /\ v \notin live
    /\ \/ ConnectOpensPartly(v) \/ ConnectCannotBuild(v)
       \/ ConnectIsNotAnswered(v) \/ ConnectSucceeds(v)
    /\ UNCHANGED <<on, engine, claims, edits>>
-----------------------------------------------------------------------------
(* Disconnect.                                                             *)

Edit == edits < MaxEdits /\ edits' = edits + 1

\* _manual_action_admission, where it is about faults and claims.
MayRelease(v) == fault[v] = "none" /\ (engine = "IDLE" \/ (engine = "RUN" /\ v \notin claims))

DisconnectInstrument(v) ==
    /\ Edit /\ v \in live /\ MayRelease(v)
    /\ live' = live \ {v}
    /\ tags' = [tags EXCEPT ![v] = {"operator"}]
    /\ LET D == Exclusive(v, live) IN
         pool' = Without(pool, D) /\ broken' = [Break(D) EXCEPT ![v] = {}]
    /\ NoFault(v)
    /\ UNCHANGED <<on, engine, claims, upsets>>
-----------------------------------------------------------------------------
(* Retry.                                                                  *)

\* Below the threshold the session is kept and polled once.
RetryStale(v) ==
    /\ Edit /\ v \in live /\ fault[v] # "disconnected"
    /\ IF Answers(v) THEN NoFault(v) ELSE Fault(v, 1, "stale")
    /\ UNCHANGED <<on, pool, live, broken, tags, engine, claims, upsets>>

StaysDisconnected(v, D) == broken' = Break(D) /\ Fault(v, MaxErrors, "disconnected")

\* _retry_disconnected: release the sessions no live VI shares, open what is
\* missing, build the VI again, check its identity, poll it.
Rebuild(v, D, p) ==
    \/ /\ pool' \in PartlyOpened(v, p)
       /\ StaysDisconnected(v, D) /\ UNCHANGED upsets
    \/ /\ Upset
       /\ pool' = Opened(v, p)
       /\ StaysDisconnected(v, D)
    \/ /\ ~Reachable(v, Opened(v, p))
       /\ pool' = Without(Opened(v, p), Exclusive(v, VIs))
       /\ StaysDisconnected(v, D) /\ UNCHANGED upsets
    \/ /\ Reachable(v, Opened(v, p))
       /\ pool' = Opened(v, p)
       /\ broken' = [Break(D) EXCEPT ![v] = {}]
       /\ \/ NoFault(v) /\ UNCHANGED upsets
          \/ Upset /\ Fault(v, 1, "stale")

MayRebuild_AtAnyTime(v) == fault[v] = "disconnected"
MayRebuild(v) == fault[v] = "disconnected" /\ ~(engine = "RUN" /\ v \in claims)

RetryDisconnected(v) ==
    /\ v \in live /\ MayRebuild(v)
    /\ LET D == Exclusive(v, live) IN Rebuild(v, D, Without(pool, D))
    /\ UNCHANGED <<on, live, tags, engine, claims, edits>>

AcknowledgeFault(v) ==
    /\ Edit /\ v \in live /\ fault[v] # "none" /\ acked' = acked \cup {v}
    /\ UNCHANGED <<on, pool, live, broken, tags, errors, fault, engine, claims, upsets>>
-----------------------------------------------------------------------------
(* The tick, and runs.                                                     *)

Counted(v) ==
    IF v \notin live \/ Answers(v) THEN 0
    ELSE IF errors[v] < MaxErrors THEN errors[v] + 1 ELSE MaxErrors
KindOf(n) == IF n = 0 THEN "none" ELSE IF n < MaxErrors THEN "stale" ELSE "disconnected"

\* get_state polls every live VI; a run that watches one with a fault fails.
\* (The count stops at MaxErrors here.)
Poll ==
    /\ errors' = [v \in VIs |-> Counted(v)]
    /\ fault' = [v \in VIs |-> KindOf(Counted(v))]
    /\ acked' = {v \in acked : fault'[v] # "none"}
    /\ IF engine = "RUN" /\ \E v \in claims : fault'[v] # "none"
       THEN engine' = "ERROR" /\ claims' = {}
       ELSE UNCHANGED <<engine, claims>>
    /\ UNCHANGED <<on, pool, live, broken, tags, upsets, edits>>

StartRun(C) ==
    /\ engine = "IDLE" /\ C # {} /\ C \subseteq live
    /\ engine' = "RUN" /\ claims' = C
    /\ UNCHANGED <<on, pool, live, broken, tags, faults, upsets, edits>>

EndRun ==
    /\ engine = "RUN" /\ engine' = "IDLE" /\ claims' = {}
    /\ UNCHANGED <<on, pool, live, broken, tags, faults, upsets, edits>>

RecoverFromError ==
    /\ engine = "ERROR" /\ engine' = "IDLE"
    /\ UNCHANGED <<on, pool, live, broken, tags, faults, claims, upsets, edits>>

Operator(v) ==
    \/ ConnectInstrument(v) \/ DisconnectInstrument(v)
    \/ RetryStale(v) \/ RetryDisconnected(v) \/ AcknowledgeFault(v)

Next ==
    \/ \E d \in Drivers : SwitchOff(d) \/ SwitchOn(d)
    \/ \E v \in VIs : Operator(v)
    \/ Poll \/ \E C \in SUBSET VIs : StartRun(C)
    \/ EndRun \/ RecoverFromError

Spec == Init /\ [][Next]_vars

\* The tick runs; runs end; an operator tries again what has failed.
Fairness ==
    /\ WF_vars(Poll) /\ WF_vars(EndRun) /\ WF_vars(RecoverFromError)
    /\ \A v \in VIs : SF_vars(ConnectInstrument(v)) /\ SF_vars(RetryDisconnected(v))
FairSpec == Spec /\ Fairness
-----------------------------------------------------------------------------
\* Every variable has its type.
TypeOK ==
    /\ on \subseteq Drivers /\ pool \in [Drivers -> {"none", "good", "dead"}]
    /\ live \subseteq VIs /\ broken \in [VIs -> SUBSET Drivers]
    /\ tags \in [VIs -> SUBSET {"operator", "connect_failed"}]
    /\ errors \in [VIs -> 0 .. MaxErrors] /\ fault \in [VIs -> Kinds]
    /\ acked \subseteq VIs
    /\ engine \in {"IDLE", "RUN", "ERROR"} /\ claims \subseteq VIs
    /\ upsets \in 0 .. MaxUpsets /\ edits \in 0 .. MaxEdits

\* The error count, the comm condition, its acknowledgement and the two
\* registries tell the same story, whichever of the poll, a retry, a connect or
\* a disconnect wrote last.
FaultMatchesErrors ==
    \A v \in VIs :
      /\ fault[v] = KindOf(errors[v])
      /\ v \in acked => fault[v] # "none"
      /\ v \notin live => fault[v] = "none"
      /\ (v \in live) = (tags[v] = {})

\* Closing sessions for one VI never leaves another with a closed one: a live VI
\* holds a closed driver only after its own failed rebuild, which its comm
\* condition shows, and no session it needs is missing from the pool otherwise
\* (_exclusive_aliases, "disconnecting one instrument must never close a session
\* another live instrument is using").
NobodyElsesSessionIsClosed ==
    \A v \in live :
      /\ broken[v] # {} => fault[v] = "disconnected"
      /\ \A d \in Uses[v] : pool[d] = "none" => d \in broken[v]

\* An instrument whose VIs the operator has all released, and not tried to
\* connect since, holds no session: it is free for its front panel.
ReleasedIsFree ==
    \A d \in Drivers :
      (\A v \in VIs : d \in Uses[v] => v \notin live /\ tags[v] = {"operator"})
      /\ (\E v \in VIs : d \in Uses[v]) => pool[d] = "none"

\* No VI loses its session to another's, and what has been released is free. Sessions
\* that a failed connect or a failed identity check leaves behind are not spoken of.
SessionsFollowTheirVIs == NobodyElsesSessionIsClosed /\ ReleasedIsFree

\* What the operator does while a run is in flight leaves the sessions of the
\* VIs it claims alone, also when another VI shares them: only the hardware can
\* take them away (disconnect's claim gate, retry_fault's claim gate).
RunKeepsItsSessions ==
    [][engine = "RUN" /\ engine' = "RUN" =>
         \A v \in claims :
           /\ v \in live' /\ broken'[v] = broken[v]
           /\ \A d \in Uses[v] : pool'[d] = pool[d] \/ pool'[d] = "dead"]_vars

\* A VI that shares no driver is polled again without a fault, some time after
\* its instruments have been switched on for good, if the operator keeps trying:
\* from the offline registry by Connect, from a fault by the poll or by Retry.
Alone == {v \in VIs : Exclusive(v, VIs) = Uses[v]}
RecoversAlone ==
    \A v \in Alone : <>[](Uses[v] \subseteq on) => <>[](v \in live /\ fault[v] = "none")
=============================================================================
