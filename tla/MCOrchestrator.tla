--------------------------- MODULE MCOrchestrator ---------------------------
(***************************************************************************)
(* Small stations and runs for TLC.  r1 is a sweep: it sets the magnet and *)
(* the cryostat, then steps the magnet, and claims everything.  r2 is a    *)
(* time series: it ramps nothing and claims only what it reads.            *)
(***************************************************************************)
EXTENDS Orchestrator

CONSTANTS magnet, cryo, r1, r2, a1

MCRegistry == <<magnet, cryo>>
OneVI      == <<magnet>>

SweepAndSeries == [r \in Runs |-> IF r = r2 THEN {{}} ELSE {{magnet}, VIs}]
\* A run that ramps what it claims, or only reads it.
SetsOrReads    == [r \in Runs |-> {{}, VIs}]
SweepsOnly     == [r \in Runs |-> {{magnet}}]

\* Shipped procedures park nothing; the framework allows them to.
NoStandbyTargets == [r \in Runs |-> {{}}]
MayPark          == [r \in Runs |-> IF r = r2 THEN {{}} ELSE {{}, {magnet}}]

MCClaims  == [r \in Runs |-> IF r = r2 THEN {cryo} \cap VIs ELSE None]
ClaimsVIs == [r \in Runs |-> VIs]

ToleratesNone   == [r \in Runs |-> {}]
SeriesTolerates == [r \in Runs |-> IF r = r2 THEN Flags ELSE {}]
\* Flag 1 concerns the cryostat where there is one.
MCAffects == [f \in Flags |-> IF f = 1 /\ cryo \in VIs THEN {cryo} ELSE {magnet}]
=============================================================================
