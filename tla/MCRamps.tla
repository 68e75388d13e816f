------------------------------ MODULE MCRamps ------------------------------
(* Instances of Ramps for TLC.                                             *)
EXTENDS Ramps, TLC

CONSTANTS magnet, other

\* A magnet of two segments, and beside it a temperature controller or a stage.
MCVIs  == {magnet, other}
MCKinds == magnet :> {"magnet"} @@ other :> {"heater", "stage"}
MCTop  == magnet :> 2 @@ other :> 1
MCGoals == magnet :> {0, 2} @@ other :> {1}
MCFlagged == {magnet}
=============================================================================
