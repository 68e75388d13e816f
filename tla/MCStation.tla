----------------------------- MODULE MCStation -----------------------------
(* Instances of Station for TLC.                                           *)
EXTENDS Station, TLC

CONSTANTS magnet, source, meter, psu, bus

\* A magnet alone on its supply; two VIs that share the source on one bus.
MCVIs     == {magnet, source, meter}
MCDrivers == {psu, bus}
MCUses    == magnet :> {psu} @@ source :> {bus} @@ meter :> {bus}
=============================================================================
