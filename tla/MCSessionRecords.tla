---------------------------- MODULE MCSessionRecords ----------------------------
(* Instances of SessionRecords for TLC. *)
EXTENDS SessionRecords
First   == {1}
Default == {[attended |-> TRUE, bounded |-> FALSE]}
=============================================================================
