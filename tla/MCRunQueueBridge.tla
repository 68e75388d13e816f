-------------------------- MODULE MCRunQueueBridge --------------------------
(***************************************************************************)
(* Two runs and a client that changes its queue a few times.               *)
(***************************************************************************)
EXTENDS RunQueueBridge

CONSTANTS s1, s2
=============================================================================
