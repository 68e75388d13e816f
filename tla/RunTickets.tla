----------------------------- MODULE RunTickets -----------------------------
(***************************************************************************)
(* What the run queue of I2AS promises for the runs put into it: each goes *)
(* one way through the stages below and never back, and at most one at a   *)
(* time has left the queue for the engine.  A run may be refused, and lost *)
(* on its way to an engine that no longer waits for it.                    *)
(***************************************************************************)
CONSTANT Specs

VARIABLE stage

Init == stage = [s \in Specs |-> "new"]

Free == \A s \in Specs : stage[s] \notin {"due", "running"}

Moves(s, from, to) == stage[s] = from /\ stage' = [stage EXCEPT ![s] = to]

Wait(s)   == Moves(s, "new", "waiting")
Take(s)   == Free /\ Moves(s, "waiting", "due")
Start(s)  == Moves(s, "due", "running")
Refuse(s) == Moves(s, "due", "refused")
Lose(s)   == Moves(s, "due", "lost") \/ Moves(s, "waiting", "lost")
End(s)    == Moves(s, "running", "over")

\* One run is removed, or all that are waiting are.
Remove(gone) ==
    /\ \A s \in gone : stage[s] = "waiting"
    /\ stage' = [s \in Specs |-> IF s \in gone THEN "removed" ELSE stage[s]]

Next == \/ \E s \in Specs : Wait(s) \/ Take(s) \/ Start(s) \/ Refuse(s) \/ Lose(s) \/ End(s)
        \/ \E gone \in SUBSET Specs : Remove(gone)

Spec == Init /\ [][Next]_stage
=============================================================================
