---------------------------- MODULE RunLifecycle ----------------------------
(***************************************************************************)
(* What the engine of I2AS promises about the runs it is given: at most    *)
(* one is live, queued ones start in the order they were queued, and each  *)
(* meets one fate and is never seen again.  A run may be refused at its    *)
(* start, and lost if it leaves a queue when no experiment is open.        *)
(***************************************************************************)
EXTENDS Sequences

CONSTANTS Runs, None

VARIABLES
    live,    \* the run in flight, or None
    waiting, \* the queued runs, in order
    fate     \* what became of each run so far

vars == <<live, waiting, fate>>

Init == live = None /\ waiting = <<>> /\ fate = [r \in Runs |-> "fresh"]

Becomes(r, f) == fate' = [fate EXCEPT ![r] = f]

Queue(r) ==
    /\ fate[r] = "fresh"
    /\ Becomes(r, "queued") /\ waiting' = Append(waiting, r)
    /\ live' = live

\* The next run comes from the queue, or else is a new one.
Comes(r) ==
    \/ waiting # <<>> /\ r = Head(waiting) /\ waiting' = Tail(waiting)
    \/ fate[r] = "fresh" /\ waiting' = waiting

Start(r) ==
    /\ live = None /\ Comes(r)
    /\ live' = r /\ Becomes(r, "running")

Refuse(r) ==
    /\ live = None /\ Comes(r)
    /\ \E f \in {"rejected", "lost"} : Becomes(r, f)
    /\ live' = None

End ==
    /\ live # None
    /\ \E f \in {"done", "aborted", "failed"} : Becomes(live, f)
    /\ live' = None /\ waiting' = waiting

Next == End \/ \E r \in Runs : Queue(r) \/ Start(r) \/ Refuse(r)

Spec == Init /\ [][Next]_vars
=============================================================================
