-------------------------- MODULE MCAnalysisRunner --------------------------
(* An instance of AnalysisRunner for TLC.                                  *)
EXTENDS AnalysisRunner, TLC

CONSTANTS a1, a2, s1, runA, runB, e1, e2

\* Two recipes over one run, and a script over a run of another experiment.
MCRequests == {a1, a2, s1}
MCScripts  == {s1}
MCRunOf    == a1 :> runA @@ a2 :> runA @@ s1 :> runB
MCHomeOf   == runA :> e1 @@ runB :> e2
=============================================================================
