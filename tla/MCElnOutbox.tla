---------------------------- MODULE MCElnOutbox ----------------------------
(***************************************************************************)
(* Small notebooks for TLC: two runs share a figure, so that what one      *)
(* publish uploads another finds in the ledger.                            *)
(***************************************************************************)
EXTENDS ElnOutbox, TLC

CONSTANTS p1, p2, r1, r2, f1, f2, i1, n1, n2, n3, n4, ext

SharedFigures == [r \in Runs |-> IF r = r2 THEN {f1, f2} \cap Figures ELSE {f1}]
Symmetry == Permutations(Pages \ {Existing})
=============================================================================
