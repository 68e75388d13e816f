---------------------------- MODULE MCMeasurement ----------------------------
(***************************************************************************)
(* Short sweeps for TLC, without loops, with a static slot on the path, and *)
(* with a loop on the path around one on the meter.  The thinning of a     *)
(* sweep for a probe is evaluated on its own, for sweeps of up to 12.      *)
(***************************************************************************)
EXTENDS Measurement

Slot(v, values) == [vi |-> v, n |-> values]
Whole(kind)     == [kind |-> kind, probe |-> None, slot |-> <<NoSlot, NoSlot>>]
OnePoint(s1, s2) == [kind |-> "field", probe |-> 1, slot |-> <<s1, s2>>]

MCPlans == {Whole("field"), Whole("imaging"), Whole("temperature"),
            OnePoint(Slot("path", 1), Slot("meter", 1)),
            OnePoint(Slot("path", 2), Slot("meter", 2))}
Imaging == {Whole("imaging")}

\* A probe keeps the first and the last point, and takes the others in order and
\* evenly: two gaps differ by one at most.
ASSUME ProbesAreEven ==
    \A total \in 2 .. 12 : \A n \in 2 .. total :
        LET kept == ProbeSubsample([i \in 1 .. total |-> i], n)
            gap(i) == kept[i + 1] - kept[i]
        IN  /\ Len(kept) = n /\ kept[1] = 1 /\ kept[n] = total
            /\ \A i, j \in 1 .. n - 1 : gap(i) >= 1 /\ gap(i) <= gap(j) + 1
=============================================================================
