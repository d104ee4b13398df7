------------------------------ MODULE MCShifts ------------------------------
(* Two slots of the same time, one of them of a template, two couriers, one *)
(* near the store and one within the second wave only.                      *)
EXTENDS Shifts

CONSTANTS near, far, s1, s2, p1, p2

MCOverlaps == {<<s1, s2>>, <<s2, s1>>}
MCSlotOf == [p \in Positions |-> IF p = p1 THEN s1 ELSE s2]
MCReach == [c \in Couriers |-> IF c = near THEN 1 ELSE 2]
=============================================================================
