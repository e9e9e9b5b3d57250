------------------------------ MODULE MCSlots ------------------------------
(* Small instances of Slots for TLC. *)
EXTENDS Slots

CONSTANTS t1, t2, t3

MCNone  == {}
MCTwo   == {t1, t2}
MCThree == {t1, t2, t3}
MCReserve2  == [t \in Task |-> 2]
MCReserveMixed == [t \in Task |-> IF t = t1 THEN 1 ELSE 2]
MCSymmetry == Permutations(Task)

=============================================================================
