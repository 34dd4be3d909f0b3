--------------------------- MODULE MCAssignments ---------------------------
(* Module Assignments with two administrators, who are interchangeable. *)
EXTENDS Assignments, TLC

CONSTANTS a1, a2

MCAdmins == {a1, a2}
MCDates == [open |-> 0, due |-> 1, eval |-> 2]
Symmetry == Permutations(MCAdmins)
=============================================================================
