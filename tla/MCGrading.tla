----------------------------- MODULE MCGrading -----------------------------
(* Small instances of Grading: two sessions of two graders. *)
EXTENDS Grading, TLC

CONSTANTS s1, s2, i1, i2

TwoGraders == [s \in {s1, s2} |-> s]

\* Graders are named as their sessions are, so both are permuted together.
Symmetry == Permutations({s1, s2}) \cup Permutations({i1, i2})
=============================================================================
