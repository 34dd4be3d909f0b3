---------------------------- MODULE MCEvaluation ----------------------------
(* Small instances of Evaluation: two items, a calendar of a few instants. *)
EXTENDS Evaluation

CONSTANTS t0, t1

MCCalendar == [open |-> 0, due |-> 1, eval |-> 2]

\* Due as soon as it opens.
MCShortCalendar == [open |-> 0, due |-> 0, eval |-> 1]

MCGradedTypes == <<"Boolean", "Scale">>

MCMixedTypes == <<"Informational", "Boolean">>

MCGradedValues == <<1, 2>>

MCMixedValues == <<0, 1>>
=============================================================================
