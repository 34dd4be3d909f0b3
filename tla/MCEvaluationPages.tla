------------------------- MODULE MCEvaluationPages -------------------------
(* A yes/no question, and an informational item that is graded             *)
(* automatically.                                                          *)
EXTENDS EvaluationPages

MCType == <<"Boolean", "Informational">>

MCValue == <<1, 0>>
=============================================================================
