------------------------------ MODULE MCFiles ------------------------------
(* Two students, of whom one may have work for two assignments, and an      *)
(* administrator; a source file and a log.                                 *)
EXTENDS Files

MCHomework == {<<1, 1>>, <<2, 1>>, <<1, 2>>}

MCMatches == [n \in Names |-> IF n = "hw.log" THEN {"log"} ELSE {"text"}]
=============================================================================
