---------------------------- MODULE MCAccounts ----------------------------
(* Module Accounts with an administrator and a student, and names for three accounts at most. *)
EXTENDS Accounts, TLC

CONSTANTS adm, ann, b1, b2

MCNames == {adm, ann}
MCBrowsers == {b1, b2}
MCPerson == (b1 :> adm) @@ (b2 :> ann)
MCVisited == {"root", "grade", "admin", "user", "user_hw_N_eval_M", "user_profile"}
=============================================================================
