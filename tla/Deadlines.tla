------------------------------ MODULE Deadlines ------------------------------
(***************************************************************************)
(* The calendar of one submission: which phase it is in, given the dates  *)
(* of its assignment, its own (possibly extended) dates, the present time, *)
(* and whether its self evaluation has been started.  Pure operators only; *)
(* model/Submission.C computes them afresh on every request.               *)
(***************************************************************************)
EXTENDS Integers

\* The dates of an assignment and the two dates a submission carries itself.
AssignmentDates == [open : Nat, due : Nat, eval : Nat]
SubmissionDates == [due : Nat, eval : Nat]

Later(a, b) == IF a < b THEN b ELSE a

EffectiveDueDate(asgn, sub) == Later(sub.due, asgn.due)

EffectiveEvalDate(asgn, sub) == Later(sub.eval, asgn.eval)

Statuses == {"future", "open", "extended", "overtime",
             "self_eval", "extended_eval", "closed"}

\* Mutant: handing in stays open although the self evaluation was started.
OvertimeAlways(status, started) == "overtime"

OvertimeOr(status, started) == IF started THEN status ELSE "overtime"

\* Mutant: the submission's own due date is looked at too late.
StatusExtendedLast(now, asgn, sub, started) ==
  IF now <= asgn.open THEN "future"
  ELSE IF now <= asgn.due THEN "open"
  ELSE IF now <= asgn.eval THEN OvertimeOr("self_eval", started)
  ELSE IF now <= sub.due THEN "extended"
  ELSE IF now <= sub.eval THEN OvertimeOr("extended_eval", started)
  ELSE "closed"

\* Mutant: the submission's own self evaluation date is not looked at.
StatusIgnoringExtension(now, asgn, sub, started) ==
  IF now <= asgn.open THEN "future"
  ELSE IF now <= asgn.due THEN "open"
  ELSE IF now <= sub.due THEN "extended"
  ELSE IF now <= asgn.eval THEN OvertimeOr("self_eval", started)
  ELSE "closed"

\* Each date closes its phase: a date that comes early merely skips one.
Status(now, asgn, sub, started) ==
  IF now <= asgn.open THEN "future"
  ELSE IF now <= asgn.due THEN "open"
  ELSE IF now <= sub.due THEN "extended"
  ELSE IF now <= asgn.eval THEN OvertimeOr("self_eval", started)
  ELSE IF now <= sub.eval THEN OvertimeOr("extended_eval", started)
  ELSE "closed"

SubmitStatuses == {"open", "extended", "overtime"}

EvalStatuses == {"overtime", "self_eval", "extended_eval"}

\* How far along the calendar a status is.
Phase(status) ==
  CASE status = "future"        -> 0
    [] status = "open"          -> 1
    [] status = "extended"      -> 2
    [] status = "overtime"      -> 3
    [] status = "self_eval"     -> 4
    [] status = "extended_eval" -> 5
    [] status = "closed"        -> 6
=============================================================================
