----------------------------- MODULE Evaluation -----------------------------
(***************************************************************************)
(* The evaluation of one submission: its owners' responses to the items of *)
(* the assignment (Self_eval), the grades given to those responses         *)
(* (Grader_eval), and the calendar that says who may do what.              *)
(*                                                                         *)
(* One action is one database transaction: a click in the web interface, a *)
(* request to the REST interface, or a maintenance script.  The session    *)
(* that runs it has just loaded what it reads; module Grading takes up     *)
(* sessions that act on what they loaded earlier.                          *)
(***************************************************************************)
EXTENDS Deadlines, FiniteSetsExt

CONSTANTS
  None,          \* no such row
  NumItems,      \* the items of the assignment are numbered 1 .. NumItems
  Type,          \* the type of each item
  Value,         \* the relative value of each item
  Assignment,    \* the dates of the assignment
  FullScore,     \* scores are counted in FullScore-ths of a whole point
  RewardForNo,   \* the configured reward for an honest "no"
  Texts,         \* explanations a student may write
  DefaultText,   \* the empty explanation
  HoldTime,      \* how long a grader's editing hold is respected
  ExtendWindow,  \* autoextend looks this far ahead (12 hours)
  ExtendBy,      \* and extends by this much (24 hours)
  Dates,         \* dates an administrator may give the submission
  MaxTime        \* BOUND: the clock and the extensions stop here

Items == 1..NumItems

ItemTypes == {"Boolean", "Scale", "Informational"}

Scores == 0..FullScore

Responses == [score : Scores, text : Texts]

GraderStatuses == {"editing", "held_back", "ready", "regrade"}

\* by: whether the grader on record is one of the owners or a staff member.
\* stamp: when an editing hold was last touched; 0 in every other status,
\* where the code never reads it.
Grades == [score : Scores, status : GraderStatuses,
           by : {"student", "staff"}, stamp : Nat]

ASSUME ConstantsAssumption ==
  /\ NumItems \in Nat
  /\ Type \in [Items -> ItemTypes]
  /\ Value \in [Items -> Nat]
  /\ Assignment \in AssignmentDates
  /\ FullScore \in Nat \ {0}
  /\ RewardForNo \in Scores
  /\ DefaultText \in Texts
  /\ HoldTime \in Nat /\ ExtendWindow \in Nat /\ ExtendBy \in Nat
  /\ Dates \subseteq Nat
  /\ MaxTime \in Nat
  /\ None \notin Responses \cup Grades

VARIABLES
  now,         \* the clock
  dates,       \* the submission's own due_date and eval_date
  selfEval,    \* the response to each item, or None
  graderEval,  \* the grade of each response, or None
  unseen       \* history: items whose response its owners changed after a
               \* member of the staff graded it

vars == <<now, dates, selfEval, graderEval, unseen>>

-----------------------------------------------------------------------------
Answered == {i \in Items : selfEval[i] # None}

Graded == {i \in Items : graderEval[i] # None}

ReadyGrades == {i \in Graded : graderEval[i].status = "ready"}

IsInformational(i) == Type[i] = "Informational"

IsGradedAutomatically(i) == IsInformational(i) /\ Value[i] = 0

HasStartedSelfEval == 1 \in Answered

SubmissionStatus == Status(now, Assignment, dates, HasStartedSelfEval)

InSubmitPeriod == SubmissionStatus \in SubmitStatuses

InEvalPeriod == SubmissionStatus \in EvalStatuses

\* Mutant: the period is not asked for.
CanEvalAnytime(actor) == TRUE

CanEval(actor) == actor = "staff" \/ InEvalPeriod

EvalStatus ==
  IF Cardinality(Answered) = NumItems THEN "complete"
  ELSE IF SubmissionStatus = "closed" THEN "overdue"
  ELSE IF HasStartedSelfEval THEN "started"
  ELSE "empty"

\* Mutant: grades that are held back or being edited count as well.
IsReadyAnyStatus ==
  /\ NumItems # 0
  /\ EvalStatus \in {"complete", "overdue"}
  /\ Cardinality(Graded) = Cardinality(Answered)

IsReady ==
  /\ NumItems # 0
  /\ EvalStatus \in {"complete", "overdue"}
  /\ Cardinality(ReadyGrades) = Cardinality(Answered)

\* The grade in points: over all grades, as the query sums them, and over
\* the ready grades only, as the object cache sums them.
Points(graded) ==
  MapThenSumSet(LAMBDA i : graderEval[i].score * Value[i], graded)

QueriedGrade == Points(Graded)

CachedGrade == Points(ReadyGrades)

-----------------------------------------------------------------------------
DefaultResponse(i) ==
  [score |-> IF Type[i] = "Boolean" THEN 0 ELSE FullScore,
   text |-> DefaultText]

Grade(score, status, by) ==
  [score |-> score, status |-> status, by |-> by,
   stamp |-> IF status = "editing" THEN now ELSE 0]

\* The response and the grade an item has once a session asked for its self
\* evaluation, creating it if it did not exist.
ResponseOrNew(i) ==
  IF i \in Answered THEN selfEval[i] ELSE DefaultResponse(i)

GradeOrNew(i) ==
  IF i \notin Answered /\ IsGradedAutomatically(i)
  THEN Grade(FullScore, "ready", "student")
  ELSE graderEval[i]

\* Mutant: a full mark does not freeze the response.
FreezeStatusNeverFull(i, response, grade) ==
  IF IsInformational(i) THEN "full"
  ELSE IF grade = None THEN "none"
  ELSE IF Type[i] = "Boolean" /\ response.score = FullScore THEN "score"
  ELSE "none"

FreezeStatus(i, response, grade) ==
  IF IsInformational(i) THEN "full"
  ELSE IF grade = None THEN "none"
  ELSE IF grade.score = FullScore THEN "full"
  ELSE IF Type[i] = "Boolean" /\ response.score = FullScore THEN "score"
  ELSE "none"

\* Mutant: the reward for an honest "no" also goes to a zero on a scale.
RewardAnyZero(i, response, grade, freeze, actor) ==
  IF response.score = 0
  THEN IF grade = None
       THEN Grade(RewardForNo, "ready", actor)
       ELSE Grade(RewardForNo, grade.status, actor)
  ELSE IF grade = None THEN None
  ELSE IF freeze = "score" THEN [grade EXCEPT !.status = "regrade", !.stamp = 0]
  ELSE None

\* Mutant: a frozen score keeps its grade without regrading.
KeepFrozenGrade(i, response, grade, freeze, actor) ==
  IF response.score = 0 /\ Type[i] = "Boolean"
  THEN IF grade = None
       THEN Grade(RewardForNo, "ready", actor)
       ELSE Grade(RewardForNo, grade.status, actor)
  ELSE IF grade = None \/ freeze = "score" THEN grade
  ELSE None

\* What becomes of the grade when its response is saved anew.
GradeAfterSave(i, response, grade, freeze, actor) ==
  IF response.score = 0 /\ Type[i] = "Boolean"
  THEN IF grade = None
       THEN Grade(RewardForNo, "ready", actor)
       ELSE Grade(RewardForNo, grade.status, actor)
  ELSE IF grade = None THEN None
  ELSE IF freeze = "score" THEN [grade EXCEPT !.status = "regrade", !.stamp = 0]
  ELSE None

Init ==
  /\ now = 0
  /\ dates = [due |-> Assignment.due, eval |-> Assignment.eval]
  /\ selfEval = [i \in Items |-> None]
  /\ graderEval = [i \in Items |-> None]
  /\ unseen = {}

Tick ==
  /\ now < MaxTime
  /\ now' = now + 1
  /\ UNCHANGED <<dates, selfEval, graderEval, unseen>>

-----------------------------------------------------------------------------
(* The owners, or an administrator in their place.                         *)

\* Which items the staff graded for a response that is no longer there, after
\* a step by which `actor' may have changed the response to item i.
UnseenAfter(i, actor) ==
  IF /\ graderEval'[i] # None /\ graderEval'[i].by = "staff"
     /\ i \in unseen \/ (actor = "student" /\ selfEval'[i] # selfEval[i])
  THEN unseen \cup {i} ELSE unseen \ {i}

\* Self_eval_item_widget's save button and PUT .../evals/i/self.
SaveSelfEval(i, actor, score, text) ==
  /\ CanEval(actor)
  /\ LET grade    == GradeOrNew(i)
         freeze   == FreezeStatus(i, ResponseOrNew(i), grade)
         response == [score |-> IF freeze = "score"
                                THEN ResponseOrNew(i).score ELSE score,
                      text  |-> text]
     IN IF freeze = "full"
        THEN /\ selfEval' = [selfEval EXCEPT ![i] = ResponseOrNew(i)]
             /\ graderEval' = [graderEval EXCEPT ![i] = grade]
        ELSE /\ selfEval' = [selfEval EXCEPT ![i] = response]
             /\ graderEval' = [graderEval EXCEPT ![i] =
                                 GradeAfterSave(i, response, grade, freeze, actor)]
  /\ unseen' = UnseenAfter(i, actor)
  /\ UNCHANGED <<now, dates>>

\* Mutant: the grade is left behind.
RemoveSelfEvalOnly(i) ==
  /\ selfEval' = [selfEval EXCEPT ![i] = None]
  /\ unseen' = unseen \ {i}
  /\ UNCHANGED <<now, dates, graderEval>>

\* The row goes, and the database takes its grade along.
RemoveSelfEval(i) ==
  /\ selfEval' = [selfEval EXCEPT ![i] = None]
  /\ graderEval' = [graderEval EXCEPT ![i] = None]
  /\ unseen' = unseen \ {i}
  /\ UNCHANGED <<now, dates>>

\* DELETE .../evals/i/self, which asks only for the evaluation period.
DeleteSelfEval(i, actor) ==
  /\ CanEval(actor)
  /\ RemoveSelfEval(i)

\* GET .../evals/i, by anybody who may see the submission: an informational
\* item counts as answered once it has been looked at, whatever the date.
ViewEvalItem(i) ==
  /\ IsInformational(i) /\ i \notin Answered
  /\ selfEval' = [selfEval EXCEPT ![i] = DefaultResponse(i)]
  /\ graderEval' = [graderEval EXCEPT ![i] = GradeOrNew(i)]
  /\ UNCHANGED <<now, dates, unseen>>

-----------------------------------------------------------------------------
(* The graders.                                                            *)

\* Opening /grade/<permalink>: the first to come takes an editing hold.
OpenGrading(i) ==
  /\ i \in Answered \ Graded
  /\ graderEval' = [graderEval EXCEPT ![i] = Grade(0, "editing", "staff")]
  /\ UNCHANGED <<now, dates, selfEval, unseen>>

GiveGrade(i, score, status) ==
  /\ graderEval' = [graderEval EXCEPT ![i] = Grade(score, status, "staff")]
  /\ unseen' = unseen \ {i}
  /\ UNCHANGED <<now, dates, selfEval>>

\* The Yes, No and Apply buttons of the grading page.
SaveGrade(i, score) ==
  /\ i \in Graded
  /\ Type[i] = "Boolean" => score \in {0, FullScore}
  /\ GiveGrade(i, score, "ready")

\* The Hold button: a Boolean item is held with score 0.
HoldGrade(i, score) ==
  /\ i \in Graded
  /\ Type[i] = "Boolean" => score = 0
  /\ GiveGrade(i, score, "held_back")

RemoveGrades(items) ==
  /\ graderEval' = [i \in Items |-> IF i \in items THEN None ELSE graderEval[i]]
  /\ unseen' = unseen \ items
  /\ UNCHANGED <<now, dates, selfEval>>

\* Leaving the grading page with the grade still being edited.
AbandonGrading(i) ==
  /\ i \in Graded /\ graderEval[i].status = "editing"
  /\ RemoveGrades({i})

\* Asking for the next item to grade first forgets the old holds.
DropOldEditingHolds ==
  LET old == {i \in Graded : /\ graderEval[i].status = "editing"
                             /\ graderEval[i].stamp + HoldTime < now}
  IN old # {} /\ RemoveGrades(old)

\* Mutant: a misspelt status.
ReadStatusMisspelt(string) == IF string = "held_back" THEN "held" ELSE string

\* How PUT .../evals/i/grader understands the status it is sent.
ReadStatus(string) == IF string = "regrade" THEN "ready" ELSE string

PutGrade(i, score, string) ==
  /\ i \in Answered
  /\ GiveGrade(i, score, ReadStatus(string))

\* DELETE .../evals/i/grader, of any grade.
DeleteGrade(i) ==
  /\ i \in Graded
  /\ RemoveGrades({i})

-----------------------------------------------------------------------------
(* Administrators and maintenance scripts.                                 *)

\* Admin_eval_item_widget writes the response as it is, whatever its grade.
AdminSaveSelf(i, score, text) ==
  /\ selfEval' = [selfEval EXCEPT ![i] = [score |-> score, text |-> text]]
  /\ graderEval' = [graderEval EXCEPT ![i] = GradeOrNew(i)]
  /\ unseen' = UnseenAfter(i, "staff")
  /\ UNCHANGED <<now, dates>>

AdminRetractSelf(i) == i \in Answered /\ RemoveSelfEval(i)

AdminSaveGrade(i, score, status) ==
  /\ i \in Answered
  /\ GiveGrade(i, score, status)

\* The button is not shown on informational items.
AdminRetractGrade(i) ==
  /\ i \in Graded /\ ~IsInformational(i)
  /\ RemoveGrades({i})

AdminSetDates(due, eval) ==
  /\ dates' = [due |-> due, eval |-> eval]
  /\ UNCHANGED <<now, selfEval, graderEval, unseen>>

\* autoextend.sh
AutoExtend ==
  /\ Cardinality(Answered) < NumItems
  /\ EffectiveEvalDate(Assignment, dates) < now + ExtendWindow
  /\ Later(dates.eval, now) + ExtendBy <= MaxTime
  /\ dates' = [dates EXCEPT !.eval = Later(dates.eval, now) + ExtendBy]
  /\ UNCHANGED <<now, selfEval, graderEval, unseen>>

\* create_grader_evals.sh: a ready grade for an item nobody graded.
CreateGraderEval(i, score) ==
  /\ i \in Answered \ Graded
  /\ GiveGrade(i, score, "ready")

-----------------------------------------------------------------------------
StudentStep ==
  \E i \in Items :
    \/ \E score \in Scores, text \in Texts : SaveSelfEval(i, "student", score, text)
    \/ DeleteSelfEval(i, "student")
    \/ ViewEvalItem(i)

GraderStep ==
  \/ DropOldEditingHolds
  \/ \E i \in Items :
       \/ OpenGrading(i)
       \/ AbandonGrading(i)
       \/ DeleteGrade(i)
       \/ \E score \in Scores :
            \/ SaveGrade(i, score)
            \/ HoldGrade(i, score)
            \/ \E string \in GraderStatuses : PutGrade(i, score, string)

AdminStep ==
  \/ AutoExtend
  \/ \E due, eval \in Dates : AdminSetDates(due, eval)
  \/ \E i \in Items :
       \/ DeleteSelfEval(i, "staff")
       \/ AdminRetractSelf(i)
       \/ AdminRetractGrade(i)
       \/ \E score \in Scores :
            \/ CreateGraderEval(i, score)
            \/ \E text \in Texts :
                 \/ SaveSelfEval(i, "staff", score, text)
                 \/ AdminSaveSelf(i, score, text)
            \/ \E status \in {"ready", "held_back"} :
                 AdminSaveGrade(i, score, status)

Next == Tick \/ StudentStep \/ GraderStep \/ AdminStep

Spec == Init /\ [][Next]_vars

-----------------------------------------------------------------------------
(* Properties.                                                             *)

\* Every column keeps its type.
TypeOK ==
  /\ now \in Nat
  /\ dates \in SubmissionDates
  /\ selfEval \in [Items -> Responses \cup {None}]
  /\ graderEval \in [Items -> Grades \cup {None}]
  /\ unseen \subseteq Items

\* A grade belongs to a response (retracting, deleting and the database's
\* cascades never leave one behind, and nothing creates one without).
GradeNeedsResponse == Graded \subseteq Answered

\* The only grades a student can come by without the staff are the full mark
\* of an item graded automatically and the reward for an honest "no".
SelfAwardedGrades ==
  \A i \in Graded : graderEval[i].by = "student" =>
    \/ IsGradedAutomatically(i) /\ graderEval[i].score = FullScore
    \/ Type[i] = "Boolean" /\ graderEval[i].score = RewardForNo

\* A grade that counts was given for the response that is there now: whatever
\* the owners do to a response the staff graded, save_self_eval takes the grade
\* back or marks it for regrading, and so it stays until a grader looks again.
UnseenAwaitsRegrade ==
  \A i \in unseen :
    /\ i \in Graded
    /\ graderEval[i].by = "staff" /\ graderEval[i].status = "regrade"

\* Once the work is due and self evaluation has begun, the work is settled:
\* handing in and evaluating overlap only before the first item is answered.
EvaluatedWorkSettled ==
  HasStartedSelfEval /\ EffectiveDueDate(Assignment, dates) < now =>
    ~InSubmitPeriod

\* Submission::is_ready compares two counts and Submission::grade has two ways
\* to add up the points: a ready submission has every response graded, and
\* both ways agree on its grade.
ReadyMeansGraded ==
  IsReady => Answered = ReadyGrades /\ QueriedGrade = CachedGrade

\* A response that earned full marks stays as it is until it is removed:
\* save_self_eval finds it frozen.  When one is overwritten, it was not by anything the
\* owners did or anybody saved in their place (but in an administrator's editor).
FullMarksStand ==
  [][(\E i \in Graded : /\ graderEval[i].score = FullScore
                        /\ selfEval'[i] \notin {selfEval[i], None})
     => /\ ~StudentStep
        /\ ~\E j \in Items, score \in Scores, text \in Texts :
              SaveSelfEval(j, "staff", score, text)]_vars

\* Time and the owners only move a submission forward through its calendar,
\* unless the answer to the first item is withdrawn.
StatusMovesForward ==
  [][dates' = dates /\ (1 \in Answered => selfEval'[1] # None)
     => Phase(SubmissionStatus') >= Phase(SubmissionStatus)]_vars

\* Nothing the owners still can do to a closed submission changes its grade.
ClosedGradeStands ==
  [][SubmissionStatus = "closed" /\ StudentStep
     => CachedGrade' = CachedGrade /\ QueriedGrade' = QueriedGrade]_vars

\* What autoextend.sh is run for: past the due date, the owners of an
\* incomplete self evaluation can go on with it.  (An assignment that is due
\* before it opens is not open for anything, however it is extended.)
ExtensionReopens ==
  [][/\ AutoExtend /\ Assignment.open < now
     /\ EffectiveDueDate(Assignment, dates) < now
     => InEvalPeriod']_vars

-----------------------------------------------------------------------------
(* What the text of the program says, and its code does not do.            *)

\* Submissions_view.C warns: "Once you start self evaluation, you will no
\* longer be able to modify your submission".  Yet the REST interface lets the
\* owners delete their answer to the first item, which reopens overtime.
NoReturnFromSelfEval ==
  [][/\ HasStartedSelfEval /\ EffectiveDueDate(Assignment, dates) < now
     /\ StudentStep
     => ~InSubmitPeriod']_vars
=============================================================================
