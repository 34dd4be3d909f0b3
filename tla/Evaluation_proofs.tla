-------------------------- MODULE Evaluation_proofs --------------------------
(***************************************************************************)
(* What module Evaluation promises, proved for every set of items, every   *)
(* calendar and every scale of scores.                                     *)
(***************************************************************************)
EXTENDS Evaluation, TLAPS, FiniteSetTheorems, WellFoundedInduction

\* What holds of item i alone, given its response r and its grade g.
ItemOK(i, r, g) ==
  /\ r \in Responses \cup {None}
  /\ g \in Grades \cup {None}
  /\ g # None => r # None
  /\ g # None /\ g.by = "student" =>
       \/ IsGradedAutomatically(i) /\ g.score = FullScore
       \/ Type[i] = "Boolean" /\ g.score = RewardForNo

\* A grade by the staff that waits for another look.
AwaitsRegrade(g) == g # None /\ g.by = "staff" /\ g.status = "regrade"

\* The inductive invariant: the types, and what holds of each item.
IInv ==
  /\ TypeOK
  /\ \A i \in Items : ItemOK(i, selfEval[i], graderEval[i])
  /\ \A i \in unseen : AwaitsRegrade(graderEval[i])

\* Every stored row can be told from the absence of one.
LEMMA NoneIsNoRow == None \notin Responses /\ None \notin Grades
  BY ConstantsAssumption

\* The invariant contains the checked ones.
LEMMA IInvImplies ==
  IInv => TypeOK /\ GradeNeedsResponse /\ SelfAwardedGrades /\ UnseenAwaitsRegrade
<1> SUFFICES ASSUME IInv
             PROVE  GradeNeedsResponse /\ SelfAwardedGrades /\ UnseenAwaitsRegrade
  BY DEF IInv
<1>1. GradeNeedsResponse
  BY DEF IInv, ItemOK, GradeNeedsResponse, Graded, Answered
<1>2. SelfAwardedGrades
  BY DEF IInv, ItemOK, SelfAwardedGrades, Graded
<1>3. UnseenAwaitsRegrade
  BY DEF IInv, TypeOK, AwaitsRegrade, UnseenAwaitsRegrade, Graded
<1> QED BY <1>1, <1>2, <1>3

\* A step that rewrites the row of one item preserves the invariant if it
\* leaves that item in order.
LEMMA OneItem ==
  ASSUME IInv, NEW i \in Items, NEW r, NEW g,
         now' \in Nat, dates' \in SubmissionDates,
         selfEval' = [selfEval EXCEPT ![i] = r],
         graderEval' = [graderEval EXCEPT ![i] = g],
         unseen' \in {unseen, unseen \cup {i}, unseen \ {i}},
         ItemOK(i, r, g), i \in unseen' => AwaitsRegrade(g)
  PROVE  IInv'
<1>1. /\ selfEval' \in [Items -> Responses \cup {None}]
      /\ graderEval' \in [Items -> Grades \cup {None}]
  BY DEF IInv, TypeOK, ItemOK
<1>2. unseen' \subseteq Items
  BY DEF IInv, TypeOK
<1>3. selfEval'[i] = r /\ graderEval'[i] = g
  BY DEF IInv, TypeOK
<1>4. ASSUME NEW j \in Items
      PROVE  /\ ItemOK(j, selfEval'[j], graderEval'[j])
             /\ j \in unseen' => AwaitsRegrade(graderEval'[j])
  <2>1. CASE j = i
    BY <1>3, <2>1
  <2>2. CASE j # i
    <3>1. selfEval'[j] = selfEval[j] /\ graderEval'[j] = graderEval[j]
      BY <2>2 DEF IInv, TypeOK
    <3>2. (j \in unseen') <=> (j \in unseen)
      BY <2>2
    <3> QED BY <3>1, <3>2 DEF IInv
  <2> QED BY <2>1, <2>2
<1>5. TypeOK'
  BY <1>1, <1>2 DEF TypeOK
<1>6. \A j \in Items : ItemOK(j, selfEval'[j], graderEval'[j])
  BY <1>4
<1>7. \A j \in unseen' : AwaitsRegrade(graderEval'[j])
  BY <1>2, <1>4
<1> QED BY <1>5, <1>6, <1>7 DEF IInv, ItemOK, AwaitsRegrade, IsGradedAutomatically, IsInformational

-----------------------------------------------------------------------------
(* Typing of the helpers.                                                  *)

\* A new response and a new grade have the types of their columns.
LEMMA NewRows ==
  ASSUME IInv
  PROVE  /\ \A i \in Items : ResponseOrNew(i) \in Responses
         /\ \A score \in Scores, status \in GraderStatuses, by \in {"student", "staff"} :
              Grade(score, status, by) \in Grades
         /\ \A i \in Items : GradeOrNew(i) \in Grades \cup {None}
<1>1. FullScore \in Scores /\ 0 \in Scores /\ now \in Nat /\ DefaultText \in Texts
  BY ConstantsAssumption DEF Scores, IInv, TypeOK
<1>2. ASSUME NEW i \in Items PROVE ResponseOrNew(i) \in Responses
  BY <1>1 DEF ResponseOrNew, DefaultResponse, Responses, Answered, IInv, TypeOK
<1>3. ASSUME NEW score \in Scores, NEW status \in GraderStatuses, NEW by \in {"student", "staff"}
      PROVE  Grade(score, status, by) \in Grades
  BY <1>1 DEF Grade, Grades
<1>4. "ready" \in GraderStatuses
  BY DEF GraderStatuses
<1>5. ASSUME NEW i \in Items PROVE GradeOrNew(i) \in Grades \cup {None}
  BY <1>1, <1>3, <1>4 DEF GradeOrNew, IInv, TypeOK
<1> QED BY <1>2, <1>3, <1>5

\* What a new grade says.
LEMMA GradeFields ==
  ASSUME IInv, NEW score \in Scores, NEW status \in GraderStatuses,
         NEW by \in {"student", "staff"}
  PROVE  LET g == Grade(score, status, by)
         IN g \in Grades /\ g.score = score /\ g.status = status /\ g.by = by
<1>1. Grade(score, status, by) \in Grades
  BY NewRows
<1> QED BY <1>1 DEF Grade

\* Marking a grade for regrading changes nothing else about it that counts.
LEMMA RegradeFields ==
  ASSUME NEW grade \in Grades
  PROVE  LET g == [grade EXCEPT !.status = "regrade", !.stamp = 0]
         IN g \in Grades /\ g.score = grade.score /\ g.status = "regrade" /\ g.by = grade.by
  BY DEF Grades, GraderStatuses

\* Asking for the self evaluation of an item leaves the item in order.
LEMMA NewItemOK ==
  ASSUME IInv, NEW i \in Items
  PROVE  ItemOK(i, ResponseOrNew(i), GradeOrNew(i))
<1>1. ResponseOrNew(i) \in Responses /\ ResponseOrNew(i) # None
  BY NewRows, NoneIsNoRow
<1>2. CASE i \in Answered
  BY <1>1, <1>2 DEF GradeOrNew, ResponseOrNew, IInv, ItemOK
<1>3. CASE i \notin Answered
  <2>1. graderEval[i] = None
    BY <1>3 DEF Answered, IInv, ItemOK
  <2>2. CASE IsGradedAutomatically(i)
    <3>1. GradeOrNew(i) = Grade(FullScore, "ready", "student")
      BY <1>3, <2>2 DEF GradeOrNew
    <3>2. GradeOrNew(i) \in Grades \cup {None}
      BY NewRows
    <3>3. GradeOrNew(i).by = "student" /\ GradeOrNew(i).score = FullScore
      BY <3>1 DEF Grade
    <3> QED BY <1>1, <2>1, <2>2, <3>2, <3>3 DEF ItemOK
  <2>3. CASE ~IsGradedAutomatically(i)
    BY <1>1, <2>1, <2>3 DEF GradeOrNew, ItemOK
  <2> QED BY <2>2, <2>3
<1> QED BY <1>2, <1>3

-----------------------------------------------------------------------------
(* Each action preserves the invariant.                                    *)

\* Only a staff grade that stands can await another look.
LEMMA UnseenAfterStep ==
  ASSUME NEW i, NEW actor, unseen' = UnseenAfter(i, actor)
  PROVE  /\ unseen' \in {unseen, unseen \cup {i}, unseen \ {i}}
         /\ i \in unseen' =>
              /\ graderEval'[i] # None /\ graderEval'[i].by = "staff"
              /\ i \in unseen \/ (actor = "student" /\ selfEval'[i] # selfEval[i])
  BY DEF UnseenAfter

\* The grade that save_self_eval leaves behind is in order, and if the staff
\* gave it, it either awaits regrading or was not waiting before.
LEMMA GradeAfterSaveOK ==
  ASSUME IInv, NEW i \in Items, NEW actor \in {"student", "staff"},
         NEW r \in Responses, NEW grade, NEW freeze,
         ItemOK(i, ResponseOrNew(i), grade)
  PROVE  LET g == GradeAfterSave(i, r, grade, freeze, actor)
         IN /\ ItemOK(i, r, g)
            /\ g # None /\ g.by = "staff" /\ (AwaitsRegrade(grade) \/ actor = "student")
               => AwaitsRegrade(g)
<1> DEFINE g == GradeAfterSave(i, r, grade, freeze, actor)
<1> HIDE DEF g
<1>0. r # None /\ RewardForNo \in Scores /\ "ready" \in GraderStatuses
  BY NoneIsNoRow, ConstantsAssumption DEF GraderStatuses
<1> DEFINE Goal == /\ ItemOK(i, r, g)
                   /\ g # None /\ g.by = "staff" /\ (AwaitsRegrade(grade) \/ actor = "student")
                      => AwaitsRegrade(g)
<1> SUFFICES Goal
  BY DEF g
<1>1. CASE r.score = 0 /\ Type[i] = "Boolean" /\ grade = None
  <2>1. g = Grade(RewardForNo, "ready", actor)
    BY <1>1 DEF GradeAfterSave, g
  <2>2. g \in Grades /\ g.by = actor /\ g.score = RewardForNo
    BY <1>0, <2>1, GradeFields
  <2> QED BY <1>0, <1>1, <2>2 DEF ItemOK, AwaitsRegrade
<1>2. CASE r.score = 0 /\ Type[i] = "Boolean" /\ grade # None
  <2>1. g = Grade(RewardForNo, grade.status, actor)
    BY <1>2 DEF GradeAfterSave, g
  <2>2. grade.status \in GraderStatuses
    BY <1>2 DEF ItemOK, Grades
  <2>3. /\ g \in Grades /\ g.by = actor /\ g.score = RewardForNo
        /\ g.status = grade.status
    BY <1>0, <2>1, <2>2, GradeFields
  <2> QED BY <1>0, <1>2, <2>3 DEF ItemOK, AwaitsRegrade
<1>3. CASE ~(r.score = 0 /\ Type[i] = "Boolean") /\ (grade = None \/ freeze # "score")
  <2>1. g = None
    BY <1>3 DEF GradeAfterSave, g
  <2> QED BY <1>0, <2>1 DEF ItemOK
<1>4. CASE /\ ~(r.score = 0 /\ Type[i] = "Boolean")
           /\ grade # None /\ freeze = "score"
  <2>1. g = [grade EXCEPT !.status = "regrade", !.stamp = 0]
    BY <1>4 DEF GradeAfterSave, g
  <2>2. grade \in Grades
    BY <1>4 DEF ItemOK
  <2>3. /\ g \in Grades /\ g.by = grade.by /\ g.score = grade.score
        /\ g.status = "regrade"
    BY <2>1, <2>2, RegradeFields
  <2> QED BY <1>0, <1>4, <2>3 DEF ItemOK, AwaitsRegrade
<1> QED BY <1>1, <1>2, <1>3, <1>4

LEMMA SaveSelfEvalStep ==
  ASSUME IInv, NEW i \in Items, NEW actor \in {"student", "staff"},
         NEW score \in Scores, NEW text \in Texts,
         SaveSelfEval(i, actor, score, text)
  PROVE  IInv'
<1> DEFINE grade    == GradeOrNew(i)
           freeze   == FreezeStatus(i, ResponseOrNew(i), grade)
           response == [score |-> IF freeze = "score"
                                  THEN ResponseOrNew(i).score ELSE score,
                        text  |-> text]
<1>1. now' \in Nat /\ dates' \in SubmissionDates
  BY DEF SaveSelfEval, IInv, TypeOK
<1>2. /\ unseen' \in {unseen, unseen \cup {i}, unseen \ {i}}
      /\ i \in unseen' =>
           /\ graderEval'[i] # None /\ graderEval'[i].by = "staff"
           /\ i \in unseen \/ (actor = "student" /\ selfEval'[i] # selfEval[i])
  BY UnseenAfterStep DEF SaveSelfEval
<1>3. ItemOK(i, ResponseOrNew(i), grade)
  BY NewItemOK
<1>4. i \in unseen => AwaitsRegrade(grade)
  BY DEF GradeOrNew, Answered, IInv, ItemOK, AwaitsRegrade
<1>5. CASE freeze = "full"
  <2>1. /\ selfEval' = [selfEval EXCEPT ![i] = ResponseOrNew(i)]
        /\ graderEval' = [graderEval EXCEPT ![i] = grade]
    BY <1>5 DEF SaveSelfEval
  <2>2. selfEval'[i] = ResponseOrNew(i) /\ graderEval'[i] = grade
    BY <2>1 DEF IInv, TypeOK
  <2>3. i \in unseen' => i \in unseen
    <3>1. CASE i \in Answered
      BY <1>2, <2>2, <3>1 DEF ResponseOrNew
    <3>2. CASE i \notin Answered
      <4>1. graderEval[i] = None
        BY <3>2 DEF Answered, IInv, ItemOK
      <4>2. grade = None \/ grade.by = "student"
        BY <3>2, <4>1 DEF GradeOrNew, Grade
      <4> QED BY <1>2, <2>2, <4>2
    <3> QED BY <3>1, <3>2
  <2> QED BY <1>1, <1>2, <1>3, <1>4, <2>1, <2>3, OneItem
<1>6. CASE freeze # "full"
  <2> DEFINE g == GradeAfterSave(i, response, grade, freeze, actor)
  <2>1. /\ selfEval' = [selfEval EXCEPT ![i] = response]
        /\ graderEval' = [graderEval EXCEPT ![i] = g]
    BY <1>6 DEF SaveSelfEval
  <2>2. graderEval'[i] = g
    BY <2>1 DEF IInv, TypeOK
  <2>3. response \in Responses
    BY NewRows DEF Responses
  <2> HIDE DEF response, grade, freeze
  <2>4. /\ ItemOK(i, response, g)
        /\ g # None /\ g.by = "staff" /\ (AwaitsRegrade(grade) \/ actor = "student")
           => AwaitsRegrade(g)
    BY <1>3, <2>3, GradeAfterSaveOK
  <2>5. i \in unseen' => AwaitsRegrade(g)
    BY <1>2, <1>4, <2>2, <2>4
  <2> QED BY <1>1, <1>2, <2>1, <2>4, <2>5, OneItem
<1> QED BY <1>5, <1>6

LEMMA RemoveSelfEvalStep ==
  ASSUME IInv, NEW i \in Items, RemoveSelfEval(i)
  PROVE  IInv'
<1>1. ItemOK(i, None, None) /\ i \notin unseen'
  BY DEF RemoveSelfEval, ItemOK
<1> QED BY <1>1, OneItem DEF RemoveSelfEval, IInv, TypeOK

LEMMA ViewEvalItemStep ==
  ASSUME IInv, NEW i \in Items, ViewEvalItem(i)
  PROVE  IInv'
<1>1. selfEval' = [selfEval EXCEPT ![i] = ResponseOrNew(i)]
  BY DEF ViewEvalItem, ResponseOrNew
<1>2. ItemOK(i, ResponseOrNew(i), GradeOrNew(i)) /\ i \notin unseen'
  BY NewItemOK DEF ViewEvalItem, Answered, IInv, ItemOK, AwaitsRegrade
<1> QED BY <1>1, <1>2, OneItem DEF ViewEvalItem, IInv, TypeOK

\* A staff member's new grade, of whatever status.
LEMMA StaffGradeStep ==
  ASSUME IInv, NEW i \in Answered, NEW score \in Scores, NEW status \in GraderStatuses,
         graderEval' = [graderEval EXCEPT ![i] = Grade(score, status, "staff")],
         i \notin unseen', unseen' \in {unseen, unseen \ {i}},
         UNCHANGED <<now, dates, selfEval>>
  PROVE  IInv'
<1>1. i \in Items /\ selfEval[i] # None
  BY DEF Answered
<1>2. LET g == Grade(score, status, "staff")
      IN g \in Grades /\ g.by = "staff"
  BY GradeFields
<1>3. ItemOK(i, selfEval[i], Grade(score, status, "staff"))
  BY <1>1, <1>2 DEF ItemOK, IInv, TypeOK
<1>4. selfEval' = [selfEval EXCEPT ![i] = selfEval[i]]
  BY <1>1 DEF IInv, TypeOK
<1> QED BY <1>1, <1>3, <1>4, OneItem DEF IInv, TypeOK

LEMMA GiveGradeStep ==
  ASSUME IInv, NEW i \in Answered, NEW score \in Scores, NEW status \in GraderStatuses,
         GiveGrade(i, score, status)
  PROVE  IInv'
  BY StaffGradeStep DEF GiveGrade

LEMMA GradedIsAnswered == IInv => Graded \subseteq Answered
  BY IInvImplies DEF GradeNeedsResponse

LEMMA OpenGradingStep ==
  ASSUME IInv, NEW i \in Items, OpenGrading(i)
  PROVE  IInv'
<1>1. i \notin unseen /\ unseen' = unseen
  BY DEF OpenGrading, Graded, IInv, AwaitsRegrade
<1>2. "editing" \in GraderStatuses /\ 0 \in Scores
  BY ConstantsAssumption DEF GraderStatuses, Scores
<1> QED BY <1>1, <1>2, StaffGradeStep DEF OpenGrading

LEMMA RemoveGradesStep ==
  ASSUME IInv, NEW items \in SUBSET Items, RemoveGrades(items)
  PROVE  IInv'
<1>1. TypeOK'
  BY DEF RemoveGrades, IInv, TypeOK
<1>2. ASSUME NEW j \in Items
      PROVE  /\ ItemOK(j, selfEval'[j], graderEval'[j])
             /\ j \in unseen' => AwaitsRegrade(graderEval'[j])
  <2>1. /\ ItemOK(j, selfEval[j], graderEval[j])
        /\ j \in unseen => AwaitsRegrade(graderEval[j])
    BY DEF IInv
  <2>2. CASE j \in items
    <3>1. graderEval'[j] = None /\ j \notin unseen' /\ selfEval'[j] = selfEval[j]
      BY <2>2 DEF RemoveGrades
    <3> QED BY <2>1, <3>1 DEF ItemOK
  <2>3. CASE j \notin items
    <3>1. /\ graderEval'[j] = graderEval[j] /\ selfEval'[j] = selfEval[j]
          /\ j \in unseen' => j \in unseen
      BY <2>3 DEF RemoveGrades
    <3> QED BY <2>1, <3>1
  <2> QED BY <2>2, <2>3
<1>3. \A j \in Items : ItemOK(j, selfEval'[j], graderEval'[j])
  BY <1>2
<1>4. \A j \in unseen' : AwaitsRegrade(graderEval'[j])
  BY <1>1, <1>2 DEF TypeOK
<1> QED BY <1>1, <1>3, <1>4 DEF IInv, ItemOK, AwaitsRegrade, IsGradedAutomatically, IsInformational

LEMMA AdminSaveSelfStep ==
  ASSUME IInv, NEW i \in Items, NEW score \in Scores, NEW text \in Texts,
         AdminSaveSelf(i, score, text)
  PROVE  IInv'
<1> DEFINE r == [score |-> score, text |-> text]
<1>1. r \in Responses /\ r # None
  BY NoneIsNoRow DEF Responses
<1>2. ItemOK(i, ResponseOrNew(i), GradeOrNew(i))
  BY NewItemOK
<1>3. ItemOK(i, r, GradeOrNew(i))
  BY <1>1, <1>2 DEF ItemOK
<1>4. /\ selfEval' = [selfEval EXCEPT ![i] = r]
      /\ graderEval' = [graderEval EXCEPT ![i] = GradeOrNew(i)]
  BY DEF AdminSaveSelf
<1>5. /\ unseen' \in {unseen, unseen \cup {i}, unseen \ {i}}
      /\ i \in unseen' => i \in unseen
  BY UnseenAfterStep DEF AdminSaveSelf
<1>6. i \in unseen => AwaitsRegrade(GradeOrNew(i))
  BY DEF GradeOrNew, Answered, IInv, ItemOK, AwaitsRegrade
<1> QED BY <1>3, <1>4, <1>5, <1>6, OneItem DEF AdminSaveSelf, IInv, TypeOK

\* Steps of the clock and of the calendar touch no item.
LEMMA CalendarStep ==
  ASSUME IInv, now' \in Nat, dates' \in SubmissionDates,
         UNCHANGED <<selfEval, graderEval, unseen>>
  PROVE  IInv'
  BY DEF IInv, TypeOK, ItemOK, AwaitsRegrade, IsGradedAutomatically, IsInformational

LEMMA StudentStepOK ==
  ASSUME IInv, StudentStep
  PROVE  IInv'
<1>1. ASSUME NEW i \in Items, NEW score \in Scores, NEW text \in Texts,
             SaveSelfEval(i, "student", score, text)
      PROVE  IInv'
  BY <1>1, SaveSelfEvalStep
<1>2. ASSUME NEW i \in Items, DeleteSelfEval(i, "student")
      PROVE  IInv'
  BY <1>2, RemoveSelfEvalStep DEF DeleteSelfEval
<1>3. ASSUME NEW i \in Items, ViewEvalItem(i)
      PROVE  IInv'
  BY <1>3, ViewEvalItemStep
<1> QED BY <1>1, <1>2, <1>3 DEF StudentStep

LEMMA GraderStepOK ==
  ASSUME IInv, GraderStep
  PROVE  IInv'
<1>1. CASE DropOldEditingHolds
  BY <1>1, RemoveGradesStep DEF DropOldEditingHolds, Graded
<1>2. ASSUME NEW i \in Items, OpenGrading(i)
      PROVE  IInv'
  BY <1>2, OpenGradingStep
<1>3. ASSUME NEW i \in Items, AbandonGrading(i) \/ DeleteGrade(i)
      PROVE  IInv'
  BY <1>3, RemoveGradesStep DEF AbandonGrading, DeleteGrade
<1>4. ASSUME NEW i \in Items, NEW score \in Scores, SaveGrade(i, score) \/ HoldGrade(i, score)
      PROVE  IInv'
  BY <1>4, GiveGradeStep, GradedIsAnswered DEF SaveGrade, HoldGrade, GraderStatuses
<1>5. ASSUME NEW i \in Items, NEW score \in Scores, NEW string \in GraderStatuses,
             PutGrade(i, score, string)
      PROVE  IInv'
  <2>1. ReadStatus(string) \in GraderStatuses
    BY DEF ReadStatus, GraderStatuses
  <2> QED BY <1>5, <2>1, GiveGradeStep DEF PutGrade
<1> QED BY <1>1, <1>2, <1>3, <1>4, <1>5 DEF GraderStep

LEMMA AdminStepOK ==
  ASSUME IInv, AdminStep
  PROVE  IInv'
<1>1. CASE AutoExtend
  <2>1. Later(dates.eval, now) + ExtendBy \in Nat
    BY ConstantsAssumption DEF Later, IInv, TypeOK, SubmissionDates
  <2>2. dates' \in SubmissionDates
    BY <1>1, <2>1 DEF AutoExtend, IInv, TypeOK, SubmissionDates
  <2> QED BY <1>1, <2>2, CalendarStep DEF AutoExtend, IInv, TypeOK
<1>2. ASSUME NEW due \in Dates, NEW eval \in Dates, AdminSetDates(due, eval)
      PROVE  IInv'
  <2>1. dates' \in SubmissionDates
    BY <1>2, ConstantsAssumption DEF AdminSetDates, SubmissionDates
  <2> QED BY <1>2, <2>1, CalendarStep DEF AdminSetDates, IInv, TypeOK
<1>3. ASSUME NEW i \in Items, DeleteSelfEval(i, "staff") \/ AdminRetractSelf(i)
      PROVE  IInv'
  BY <1>3, RemoveSelfEvalStep DEF DeleteSelfEval, AdminRetractSelf
<1>4. ASSUME NEW i \in Items, AdminRetractGrade(i)
      PROVE  IInv'
  BY <1>4, RemoveGradesStep DEF AdminRetractGrade
<1>5. ASSUME NEW i \in Items, NEW score \in Scores, CreateGraderEval(i, score)
      PROVE  IInv'
  BY <1>5, GiveGradeStep DEF CreateGraderEval, GraderStatuses
<1>6. ASSUME NEW i \in Items, NEW score \in Scores, NEW text \in Texts,
             SaveSelfEval(i, "staff", score, text)
      PROVE  IInv'
  BY <1>6, SaveSelfEvalStep
<1>7. ASSUME NEW i \in Items, NEW score \in Scores, NEW text \in Texts,
             AdminSaveSelf(i, score, text)
      PROVE  IInv'
  BY <1>7, AdminSaveSelfStep
<1>8. ASSUME NEW i \in Items, NEW score \in Scores, NEW status \in {"ready", "held_back"},
             AdminSaveGrade(i, score, status)
      PROVE  IInv'
  BY <1>8, GiveGradeStep DEF AdminSaveGrade, GraderStatuses
<1> QED BY <1>1, <1>2, <1>3, <1>4, <1>5, <1>6, <1>7, <1>8 DEF AdminStep

LEMMA InitOK == Init => IInv
<1> SUFFICES ASSUME Init PROVE IInv
  OBVIOUS
<1>1. TypeOK
  BY ConstantsAssumption DEF Init, TypeOK, SubmissionDates, AssignmentDates
<1>2. \A i \in Items : ItemOK(i, selfEval[i], graderEval[i])
  BY DEF Init, ItemOK
<1> QED BY <1>1, <1>2 DEF Init, IInv

LEMMA StepOK == IInv /\ [Next]_vars => IInv'
<1> SUFFICES ASSUME IInv, [Next]_vars PROVE IInv'
  OBVIOUS
<1>1. CASE Tick
  BY <1>1, CalendarStep DEF Tick, IInv, TypeOK
<1>2. CASE StudentStep
  BY <1>2, StudentStepOK
<1>3. CASE GraderStep
  BY <1>3, GraderStepOK
<1>4. CASE AdminStep
  BY <1>4, AdminStepOK
<1>5. CASE UNCHANGED vars
  BY <1>5, CalendarStep DEF vars, IInv, TypeOK
<1> QED BY <1>1, <1>2, <1>3, <1>4, <1>5 DEF Next

LEMMA Invariance == Spec => []IInv
  BY InitOK, StepOK, PTL DEF Spec

-----------------------------------------------------------------------------
(* The theorems.                                                           *)

\* Every column keeps its type.
THEOREM TypeCorrect == Spec => []TypeOK
  BY Invariance, IInvImplies, PTL

\* No grade is ever left without the response it was given to.
THEOREM GradesHaveResponses == Spec => []GradeNeedsResponse
  BY Invariance, IInvImplies, PTL

\* Without the staff, students earn the reward for a "no" and the full mark of
\* items that are graded automatically, and nothing else.
THEOREM NoSelfAwardedGrades == Spec => []SelfAwardedGrades
  BY Invariance, IInvImplies, PTL

\* A staff grade for a response its owners have since changed does not count
\* before a grader has looked again.
THEOREM ChangedResponsesAwaitRegrade == Spec => []UnseenAwaitsRegrade
  BY Invariance, IInvImplies, PTL

\* is_ready's comparison of two counts says what it means to say, and then both
\* ways of adding up the grade add up the same grades.
THEOREM ReadyIsGraded == Spec => []ReadyMeansGraded
<1>1. ASSUME IInv PROVE ReadyMeansGraded
  <2>1. IsFiniteSet(Items)
    BY ConstantsAssumption, FS_Interval DEF Items
  <2>2. ReadyGrades \subseteq Graded /\ Graded \subseteq Answered /\ Answered \subseteq Items
    BY <1>1, GradedIsAnswered DEF ReadyGrades, Answered
  <2>3. IsFiniteSet(Answered)
    BY <2>1, <2>2, FS_Subset
  <2>4. Cardinality(ReadyGrades) = Cardinality(Answered) => ReadyGrades = Answered
    BY <2>2, <2>3, FS_Subset
  <2>5. ReadyGrades = Answered => ReadyGrades = Graded
    BY <2>2
  <2> QED BY <2>4, <2>5 DEF ReadyMeansGraded, IsReady, QueriedGrade, CachedGrade
<1> QED BY <1>1, Invariance, PTL

\* Once the work is due and the self evaluation begun, nothing more can be
\* handed in, whatever the four dates are.
THEOREM EvaluatedWorkIsSettled == Spec => []EvaluatedWorkSettled
<1>1. ASSUME IInv PROVE EvaluatedWorkSettled
  <2> SUFFICES ASSUME HasStartedSelfEval, EffectiveDueDate(Assignment, dates) < now
               PROVE  ~InSubmitPeriod
    BY DEF EvaluatedWorkSettled
  <2>1. /\ now \in Nat /\ dates.due \in Nat /\ dates.eval \in Nat
        /\ Assignment.open \in Nat /\ Assignment.due \in Nat /\ Assignment.eval \in Nat
    BY <1>1, ConstantsAssumption DEF IInv, TypeOK, SubmissionDates, AssignmentDates
  <2>2. ~(now <= Assignment.due) /\ ~(now <= dates.due)
    BY <2>1 DEF EffectiveDueDate, Later
  <2>3. SubmissionStatus \in {"future", "self_eval", "extended_eval", "closed"}
    BY <2>2 DEF SubmissionStatus, Status, OvertimeOr
  <2> QED BY <2>3 DEF InSubmitPeriod, SubmitStatuses
<1> QED BY <1>1, Invariance, PTL

\* Time does not turn the calendar back.
LEMMA StatusOverTime ==
  ASSUME NEW asgn \in AssignmentDates, NEW sub \in SubmissionDates,
         NEW t \in Nat, NEW u \in Nat, t <= u,
         NEW s \in BOOLEAN, NEW started \in BOOLEAN, s => started
  PROVE  Phase(Status(u, asgn, sub, started)) >= Phase(Status(t, asgn, sub, s))
<1>1. /\ asgn.open \in Nat /\ asgn.due \in Nat /\ asgn.eval \in Nat
      /\ sub.due \in Nat /\ sub.eval \in Nat
  BY DEF AssignmentDates, SubmissionDates
<1>2. /\ Phase("future") = 0 /\ Phase("open") = 1 /\ Phase("extended") = 2
      /\ Phase("overtime") = 3 /\ Phase("self_eval") = 4
      /\ Phase("extended_eval") = 5 /\ Phase("closed") = 6
  BY DEF Phase
<1> QED BY <1>1, <1>2 DEF Status, OvertimeOr

\* Only the clock's own step moves the clock.
LEMMA ClockSteps == [Next]_vars => Tick \/ now' = now
<1>1. StudentStep => now' = now
  BY DEF StudentStep, SaveSelfEval, DeleteSelfEval, RemoveSelfEval, ViewEvalItem
<1>2. GraderStep => now' = now
  BY DEF GraderStep, DropOldEditingHolds, RemoveGrades, OpenGrading, AbandonGrading,
    DeleteGrade, SaveGrade, HoldGrade, PutGrade, GiveGrade
<1>3. AdminStep => now' = now
  BY DEF AdminStep, AutoExtend, AdminSetDates, AdminRetractSelf, AdminRetractGrade,
    CreateGraderEval, AdminSaveSelf, AdminSaveGrade, SaveSelfEval, DeleteSelfEval,
    RemoveSelfEval, RemoveGrades, GiveGrade
<1> QED BY <1>1, <1>2, <1>3 DEF Next, vars

\* As long as its dates stay and its first answer is not withdrawn, a
\* submission only moves forward through its calendar.
THEOREM CalendarMovesForward == Spec => StatusMovesForward
<1> DEFINE Step == dates' = dates /\ (1 \in Answered => selfEval'[1] # None)
                   => Phase(SubmissionStatus') >= Phase(SubmissionStatus)
<1>1. ASSUME IInv, IInv', [Next]_vars PROVE [Step]_vars
  <2> SUFFICES ASSUME dates' = dates, 1 \in Answered => selfEval'[1] # None
               PROVE  Phase(SubmissionStatus') >= Phase(SubmissionStatus)
    OBVIOUS
  <2>1. now \in Nat /\ now' \in Nat /\ dates \in SubmissionDates
    BY <1>1 DEF IInv, TypeOK
  <2>2. now <= now'
    BY <1>1, <2>1, ClockSteps DEF Tick
  <2>3. HasStartedSelfEval => HasStartedSelfEval'
    BY DEF HasStartedSelfEval, Answered
  <2>4. HasStartedSelfEval \in BOOLEAN /\ HasStartedSelfEval' \in BOOLEAN
    BY DEF HasStartedSelfEval
  <2> QED BY <2>1, <2>2, <2>3, <2>4, StatusOverTime, ConstantsAssumption DEF SubmissionStatus
<1> QED BY <1>1, Invariance, PTL DEF Spec, StatusMovesForward

\* The item whose response a step rewrites.
LEMMA RewritesOne ==
  ASSUME IInv, NEW i \in Items, NEW j \in Items, NEW r,
         selfEval' = [selfEval EXCEPT ![j] = r], selfEval'[i] # selfEval[i]
  PROVE  i = j /\ selfEval'[i] = r
  BY DEF IInv, TypeOK

\* save_self_eval leaves a response with full marks alone.
LEMMA FullMarksFreeze ==
  ASSUME IInv, NEW i \in Graded, graderEval[i].score = FullScore, NEW j \in Items,
         NEW actor, NEW score, NEW text, SaveSelfEval(j, actor, score, text)
  PROVE  selfEval'[i] = selfEval[i]
<1>1. i \in Items /\ i \in Answered /\ graderEval[i] # None
  BY GradedIsAnswered DEF Graded
<1>2. CASE i = j
  <2>1. GradeOrNew(i) = graderEval[i] /\ ResponseOrNew(i) = selfEval[i]
    BY <1>1 DEF GradeOrNew, ResponseOrNew
  <2>2. FreezeStatus(i, ResponseOrNew(i), GradeOrNew(i)) = "full"
    BY <1>1, <2>1 DEF FreezeStatus
  <2>3. selfEval' = [selfEval EXCEPT ![i] = ResponseOrNew(i)]
    BY <1>2, <2>2 DEF SaveSelfEval
  <2> QED BY <1>1, <2>1, <2>3 DEF IInv, TypeOK
<1>3. CASE i # j
  <2>1. \E r : selfEval' = [selfEval EXCEPT ![j] = r]
    BY DEF SaveSelfEval
  <2> QED BY <1>1, <1>3, <2>1, RewritesOne
<1> QED BY <1>2, <1>3

\* A response that earned full marks is frozen: no save, of whatever item and
\* by whomever, and nothing else its owners do writes over it.
THEOREM FullMarksAreKept == Spec => FullMarksStand
<1> DEFINE Save == \E j \in Items, score \in Scores, text \in Texts :
                     SaveSelfEval(j, "staff", score, text)
           Kept == \A i \in Graded : graderEval[i].score = FullScore =>
                     selfEval'[i] \in {selfEval[i], None}
           Overwritten == \E i \in Graded : /\ graderEval[i].score = FullScore
                                            /\ selfEval'[i] \notin {selfEval[i], None}
<1>1. ASSUME IInv, StudentStep \/ Save PROVE Kept
  <2> SUFFICES ASSUME NEW i \in Graded, graderEval[i].score = FullScore,
                      selfEval'[i] # selfEval[i], selfEval'[i] # None
               PROVE  FALSE
    OBVIOUS
  <2>1. i \in Items /\ i \in Answered
    BY <1>1, GradedIsAnswered DEF Graded
  <2>2. ASSUME NEW j \in Items, RemoveSelfEval(j) PROVE FALSE
    BY <1>1, <2>1, <2>2, RewritesOne DEF RemoveSelfEval
  <2>3. ASSUME NEW j \in Items, ViewEvalItem(j) PROVE FALSE
    BY <1>1, <2>1, <2>3, RewritesOne DEF ViewEvalItem
  <2> QED BY <1>1, <2>2, <2>3, FullMarksFreeze DEF StudentStep, DeleteSelfEval
<1>2. ASSUME IInv
      PROVE  [Overwritten => ~StudentStep /\ ~Save]_vars
  BY <1>1, <1>2
<1> QED BY <1>2, Invariance, PTL DEF Spec, FullMarksStand

-----------------------------------------------------------------------------
(* Adding up points.                                                       *)

\* Induction over the naturals, for a set in place of a predicate.
LEMMA SetInduction ==
  ASSUME NEW S \in SUBSET Nat, 0 \in S, \A n \in S : n + 1 \in S
  PROVE  S = Nat
<1> SUFFICES ASSUME Nat \ S # {} PROVE FALSE
  OBVIOUS
<1>1. \E R : R = {m \in Nat \X Nat : m[1] < m[2]} /\ IsWellFoundedOn(R, Nat)
  <2>1. OpToRel(<, Nat) = {m \in Nat \X Nat : m[1] < m[2]}
    BY DEF OpToRel
  <2>2. IsWellFoundedOn(OpToRel(<, Nat), Nat)
    BY NatLessThanWellFounded
  <2>3. IsWellFoundedOn({m \in Nat \X Nat : m[1] < m[2]}, Nat)
    BY <2>1, <2>2
  <2> QED
    BY <2>3
<1>2. PICK R : R = {m \in Nat \X Nat : m[1] < m[2]} /\ IsWellFoundedOn(R, Nat)
  BY <1>1
<1>3. PICK x \in Nat \ S : \A y \in Nat \ S : ~(<<y, x>> \in R)
  BY <1>2, WFMin
<1>4. \A y \in Nat \ S : ~(y < x)
  BY <1>2, <1>3
<1>5. x # 0 /\ x - 1 \in Nat /\ x - 1 < x
  BY <1>3
<1>6. x - 1 \in S
  BY <1>4, <1>5
<1>7. (x - 1) + 1 = x
  BY <1>3
<1> QED
  BY <1>3, <1>6, <1>7

\* What holds of a set as soon as it holds with any one element less holds of
\* every finite set.
LEMMA SubsetInduction ==
  ASSUME NEW S, IsFiniteSet(S), NEW P \in SUBSET (SUBSET S),
         \A T \in SUBSET S : (\A x \in T : T \ {x} \in P) => T \in P
  PROVE  P = SUBSET S
<1> DEFINE N == {n \in Nat : \A T \in SUBSET S : Cardinality(T) = n => T \in P}
<1>1. \A T \in SUBSET S : IsFiniteSet(T) /\ Cardinality(T) \in Nat
  BY FS_Subset, FS_CardinalityType
<1>2. 0 \in N
  <2>1. \A T \in SUBSET S : Cardinality(T) = 0 => T = {}
    BY <1>1, FS_EmptySet
  <2> QED
    BY <2>1
<1>3. ASSUME NEW n \in N
      PROVE  n + 1 \in N
  <2>1. ASSUME NEW T \in SUBSET S, Cardinality(T) = n + 1, NEW x \in T
        PROVE  T \ {x} \in P
    <3>1. Cardinality(T \ {x}) = Cardinality(T) - 1
      BY <1>1, FS_RemoveElement
    <3>2. Cardinality(T \ {x}) = n
      BY <2>1, <3>1
    <3> QED
      BY <3>2
  <2> QED
    BY <2>1
<1>4. N = Nat
  <2> HIDE DEF N
  <2>1. N \subseteq Nat
    BY DEF N
  <2> QED
    BY <1>2, <1>3, <2>1, SetInduction
<1> QED
  BY <1>1, <1>4

\* What the grade of an item is worth when the grades are v, and the points
\* added up over a set of items.
Worth(v, i) == v[i].score * Value[i]

Total(v, S) == MapThenSumSet(LAMBDA i : v[i].score * Value[i], S)

Pick(S) == CHOOSE x \in S : TRUE

\* The function by which the points of the subsets of a set are added up.
Adds(v, g, S) ==
  g = [s \in SUBSET S |-> IF s = {} THEN 0 ELSE Worth(v, Pick(s)) + g[s \ {Pick(s)}]]

\* The fold of the community module, unfolded.
LEMMA PointsAdded ==
  ASSUME NEW v, NEW S
  PROVE  Total(v, S) = (CHOOSE g : Adds(v, g, S))[S]
  BY DEF Total, Worth, Adds, Pick, MapThenSumSet, MapThenFoldSet

\* One step of the adding up.
LEMMA AddsAt ==
  ASSUME NEW v, NEW S, NEW g, Adds(v, g, S), NEW T \in SUBSET S
  PROVE  g[T] = IF T = {} THEN 0 ELSE Worth(v, Pick(T)) + g[T \ {Pick(T)}]
<1> DEFINE h == [s \in SUBSET S |-> IF s = {} THEN 0 ELSE Worth(v, Pick(s)) + g[s \ {Pick(s)}]]
<1>1. g = h
  BY DEF Adds
<1>2. h[T] = IF T = {} THEN 0 ELSE Worth(v, Pick(T)) + g[T \ {Pick(T)}]
  OBVIOUS
<1> HIDE DEF h
<1> QED
  BY <1>1, <1>2

\* A set that is not empty has an element to pick.
LEMMA Picked ==
  ASSUME NEW S, S # {}
  PROVE  Pick(S) \in S
  BY DEF Pick

\* The recursion that adds up the points has a solution.
LEMMA AddingUp ==
  ASSUME NEW v, NEW S, IsFiniteSet(S)
  PROVE  \E g : Adds(v, g, S)
<1> DEFINE Sound(g, n) == \A T \in SUBSET S : Cardinality(T) <= n =>
             g[T] = IF T = {} THEN 0 ELSE Worth(v, Pick(T)) + g[T \ {Pick(T)}]
           N == {n \in Nat : \E g : Sound(g, n)}
<1>1. \A T \in SUBSET S : IsFiniteSet(T) /\ Cardinality(T) \in Nat
  BY FS_Subset, FS_CardinalityType
<1>2. 0 \in N
  <2>1. \A T \in SUBSET S : Cardinality(T) <= 0 => T = {}
    BY <1>1, FS_EmptySet
  <2>2. Sound([T \in SUBSET S |-> 0], 0)
    BY <2>1
  <2> QED
    BY <2>2
<1>3. ASSUME NEW n \in N
      PROVE  n + 1 \in N
  <2>1. PICK g : Sound(g, n)
    BY <1>3
  <2> DEFINE h == [T \in SUBSET S |-> IF T = {} THEN 0 ELSE Worth(v, Pick(T)) + g[T \ {Pick(T)}]]
  <2>2. ASSUME NEW T \in SUBSET S, Cardinality(T) <= n
        PROVE  h[T] = g[T]
    BY <2>1, <2>2
  <2>3. ASSUME NEW T \in SUBSET S, Cardinality(T) <= n + 1, T # {}
        PROVE  h[T \ {Pick(T)}] = g[T \ {Pick(T)}]
    <3>1. Cardinality(T \ {Pick(T)}) = Cardinality(T) - 1
      BY <1>1, <2>3, Picked, FS_RemoveElement
    <3>2. Cardinality(T \ {Pick(T)}) <= n
      BY <1>1, <1>3, <2>3, <3>1
    <3> HIDE DEF h
    <3> QED
      BY <2>2, <3>2
  <2>4. \A T \in SUBSET S : h[T] = IF T = {} THEN 0 ELSE Worth(v, Pick(T)) + g[T \ {Pick(T)}]
    OBVIOUS
  <2> HIDE DEF h
  <2>5. Sound(h, n + 1)
    BY <2>3, <2>4
  <2> HIDE DEF Sound
  <2>6. n + 1 \in Nat /\ \E x : Sound(x, n + 1)
    BY <1>3, <2>5
  <2> QED
    BY <2>6
<1>4. N = Nat
  <2> HIDE DEF N
  <2>1. N \subseteq Nat
    BY DEF N
  <2> QED
    BY <1>2, <1>3, <2>1, SetInduction
<1>5. PICK g : Sound(g, Cardinality(S))
  BY <1>1, <1>4
<1>6. \A T \in SUBSET S : Cardinality(T) <= Cardinality(S)
  BY FS_Subset
<1>7. \A T \in SUBSET S : g[T] = IF T = {} THEN 0 ELSE Worth(v, Pick(T)) + g[T \ {Pick(T)}]
  BY <1>5, <1>6
<1> DEFINE h == [T \in SUBSET S |-> g[T]]
<1>8. \A T \in SUBSET S : h[T] = IF T = {} THEN 0 ELSE Worth(v, Pick(T)) + h[T \ {Pick(T)}]
  BY <1>7
<1>9. h = [T \in SUBSET S |-> h[T]]
  OBVIOUS
<1> HIDE DEF h
<1>10. Adds(v, h, S)
  BY <1>8, <1>9 DEF Adds
<1> QED
  BY <1>10

\* The points of a set do not depend on the set they were added up for.
LEMMA SameSums ==
  ASSUME NEW v, NEW S, IsFiniteSet(S), NEW U \in SUBSET S, NEW g, NEW h, Adds(v, g, S), Adds(v, h, U)
  PROVE  g[U] = h[U]
<1> DEFINE P == {T \in SUBSET U : g[T] = h[T]}
<1>0. /\ \A T \in SUBSET S : g[T] = IF T = {} THEN 0 ELSE Worth(v, Pick(T)) + g[T \ {Pick(T)}]
      /\ \A T \in SUBSET U : h[T] = IF T = {} THEN 0 ELSE Worth(v, Pick(T)) + h[T \ {Pick(T)}]
  <2> HIDE DEF P
  <2>1. \A T \in SUBSET S : g[T] = IF T = {} THEN 0 ELSE Worth(v, Pick(T)) + g[T \ {Pick(T)}]
    BY AddsAt
  <2>2. \A T \in SUBSET U : h[T] = IF T = {} THEN 0 ELSE Worth(v, Pick(T)) + h[T \ {Pick(T)}]
    BY AddsAt
  <2> QED
    BY <2>1, <2>2
<1>1. ASSUME NEW T \in SUBSET U, \A x \in T : T \ {x} \in P
      PROVE  T \in P
  <2>1. /\ g[T] = IF T = {} THEN 0 ELSE Worth(v, Pick(T)) + g[T \ {Pick(T)}]
        /\ h[T] = IF T = {} THEN 0 ELSE Worth(v, Pick(T)) + h[T \ {Pick(T)}]
    BY <1>0
  <2>2. T # {} => g[T \ {Pick(T)}] = h[T \ {Pick(T)}]
    BY <1>1, Picked
  <2> QED
    BY <2>1, <2>2
<1>2. P = SUBSET U
  <2> HIDE DEF P
  <2>1. P \subseteq SUBSET U
    BY DEF P
  <2> QED
    BY <1>1, <2>1, FS_Subset, SubsetInduction
<1> QED
  BY <1>2

\* The points of a set are those of one item and those of the others.
LEMMA PointsPicked ==
  ASSUME NEW v, NEW S, IsFiniteSet(S)
  PROVE  Total(v, S) = IF S = {} THEN 0 ELSE Worth(v, Pick(S)) + Total(v, S \ {Pick(S)})
<1> DEFINE g == CHOOSE g : Adds(v, g, S)
           U == S \ {Pick(S)}
           h == CHOOSE h : Adds(v, h, U)
<1>1. IsFiniteSet(U)
  BY FS_Subset
<1>2. Adds(v, g, S) /\ Adds(v, h, U)
  BY <1>1, AddingUp
<1>3. Total(v, S) = g[S] /\ Total(v, U) = h[U]
  BY PointsAdded
<1> HIDE DEF g, h
<1>4. g[U] = h[U]
  BY <1>2, SameSums
<1>5. g[S] = IF S = {} THEN 0 ELSE Worth(v, Pick(S)) + g[U]
  <2>1. S \in SUBSET S /\ Adds(v, g, S)
    BY <1>2
  <2>2. g[S] = IF S = {} THEN 0 ELSE Worth(v, Pick(S)) + g[S \ {Pick(S)}]
    BY <2>1, AddsAt
  <2> QED
    BY <2>2
<1> QED
  BY <1>3, <1>4, <1>5

\* Points are natural numbers.
LEMMA PointsType ==
  ASSUME NEW v, NEW S, IsFiniteSet(S), \A i \in S : Worth(v, i) \in Nat
  PROVE  Total(v, S) \in Nat
<1> DEFINE P == {T \in SUBSET S : Total(v, T) \in Nat}
<1>1. ASSUME NEW T \in SUBSET S, \A x \in T : T \ {x} \in P
      PROVE  T \in P
  <2>1. Total(v, T) = IF T = {} THEN 0 ELSE Worth(v, Pick(T)) + Total(v, T \ {Pick(T)})
    BY FS_Subset, PointsPicked
  <2>2. T # {} => Worth(v, Pick(T)) \in Nat /\ Total(v, T \ {Pick(T)}) \in Nat
    BY <1>1, Picked
  <2> QED
    BY <2>1, <2>2
<1>2. P = SUBSET S
  <2> HIDE DEF P
  <2>1. P \subseteq SUBSET S
    BY DEF P
  <2> QED
    BY <1>1, <2>1, SubsetInduction
<1> QED
  BY <1>2

\* In whichever order the points are added.
LEMMA PointsWithout ==
  ASSUME NEW v, NEW S, IsFiniteSet(S), \A i \in S : Worth(v, i) \in Nat, NEW f \in S
  PROVE  Total(v, S) = Worth(v, f) + Total(v, S \ {f})
<1> DEFINE P == {T \in SUBSET S : \A x \in T : Total(v, T) = Worth(v, x) + Total(v, T \ {x})}
<1>0. /\ \A T \in SUBSET S : IsFiniteSet(T) /\ Total(v, T) \in Nat
      /\ \A x \in S : Worth(v, x) \in Nat
  BY FS_Subset, PointsType
<1>1. ASSUME NEW T \in SUBSET S, \A x \in T : T \ {x} \in P
      PROVE  T \in P
  <2> SUFFICES ASSUME NEW x \in T
               PROVE  Total(v, T) = Worth(v, x) + Total(v, T \ {x})
    OBVIOUS
  <2> DEFINE c == Pick(T)
  <2>1. c \in T /\ Total(v, T) = Worth(v, c) + Total(v, T \ {c})
    BY <1>0, Picked, PointsPicked
  <2> HIDE DEF c
  <2>2. CASE c = x
    BY <2>1, <2>2
  <2>3. CASE c # x
    <3>1. Total(v, T \ {c}) = Worth(v, x) + Total(v, (T \ {c}) \ {x})
      BY <1>1, <2>1, <2>3
    <3>2. Total(v, T \ {x}) = Worth(v, c) + Total(v, (T \ {x}) \ {c})
      BY <1>1, <2>1, <2>3
    <3>3. (T \ {c}) \ {x} = (T \ {x}) \ {c}
      OBVIOUS
    <3>4. Total(v, (T \ {c}) \ {x}) \in Nat /\ Worth(v, x) \in Nat /\ Worth(v, c) \in Nat
      BY <1>0, <2>1
    <3> DEFINE rest == Total(v, (T \ {c}) \ {x})
    <3>5. Total(v, T) = Worth(v, c) + (Worth(v, x) + rest)
      BY <2>1, <3>1
    <3>6. Total(v, T \ {x}) = Worth(v, c) + rest
      BY <3>2, <3>3
    <3> HIDE DEF rest
    <3>7. \A i, j, k \in Nat : i + (j + k) = j + (i + k)
      OBVIOUS
    <3>8. rest \in Nat
      BY <3>4 DEF rest
    <3> QED
      BY <3>4, <3>5, <3>6, <3>7, <3>8
  <2> QED
    BY <2>2, <2>3
<1>2. P = SUBSET S
  <2> HIDE DEF P
  <2>1. P \subseteq SUBSET S
    BY DEF P
  <2> QED
    BY <1>1, <2>1, SubsetInduction
<1> QED
  BY <1>2

\* Only what the added items are worth counts.
LEMMA SameWorth ==
  ASSUME NEW v, NEW w, NEW S, IsFiniteSet(S),
         \A i \in S : Worth(v, i) \in Nat /\ w[i] = v[i]
  PROVE  Total(w, S) = Total(v, S)
<1> DEFINE P == {T \in SUBSET S : Total(w, T) = Total(v, T)}
<1>1. ASSUME NEW T \in SUBSET S, \A x \in T : T \ {x} \in P
      PROVE  T \in P
  <2>1. /\ Total(v, T) = IF T = {} THEN 0 ELSE Worth(v, Pick(T)) + Total(v, T \ {Pick(T)})
        /\ Total(w, T) = IF T = {} THEN 0 ELSE Worth(w, Pick(T)) + Total(w, T \ {Pick(T)})
    BY FS_Subset, PointsPicked
  <2>2. T # {} => /\ Worth(w, Pick(T)) = Worth(v, Pick(T))
                  /\ Total(w, T \ {Pick(T)}) = Total(v, T \ {Pick(T)})
    BY <1>1, Picked DEF Worth
  <2> QED
    BY <2>1, <2>2
<1>2. P = SUBSET S
  <2> HIDE DEF P
  <2>1. P \subseteq SUBSET S
    BY DEF P
  <2> QED
    BY <1>1, <2>1, SubsetInduction
<1> QED
  BY <1>2

\* An item worth nothing may be graded without changing the points.
LEMMA WorthNothing ==
  ASSUME NEW v, NEW w, NEW S, NEW U, NEW i, IsFiniteSet(S), i \notin S,
         U = S \cup {i}, Worth(w, i) = 0,
         \A j \in S : Worth(v, j) \in Nat /\ w[j] = v[j]
  PROVE  Total(w, U) = Total(v, S)
<1>1. IsFiniteSet(U) /\ U \ {i} = S /\ i \in U
  BY FS_AddElement
<1>2. \A j \in U : Worth(w, j) \in Nat
  BY DEF Worth
<1>3. Total(w, U) = Worth(w, i) + Total(w, S)
  BY <1>1, <1>2, PointsWithout
<1>4. Total(w, S) \in Nat
  BY <1>2, PointsType
<1>5. Total(w, S) = Total(v, S)
  BY SameWorth
<1> QED
  BY <1>3, <1>4, <1>5

\* Both ways to add up the grade, as points of the grades given.
LEMMA GradesAreTotals ==
  /\ QueriedGrade = Total(graderEval, Graded)
  /\ CachedGrade = Total(graderEval, ReadyGrades)
  BY DEF QueriedGrade, CachedGrade, Points, Total

\* And as they are after a step.
LEMMA GradesAreTotalsAfter ==
  /\ QueriedGrade' = Total(graderEval', Graded')
  /\ CachedGrade' = Total(graderEval', ReadyGrades')
<1> DEFINE Same == /\ QueriedGrade = Total(graderEval, Graded)
                   /\ CachedGrade = Total(graderEval, ReadyGrades)
<1>1. Same
  BY GradesAreTotals
<1>2. Same'
  BY <1>1, PTL
<1> QED
  BY <1>2

\* Looking at an informational item keeps the points as they are.
LEMMA LookingIsFree ==
  ASSUME IInv, NEW i \in Items, ViewEvalItem(i)
  PROVE  CachedGrade' = CachedGrade /\ QueriedGrade' = QueriedGrade
<1>1. /\ graderEval[i] = None /\ i \notin Graded /\ i \notin ReadyGrades
  BY DEF ViewEvalItem, Answered, Graded, ReadyGrades, IInv, ItemOK
<1>2. /\ IsFiniteSet(Graded) /\ IsFiniteSet(ReadyGrades)
      /\ Graded \subseteq Items /\ ReadyGrades \subseteq Graded
  <2>1. IsFiniteSet(Items)
    BY ConstantsAssumption, FS_Interval DEF Items
  <2> QED
    BY <2>1, FS_Subset DEF Graded, ReadyGrades
<1>3. \A j \in Graded : Worth(graderEval, j) \in Nat
  <2>1. \A x, y \in Nat : x * y \in Nat
    OBVIOUS
  <2>2. \A j \in Graded : graderEval[j].score \in Nat /\ Value[j] \in Nat
    BY ConstantsAssumption DEF Graded, IInv, TypeOK, Grades, Scores
  <2> QED
    BY <2>1, <2>2 DEF Worth
<1>4. /\ graderEval' = [graderEval EXCEPT ![i] = GradeOrNew(i)]
      /\ graderEval \in [Items -> Grades \cup {None}]
  BY DEF ViewEvalItem, IInv, TypeOK
<1>5. \A j \in Graded : graderEval'[j] = graderEval[j]
  BY <1>1, <1>2, <1>4
<1>6. CASE GradeOrNew(i) = None
  <2>1. graderEval' = graderEval
    BY <1>1, <1>4, <1>6
  <2>2. Graded' = Graded /\ ReadyGrades' = ReadyGrades
    BY <2>1 DEF Graded, ReadyGrades
  <2> QED
    BY <2>1, <2>2, GradesAreTotals, GradesAreTotalsAfter
<1>7. CASE GradeOrNew(i) # None
  <2>1. Value[i] = 0 /\ GradeOrNew(i) = Grade(FullScore, "ready", "student")
    BY <1>1, <1>7 DEF GradeOrNew, IsGradedAutomatically, ViewEvalItem
  <2>2. GradeOrNew(i).score = FullScore /\ GradeOrNew(i).status = "ready"
    BY <2>1 DEF Grade
  <2>3. graderEval'[i] = GradeOrNew(i)
    BY <1>4
  <2>4. Graded' = Graded \cup {i}
    BY <1>4, <1>7 DEF Graded
  <2>5. ReadyGrades' = ReadyGrades \cup {i}
    BY <1>5, <2>2, <2>3, <2>4 DEF ReadyGrades
  <2>6. Worth(graderEval', i) = 0
    <3>1. FullScore \in Nat /\ FullScore * 0 = 0
      BY ConstantsAssumption
    <3> QED
      BY <2>1, <2>2, <2>3, <3>1 DEF Worth
  <2>7. Total(graderEval', Graded') = Total(graderEval, Graded)
    BY <1>1, <1>2, <1>3, <1>5, <2>4, <2>6, WorthNothing
  <2>8. Total(graderEval', ReadyGrades') = Total(graderEval, ReadyGrades)
    BY <1>1, <1>2, <1>3, <1>5, <2>5, <2>6, WorthNothing
  <2> QED
    BY <2>7, <2>8, GradesAreTotals, GradesAreTotalsAfter
<1> QED
  BY <1>6, <1>7

\* A closed submission keeps its grade, whichever way it is added up: all its
\* owners can do is look at informational items, and those graded for being
\* looked at are worth nothing.
THEOREM ClosedGradesStand == Spec => ClosedGradeStands
<1> DEFINE Kept == CachedGrade' = CachedGrade /\ QueriedGrade' = QueriedGrade
<1>1. ASSUME IInv, SubmissionStatus = "closed", StudentStep PROVE Kept
  <2>1. ~CanEval("student")
    BY <1>1 DEF CanEval, InEvalPeriod, EvalStatuses
  <2>2. \E i \in Items : ViewEvalItem(i)
    BY <1>1, <2>1 DEF StudentStep, SaveSelfEval, DeleteSelfEval
  <2> QED
    BY <1>1, <2>2, LookingIsFree
<1>2. ASSUME IInv
      PROVE  [SubmissionStatus = "closed" /\ StudentStep => Kept]_vars
  BY <1>1, <1>2
<1> QED
  BY <1>2, Invariance, PTL DEF Spec, ClosedGradeStands

\* An extension past the due date lets the owners go on, whatever dates they
\* were given before.
THEOREM ExtensionsReopen == Spec => ExtensionReopens
<1> DEFINE Late == /\ AutoExtend /\ Assignment.open < now
                   /\ EffectiveDueDate(Assignment, dates) < now
<1>1. ASSUME IInv, Late PROVE InEvalPeriod'
  <2>1. /\ now \in Nat /\ dates \in SubmissionDates /\ Assignment \in AssignmentDates
        /\ ExtendBy \in Nat
    BY <1>1, ConstantsAssumption DEF IInv, TypeOK
  <2>2. /\ dates.due \in Nat /\ dates.eval \in Nat /\ Assignment.open \in Nat
        /\ Assignment.due \in Nat /\ Assignment.eval \in Nat
    BY <2>1 DEF SubmissionDates, AssignmentDates
  <2>3. /\ now' = now /\ dates'.due = dates.due
        /\ dates'.eval = Later(dates.eval, now) + ExtendBy
    BY <1>1, <2>1 DEF AutoExtend, SubmissionDates
  <2>4. now <= dates'.eval
    BY <2>1, <2>2, <2>3 DEF Later
  <2>5. ~(now <= Assignment.open) /\ ~(now <= Assignment.due) /\ ~(now <= dates.due)
    BY <1>1, <2>1, <2>2 DEF EffectiveDueDate, Later
  <2>6. Status(now', Assignment, dates', HasStartedSelfEval') \in
          {"overtime", "self_eval", "extended_eval"}
    BY <2>3, <2>4, <2>5 DEF Status, OvertimeOr
  <2> QED
    BY <2>6 DEF InEvalPeriod, SubmissionStatus, EvalStatuses
<1>2. ASSUME IInv
      PROVE  [Late => InEvalPeriod']_vars
  BY <1>1, <1>2
<1> QED
  BY <1>2, Invariance, PTL DEF Spec, ExtensionReopens
=============================================================================
