-------------------------- MODULE EvaluationPages --------------------------
(***************************************************************************)
(* The evaluation pages of one submission in web sessions that keep their  *)
(* own copies of what they loaded: the rows (Wt::Dbo objects) of the       *)
(* responses and their grades, and what Submission computed from them when *)
(* it last filled its cache.  Copies are not refreshed when other requests *)
(* write the rows.  A version number makes a write fail, and end the       *)
(* session, if the row is no longer the one that was loaded; the cache is  *)
(* filled anew only after the session itself invalidated it.               *)
(*                                                                         *)
(* One action is one transaction: a click on a page, or a request that     *)
(* loads everything afresh (REST, another session, a grader's page).       *)
(* Work is past its due date; handing in is over.                          *)
(***************************************************************************)
EXTENDS Integers, FiniteSetsExt

CONSTANTS
  None,         \* no such row
  Shut,         \* no form is shown
  NumItems,     \* items are numbered 1 .. NumItems
  Type,         \* the type of each item
  Value,        \* the relative value of each item
  FullScore,    \* scores are counted in FullScore-ths of a whole point
  RewardForNo,  \* the configured reward for an honest "no"
  Texts,        \* explanations; the empty one is DefaultText
  DefaultText,
  GivenScores,  \* scores that administrators, graders and requests give
  GivenStatuses, \* statuses that graders give
  EvalDates,    \* dates on which the self evaluation may end
  MaxPages,     \* BOUND: pages open at a time (all else loads afresh)
  MaxWrites,    \* BOUND: transactions that write
  MaxTime       \* BOUND: the clock stops here

Items == 1..NumItems

Scores == 0..FullScore

Responses == [score : Scores, text : Texts]

Statuses == {"editing", "held_back", "ready", "regrade"}

Grades == [score : Scores, status : Statuses]

ASSUME PagesAssumption ==
  /\ NumItems \in Nat \ {0}
  /\ Type \in [Items -> {"Boolean", "Scale", "Informational"}]
  /\ Value \in [Items -> Nat]
  /\ FullScore \in Nat \ {0} /\ RewardForNo \in Scores /\ GivenScores \subseteq Scores
  /\ GivenStatuses \subseteq Statuses
  /\ DefaultText \in Texts
  /\ EvalDates \subseteq Nat /\ EvalDates # {} /\ MaxTime \in Nat
  /\ None \notin Responses \cup Grades /\ Shut \notin {"none", "score", "full"}

Viewers == {"owner", "admin"}

VARIABLES
  now,       \* the clock
  evalDate,  \* when the self evaluation ends
  resp,      \* table self_eval: the response to each item, or None
  grade,     \* table grader_eval: the grade of each response, or None
  doubled,   \* items whose response has a second row in grader_eval
  page,      \* the page of each viewer, or None
  writes     \* how many transactions wrote responses and grades

vars == <<now, evalDate, resp, grade, doubled, page, writes>>

-----------------------------------------------------------------------------
(* What a page holds.  fresh: is the submission's row the one it loaded?   *)
(* stale: items whose response is not; changed, gone: items whose grade    *)
(* was written or removed since.  shown: what the cache computed.  at: the *)
(* item on display, 0 for the list; form: how far the input is frozen.     *)

Computed == [ready : BOOLEAN, points : Nat]

Pages == [fresh : BOOLEAN, evalDate : EvalDates, loaded : BOOLEAN,
          resp : [Items -> Responses \cup {None}],
          grade : [Items -> Grades \cup {None}],
          stale : SUBSET Items, changed : SUBSET Items, gone : SUBSET Items,
          shown : Computed, at : 0..NumItems, form : {Shut, "none", "score", "full"}]

Answered(r) == {i \in Items : r[i] # None}

ReadyGrades(g) == {i \in Items : g[i] # None /\ g[i].status = "ready"}

IsInformational(i) == Type[i] = "Informational"

IsGradedAutomatically(i) == IsInformational(i) /\ Value[i] = 0

\* reload_cache: whether the grade can be shown, and the grade.
Compute(r, g, date) ==
  [ready |-> (Answered(r) = Items \/ date < now)
             /\ Cardinality(ReadyGrades(g)) = Cardinality(Answered(r)),
   points |-> MapThenSumSet(LAMBDA i : g[i].score * Value[i], ReadyGrades(g))]

\* The submission as a request that loads it now finds it.
Loaded ==
  [fresh |-> TRUE, evalDate |-> evalDate, loaded |-> TRUE, resp |-> resp, grade |-> grade,
   stale |-> {}, changed |-> {}, gone |-> {},
   shown |-> Compute(resp, grade, evalDate), at |-> 0, form |-> Shut]

\* touch invalidates the cache of the submission.
LightTouched(p) == [p EXCEPT !.loaded = FALSE]

\* Mutant: giving a score leaves the cache as it is.
ScoreKeepsCache(p) == p

\* So does set_score, of a response or a grade.
Scored(p) == LightTouched(p)

\* Everything that reads the cache fills it first, when it must.  Filling it
\* lets go of the copies, so that the rows are read anew; the submission's own
\* row is not.
Filled(p, r, g) ==
  IF p.loaded THEN p
  ELSE [p EXCEPT !.loaded = TRUE, !.resp = r, !.grade = g,
                 !.stale = {}, !.changed = {}, !.gone = {},
                 !.shown = Compute(r, g, p.evalDate)]

\* Self_eval::grader_eval asks the database which row there is, and uses the
\* copy of it that the session already has.
GradeSeen(p, i) ==
  IF grade[i] # None /\ p.grade[i] # None /\ i \notin p.gone
  THEN p.grade[i] ELSE grade[i]

FreezeStatus(i, response, g) ==
  IF IsInformational(i) THEN "full"
  ELSE IF g = None THEN "none"
  ELSE IF g.score = FullScore THEN "full"
  ELSE IF Type[i] = "Boolean" /\ response.score = FullScore THEN "score"
  ELSE "none"

\* can_eval, by the page's own copy of the date.
CanEval(viewer, p) == viewer = "admin" \/ now <= p.evalDate

-----------------------------------------------------------------------------
(* Evaluation_view.                                                        *)

\* go_to: those who are not administrators come no further than the first
\* item without a response.
Reached(viewer, p, i) ==
  IF viewer = "admin" THEN i
  ELSE Min({i} \cup (Items \ Answered(p.resp)))

\* The widget for an item: a form where the viewer can evaluate.
Displayed(viewer, p, i, freeze) ==
  [p EXCEPT !.at = i, !.form = IF CanEval(viewer, p) THEN freeze ELSE Shut]

FreezeShown(p, i) ==
  IF p.resp[i] = None THEN "none" ELSE FreezeStatus(i, p.resp[i], GradeSeen(p, i))

GoneTo(viewer, p, i) ==
  LET j == Reached(viewer, p, i)
  IN Displayed(viewer, p, j, IF viewer = "admin" THEN "none" ELSE FreezeShown(p, j))

\* go_default, with everything just loaded: on to the next item to answer, or
\* to the list.
Onwards(viewer, p) ==
  IF viewer = "owner" /\ CanEval(viewer, p) /\ Answered(p.resp) # Items
  THEN LET j == Min(Items \ Answered(p.resp)) IN Displayed(viewer, p, j, "none")
  ELSE [p EXCEPT !.at = 0, !.form = Shut]

-----------------------------------------------------------------------------
(* Transactions: the copies p as they are at its end; the responses and    *)
(* grades it wrote (or removed, where the copy is None); the grades it     *)
(* inserted; and whether it touched the submission.                        *)

Transaction(p, responses, grades, inserts, touched) ==
  [p |-> p, responses |-> responses, grades |-> grades, inserts |-> inserts,
   touched |-> touched]

\* What becomes of a page when others write responses, grades and the row of
\* the submission itself.
Aged(p, responses, grades, touched) ==
  IF p = None THEN None
  ELSE LET lost == {i \in grades : grade'[i] = None}
           mine == {i \in Items : p.grade[i] # None}
       IN [p EXCEPT !.fresh = @ /\ ~touched,
                    !.stale = @ \cup {i \in responses : p.resp[i] # None},
                    !.gone = @ \cup (mine \cap lost),
                    !.changed = (@ \cup (mine \cap grades)) \ lost]

\* Does a transaction that started from the copies `start' meet a row that is
\* no longer the one that was loaded, or grade a response that is gone?
Conflict(start, t) ==
  \/ t.touched /\ ~start.fresh
  \/ t.responses \cap start.stale # {}
  \/ t.grades \cap (t.p.changed \cup t.p.gone) # {}
  \/ \E i \in t.inserts \ t.responses : resp[i] = None

\* An exception that nobody catches ends the session.
Dies(viewer) ==
  /\ page' = [page EXCEPT ![viewer] = None]
  /\ UNCHANGED <<now, evalDate, resp, grade, doubled, writes>>

\* Filling the cache reads every grade: an item with two of them throws.
CanLoad == doubled = {}

\* A response's grades go when it goes.
WriteRows(t) ==
  /\ writes < MaxWrites /\ writes' = writes + 1
  /\ resp' = [i \in Items |-> IF i \in t.responses THEN t.p.resp[i] ELSE resp[i]]
  /\ doubled' = {i \in Items : /\ resp'[i] # None
                               /\ i \in doubled \/ (i \in t.inserts /\ grade[i] # None)}
  /\ grade' = [i \in Items |->
                 IF resp'[i] = None THEN None
                 ELSE IF i \in t.grades \/ (i \in t.inserts /\ grade[i] = None)
                 THEN t.p.grade[i] ELSE grade[i]]
  /\ UNCHANGED <<now, evalDate>>

WrittenGrades(t) == {i \in Items : i \in t.grades \cup t.inserts \/ grade'[i] # grade[i]}

\* A click on the viewer's page, which is then drawn anew by Drawn.
Click(viewer, t, Drawn(_)) ==
  IF Conflict(page[viewer], t) THEN Dies(viewer)
  ELSE /\ WriteRows(t)
       /\ page' = [v \in Viewers |->
            IF v # viewer THEN Aged(page[v], t.responses, WrittenGrades(t), t.touched)
            ELSE IF doubled' # {} /\ ~t.p.loaded THEN None
            ELSE Drawn(Filled(t.p, resp', grade'))]

\* The same, as a request of its own.
Request(t) ==
  /\ WriteRows(t)
  /\ page' = [v \in Viewers |->
                Aged(page[v], t.responses, WrittenGrades(t), t.touched)]

-----------------------------------------------------------------------------
(* What the operations of Submission do to the copies they work with.      *)

DefaultResponse(i) ==
  [score |-> IF Type[i] = "Boolean" THEN 0 ELSE FullScore, text |-> DefaultText]

\* Self_eval::create
Create(p, i, touched) ==
  LET automatically == {i} \cap {j \in Items : IsGradedAutomatically(j)}
  IN Transaction(LightTouched([p EXCEPT
                   !.resp[i] = DefaultResponse(i),
                   !.grade[i] = IF IsGradedAutomatically(i)
                                THEN [score |-> FullScore, status |-> "ready"] ELSE None]),
                 {i}, {}, automatically, touched)

\* Mutant: a new response does not touch the submission.
CreatesQuietly(p, i) ==
  IF p.resp[i] # None THEN Transaction(p, {}, {}, {}, FALSE) ELSE Create(p, i, FALSE)

\* get_self_eval, which creates the response if the cache has none.
GetSelfEval(p, i) ==
  IF p.resp[i] # None THEN Transaction(p, {}, {}, {}, FALSE) ELSE Create(p, i, TRUE)

\* Mutant: a grade stays as it was when its response changes.
KeepsGrade(i, score, g, freeze) ==
  IF score = 0 /\ Type[i] = "Boolean"
  THEN [score |-> RewardForNo, status |-> IF g = None THEN "ready" ELSE g.status]
  ELSE IF g # None /\ freeze = "score" THEN [g EXCEPT !.status = "regrade"]
  ELSE g

\* What becomes of a grade when its response is saved anew.
GradeAfterSave(i, score, g, freeze) ==
  IF score = 0 /\ Type[i] = "Boolean"
  THEN [score |-> RewardForNo, status |-> IF g = None THEN "ready" ELSE g.status]
  ELSE IF g # None /\ freeze = "score" THEN [g EXCEPT !.status = "regrade"]
  ELSE None

\* The freeze that save_self_eval goes by.
FreezeOf(p, i) ==
  LET got == GetSelfEval(p, i)
  IN FreezeStatus(i, got.p.resp[i],
                  IF p.resp[i] = None THEN got.p.grade[i] ELSE GradeSeen(p, i))

\* save_self_eval.  A score that is not frozen is set, which invalidates the
\* cache; the grade is looked up in the cache, and so in the database unless
\* the score was frozen.
Save(p, i, score, text) ==
  LET got    == GetSelfEval(p, i)
      freeze == FreezeOf(p, i)
      new    == [score |-> IF freeze = "score" THEN got.p.resp[i].score ELSE score,
                 text |-> text]
      set    == [got.p EXCEPT !.resp[i] = new]
      looked == IF freeze = "score" THEN set
                ELSE Filled(Scored(set), [resp EXCEPT ![i] = new], grade)
      after  == GradeAfterSave(i, new.score, looked.grade[i], freeze)
  IN IF freeze = "full" THEN got
     ELSE Transaction(LightTouched([looked EXCEPT !.grade[i] = after]), {i},
                      {i} \cap {j \in Items : looked.grade[j] # None},
                      {i} \cap {j \in Items : looked.grade[j] = None /\ after # None},
                      TRUE)

\* Does it have to fill the cache on the way, or look up a doubled grade?
SaveThrows(p, i) ==
  \/ i \in doubled /\ p.resp[i] # None
  \/ ~CanLoad /\ FreezeOf(p, i) = "none"

\* retract_self_eval.
Retract(p, i) ==
  Transaction(LightTouched([p EXCEPT !.resp[i] = None, !.grade[i] = None]), {i},
              {i} \cap {j \in Items : p.grade[j] # None}, {}, TRUE)

\* get_grader_eval, and what an administrator or a grader then writes to it.
GiveGrade(p, i, score, status) ==
  LET new == p.grade[i] = None
  IN Transaction(Scored([p EXCEPT !.grade[i] = [score |-> score, status |-> status]]),
                 {}, IF new THEN {} ELSE {i}, IF new THEN {i} ELSE {}, new)

\* retract_grader_eval.
RetractGrade(p, i) ==
  Transaction(LightTouched([p EXCEPT !.grade[i] = None]), {}, {i}, {}, TRUE)

Quietly(t) == [t EXCEPT !.touched = FALSE]

-----------------------------------------------------------------------------
\* The owners have looked at the informational items already.
Init ==
  /\ now = 0
  /\ evalDate \in EvalDates
  /\ resp = [i \in Items |-> IF IsGradedAutomatically(i) THEN DefaultResponse(i) ELSE None]
  /\ grade = [i \in Items |-> IF IsGradedAutomatically(i)
                             THEN [score |-> FullScore, status |-> "ready"] ELSE None]
  /\ doubled = {}
  /\ page = [v \in Viewers |-> None]
  /\ writes = 0

Tick ==
  /\ now < MaxTime
  /\ now' = now + 1
  /\ UNCHANGED <<evalDate, resp, grade, doubled, page, writes>>

\* An administrator changes the date, here or on the page of submissions.
SetEvalDate(date) ==
  /\ date # evalDate
  /\ evalDate' = date
  /\ page' = [v \in Viewers |-> Aged(page[v], {}, {}, TRUE)]
  /\ UNCHANGED <<now, resp, grade, doubled, writes>>

(* The evaluation pages.                                                   *)

OpenPage(viewer) ==
  /\ page[viewer] = None /\ CanLoad
  /\ Cardinality({v \in Viewers : page[v] # None}) < MaxPages
  /\ page' = [page EXCEPT ![viewer] = Onwards(viewer, Loaded)]
  /\ UNCHANGED <<now, evalDate, resp, grade, doubled, writes>>

ClosePage(viewer) ==
  /\ page[viewer] # None
  /\ Dies(viewer)

\* An item chosen from the list, or Prev and Next of a page without a form.
GoTo(viewer, i) ==
  /\ page[viewer] # None
  /\ LET p == page[viewer]
     IN /\ p.at = 0 \/ ((viewer = "admin" \/ p.form = Shut) /\ i \in {p.at - 1, p.at + 1})
        /\ IF viewer = "owner" /\ Reached(viewer, p, i) \in doubled THEN Dies(viewer)
           ELSE /\ page' = [page EXCEPT ![viewer] = GoneTo(viewer, p, i)]
                /\ UNCHANGED <<now, evalDate, resp, grade, doubled, writes>>

\* The List and Back buttons.
GoDefault(viewer) ==
  /\ page[viewer] # None /\ page[viewer].at # 0
  /\ page' = [page EXCEPT ![viewer] = Onwards(viewer, page[viewer])]
  /\ UNCHANGED <<now, evalDate, resp, grade, doubled, writes>>

(* Response_widget: what can be entered that enables the save button, given *)
(* the response that was there.                                            *)

HasChanged(initial, score, text) ==
  initial # None => initial # [score |-> score, text |-> text]

\* "Yes" needs an explanation, "no" keeps the one that is hidden.
BooleanSubmittable(initial, score, text) ==
  /\ score = 0 \/ (score = FullScore /\ text # DefaultText)
  /\ HasChanged(initial, score, text)

\* The slider must have been moved, or else the explanation written, with the
\* slider still in the middle.
ScaleSubmittable(initial, score, text) == HasChanged(initial, score, text)

InformationalSubmittable(initial, score, text) ==
  initial = None /\ score = FullScore /\ text = DefaultText

Submittable(i, initial, freeze, score, text) ==
  /\ freeze = "score" => score = initial.score
  /\ CASE Type[i] = "Boolean" -> BooleanSubmittable(initial, score, text)
       [] Type[i] = "Scale" -> ScaleSubmittable(initial, score, text)
       [] Type[i] = "Informational" -> InformationalSubmittable(initial, score, text)

\* save_action_ asks again whether the owner can still evaluate.
MayStillSave(p) == CanEval("owner", p)

OwnerSaves(score, text) ==
  /\ page["owner"] # None
  /\ LET p == page["owner"]
         i == p.at
         Drawn(q) == Onwards("owner", q)
     IN /\ p.form \in {"none", "score"} /\ MayStillSave(p)
        /\ Submittable(i, p.resp[i], p.form, score, text)
        /\ IF SaveThrows(p, i) THEN Dies("owner")
           ELSE Click("owner", Save(p, i, score, text), Drawn)

\* Administrators write the response and its grade as they like.
AdminClicks(t, i) ==
  LET Drawn(q) == GoneTo("admin", q, i) IN Click("admin", t, Drawn)

AdminAt(i) == page["admin"] # None /\ page["admin"].at = i

AdminSave(p, i, score, text) ==
  LET got == GetSelfEval(p, i)
  IN [got EXCEPT !.p = Scored([@ EXCEPT !.resp[i] = [score |-> score, text |-> text]]),
                 !.responses = {i}]

AdminSavesSelf(i, score, text) ==
  /\ AdminAt(i) /\ HasChanged(page["admin"].resp[i], score, text)
  /\ AdminClicks(AdminSave(page["admin"], i, score, text), i)

AdminRetractsSelf(i) ==
  /\ AdminAt(i) /\ page["admin"].resp[i] # None
  /\ AdminClicks(Retract(page["admin"], i), i)

AdminGrades(i, score, status) ==
  /\ AdminAt(i) /\ page["admin"].resp[i] # None
  /\ AdminClicks(GiveGrade(page["admin"], i, score, status), i)

AdminRetractsGrade(i) ==
  /\ AdminAt(i) /\ ~IsInformational(i) /\ page["admin"].grade[i] # None
  /\ AdminClicks(RetractGrade(page["admin"], i), i)

-----------------------------------------------------------------------------
(* Requests that load everything afresh.                                   *)

\* PUT and DELETE .../evals/i/self; the latter does not touch the submission.
PutsSelf(viewer, i, score, text) ==
  /\ CanLoad /\ CanEval(viewer, Loaded)
  /\ Request(Save(Loaded, i, score, text))

DeletesSelf(viewer, i) ==
  /\ CanLoad /\ CanEval(viewer, Loaded) /\ resp[i] # None
  /\ Request(Quietly(Retract(Loaded, i)))

\* An administrator who has just opened a page of their own.
AdminSavesSelfAfresh(i, score, text) ==
  /\ CanLoad
  /\ Request(AdminSave(Loaded, i, score, text))

AdminRetractsSelfAfresh(i) ==
  /\ CanLoad /\ resp[i] # None
  /\ Request(Retract(Loaded, i))

\* A grader's page, which does not touch the submission: it takes an editing
\* hold, and saves or leaves.
OpensGrading(i) ==
  /\ resp[i] # None /\ grade[i] = None
  /\ Request(Quietly(GiveGrade(Loaded, i, 0, "editing")))

SavesGrade(i, score, status) ==
  /\ grade[i] # None /\ i \notin doubled
  /\ Request(Quietly(GiveGrade(Loaded, i, score, status)))

\* PUT .../evals/i/grader where there is no grade yet.
PutsGrade(i, score, status) ==
  /\ CanLoad /\ resp[i] # None /\ grade[i] = None
  /\ Request(GiveGrade(Loaded, i, score, status))

\* DELETE .../evals/i/grader, and leaving a page whose grade is being edited.
DeletesGrade(i) ==
  /\ CanLoad /\ grade[i] # None
  /\ Request(Quietly(RetractGrade(Loaded, i)))

Next ==
  \/ Tick
  \/ \E date \in EvalDates : SetEvalDate(date)
  \/ \E v \in Viewers : OpenPage(v) \/ ClosePage(v) \/ GoDefault(v)
  \/ \E v \in Viewers, i \in Items : GoTo(v, i) \/ DeletesSelf(v, i)
  \/ \E score \in Scores, text \in Texts : OwnerSaves(score, text)
  \/ \E i \in Items :
       \/ \E score \in GivenScores, text \in Texts :
            AdminSavesSelf(i, score, text) \/ AdminSavesSelfAfresh(i, score, text)
       \/ \E v \in Viewers, score \in GivenScores, text \in Texts : PutsSelf(v, i, score, text)
       \/ \E score \in GivenScores, status \in GivenStatuses :
            AdminGrades(i, score, status) \/ SavesGrade(i, score, status) \/ PutsGrade(i, score, status)
       \/ AdminRetractsSelf(i) \/ AdminRetractsSelfAfresh(i) \/ AdminRetractsGrade(i)
       \/ OpensGrading(i) \/ DeletesGrade(i)

Spec == Init /\ [][Next]_vars

-----------------------------------------------------------------------------
(* Properties.                                                             *)

OwnerClicks == \E score \in Scores, text \in Texts : OwnerSaves(score, text)

AdminWritesSelf ==
  \E i \in Items :
    \/ AdminRetractsSelf(i)
    \/ \E score \in GivenScores, text \in Texts : AdminSavesSelf(i, score, text)

AdminWritesGrade ==
  \E i \in Items :
    \/ AdminRetractsGrade(i)
    \/ \E score \in GivenScores, status \in GivenStatuses : AdminGrades(i, score, status)

\* No page overwrites what it does not show: between two owners, or an owner
\* and an administrator, whose pages show the same response, the version
\* numbers let one of them save, and whoever creates a response touches the
\* submission so that nobody creates another.  Likewise with grades.
WritesWhatItShows ==
  [][\A i \in Items :
       /\ resp'[i] # resp[i] /\ OwnerClicks => page["owner"].resp[i] = resp[i]
       /\ resp'[i] # resp[i] /\ AdminWritesSelf => page["admin"].resp[i] = resp[i]
       /\ grade'[i] # grade[i] /\ AdminWritesGrade => page["admin"].grade[i] = grade[i]]_vars

\* When owners change a response that has a grade, save_self_eval finds the
\* grade, takes it back, marks it for regrading or makes it the reward for an
\* honest "no", even if it was given after the page was loaded; but for one
\* case: an explanation to a "yes" whose score the grade froze meanwhile.
RegradedUnlessBlind ==
  [][\A i \in Items :
       /\ resp[i] # None /\ grade[i] # None /\ resp'[i] # resp[i]
       /\ OwnerClicks
       /\ ~(page["owner"].grade[i] = None /\ resp[i].score = FullScore)
       => \/ grade'[i] = None
          \/ grade'[i].status # "ready"
          \/ resp'[i].score = 0 /\ grade'[i].score = RewardForNo]_vars

\* A second grade for a response comes only from an administrator whose page
\* was loaded before there was the first; never from the owners, however old
\* the page is on which they turn their answer into an honest "no".
SecondGradeOnlyByAdmin ==
  [][\A i \in doubled' \ doubled : AdminAt(i) /\ page["admin"].grade[i] = None]_vars

\* The grade that a page shows, and whether it shows one, is that of the
\* responses and grades it lists: the cache is never half old and half new.
CacheCoherent ==
  \A v \in Viewers : page[v] # None =>
    LET p == page[v]
    IN /\ p.loaded
       /\ p.shown.points = MapThenSumSet(LAMBDA i : p.grade[i].score * Value[i],
                                         ReadyGrades(p.grade))
       /\ p.shown.ready => ReadyGrades(p.grade) = Answered(p.resp)
=============================================================================
