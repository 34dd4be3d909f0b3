----------------------- MODULE EvaluationPages_proofs -----------------------
(***************************************************************************)
(* What module EvaluationPages promises, proved for any items, scores and  *)
(* dates, and any number of writes.                                        *)
(*                                                                         *)
(* The argument is about what a copy is worth.  A row that is on a page    *)
(* and was not written since is the row of the database; a response that   *)
(* the page does not have exists only if somebody touched the submission.  *)
(* What the cache shows was computed from the rows that the page lists,    *)
(* since every operation that changes a copy invalidates the cache.        *)
(***************************************************************************)
EXTENDS EvaluationPages, FiniteSetTheorems, WellFoundedInduction, TLAPS

ResponseTable == [Items -> Responses \cup {None}]

GradeTable == [Items -> Grades \cup {None}]

\* The points of the grades that are ready, as reload_cache adds them up.
Points(g) == MapThenSumSet(LAMBDA i : g[i].score * Value[i], ReadyGrades(g))

Figures == {[ready |-> b, points |-> Points(g)] : b \in BOOLEAN, g \in GradeTable}

PageRow == [fresh : BOOLEAN, evalDate : EvalDates, loaded : BOOLEAN,
            resp : ResponseTable, grade : GradeTable,
            stale : SUBSET Items, changed : SUBSET Items, gone : SUBSET Items,
            shown : Figures, at : 0..NumItems, form : {Shut, "none", "score", "full"}]

Coherent(p) ==
  /\ p.loaded
  /\ p.shown.points = Points(p.grade)
  /\ p.shown.ready => ReadyGrades(p.grade) = Answered(p.resp)

\* The copies of p that are not known to be old are the rows r and g.
Current(p, r, g) ==
  \A i \in Items :
    /\ p.resp[i] # None /\ i \notin p.stale => r[i] = p.resp[i]
    /\ p.resp[i] = None /\ p.fresh => r[i] = None
    /\ p.grade[i] # None /\ i \notin p.changed \cup p.gone => g[i] = p.grade[i]

\* A form is for an item.
Placed(p) == p.at = 0 => p.form = Shut

PageOK(p, r, g) == Coherent(p) /\ Current(p, r, g) /\ Placed(p)

GradesHaveResponses(r, g) == \A i \in Items : g[i] # None => r[i] # None

TypeOK ==
  /\ now \in Nat
  /\ evalDate \in EvalDates
  /\ resp \in ResponseTable
  /\ grade \in GradeTable
  /\ doubled \subseteq Items
  /\ page \in [Viewers -> PageRow \cup {None}]

IInv ==
  /\ TypeOK
  /\ GradesHaveResponses(resp, grade)
  /\ \A v \in Viewers : page[v] # None => PageOK(page[v], resp, grade)

-----------------------------------------------------------------------------
(* Items and figures *)

LEMMA LeastItem ==
  ASSUME NEW S \in SUBSET Items, S # {}
  PROVE  Min(S) \in S
<1>1. \E R : R = {m \in Nat \X Nat : m[1] < m[2]} /\ IsWellFoundedOn(R, Nat)
  <2>1. OpToRel(<, Nat) = {m \in Nat \X Nat : m[1] < m[2]}
    BY DEF OpToRel
  <2>2. IsWellFoundedOn(OpToRel(<, Nat), Nat)
    BY NatLessThanWellFounded
  <2>3. IsWellFoundedOn({m \in Nat \X Nat : m[1] < m[2]}, Nat)
    BY <2>1, <2>2
  <2> QED
    BY <2>3
<1>2. PICK R : R = {m \in Nat \X Nat : m[1] < m[2]} /\ IsWellFoundedOn(R, Nat)
  BY <1>1
<1>3. S \subseteq Nat
  BY PagesAssumption DEF Items
<1>4. PICK x \in S : \A y \in S : ~(<<y, x>> \in R)
  BY <1>2, <1>3, WFMin
<1>5. \A y \in S : ~(y < x)
  BY <1>2, <1>3, <1>4
<1>6. \A y \in S : x <= y
  BY <1>3, <1>5
<1> QED
  BY <1>6 DEF Min

LEMMA ItemsAreFinite == IsFiniteSet(Items)
BY PagesAssumption, FS_Interval DEF Items

\* Filling the cache computes a grade of the rows that it reads.
LEMMA Computes ==
  ASSUME NEW r, NEW g \in GradeTable, NEW date
  PROVE  /\ Compute(r, g, date) \in Figures
         /\ Compute(r, g, date).points = Points(g)
         /\ Compute(r, g, date).ready => Cardinality(ReadyGrades(g)) = Cardinality(Answered(r))
<1> DEFINE enough == Answered(r) = Items \/ date < now
           ready == enough /\ Cardinality(ReadyGrades(g)) = Cardinality(Answered(r))
<1>1. Compute(r, g, date) = [ready |-> ready, points |-> Points(g)]
  BY DEF Compute, Points
<1>2. ready \in BOOLEAN /\ (ready => Cardinality(ReadyGrades(g)) = Cardinality(Answered(r)))
  OBVIOUS
<1> HIDE DEF ready
<1> QED
  BY <1>1, <1>2 DEF Figures

\* As many grades are ready as there are responses only if each response has one.
LEMMA ReadyAnswers ==
  ASSUME NEW r, NEW g, GradesHaveResponses(r, g),
         Cardinality(ReadyGrades(g)) = Cardinality(Answered(r))
  PROVE  ReadyGrades(g) = Answered(r)
<1>1. ReadyGrades(g) \subseteq Answered(r)
  BY DEF GradesHaveResponses, ReadyGrades, Answered
<1>2. IsFiniteSet(Answered(r))
  BY ItemsAreFinite, FS_Subset DEF Answered
<1> QED
  BY <1>1, <1>2, FS_Subset

-----------------------------------------------------------------------------
(* Pages *)

LEMMA FilledPage ==
  ASSUME NEW p \in PageRow, NEW r \in ResponseTable, NEW g \in GradeTable
  PROVE  /\ Filled(p, r, g) \in PageRow
         /\ Filled(p, r, g).fresh = p.fresh
         /\ p.loaded => Filled(p, r, g) = p
         /\ ~p.loaded => /\ Filled(p, r, g).resp = r
                         /\ Filled(p, r, g).grade = g
         /\ ~p.loaded /\ GradesHaveResponses(r, g) =>
              Coherent(Filled(p, r, g)) /\ Current(Filled(p, r, g), r, g)
<1>1. CASE p.loaded
  BY <1>1 DEF Filled
<1>2. CASE ~p.loaded
  <2> DEFINE shown == Compute(r, g, p.evalDate)
             q == [p EXCEPT !.loaded = TRUE, !.resp = r, !.grade = g,
                            !.stale = {}, !.changed = {}, !.gone = {}, !.shown = shown]
  <2>1. /\ shown \in Figures
        /\ shown.points = Points(g)
        /\ shown.ready => Cardinality(ReadyGrades(g)) = Cardinality(Answered(r))
    BY Computes
  <2>2. Filled(p, r, g) = q
    BY <1>2 DEF Filled
  <2> HIDE DEF shown
  <2>3. /\ q \in PageRow
        /\ q.loaded /\ q.fresh = p.fresh /\ q.resp = r /\ q.grade = g /\ q.shown = shown
        /\ q.stale = {} /\ q.changed = {} /\ q.gone = {}
    BY <2>1 DEF PageRow
  <2> HIDE DEF q
  <2>4. GradesHaveResponses(r, g) => Coherent(q)
    BY <2>1, <2>3, ReadyAnswers DEF Coherent
  <2>5. GradesHaveResponses(r, g) => Current(q, r, g)
    BY <2>3 DEF Current
  <2> QED
    BY <1>2, <2>2, <2>3, <2>4, <2>5
<1> QED
  BY <1>1, <1>2

\* The same page with another item on display.
Redrawn(p, q) == \E at \in 0..NumItems, form \in {Shut, "none", "score", "full"} :
                   (at = 0 => form = Shut) /\ q = [p EXCEPT !.at = at, !.form = form]

LEMMA RedrawnPage ==
  ASSUME NEW p \in PageRow, NEW q, Redrawn(p, q)
  PROVE  /\ q \in PageRow
         /\ \A r, g : Coherent(p) /\ Current(p, r, g) => PageOK(q, r, g)
<1>1. /\ q \in PageRow
      /\ q.fresh = p.fresh /\ q.loaded = p.loaded /\ q.resp = p.resp /\ q.grade = p.grade
      /\ q.stale = p.stale /\ q.changed = p.changed /\ q.gone = p.gone /\ q.shown = p.shown
      /\ Placed(q)
  BY DEF Redrawn, PageRow, Placed
<1> QED
  BY <1>1 DEF Coherent, Current, PageOK

LEMMA DisplayedPage ==
  ASSUME NEW p \in PageRow, NEW viewer, NEW i \in Items, NEW freeze \in {Shut, "none", "score", "full"}
  PROVE  Redrawn(p, Displayed(viewer, p, i, freeze))
<1>1. i \in 0..NumItems /\ i # 0
  BY DEF Items
<1> QED
  BY <1>1 DEF Redrawn, Displayed

LEMMA GoneToPage ==
  ASSUME NEW p \in PageRow, NEW viewer, NEW i \in Items
  PROVE  Redrawn(p, GoneTo(viewer, p, i))
<1> DEFINE j == Reached(viewer, p, i)
<1>1. j \in Items
  BY LeastItem DEF Reached
<1>2. FreezeShown(p, j) \in {Shut, "none", "score", "full"}
  BY DEF FreezeShown, FreezeStatus
<1> QED
  BY <1>1, <1>2, DisplayedPage DEF GoneTo

LEMMA OnwardsPage ==
  ASSUME NEW p \in PageRow, NEW viewer
  PROVE  Redrawn(p, Onwards(viewer, p))
<1>1. CASE viewer = "owner" /\ CanEval(viewer, p) /\ Answered(p.resp) # Items
  <2>1. Items \ Answered(p.resp) # {}
    BY <1>1 DEF Answered
  <2>2. Min(Items \ Answered(p.resp)) \in Items
    BY <2>1, LeastItem
  <2> QED
    BY <1>1, <2>2, DisplayedPage DEF Onwards
<1>2. CASE ~(viewer = "owner" /\ CanEval(viewer, p) /\ Answered(p.resp) # Items)
  <2>1. 0 \in 0..NumItems
    BY PagesAssumption
  <2> QED
    BY <1>2, <2>1 DEF Onwards, Redrawn
<1> QED
  BY <1>1, <1>2

LEMMA LoadedPage ==
  ASSUME TypeOK, GradesHaveResponses(resp, grade)
  PROVE  /\ Loaded \in PageRow
         /\ Loaded.fresh /\ Loaded.loaded /\ Loaded.resp = resp /\ Loaded.grade = grade
         /\ Loaded.stale = {} /\ Loaded.changed = {} /\ Loaded.gone = {}
         /\ Coherent(Loaded)
         /\ Current(Loaded, resp, grade)
<1> DEFINE shown == Compute(resp, grade, evalDate)
<1>1. /\ shown \in Figures
      /\ shown.points = Points(grade)
      /\ shown.ready => Cardinality(ReadyGrades(grade)) = Cardinality(Answered(resp))
  BY Computes DEF TypeOK
<1>2. Loaded = [fresh |-> TRUE, evalDate |-> evalDate, loaded |-> TRUE, resp |-> resp, grade |-> grade,
                stale |-> {}, changed |-> {}, gone |-> {}, shown |-> shown, at |-> 0, form |-> Shut]
  BY DEF Loaded
<1> HIDE DEF shown
<1>3. 0 \in 0..NumItems
  BY PagesAssumption
<1>4. /\ Loaded \in PageRow
      /\ Loaded.fresh /\ Loaded.loaded /\ Loaded.resp = resp /\ Loaded.grade = grade
      /\ Loaded.stale = {} /\ Loaded.changed = {} /\ Loaded.gone = {} /\ Loaded.shown = shown
  BY <1>1, <1>2, <1>3 DEF PageRow, TypeOK
<1>5. Coherent(Loaded)
  BY <1>1, <1>4, ReadyAnswers DEF Coherent
<1>6. Current(Loaded, resp, grade)
  BY <1>4 DEF Current
<1> QED
  BY <1>4, <1>5, <1>6

-----------------------------------------------------------------------------
(* Transactions *)

TransactionOK(t) ==
  /\ t.p \in PageRow
  /\ t.responses \subseteq Items /\ t.grades \subseteq Items /\ t.inserts \subseteq Items
  /\ t.touched \in BOOLEAN

\* Who creates a response touches the submission.
CreatesOpenly(t) == \A i \in t.responses : resp[i] = None /\ t.p.resp[i] # None => t.touched

\* What a transaction does to the rows; nothing else is written.
RowsWritten(t) ==
  /\ resp' \in ResponseTable /\ grade' \in GradeTable /\ doubled' \subseteq Items
  /\ GradesHaveResponses(resp, grade)'
  /\ now' = now /\ evalDate' = evalDate
  /\ \A i \in Items : resp'[i] = IF i \in t.responses THEN t.p.resp[i] ELSE resp[i]
  /\ \A i \in Items : i \notin t.responses \cup t.grades \cup t.inserts => grade'[i] = grade[i]

LEMMA RowsAreWritten ==
  ASSUME IInv, NEW t, TransactionOK(t), WriteRows(t)
  PROVE  RowsWritten(t)
<1>1. /\ resp' = [i \in Items |-> IF i \in t.responses THEN t.p.resp[i] ELSE resp[i]]
      /\ doubled' = {i \in Items : /\ resp'[i] # None
                                   /\ i \in doubled \/ (i \in t.inserts /\ grade[i] # None)}
      /\ grade' = [i \in Items |->
                     IF resp'[i] = None THEN None
                     ELSE IF i \in t.grades \/ (i \in t.inserts /\ grade[i] = None)
                     THEN t.p.grade[i] ELSE grade[i]]
      /\ now' = now /\ evalDate' = evalDate
  BY DEF WriteRows
<1>2. /\ resp \in ResponseTable /\ grade \in GradeTable
      /\ t.p.resp \in ResponseTable /\ t.p.grade \in GradeTable
  BY DEF IInv, TypeOK, TransactionOK, PageRow
<1>3. resp' \in ResponseTable
  BY <1>1, <1>2 DEF ResponseTable
<1>4. grade' \in GradeTable
  BY <1>1, <1>2 DEF GradeTable
<1>5. doubled' \subseteq Items
  BY <1>1
<1>6. GradesHaveResponses(resp, grade)'
  BY <1>1 DEF GradesHaveResponses
<1>7. \A i \in Items : i \notin t.responses \cup t.grades \cup t.inserts => grade'[i] = grade[i]
  BY <1>1 DEF IInv, GradesHaveResponses
<1> QED
  BY <1>1, <1>3, <1>4, <1>5, <1>6, <1>7 DEF RowsWritten

\* A page on which others write keeps what it shows, and knows what is old.
LEMMA AgedPage ==
  ASSUME NEW p \in PageRow, PageOK(p, resp, grade),
         NEW responses \in SUBSET Items, NEW grades \in SUBSET Items, NEW touched \in BOOLEAN,
         p # None,
         \A i \in Items : i \notin responses => resp'[i] = resp[i],
         \A i \in Items : i \notin grades => grade'[i] = grade[i],
         \A i \in Items : resp[i] = None /\ resp'[i] # None => touched
  PROVE  /\ Aged(p, responses, grades, touched) \in PageRow
         /\ PageOK(Aged(p, responses, grades, touched), resp', grade')
<1> DEFINE lost == {i \in grades : grade'[i] = None}
           mine == {i \in Items : p.grade[i] # None}
           q == Aged(p, responses, grades, touched)
<1> DEFINE fresh == p.fresh /\ ~touched
           stale == p.stale \cup {i \in responses : p.resp[i] # None}
           gone == p.gone \cup (mine \cap lost)
           changed == (p.changed \cup (mine \cap grades)) \ lost
<1>1. q = [p EXCEPT !.fresh = fresh, !.stale = stale, !.gone = gone, !.changed = changed]
  BY DEF Aged
<1>2. fresh \in BOOLEAN /\ stale \subseteq Items /\ gone \subseteq Items /\ changed \subseteq Items
  BY DEF PageRow
<1>3. /\ q \in PageRow
      /\ q.loaded = p.loaded /\ q.resp = p.resp /\ q.grade = p.grade /\ q.shown = p.shown
      /\ q.fresh = fresh /\ q.stale = stale /\ q.gone = gone /\ q.changed = changed
      /\ q.at = p.at /\ q.form = p.form
  <2> HIDE DEF q, fresh, stale, gone, changed
  <2> QED
    BY <1>1, <1>2 DEF PageRow
<1>4. Coherent(q) /\ Placed(q)
  BY <1>3 DEF Coherent, Placed, PageOK
<1>5. Current(q, resp', grade')
  <2> HIDE DEF q
  <2> SUFFICES ASSUME NEW i \in Items
               PROVE  /\ q.resp[i] # None /\ i \notin q.stale => resp'[i] = q.resp[i]
                      /\ q.resp[i] = None /\ q.fresh => resp'[i] = None
                      /\ q.grade[i] # None /\ i \notin q.changed \cup q.gone => grade'[i] = q.grade[i]
    BY DEF Current
  <2>1. q.resp[i] # None /\ i \notin q.stale => resp'[i] = q.resp[i]
    BY <1>3 DEF Current, PageOK
  <2>2. q.resp[i] = None /\ q.fresh => resp'[i] = None
    BY <1>3 DEF Current, PageOK
  <2>3. q.grade[i] # None /\ i \notin q.changed \cup q.gone => grade'[i] = q.grade[i]
    BY <1>3 DEF Current, PageOK
  <2> QED
    BY <2>1, <2>2, <2>3
<1> QED
  BY <1>3, <1>4, <1>5 DEF PageOK

LEMMA AgedPages ==
  ASSUME IInv, NEW t, TransactionOK(t), CreatesOpenly(t), RowsWritten(t), NEW v \in Viewers
  PROVE  LET q == Aged(page[v], t.responses, WrittenGrades(t), t.touched)
         IN q \in PageRow \cup {None} /\ (q # None => PageOK(q, resp', grade'))
<1> DEFINE grades == WrittenGrades(t)
<1>1. CASE page[v] = None
  BY <1>1 DEF Aged
<1>2. CASE page[v] # None
  <2>1. page[v] \in PageRow /\ PageOK(page[v], resp, grade)
    BY <1>2 DEF IInv, TypeOK
  <2>2. grades \subseteq Items /\ \A i \in Items : i \notin grades => grade'[i] = grade[i]
    BY DEF WrittenGrades
  <2>3. /\ \A i \in Items : i \notin t.responses => resp'[i] = resp[i]
        /\ \A i \in Items : resp[i] = None /\ resp'[i] # None => t.touched
    BY DEF RowsWritten, CreatesOpenly
  <2>4. t.responses \subseteq Items /\ t.touched \in BOOLEAN
    BY DEF TransactionOK
  <2> HIDE DEF grades
  <2> QED
    BY <1>2, <2>1, <2>2, <2>3, <2>4, AgedPage DEF grades
<1> QED
  BY <1>1, <1>2

LEMMA RequestStep ==
  ASSUME IInv, NEW t, TransactionOK(t), CreatesOpenly(t), Request(t)
  PROVE  IInv'
<1>1. RowsWritten(t)
  BY RowsAreWritten DEF Request
<1>2. page' = [v \in Viewers |-> Aged(page[v], t.responses, WrittenGrades(t), t.touched)]
  BY DEF Request
<1>3. \A v \in Viewers : page'[v] \in PageRow \cup {None}
                         /\ (page'[v] # None => PageOK(page'[v], resp', grade'))
  BY <1>1, <1>2, AgedPages
<1>4. page' \in [Viewers -> PageRow \cup {None}]
  BY <1>2, <1>3
<1> QED
  BY <1>1, <1>3, <1>4 DEF IInv, TypeOK, RowsWritten

\* A click either changes nothing or has invalidated the cache.
ClickOK(viewer, t) ==
  /\ TransactionOK(t)
  /\ \/ t = Transaction(page[viewer], {}, {}, {}, FALSE)
     \/ ~t.p.loaded
  /\ \A i \in t.responses : page[viewer].resp[i] = None => t.touched

LEMMA ClickCreatesOpenly ==
  ASSUME IInv, NEW viewer \in Viewers, page[viewer] # None,
         NEW t, ClickOK(viewer, t), ~Conflict(page[viewer], t)
  PROVE  CreatesOpenly(t)
<1> SUFFICES ASSUME NEW i \in t.responses, resp[i] = None
             PROVE  t.touched
  BY DEF CreatesOpenly
<1>1. i \notin page[viewer].stale
  BY DEF Conflict
<1>2. Current(page[viewer], resp, grade) /\ i \in Items
  BY DEF IInv, PageOK, ClickOK, TransactionOK
<1> QED
  BY <1>1, <1>2 DEF Current, ClickOK

LEMMA ClickStep ==
  ASSUME IInv, NEW viewer \in Viewers, page[viewer] # None,
         NEW t, ClickOK(viewer, t), ~Conflict(page[viewer], t), WriteRows(t),
         NEW shown, Redrawn(Filled(t.p, resp', grade'), shown),
         page' = [v \in Viewers |->
                    IF v # viewer THEN Aged(page[v], t.responses, WrittenGrades(t), t.touched)
                    ELSE IF doubled' # {} /\ ~t.p.loaded THEN None ELSE shown]
  PROVE  IInv'
<1>1. RowsWritten(t) /\ CreatesOpenly(t) /\ TransactionOK(t)
  BY RowsAreWritten, ClickCreatesOpenly DEF ClickOK
<1> DEFINE q == Filled(t.p, resp', grade')
<1>2. t.p \in PageRow /\ resp' \in ResponseTable /\ grade' \in GradeTable
      /\ GradesHaveResponses(resp', grade')
  BY <1>1 DEF TransactionOK, RowsWritten, GradesHaveResponses
<1>3. q \in PageRow /\ Coherent(q) /\ Current(q, resp', grade')
  <2>1. CASE ~t.p.loaded
    BY <1>2, <2>1, FilledPage
  <2>2. CASE t.p.loaded
    <3>1. t = Transaction(page[viewer], {}, {}, {}, FALSE)
      BY <2>2 DEF ClickOK
    <3>2. q = page[viewer] /\ t.responses = {} /\ t.grades = {} /\ t.inserts = {}
      BY <1>2, <2>2, <3>1, FilledPage DEF Transaction
    <3>3. \A i \in Items : resp'[i] = resp[i] /\ grade'[i] = grade[i]
      BY <1>1, <3>2 DEF RowsWritten
    <3>4. page[viewer] \in PageRow /\ Coherent(page[viewer]) /\ Current(page[viewer], resp, grade)
      BY DEF IInv, TypeOK, PageOK
    <3> HIDE DEF q
    <3> QED
      BY <3>2, <3>3, <3>4 DEF Current
  <2> QED
    BY <2>1, <2>2
<1>4. shown \in PageRow /\ PageOK(shown, resp', grade')
  <2> HIDE DEF q
  <2>1. Redrawn(q, shown)
    BY DEF q
  <2> QED
    BY <1>3, <2>1, RedrawnPage
<1>5. \A v \in Viewers : page'[v] \in PageRow \cup {None}
                         /\ (page'[v] # None => PageOK(page'[v], resp', grade'))
  <2> TAKE v \in Viewers
  <2>1. CASE v # viewer
    BY <1>1, <2>1, AgedPages
  <2>2. CASE v = viewer
    BY <1>4, <2>2
  <2> QED
    BY <2>1, <2>2
<1>6. page' \in [Viewers -> PageRow \cup {None}]
  BY <1>5
<1> QED
  BY <1>1, <1>5, <1>6 DEF IInv, TypeOK, RowsWritten

-----------------------------------------------------------------------------
(* Operations *)

Nothing(p) == Transaction(p, {}, {}, {}, FALSE)

LEMMA DefaultIsResponse == \A i \in Items : DefaultResponse(i) \in Responses
<1>1. 0 \in Scores /\ FullScore \in Scores /\ DefaultText \in Texts
  BY PagesAssumption DEF Scores
<1> QED
  BY <1>1 DEF DefaultResponse, Responses

SetAt(p, i, response, g) == LightTouched([p EXCEPT !.resp[i] = response, !.grade[i] = g])

LEMMA SetPage ==
  ASSUME NEW p \in PageRow, NEW i \in Items,
         NEW response \in Responses \cup {None}, NEW g \in Grades \cup {None}
  PROVE  /\ SetAt(p, i, response, g) \in PageRow
         /\ ~SetAt(p, i, response, g).loaded
         /\ SetAt(p, i, response, g).resp[i] = response
         /\ SetAt(p, i, response, g).grade[i] = g
<1>1. /\ [p.resp EXCEPT ![i] = response] \in ResponseTable
      /\ [p.grade EXCEPT ![i] = g] \in GradeTable
      /\ [p.resp EXCEPT ![i] = response][i] = response
      /\ [p.grade EXCEPT ![i] = g][i] = g
  BY DEF PageRow, ResponseTable, GradeTable
<1> QED
  BY <1>1 DEF SetAt, LightTouched, PageRow

\* Looking up a response creates it if the page has none.
LEMMA GetSelfEvalIs ==
  ASSUME NEW p \in PageRow, NEW i \in Items
  PROVE  LET t == GetSelfEval(p, i)
         IN /\ TransactionOK(t)
            /\ t.p.resp[i] \in Responses /\ t.p.resp \in ResponseTable /\ t.p.grade \in GradeTable
            /\ p.resp[i] # None => t = Nothing(p)
            /\ p.resp[i] = None =>
                 /\ ~t.p.loaded /\ t.touched /\ t.p.resp[i] = DefaultResponse(i)
                 /\ t.responses = {i} /\ t.grades = {} /\ t.inserts \subseteq {i}
<1> DEFINE g == IF IsGradedAutomatically(i) THEN [score |-> FullScore, status |-> "ready"] ELSE None
           q == SetAt(p, i, DefaultResponse(i), g)
           automatically == {i} \cap {j \in Items : IsGradedAutomatically(j)}
<1>1. CASE p.resp[i] # None
  <2>1. GetSelfEval(p, i) = Nothing(p)
    BY <1>1 DEF GetSelfEval, Nothing
  <2>2. p.resp \in ResponseTable /\ p.grade \in GradeTable /\ p.resp[i] \in Responses
    BY <1>1 DEF PageRow, ResponseTable
  <2> QED
    BY <1>1, <2>1, <2>2 DEF Nothing, Transaction, TransactionOK
<1>2. CASE p.resp[i] = None
  <2>1. g \in Grades \cup {None}
    BY PagesAssumption DEF Grades, Scores, Statuses
  <2>2. GetSelfEval(p, i) = Transaction(q, {i}, {}, automatically, TRUE)
    BY <1>2 DEF GetSelfEval, Create, SetAt
  <2>3. q \in PageRow /\ ~q.loaded /\ q.resp[i] = DefaultResponse(i)
    <3>1. DefaultResponse(i) \in Responses \cup {None}
      BY DefaultIsResponse
    <3> HIDE DEF g
    <3> QED
      BY <2>1, <3>1, SetPage
  <2>4. q.resp[i] = DefaultResponse(i) /\ q.resp \in ResponseTable /\ q.grade \in GradeTable
    BY <2>3 DEF PageRow, ResponseTable
  <2>5. automatically \subseteq {i}
    OBVIOUS
  <2> HIDE DEF q, automatically
  <2> QED
    BY <1>2, <2>2, <2>3, <2>4, <2>5, DefaultIsResponse, PagesAssumption DEF Transaction, TransactionOK
<1> QED
  BY <1>1, <1>2

LEMMA GradeAfterSaveType ==
  ASSUME NEW i \in Items, NEW score, NEW g \in Grades \cup {None}, NEW freeze
  PROVE  GradeAfterSave(i, score, g, freeze) \in Grades \cup {None}
BY PagesAssumption DEF GradeAfterSave, Grades, Statuses

\* What save_self_eval goes by, step by step.
Response(p, i, score, text) ==
  [score |-> IF FreezeOf(p, i) = "score" THEN GetSelfEval(p, i).p.resp[i].score ELSE score,
   text |-> text]

LookedUp(p, i, new) ==
  LET set == [GetSelfEval(p, i).p EXCEPT !.resp[i] = new]
  IN IF FreezeOf(p, i) = "score" THEN set ELSE Filled(Scored(set), [resp EXCEPT ![i] = new], grade)

LEMMA SaveIs ==
  ASSUME NEW p, NEW i, NEW score, NEW text
  PROVE  LET new    == Response(p, i, score, text)
             looked == LookedUp(p, i, new)
             after  == GradeAfterSave(i, new.score, looked.grade[i], FreezeOf(p, i))
         IN Save(p, i, score, text) =
              IF FreezeOf(p, i) = "full" THEN GetSelfEval(p, i)
              ELSE Transaction(LightTouched([looked EXCEPT !.grade[i] = after]), {i},
                               {i} \cap {j \in Items : looked.grade[j] # None},
                               {i} \cap {j \in Items : looked.grade[j] = None /\ after # None},
                               TRUE)
BY DEF Save, Response, LookedUp

LEMMA LookedUpIs ==
  ASSUME TypeOK, NEW p \in PageRow, NEW i \in Items, NEW score \in Scores, NEW text \in Texts
  PROVE  LET new    == Response(p, i, score, text)
             looked == LookedUp(p, i, new)
         IN /\ new \in Responses
            /\ looked \in PageRow /\ looked.resp[i] = new
            /\ looked.grade = IF FreezeOf(p, i) = "score" THEN GetSelfEval(p, i).p.grade ELSE grade
<1> DEFINE new == Response(p, i, score, text)
           got == GetSelfEval(p, i)
           set == [got.p EXCEPT !.resp[i] = new]
<1>1. got.p \in PageRow /\ got.p.resp[i] \in Responses /\ got.p.resp \in ResponseTable
      /\ got.p.grade \in GradeTable
  BY GetSelfEvalIs DEF TransactionOK
<1>2. new \in Responses
  BY <1>1 DEF Response, Responses
<1>3. [got.p.resp EXCEPT ![i] = new] \in ResponseTable /\ [got.p.resp EXCEPT ![i] = new][i] = new
  BY <1>1, <1>2 DEF ResponseTable
<1>4. set \in PageRow /\ set.resp[i] = new /\ set.grade = got.p.grade
  <2> HIDE DEF new, got
  <2> QED
    BY <1>1, <1>3 DEF PageRow
<1>5. CASE FreezeOf(p, i) = "score"
  BY <1>2, <1>4, <1>5 DEF LookedUp
<1>6. CASE FreezeOf(p, i) # "score"
  <2> DEFINE r == [resp EXCEPT ![i] = new]
  <2>1. Scored(set) \in PageRow /\ ~Scored(set).loaded
    <3> HIDE DEF set
    <3> QED
      BY <1>4 DEF Scored, LightTouched, PageRow
  <2>2. r \in ResponseTable /\ r[i] = new /\ grade \in GradeTable
    BY <1>2 DEF TypeOK, ResponseTable
  <2>3. LookedUp(p, i, new) = Filled(Scored(set), r, grade)
    BY <1>6 DEF LookedUp
  <2> HIDE DEF set, r, new
  <2> QED
    BY <1>2, <1>6, <2>1, <2>2, <2>3, FilledPage DEF new
<1> QED
  BY <1>5, <1>6

LEMMA SaveOK ==
  ASSUME TypeOK, NEW p \in PageRow, NEW i \in Items, NEW score \in Scores, NEW text \in Texts
  PROVE  LET t == Save(p, i, score, text)
         IN /\ TransactionOK(t)
            /\ t = Nothing(p) \/ (~t.p.loaded /\ t.touched)
            /\ t.responses \subseteq {i}
<1> DEFINE new    == Response(p, i, score, text)
           looked == LookedUp(p, i, new)
           after  == GradeAfterSave(i, new.score, looked.grade[i], FreezeOf(p, i))
           q      == LightTouched([looked EXCEPT !.grade[i] = after])
           t      == Save(p, i, score, text)
<1>1. CASE FreezeOf(p, i) = "full"
  <2>1. t = GetSelfEval(p, i)
    BY <1>1, SaveIs
  <2>2. /\ TransactionOK(GetSelfEval(p, i))
        /\ \/ GetSelfEval(p, i) = Nothing(p)
           \/ /\ ~GetSelfEval(p, i).p.loaded /\ GetSelfEval(p, i).touched
              /\ GetSelfEval(p, i).responses = {i}
    BY GetSelfEvalIs
  <2>3. Nothing(p).responses = {}
    BY DEF Nothing, Transaction
  <2> HIDE DEF t
  <2> QED
    BY <2>1, <2>2, <2>3 DEF t
<1>2. CASE FreezeOf(p, i) # "full"
  <2>1. looked \in PageRow
    BY LookedUpIs
  <2>2. looked.grade \in GradeTable
    BY <2>1 DEF PageRow
  <2>3. after \in Grades \cup {None}
    BY <2>2, GradeAfterSaveType DEF GradeTable
  <2>4. q \in PageRow /\ ~q.loaded
    <3> HIDE DEF looked, after
    <3>1. [looked.grade EXCEPT ![i] = after] \in GradeTable
      BY <2>2, <2>3 DEF GradeTable
    <3> QED
      BY <2>1, <3>1 DEF LightTouched, PageRow
  <2>5. \E G, I \in SUBSET Items : t = Transaction(q, {i}, G, I, TRUE)
    <3> DEFINE G == {i} \cap {j \in Items : looked.grade[j] # None}
               I == {i} \cap {j \in Items : looked.grade[j] = None /\ after # None}
    <3>1. t = Transaction(q, {i}, G, I, TRUE)
      BY <1>2, SaveIs
    <3>2. G \in SUBSET Items /\ I \in SUBSET Items
      OBVIOUS
    <3> HIDE DEF G, I, t, q
    <3> QED
      BY <3>1, <3>2
  <2>6. PICK G, I \in SUBSET Items : t = Transaction(q, {i}, G, I, TRUE)
    BY <2>5
  <2> HIDE DEF q, t
  <2>7. /\ t.p = q /\ t.responses = {i} /\ t.grades = G /\ t.inserts = I /\ t.touched = TRUE
    BY <2>6 DEF Transaction
  <2> QED
    BY <2>4, <2>7 DEF TransactionOK, t
<1> QED
  BY <1>1, <1>2

LEMMA AdminSaveOK ==
  ASSUME NEW p \in PageRow, NEW i \in Items, NEW score \in Scores, NEW text \in Texts
  PROVE  LET t == AdminSave(p, i, score, text)
         IN /\ TransactionOK(t) /\ ~t.p.loaded
            /\ t.responses = {i} /\ t.grades = {}
            /\ p.resp[i] = None => t.touched
            /\ p.resp[i] # None => t.inserts = {}
<1> DEFINE got == GetSelfEval(p, i)
           new == [score |-> score, text |-> text]
           q == Scored([got.p EXCEPT !.resp[i] = new])
           t == AdminSave(p, i, score, text)
<1>1. /\ TransactionOK(got)
      /\ p.resp[i] # None => got = Nothing(p)
      /\ p.resp[i] = None => got.touched /\ got.grades = {}
  BY GetSelfEvalIs
<1>2. t = [got EXCEPT !.p = q, !.responses = {i}]
  BY DEF AdminSave
<1>3. \E P, R, G, I, T : got = Transaction(P, R, G, I, T)
  BY DEF GetSelfEval, Create
<1>4. /\ t.p = q /\ t.responses = {i} /\ t.grades = got.grades /\ t.inserts = got.inserts
      /\ t.touched = got.touched
  <2> HIDE DEF t, q, got
  <2> QED
    BY <1>2, <1>3 DEF Transaction
<1>5. got.grades = {} /\ (p.resp[i] # None => got.inserts = {})
  BY <1>1 DEF Nothing, Transaction
<1>6. q \in PageRow /\ ~q.loaded
  <2>1. new \in Responses
    BY DEF Responses
  <2>2. got.p \in PageRow /\ got.p.resp \in ResponseTable
    BY <1>1 DEF TransactionOK, PageRow
  <2> HIDE DEF got, new
  <2>3. [got.p.resp EXCEPT ![i] = new] \in ResponseTable
    BY <2>1, <2>2 DEF ResponseTable
  <2> QED
    BY <2>2, <2>3 DEF Scored, LightTouched, PageRow
<1> HIDE DEF t, q, got
<1> QED
  BY <1>1, <1>4, <1>5, <1>6 DEF TransactionOK, t

LEMMA RetractOK ==
  ASSUME NEW p \in PageRow, NEW i \in Items
  PROVE  LET t == Retract(p, i)
         IN /\ TransactionOK(t) /\ ~t.p.loaded /\ t.p.resp[i] = None
            /\ t.responses = {i} /\ t.inserts = {} /\ t.touched
<1> DEFINE q == SetAt(p, i, None, None)
           G == {i} \cap {j \in Items : p.grade[j] # None}
<1>1. Retract(p, i) = Transaction(q, {i}, G, {}, TRUE)
  BY DEF Retract, SetAt
<1>2. q \in PageRow /\ ~q.loaded /\ q.resp[i] = None
  BY SetPage
<1>3. G \subseteq Items
  OBVIOUS
<1> HIDE DEF q, G
<1> QED
  BY <1>1, <1>2, <1>3 DEF Transaction, TransactionOK

LEMMA GiveGradeOK ==
  ASSUME NEW p \in PageRow, NEW i \in Items, NEW score \in Scores, NEW status \in Statuses
  PROVE  LET t == GiveGrade(p, i, score, status)
         IN /\ TransactionOK(t) /\ ~t.p.loaded /\ t.responses = {}
            /\ p.grade[i] = None => t.inserts = {i} /\ t.grades = {}
            /\ p.grade[i] # None => t.inserts = {} /\ t.grades = {i}
<1> DEFINE g == [score |-> score, status |-> status]
           q == Scored([p EXCEPT !.grade[i] = g])
           new == p.grade[i] = None
<1>1. g \in Grades
  BY DEF Grades
<1>2. q \in PageRow /\ ~q.loaded
  <2> HIDE DEF g
  <2>1. p.grade \in GradeTable
    BY DEF PageRow
  <2>2. [p.grade EXCEPT ![i] = g] \in GradeTable
    BY <1>1, <2>1 DEF GradeTable
  <2> QED
    BY <2>2 DEF Scored, LightTouched, PageRow
<1>3. GiveGrade(p, i, score, status) =
        Transaction(q, {}, IF new THEN {} ELSE {i}, IF new THEN {i} ELSE {}, new)
  BY DEF GiveGrade
<1>4. new \in BOOLEAN
  OBVIOUS
<1> HIDE DEF q
<1> QED
  BY <1>2, <1>3, <1>4 DEF Transaction, TransactionOK

LEMMA RetractGradeOK ==
  ASSUME NEW p \in PageRow, NEW i \in Items
  PROVE  LET t == RetractGrade(p, i)
         IN /\ TransactionOK(t) /\ ~t.p.loaded
            /\ t.responses = {} /\ t.grades = {i} /\ t.inserts = {}
<1> DEFINE q == LightTouched([p EXCEPT !.grade[i] = None])
<1>1. q \in PageRow /\ ~q.loaded
  <2>1. p.grade \in GradeTable
    BY DEF PageRow
  <2>2. [p.grade EXCEPT ![i] = None] \in GradeTable
    BY <2>1 DEF GradeTable
  <2> QED
    BY <2>2 DEF LightTouched, PageRow
<1>2. RetractGrade(p, i) = Transaction(q, {}, {i}, {}, TRUE)
  BY DEF RetractGrade
<1> HIDE DEF q
<1> QED
  BY <1>1, <1>2 DEF Transaction, TransactionOK

LEMMA QuietlyOK ==
  ASSUME NEW t, TransactionOK(t), NEW P, NEW R, NEW G, NEW I, NEW T, t = Transaction(P, R, G, I, T)
  PROVE  /\ TransactionOK(Quietly(t))
         /\ Quietly(t).p = t.p /\ Quietly(t).responses = t.responses
         /\ Quietly(t).grades = t.grades /\ Quietly(t).inserts = t.inserts
BY DEF Quietly, TransactionOK, Transaction

-----------------------------------------------------------------------------
(* Steps *)

LEMMA DiesStep ==
  ASSUME IInv, NEW viewer \in Viewers, Dies(viewer)
  PROVE  IInv'
<1>1. page' \in [Viewers -> PageRow \cup {None}]
  BY DEF Dies, IInv, TypeOK
<1>2. \A v \in Viewers : page'[v] # None => page'[v] = page[v]
  BY DEF Dies, IInv, TypeOK
<1>3. resp' = resp /\ grade' = grade /\ now' = now /\ evalDate' = evalDate /\ doubled' = doubled
  BY DEF Dies
<1> QED
  BY <1>1, <1>2, <1>3 DEF IInv, TypeOK, GradesHaveResponses

\* A page that is drawn anew.
LEMMA PageStep ==
  ASSUME IInv, NEW viewer \in Viewers, NEW q,
         q \in PageRow, PageOK(q, resp, grade),
         page' = [page EXCEPT ![viewer] = q],
         UNCHANGED <<now, evalDate, resp, grade, doubled, writes>>
  PROVE  IInv'
<1>1. page' \in [Viewers -> PageRow \cup {None}]
  BY DEF IInv, TypeOK
<1>2. \A v \in Viewers : page'[v] = IF v = viewer THEN q ELSE page[v]
  BY DEF IInv, TypeOK
<1> QED
  BY <1>1, <1>2 DEF IInv, TypeOK, GradesHaveResponses

LEMMA TickStep ==
  ASSUME IInv, Tick
  PROVE  IInv'
<1>1. now' \in Nat
  BY DEF Tick, IInv, TypeOK
<1> QED
  BY <1>1 DEF Tick, IInv, TypeOK, GradesHaveResponses

LEMMA SetEvalDateStep ==
  ASSUME IInv, NEW date \in EvalDates, SetEvalDate(date)
  PROVE  IInv'
<1>1. \A v \in Viewers : /\ page'[v] \in PageRow \cup {None}
                         /\ page'[v] # None => PageOK(page'[v], resp', grade')
  <2> TAKE v \in Viewers
  <2>1. page'[v] = Aged(page[v], {}, {}, TRUE)
    BY DEF SetEvalDate
  <2>2. CASE page[v] = None
    BY <2>1, <2>2 DEF Aged
  <2>3. CASE page[v] # None
    <3>1. page[v] \in PageRow /\ PageOK(page[v], resp, grade)
      BY <2>3 DEF IInv, TypeOK
    <3>2. resp' = resp /\ grade' = grade
      BY DEF SetEvalDate
    <3> QED
      BY <2>1, <2>3, <3>1, <3>2, AgedPage
  <2> QED
    BY <2>2, <2>3
<1>2. page' \in [Viewers -> PageRow \cup {None}]
  BY <1>1 DEF SetEvalDate
<1> QED
  BY <1>1, <1>2 DEF SetEvalDate, IInv, TypeOK, GradesHaveResponses

LEMMA OpenPageStep ==
  ASSUME IInv, NEW v \in Viewers, OpenPage(v)
  PROVE  IInv'
<1> DEFINE q == Onwards(v, Loaded)
<1>1. Loaded \in PageRow /\ Coherent(Loaded) /\ Current(Loaded, resp, grade)
  BY LoadedPage DEF IInv
<1>2. q \in PageRow /\ PageOK(q, resp, grade)
  BY <1>1, OnwardsPage, RedrawnPage
<1>3. page' = [page EXCEPT ![v] = q] /\ UNCHANGED <<now, evalDate, resp, grade, doubled, writes>>
  BY DEF OpenPage
<1> HIDE DEF q
<1> QED
  BY <1>2, <1>3, PageStep

LEMMA GoToStep ==
  ASSUME IInv, NEW v \in Viewers, NEW i \in Items, GoTo(v, i)
  PROVE  IInv'
<1> DEFINE q == GoneTo(v, page[v], i)
<1>1. page[v] \in PageRow /\ Coherent(page[v]) /\ Current(page[v], resp, grade)
  BY DEF GoTo, IInv, TypeOK, PageOK
<1>2. q \in PageRow /\ PageOK(q, resp, grade)
  BY <1>1, GoneToPage, RedrawnPage
<1>3. \/ Dies(v)
      \/ page' = [page EXCEPT ![v] = q] /\ UNCHANGED <<now, evalDate, resp, grade, doubled, writes>>
  BY DEF GoTo
<1> HIDE DEF q
<1> QED
  BY <1>2, <1>3, PageStep, DiesStep

LEMMA GoDefaultStep ==
  ASSUME IInv, NEW v \in Viewers, GoDefault(v)
  PROVE  IInv'
<1> DEFINE q == Onwards(v, page[v])
<1>1. page[v] \in PageRow /\ Coherent(page[v]) /\ Current(page[v], resp, grade)
  BY DEF GoDefault, IInv, TypeOK, PageOK
<1>2. q \in PageRow /\ PageOK(q, resp, grade)
  BY <1>1, OnwardsPage, RedrawnPage
<1>3. page' = [page EXCEPT ![v] = q] /\ UNCHANGED <<now, evalDate, resp, grade, doubled, writes>>
  BY DEF GoDefault
<1> HIDE DEF q
<1> QED
  BY <1>2, <1>3, PageStep

LEMMA NothingWrites == \A p : /\ Nothing(p).responses = {} /\ Nothing(p).grades = {}
                              /\ Nothing(p).inserts = {} /\ Nothing(p).p = p
BY DEF Nothing, Transaction

\* The page on which an owner saves, and its item.
LEMMA OwnersPage ==
  ASSUME IInv, NEW score \in Scores, NEW text \in Texts, OwnerSaves(score, text)
  PROVE  /\ page["owner"] # None /\ "owner" \in Viewers
         /\ page["owner"] \in PageRow /\ PageOK(page["owner"], resp, grade)
         /\ page["owner"].at \in Items
<1>1. page["owner"] # None /\ page["owner"].form \in {"none", "score"}
  BY DEF OwnerSaves
<1>2. "owner" \in Viewers
  BY DEF Viewers
<1>3. page["owner"] \in PageRow /\ PageOK(page["owner"], resp, grade)
  BY <1>1, <1>2 DEF IInv, TypeOK
<1>4. page["owner"].at # 0
  BY <1>1, <1>3, PagesAssumption DEF PageOK, Placed
<1>5. page["owner"].at \in 0..NumItems
  BY <1>3 DEF PageRow
<1>6. page["owner"].at \in Items
  BY <1>4, <1>5, PagesAssumption DEF Items
<1> QED
  BY <1>1, <1>2, <1>3, <1>6

\* Saving on a page: the session ends, or the transaction is written.
LEMMA OwnerSavesWrites ==
  ASSUME IInv, NEW score \in Scores, NEW text \in Texts, OwnerSaves(score, text)
  PROVE  LET p == page["owner"]
             t == Save(p, p.at, score, text)
         IN /\ ClickOK("owner", t)
            /\ \/ Dies("owner")
               \/ /\ ~Conflict(p, t) /\ WriteRows(t)
                  /\ page' = [v \in Viewers |->
                       IF v # "owner" THEN Aged(page[v], t.responses, WrittenGrades(t), t.touched)
                       ELSE IF doubled' # {} /\ ~t.p.loaded THEN None
                       ELSE Onwards("owner", Filled(t.p, resp', grade'))]
<1> DEFINE p == page["owner"]
           t == Save(p, p.at, score, text)
<1>1. p \in PageRow /\ p.at \in Items
  BY OwnersPage
<1>2. /\ TransactionOK(t)
      /\ t = Nothing(p) \/ (~t.p.loaded /\ t.touched)
      /\ t.responses \subseteq {p.at}
  <2>1. TypeOK
    BY DEF IInv
  <2> QED
    BY <1>1, <2>1, SaveOK
<1>3. ClickOK("owner", t)
  <2> HIDE DEF t, p
  <2>1. \A i \in t.responses : p.resp[i] = None => t.touched
    BY <1>2, NothingWrites
  <2> QED
    BY <1>2, <2>1 DEF ClickOK, Nothing, p
<1>4. \/ Dies("owner")
      \/ /\ ~Conflict(p, t) /\ WriteRows(t)
         /\ page' = [v \in Viewers |->
              IF v # "owner" THEN Aged(page[v], t.responses, WrittenGrades(t), t.touched)
              ELSE IF doubled' # {} /\ ~t.p.loaded THEN None
              ELSE Onwards("owner", Filled(t.p, resp', grade'))]
  BY DEF OwnerSaves, Click
<1> QED
  BY <1>3, <1>4

LEMMA OwnerSavesStep ==
  ASSUME IInv, NEW score \in Scores, NEW text \in Texts, OwnerSaves(score, text)
  PROVE  IInv'
<1> DEFINE p == page["owner"]
           t == Save(p, p.at, score, text)
           q == Filled(t.p, resp', grade')
<1>1. p # None /\ "owner" \in Viewers
  BY OwnersPage
<1>2. ClickOK("owner", t)
  BY OwnerSavesWrites
<1>3. CASE Dies("owner")
  BY <1>1, <1>3, DiesStep
<1>4. CASE /\ ~Conflict(p, t) /\ WriteRows(t)
           /\ page' = [v \in Viewers |->
                IF v # "owner" THEN Aged(page[v], t.responses, WrittenGrades(t), t.touched)
                ELSE IF doubled' # {} /\ ~t.p.loaded THEN None
                ELSE Onwards("owner", q)]
  <2>1. TransactionOK(t)
    BY <1>2 DEF ClickOK
  <2>2. RowsWritten(t)
    BY <1>4, <2>1, RowsAreWritten
  <2>3. t.p \in PageRow /\ resp' \in ResponseTable /\ grade' \in GradeTable
    BY <2>1, <2>2 DEF TransactionOK, RowsWritten
  <2>4. q \in PageRow
    BY <2>3, FilledPage
  <2>5. Redrawn(q, Onwards("owner", q))
    BY <2>4, OnwardsPage
  <2> HIDE DEF t
  <2> QED
    BY <1>1, <1>2, <1>4, <2>5, ClickStep
<1> QED
  BY <1>3, <1>4, OwnerSavesWrites

LEMMA AdminsPage ==
  ASSUME IInv, page["admin"] # None
  PROVE  "admin" \in Viewers /\ page["admin"] \in PageRow /\ PageOK(page["admin"], resp, grade)
BY DEF IInv, TypeOK, Viewers

LEMMA AdminClicksStep ==
  ASSUME IInv, page["admin"] # None, NEW i \in Items, NEW t, ClickOK("admin", t), AdminClicks(t, i)
  PROVE  IInv'
<1> DEFINE p == page["admin"]
           q == Filled(t.p, resp', grade')
<1>1. "admin" \in Viewers
  BY DEF Viewers
<1>2. CASE Conflict(p, t)
  BY <1>1, <1>2, DiesStep DEF AdminClicks, Click
<1>3. CASE ~Conflict(p, t)
  <2>1. WriteRows(t) /\ page' = [v \in Viewers |->
           IF v # "admin" THEN Aged(page[v], t.responses, WrittenGrades(t), t.touched)
           ELSE IF doubled' # {} /\ ~t.p.loaded THEN None
           ELSE GoneTo("admin", q, i)]
    BY <1>3 DEF AdminClicks, Click
  <2>2. TransactionOK(t)
    BY DEF ClickOK
  <2>3. RowsWritten(t)
    BY <2>1, <2>2, RowsAreWritten
  <2>4. t.p \in PageRow /\ resp' \in ResponseTable /\ grade' \in GradeTable
    BY <2>2, <2>3 DEF TransactionOK, RowsWritten
  <2>5. q \in PageRow
    BY <2>4, FilledPage
  <2>6. Redrawn(q, GoneTo("admin", q, i))
    BY <2>5, GoneToPage
  <2> QED
    BY <1>1, <1>3, <2>1, <2>6, ClickStep
<1> QED
  BY <1>2, <1>3

LEMMA AdminSavesSelfStep ==
  ASSUME IInv, NEW i \in Items, NEW score \in GivenScores, NEW text \in Texts,
         AdminSavesSelf(i, score, text)
  PROVE  IInv'
<1> DEFINE t == AdminSave(page["admin"], i, score, text)
<1>1. page["admin"] # None /\ AdminClicks(t, i)
  BY DEF AdminSavesSelf, AdminAt
<1>2. ClickOK("admin", t)
  <2>1. /\ TransactionOK(t) /\ ~t.p.loaded
        /\ t.responses = {i} /\ (page["admin"].resp[i] = None => t.touched)
    BY <1>1, AdminsPage, AdminSaveOK, PagesAssumption
  <2> HIDE DEF t
  <2> QED
    BY <2>1 DEF ClickOK
<1> QED
  BY <1>1, <1>2, AdminClicksStep

LEMMA AdminRetractsSelfStep ==
  ASSUME IInv, NEW i \in Items, AdminRetractsSelf(i)
  PROVE  IInv'
<1> DEFINE t == Retract(page["admin"], i)
<1>1. page["admin"] # None /\ AdminClicks(t, i)
  BY DEF AdminRetractsSelf, AdminAt
<1>2. ClickOK("admin", t)
  <2>1. TransactionOK(t) /\ ~t.p.loaded /\ t.touched
    BY <1>1, AdminsPage, RetractOK
  <2> HIDE DEF t
  <2> QED
    BY <2>1 DEF ClickOK
<1> QED
  BY <1>1, <1>2, AdminClicksStep

LEMMA AdminGradesStep ==
  ASSUME IInv, NEW i \in Items, NEW score \in GivenScores, NEW status \in GivenStatuses,
         AdminGrades(i, score, status)
  PROVE  IInv'
<1> DEFINE t == GiveGrade(page["admin"], i, score, status)
<1>1. page["admin"] # None /\ AdminClicks(t, i)
  BY DEF AdminGrades, AdminAt
<1>2. ClickOK("admin", t)
  <2>1. TransactionOK(t) /\ ~t.p.loaded /\ t.responses = {}
    BY <1>1, AdminsPage, GiveGradeOK, PagesAssumption
  <2> HIDE DEF t
  <2> QED
    BY <2>1 DEF ClickOK
<1> QED
  BY <1>1, <1>2, AdminClicksStep

LEMMA AdminRetractsGradeStep ==
  ASSUME IInv, NEW i \in Items, AdminRetractsGrade(i)
  PROVE  IInv'
<1> DEFINE t == RetractGrade(page["admin"], i)
<1>1. page["admin"] # None /\ AdminClicks(t, i)
  BY DEF AdminRetractsGrade, AdminAt
<1>2. ClickOK("admin", t)
  <2>1. TransactionOK(t) /\ ~t.p.loaded /\ t.responses = {}
    BY <1>1, AdminsPage, RetractGradeOK
  <2> HIDE DEF t
  <2> QED
    BY <2>1 DEF ClickOK
<1> QED
  BY <1>1, <1>2, AdminClicksStep

LEMMA ClosePageStep ==
  ASSUME IInv, NEW v \in Viewers, ClosePage(v)
  PROVE  IInv'
BY DiesStep DEF ClosePage

\* What is retracted or graded was loaded just before.
LEMMA LoadedRows ==
  ASSUME IInv
  PROVE  Loaded \in PageRow /\ Loaded.resp = resp /\ Loaded.grade = grade
BY LoadedPage DEF IInv

LEMMA PutsSelfStep ==
  ASSUME IInv, NEW v \in Viewers, NEW i \in Items, NEW score \in GivenScores, NEW text \in Texts,
         PutsSelf(v, i, score, text)
  PROVE  IInv'
<1> DEFINE t == Save(Loaded, i, score, text)
<1>1. TransactionOK(t) /\ (t = Nothing(Loaded) \/ t.touched)
  BY LoadedRows, SaveOK, PagesAssumption DEF IInv
<1>2. Request(t)
  BY DEF PutsSelf
<1> HIDE DEF t
<1>3. CreatesOpenly(t)
  BY <1>1, NothingWrites DEF CreatesOpenly
<1> QED
  BY <1>1, <1>2, <1>3, RequestStep

LEMMA RetractIs ==
  ASSUME NEW p, NEW i
  PROVE  \E P, G : Retract(p, i) = Transaction(P, {i}, G, {}, TRUE)
BY DEF Retract

LEMMA DeletesSelfStep ==
  ASSUME IInv, NEW v \in Viewers, NEW i \in Items, DeletesSelf(v, i)
  PROVE  IInv'
<1> DEFINE t == Retract(Loaded, i)
<1>1. TransactionOK(t) /\ t.responses = {i}
  BY LoadedRows, RetractOK
<1>2. Request(Quietly(t)) /\ resp[i] # None
  BY DEF DeletesSelf
<1>3. PICK P, G : t = Transaction(P, {i}, G, {}, TRUE)
  BY RetractIs
<1> HIDE DEF t
<1>4. TransactionOK(Quietly(t)) /\ Quietly(t).responses = {i}
  BY <1>1, <1>3, QuietlyOK
<1>5. CreatesOpenly(Quietly(t))
  BY <1>2, <1>4 DEF CreatesOpenly
<1> QED
  BY <1>2, <1>4, <1>5, RequestStep

LEMMA AdminSavesSelfAfreshStep ==
  ASSUME IInv, NEW i \in Items, NEW score \in GivenScores, NEW text \in Texts,
         AdminSavesSelfAfresh(i, score, text)
  PROVE  IInv'
<1> DEFINE t == AdminSave(Loaded, i, score, text)
<1>1. TransactionOK(t) /\ t.responses = {i} /\ (resp[i] = None => t.touched)
  BY LoadedRows, AdminSaveOK, PagesAssumption
<1>2. Request(t)
  BY DEF AdminSavesSelfAfresh
<1> HIDE DEF t
<1>3. CreatesOpenly(t)
  BY <1>1 DEF CreatesOpenly
<1> QED
  BY <1>1, <1>2, <1>3, RequestStep

LEMMA AdminRetractsSelfAfreshStep ==
  ASSUME IInv, NEW i \in Items, AdminRetractsSelfAfresh(i)
  PROVE  IInv'
<1> DEFINE t == Retract(Loaded, i)
<1>1. TransactionOK(t) /\ t.touched
  BY LoadedRows, RetractOK
<1>2. Request(t)
  BY DEF AdminRetractsSelfAfresh
<1> HIDE DEF t
<1>3. CreatesOpenly(t)
  BY <1>1 DEF CreatesOpenly
<1> QED
  BY <1>1, <1>2, <1>3, RequestStep

\* Grading writes no response.
LEMMA GradingStep ==
  ASSUME IInv, NEW t, TransactionOK(t), t.responses = {}, Request(t)
  PROVE  IInv'
<1>1. CreatesOpenly(t)
  BY DEF CreatesOpenly
<1> QED
  BY <1>1, RequestStep

LEMMA GiveGradeQuietlyOK ==
  ASSUME NEW p \in PageRow, NEW i \in Items, NEW score \in Scores, NEW status \in Statuses
  PROVE  LET t == Quietly(GiveGrade(p, i, score, status))
         IN /\ TransactionOK(t) /\ t.responses = {}
            /\ t.inserts = GiveGrade(p, i, score, status).inserts
<1> DEFINE t == GiveGrade(p, i, score, status)
<1>1. TransactionOK(t) /\ t.responses = {}
  BY GiveGradeOK
<1>2. \E P, R, G, I, T : t = Transaction(P, R, G, I, T)
  BY DEF GiveGrade
<1> HIDE DEF t
<1>3. PICK P, R, G, I, T : t = Transaction(P, R, G, I, T)
  BY <1>2
<1>4. TransactionOK(Quietly(t)) /\ Quietly(t).responses = {} /\ Quietly(t).inserts = t.inserts
  BY <1>1, <1>3, QuietlyOK
<1> QED
  BY <1>4 DEF t

LEMMA OpensGradingStep ==
  ASSUME IInv, NEW i \in Items, OpensGrading(i)
  PROVE  IInv'
<1> DEFINE t == Quietly(GiveGrade(Loaded, i, 0, "editing"))
<1>1. 0 \in Scores /\ "editing" \in Statuses
  BY PagesAssumption DEF Scores, Statuses
<1>2. TransactionOK(t) /\ t.responses = {}
  BY <1>1, LoadedRows, GiveGradeQuietlyOK
<1>3. Request(t)
  BY DEF OpensGrading
<1> HIDE DEF t
<1> QED
  BY <1>2, <1>3, GradingStep

LEMMA SavesGradeStep ==
  ASSUME IInv, NEW i \in Items, NEW score \in GivenScores, NEW status \in GivenStatuses,
         SavesGrade(i, score, status)
  PROVE  IInv'
<1> DEFINE t == Quietly(GiveGrade(Loaded, i, score, status))
<1>1. TransactionOK(t) /\ t.responses = {}
  BY LoadedRows, GiveGradeQuietlyOK, PagesAssumption
<1>2. Request(t)
  BY DEF SavesGrade
<1> HIDE DEF t
<1> QED
  BY <1>1, <1>2, GradingStep

LEMMA PutsGradeStep ==
  ASSUME IInv, NEW i \in Items, NEW score \in GivenScores, NEW status \in GivenStatuses,
         PutsGrade(i, score, status)
  PROVE  IInv'
<1> DEFINE t == GiveGrade(Loaded, i, score, status)
<1>1. TransactionOK(t) /\ t.responses = {}
  BY LoadedRows, GiveGradeOK, PagesAssumption
<1>2. Request(t)
  BY DEF PutsGrade
<1> HIDE DEF t
<1> QED
  BY <1>1, <1>2, GradingStep

LEMMA DeletesGradeStep ==
  ASSUME IInv, NEW i \in Items, DeletesGrade(i)
  PROVE  IInv'
<1> DEFINE t == RetractGrade(Loaded, i)
<1>1. TransactionOK(t) /\ t.responses = {}
  BY LoadedRows, RetractGradeOK
<1>2. \E P, R, G, I, T : t = Transaction(P, R, G, I, T)
  BY DEF RetractGrade
<1>3. Request(Quietly(t))
  BY DEF DeletesGrade
<1> HIDE DEF t
<1>4. PICK P, R, G, I, T : t = Transaction(P, R, G, I, T)
  BY <1>2
<1>5. TransactionOK(Quietly(t)) /\ Quietly(t).responses = {}
  BY <1>1, <1>4, QuietlyOK
<1> QED
  BY <1>3, <1>5, GradingStep

LEMMA InitInv ==
  ASSUME Init
  PROVE  IInv
<1>1. resp \in ResponseTable
  BY DefaultIsResponse DEF Init, ResponseTable
<1>2. grade \in GradeTable
  BY PagesAssumption DEF Init, GradeTable, Grades, Scores, Statuses
<1>3. GradesHaveResponses(resp, grade)
  <2>1. None \notin Responses
    BY PagesAssumption
  <2> QED
    BY <2>1, DefaultIsResponse DEF Init, GradesHaveResponses
<1>4. page \in [Viewers -> PageRow \cup {None}] /\ \A v \in Viewers : page[v] = None
  BY DEF Init
<1> QED
  BY <1>1, <1>2, <1>3, <1>4 DEF Init, IInv, TypeOK

LEMMA NextInv ==
  ASSUME IInv, [Next]_vars
  PROVE  IInv'
<1>1. CASE Tick
  BY <1>1, TickStep
<1>2. CASE \E date \in EvalDates : SetEvalDate(date)
  BY <1>2, SetEvalDateStep
<1>3. CASE \E v \in Viewers : OpenPage(v) \/ ClosePage(v) \/ GoDefault(v)
  BY <1>3, OpenPageStep, ClosePageStep, GoDefaultStep
<1>4. CASE \E v \in Viewers, i \in Items : GoTo(v, i) \/ DeletesSelf(v, i)
  BY <1>4, GoToStep, DeletesSelfStep
<1>5. CASE \E score \in Scores, text \in Texts : OwnerSaves(score, text)
  BY <1>5, OwnerSavesStep
<1>6. CASE \E i \in Items, score \in GivenScores, text \in Texts :
             AdminSavesSelf(i, score, text) \/ AdminSavesSelfAfresh(i, score, text)
  BY <1>6, AdminSavesSelfStep, AdminSavesSelfAfreshStep
<1>7. CASE \E i \in Items, v \in Viewers, score \in GivenScores, text \in Texts :
             PutsSelf(v, i, score, text)
  BY <1>7, PutsSelfStep
<1>8. CASE \E i \in Items, score \in GivenScores, status \in GivenStatuses :
             AdminGrades(i, score, status) \/ SavesGrade(i, score, status) \/ PutsGrade(i, score, status)
  BY <1>8, AdminGradesStep, SavesGradeStep, PutsGradeStep
<1>9. CASE \E i \in Items :
             \/ AdminRetractsSelf(i) \/ AdminRetractsSelfAfresh(i) \/ AdminRetractsGrade(i)
             \/ OpensGrading(i) \/ DeletesGrade(i)
  BY <1>9, AdminRetractsSelfStep, AdminRetractsSelfAfreshStep, AdminRetractsGradeStep,
     OpensGradingStep, DeletesGradeStep
<1>10. CASE UNCHANGED vars
  BY <1>10 DEF vars, IInv, TypeOK, GradesHaveResponses
<1> QED
  BY <1>1, <1>2, <1>3, <1>4, <1>5, <1>6, <1>7, <1>8, <1>9, <1>10 DEF Next

-----------------------------------------------------------------------------
(* Results *)

\* The rows are what they are said to be, and pages hold copies of such rows.
THEOREM TypeCorrect == Spec => []TypeOK
<1>1. IInv => TypeOK
  BY DEF IInv
<1> QED
  BY <1>1, InitInv, NextInv, PTL DEF Spec

\* Whatever is written meanwhile, the grade that a page shows (reload_cache)
\* is computed from the responses and grades that the page lists.
THEOREM CachesCohere == Spec => []CacheCoherent
<1>1. IInv => CacheCoherent
  BY DEF IInv, PageOK, Coherent, CacheCoherent, Points
<1> QED
  BY <1>1, InitInv, NextInv, PTL DEF Spec

\* A click that is not in conflict replaces responses that the page shows.
LEMMA ClickShows ==
  ASSUME IInv, NEW viewer \in Viewers, page[viewer] # None,
         NEW t, ClickOK(viewer, t), ~Conflict(page[viewer], t), NEW i \in t.responses
  PROVE  page[viewer].resp[i] = resp[i]
<1>1. i \notin page[viewer].stale /\ (t.touched => page[viewer].fresh)
  BY DEF Conflict
<1>2. Current(page[viewer], resp, grade) /\ i \in Items
  BY DEF IInv, PageOK, ClickOK, TransactionOK
<1>3. page[viewer].resp[i] = None => t.touched
  BY DEF ClickOK
<1> QED
  BY <1>1, <1>2, <1>3 DEF Current

LEMMA OwnerShows ==
  ASSUME IInv, NEW score \in Scores, NEW text \in Texts, OwnerSaves(score, text),
         NEW i \in Items, resp'[i] # resp[i]
  PROVE  page["owner"].resp[i] = resp[i]
<1> DEFINE p == page["owner"]
           t == Save(p, p.at, score, text)
<1>1. ClickOK("owner", t) /\ p # None /\ "owner" \in Viewers
  BY OwnersPage, OwnerSavesWrites
<1>2. ~Conflict(p, t) /\ WriteRows(t)
  BY OwnerSavesWrites DEF Dies
<1> HIDE DEF t
<1>3. RowsWritten(t)
  BY <1>1, <1>2, RowsAreWritten DEF ClickOK
<1>4. i \in t.responses
  BY <1>3 DEF RowsWritten
<1> QED
  BY <1>1, <1>2, <1>4, ClickShows

LEMMA AdminShows ==
  ASSUME IInv, page["admin"] # None, NEW i \in Items, NEW t, ClickOK("admin", t), AdminClicks(t, i),
         NEW j \in Items, resp'[j] # resp[j]
  PROVE  page["admin"].resp[j] = resp[j]
<1>1. "admin" \in Viewers
  BY DEF Viewers
<1>2. ~Conflict(page["admin"], t) /\ WriteRows(t)
  BY DEF AdminClicks, Click, Dies
<1>3. RowsWritten(t)
  BY <1>2, RowsAreWritten DEF ClickOK
<1>4. j \in t.responses
  BY <1>3 DEF RowsWritten
<1> QED
  BY <1>1, <1>2, <1>4, ClickShows

LEMMA AdminWritesShown ==
  ASSUME IInv, AdminWritesSelf, NEW j \in Items, resp'[j] # resp[j]
  PROVE  page["admin"].resp[j] = resp[j]
<1>1. PICK i \in Items : \/ AdminRetractsSelf(i)
                         \/ \E score \in GivenScores, text \in Texts : AdminSavesSelf(i, score, text)
  BY DEF AdminWritesSelf
<1>2. CASE AdminRetractsSelf(i)
  <2> DEFINE t == Retract(page["admin"], i)
  <2>1. page["admin"] # None /\ AdminClicks(t, i)
    BY <1>2 DEF AdminRetractsSelf, AdminAt
  <2>2. TransactionOK(t) /\ ~t.p.loaded /\ t.touched
    BY <2>1, AdminsPage, RetractOK
  <2> HIDE DEF t
  <2>3. ClickOK("admin", t)
    BY <2>2 DEF ClickOK
  <2> QED
    BY <2>1, <2>3, AdminShows
<1>3. CASE \E score \in GivenScores, text \in Texts : AdminSavesSelf(i, score, text)
  <2>1. PICK score \in GivenScores, text \in Texts : AdminSavesSelf(i, score, text)
    BY <1>3
  <2> DEFINE t == AdminSave(page["admin"], i, score, text)
  <2>2. page["admin"] # None /\ AdminClicks(t, i)
    BY <2>1 DEF AdminSavesSelf, AdminAt
  <2>3. /\ TransactionOK(t) /\ ~t.p.loaded
        /\ t.responses = {i} /\ (page["admin"].resp[i] = None => t.touched)
    BY <2>2, AdminsPage, AdminSaveOK, PagesAssumption
  <2> HIDE DEF t
  <2>4. ClickOK("admin", t)
    BY <2>3 DEF ClickOK
  <2> QED
    BY <2>2, <2>4, AdminShows
<1> QED
  BY <1>1, <1>2, <1>3

\* A click that writes no response but grades, all of them on the page, or
\* inserts them where the page has none.
LEMMA AdminGradesShown ==
  ASSUME IInv, page["admin"] # None, NEW i \in Items, NEW t, AdminClicks(t, i),
         TransactionOK(t), t.responses = {},
         t.p.changed = page["admin"].changed, t.p.gone = page["admin"].gone,
         \A k \in t.grades : page["admin"].grade[k] # None,
         \A k \in t.inserts : page["admin"].grade[k] = None,
         NEW j \in Items, grade'[j] # grade[j]
  PROVE  page["admin"].grade[j] = grade[j]
<1> DEFINE p == page["admin"]
<1>1. ~Conflict(p, t) /\ WriteRows(t)
  BY DEF AdminClicks, Click, Dies
<1>2. Current(p, resp, grade)
  BY AdminsPage DEF PageOK
<1>3. t.grades \cap (p.changed \cup p.gone) = {}
  BY <1>1 DEF Conflict
<1>4. resp'[j] = resp[j]
  BY <1>1 DEF WriteRows
<1>5. resp[j] # None
  BY <1>1, <1>4 DEF WriteRows, IInv, GradesHaveResponses
<1>6. j \in t.grades \/ (j \in t.inserts /\ grade[j] = None)
  BY <1>1, <1>4, <1>5 DEF WriteRows
<1> QED
  BY <1>2, <1>3, <1>6 DEF Current

LEMMA GradeWritesShown ==
  ASSUME IInv, AdminWritesGrade, NEW j \in Items, grade'[j] # grade[j]
  PROVE  page["admin"].grade[j] = grade[j]
<1>1. PICK i \in Items : \/ AdminRetractsGrade(i)
                         \/ \E score \in GivenScores, status \in GivenStatuses : AdminGrades(i, score, status)
  BY DEF AdminWritesGrade
<1>2. CASE AdminRetractsGrade(i)
  <2> DEFINE p == page["admin"]
             t == RetractGrade(p, i)
  <2>1. p # None /\ AdminClicks(t, i) /\ p.grade[i] # None
    BY <1>2 DEF AdminRetractsGrade, AdminAt
  <2>2. p \in PageRow
    BY <2>1, AdminsPage
  <2>3. TransactionOK(t) /\ t.responses = {} /\ t.grades = {i} /\ t.inserts = {}
    BY <2>2, RetractGradeOK
  <2>4. t.p.changed = p.changed /\ t.p.gone = p.gone
    BY <2>2 DEF RetractGrade, Transaction, LightTouched, PageRow
  <2> HIDE DEF t
  <2> QED
    BY <2>1, <2>3, <2>4, AdminGradesShown
<1>3. CASE \E score \in GivenScores, status \in GivenStatuses : AdminGrades(i, score, status)
  <2>1. PICK score \in GivenScores, status \in GivenStatuses : AdminGrades(i, score, status)
    BY <1>3
  <2> DEFINE p == page["admin"]
             t == GiveGrade(p, i, score, status)
  <2>2. p # None /\ AdminClicks(t, i)
    BY <2>1 DEF AdminGrades, AdminAt
  <2>3. p \in PageRow
    BY <2>2, AdminsPage
  <2>4. /\ TransactionOK(t) /\ t.responses = {}
        /\ p.grade[i] = None => t.inserts = {i} /\ t.grades = {}
        /\ p.grade[i] # None => t.inserts = {} /\ t.grades = {i}
    BY <2>3, GiveGradeOK, PagesAssumption
  <2>5. t.p.changed = p.changed /\ t.p.gone = p.gone
    BY <2>3 DEF GiveGrade, Transaction, Scored, LightTouched, PageRow
  <2> HIDE DEF t
  <2> QED
    BY <2>2, <2>4, <2>5, AdminGradesShown
<1> QED
  BY <1>1, <1>2, <1>3

\* The pages of Evaluation_view change nothing but what they show: the version
\* of a row makes the later of two writes fail, and creating a response
\* touches the submission.
THEOREM WritesShown == Spec => WritesWhatItShows
<1> DEFINE Shown(i) ==
      /\ resp'[i] # resp[i] /\ OwnerClicks => page["owner"].resp[i] = resp[i]
      /\ resp'[i] # resp[i] /\ AdminWritesSelf => page["admin"].resp[i] = resp[i]
      /\ grade'[i] # grade[i] /\ AdminWritesGrade => page["admin"].grade[i] = grade[i]
<1>1. IInv => [\A i \in Items : Shown(i)]_vars
  BY OwnerShows, AdminWritesShown, GradeWritesShown DEF OwnerClicks
<1> QED
  BY <1>1, InitInv, NextInv, PTL DEF Spec, WritesWhatItShows

\* What save_self_eval writes where the response is not frozen altogether.
LEMMA SaveWrites ==
  ASSUME TypeOK, NEW p \in PageRow, NEW i \in Items, NEW score \in Scores, NEW text \in Texts,
         FreezeOf(p, i) # "full"
  PROVE  LET t == Save(p, i, score, text)
             new == Response(p, i, score, text)
             g == IF FreezeOf(p, i) = "score" THEN GetSelfEval(p, i).p.grade[i] ELSE grade[i]
             after == GradeAfterSave(i, new.score, g, FreezeOf(p, i))
         IN /\ t.p.resp[i] = new /\ t.p.grade[i] = after
            /\ t.responses = {i}
            /\ g # None => t.grades = {i} /\ t.inserts = {}
            /\ g = None => t.grades = {} /\ (after = None => t.inserts = {})
            /\ t.inserts \subseteq {i}
<1> DEFINE t      == Save(p, i, score, text)
           new    == Response(p, i, score, text)
           looked == LookedUp(p, i, new)
           g      == IF FreezeOf(p, i) = "score" THEN GetSelfEval(p, i).p.grade[i] ELSE grade[i]
           after  == GradeAfterSave(i, new.score, g, FreezeOf(p, i))
           q      == LightTouched([looked EXCEPT !.grade[i] = after])
           G      == {i} \cap {j \in Items : looked.grade[j] # None}
           I      == {i} \cap {j \in Items : looked.grade[j] = None /\ after # None}
<1>1. /\ looked \in PageRow /\ looked.resp[i] = new
      /\ looked.grade[i] = g
  BY LookedUpIs
<1>2. t = Transaction(q, {i}, G, I, TRUE)
  <2>1. after = GradeAfterSave(i, new.score, looked.grade[i], FreezeOf(p, i))
    BY <1>1
  <2> QED
    BY <2>1, SaveIs
<1>3. q.resp = looked.resp /\ q.grade[i] = after
  <2> HIDE DEF looked, after
  <2>1. looked.grade \in GradeTable
    BY <1>1 DEF PageRow
  <2>2. [looked.grade EXCEPT ![i] = after][i] = after
    BY <2>1 DEF GradeTable
  <2> QED
    BY <1>1, <2>2 DEF LightTouched, PageRow
<1>4. /\ g # None => G = {i} /\ I = {}
      /\ g = None => G = {} /\ (after = None => I = {})
      /\ I \subseteq {i}
  <2> HIDE DEF looked, after, g
  <2> QED
    BY <1>1
<1> HIDE DEF looked, after, g, q, G, I
<1>5. /\ t.p = q /\ t.responses = {i} /\ t.grades = G /\ t.inserts = I
  <2> HIDE DEF t
  <2> QED
    BY <1>2 DEF Transaction
<1>6. t.p.resp[i] = new /\ t.p.grade[i] = after
  <2> HIDE DEF t, new
  <2> QED
    BY <1>1, <1>3, <1>5
<1> HIDE DEF t, new
<1> QED
  BY <1>4, <1>5, <1>6 DEF t, new, g, after

LEMMA ScoreFreeze ==
  ASSUME NEW p \in PageRow, NEW i \in Items, FreezeOf(p, i) = "score"
  PROVE  GetSelfEval(p, i).p.resp[i].score = FullScore /\ FullScore # 0
<1>1. FullScore # 0
  BY PagesAssumption
<1> QED
  BY <1>1 DEF FreezeOf, FreezeStatus

\* save_self_eval inserts a grade only where there is none, or along with the
\* response itself.
LEMMA SaveInserts ==
  ASSUME TypeOK, NEW p \in PageRow, NEW i \in Items, NEW score \in Scores, NEW text \in Texts
  PROVE  LET t == Save(p, i, score, text)
         IN t.inserts = {} \/ (t.inserts \subseteq {i} /\ (grade[i] = None \/ (p.resp[i] = None /\ t.touched)))
<1> DEFINE t == Save(p, i, score, text)
<1>1. CASE FreezeOf(p, i) = "full"
  <2>1. t = GetSelfEval(p, i)
    BY <1>1, SaveIs
  <2>2. CASE p.resp[i] # None
    <3>1. t = Nothing(p)
      BY <2>1, <2>2, GetSelfEvalIs
    <3> HIDE DEF t
    <3> QED
      BY <3>1, NothingWrites DEF t
  <2>3. CASE p.resp[i] = None
    <3>1. t.touched /\ t.inserts \subseteq {i}
      BY <2>1, <2>3, GetSelfEvalIs
    <3> HIDE DEF t
    <3> QED
      BY <2>3, <3>1 DEF t
  <2> QED
    BY <2>2, <2>3
<1>2. CASE FreezeOf(p, i) = "score"
  <2> DEFINE new == Response(p, i, score, text)
             g == GetSelfEval(p, i).p.grade[i]
             after == GradeAfterSave(i, new.score, g, "score")
  <2>1. /\ g # None => t.inserts = {}
        /\ g = None /\ after = None => t.inserts = {}
    BY <1>2, SaveWrites
  <2>2. new.score # 0
    BY <1>2, ScoreFreeze DEF Response
  <2>3. g = None => after = None
    <3> HIDE DEF g, new
    <3> QED
      BY <2>2 DEF GradeAfterSave
  <2> HIDE DEF t, g, after
  <2> QED
    BY <2>1, <2>3 DEF t
<1>3. CASE FreezeOf(p, i) # "full" /\ FreezeOf(p, i) # "score"
  <2>1. t.inserts \subseteq {i} /\ (grade[i] # None => t.inserts = {})
    BY <1>3, SaveWrites
  <2> HIDE DEF t
  <2> QED
    BY <2>1 DEF t
<1> QED
  BY <1>1, <1>2, <1>3

\* save_self_eval deals with the grade that the response has, as the page or the
\* database knows it.
LEMMA OwnerRegrades ==
  ASSUME IInv, NEW score \in Scores, NEW text \in Texts, OwnerSaves(score, text),
         NEW i \in Items, resp[i] # None, grade[i] # None, resp'[i] # resp[i],
         ~(page["owner"].grade[i] = None /\ resp[i].score = FullScore)
  PROVE  \/ grade'[i] = None
         \/ grade'[i].status # "ready"
         \/ resp'[i].score = 0 /\ grade'[i].score = RewardForNo
<1> DEFINE p == page["owner"]
           k == p.at
           t == Save(p, k, score, text)
           new == Response(p, k, score, text)
           freeze == FreezeOf(p, k)
           g == IF freeze = "score" THEN GetSelfEval(p, k).p.grade[k] ELSE grade[k]
           after == GradeAfterSave(k, new.score, g, freeze)
<1>1. p \in PageRow /\ k \in Items /\ p.resp[i] = resp[i]
  BY OwnersPage, OwnerShows
<1>2. TransactionOK(t) /\ t.responses \subseteq {k} /\ TypeOK
  BY <1>1, SaveOK DEF IInv
<1>3. WriteRows(t)
  BY OwnerSavesWrites DEF Dies
<1>4. i \in t.responses
  <2> HIDE DEF t
  <2>1. RowsWritten(t)
    BY <1>2, <1>3, RowsAreWritten
  <2> QED
    BY <2>1 DEF RowsWritten
<1>5. i = k
  BY <1>2, <1>4
<1>6. GetSelfEval(p, k) = Nothing(p)
  BY <1>1, <1>5, GetSelfEvalIs
<1>7. freeze # "full"
  <2> SUFFICES ASSUME freeze = "full" PROVE FALSE
    OBVIOUS
  <2>1. t = Nothing(p)
    BY <1>6, SaveIs
  <2> HIDE DEF t
  <2> QED
    BY <1>4, <2>1, NothingWrites
<1>8. /\ t.p.resp[k] = new /\ t.p.grade[k] = after /\ (g # None => t.grades = {k})
      /\ new \in Responses
  BY <1>1, <1>2, <1>7, SaveWrites, LookedUpIs
<1>9. resp'[k] = new /\ new # None
  <2> HIDE DEF t, new
  <2>1. resp'[k] = t.p.resp[k]
    BY <1>3, <1>4, <1>5 DEF WriteRows
  <2> QED
    BY <1>8, <2>1, PagesAssumption
<1>10. g # None => grade'[k] = after
  <2> HIDE DEF t, new, g, after
  <2> QED
    BY <1>1, <1>3, <1>8, <1>9 DEF WriteRows
<1>11. CASE freeze = "score"
  <2>1. p.resp[k].score = FullScore /\ FullScore # 0
    BY <1>1, <1>6, <1>11, ScoreFreeze, NothingWrites
  <2>2. p.grade[k] # None /\ p.grade[k] \in Grades
    BY <1>1, <1>5, <2>1 DEF PageRow, GradeTable
  <2>3. new.score = p.resp[k].score
    BY <1>6, <1>11, NothingWrites DEF Response
  <2>4. g = p.grade[k]
    BY <1>6, <1>11, NothingWrites
  <2>5. after = [g EXCEPT !.status = "regrade"]
    <3> HIDE DEF new, g
    <3> QED
      BY <1>11, <2>1, <2>2, <2>3, <2>4 DEF GradeAfterSave
  <2>6. after.status = "regrade"
    <3> HIDE DEF g, after
    <3> QED
      BY <2>2, <2>4, <2>5 DEF Grades
  <2> HIDE DEF g, after
  <2> QED
    BY <1>5, <1>10, <2>2, <2>4, <2>6
<1>12. CASE freeze # "score"
  <2>1. g = grade[k] /\ g # None
    BY <1>5, <1>12
  <2>2. \/ after = None
        \/ new.score = 0 /\ after.score = RewardForNo
    <3> HIDE DEF g, new
    <3> QED
      BY <1>12, <2>1 DEF GradeAfterSave
  <2> HIDE DEF g, new, after
  <2> QED
    BY <1>5, <1>9, <1>10, <2>1, <2>2
<1> QED
  BY <1>11, <1>12

\* save_self_eval looks for the grade in the database, unless the page shows
\* the score of a "yes" to be frozen: then it goes by the page's own copy.
THEOREM Regraded == Spec => RegradedUnlessBlind
<1> DEFINE Regrades(i) ==
      /\ resp[i] # None /\ grade[i] # None /\ resp'[i] # resp[i]
      /\ OwnerClicks
      /\ ~(page["owner"].grade[i] = None /\ resp[i].score = FullScore)
      => \/ grade'[i] = None
         \/ grade'[i].status # "ready"
         \/ resp'[i].score = 0 /\ grade'[i].score = RewardForNo
<1>1. IInv => [\A i \in Items : Regrades(i)]_vars
  BY OwnerRegrades DEF OwnerClicks
<1> QED
  BY <1>1, InitInv, NextInv, PTL DEF Spec, RegradedUnlessBlind

\* The transaction inserts no grade where there is one.
InsertsFirst(t) == \A i \in t.inserts : grade[i] = None

LEMMA NoSecond ==
  ASSUME NEW t, WriteRows(t), InsertsFirst(t)
  PROVE  doubled' \subseteq doubled
BY DEF WriteRows, InsertsFirst

\* A grade that comes with a response that the page does not have is the first.
LEMMA ClickInsertsFirst ==
  ASSUME IInv, NEW viewer \in Viewers, page[viewer] # None,
         NEW t, ~Conflict(page[viewer], t), NEW i \in Items,
         t.inserts = {} \/ (t.inserts \subseteq {i} /\ (grade[i] = None
                                              \/ (page[viewer].resp[i] = None /\ t.touched)))
  PROVE  InsertsFirst(t)
<1>1. t.touched => page[viewer].fresh
  BY DEF Conflict
<1>2. Current(page[viewer], resp, grade) /\ GradesHaveResponses(resp, grade)
  BY DEF IInv, PageOK
<1> QED
  BY <1>1, <1>2 DEF Current, GradesHaveResponses, InsertsFirst

LEMMA OwnerNoSecond ==
  ASSUME IInv, NEW score \in Scores, NEW text \in Texts, OwnerSaves(score, text)
  PROVE  doubled' \subseteq doubled
<1> DEFINE p == page["owner"]
           k == p.at
           t == Save(p, k, score, text)
<1>1. p # None /\ "owner" \in Viewers /\ p \in PageRow /\ k \in Items
  BY OwnersPage
<1>2. CASE Dies("owner")
  BY <1>2 DEF Dies
<1>3. CASE ~Conflict(p, t) /\ WriteRows(t)
  <2>1. t.inserts = {} \/ (t.inserts \subseteq {k} /\ (grade[k] = None \/ (p.resp[k] = None /\ t.touched)))
    BY <1>1, SaveInserts DEF IInv
  <2> HIDE DEF t
  <2>2. InsertsFirst(t)
    BY <1>1, <1>3, <2>1, ClickInsertsFirst
  <2> QED
    BY <1>3, <2>2, NoSecond
<1> QED
  BY <1>2, <1>3, OwnerSavesWrites

LEMMA AdminNoSecond ==
  ASSUME IInv, page["admin"] # None, NEW i \in Items, NEW t, AdminClicks(t, i),
         t.inserts = {} \/ (t.inserts \subseteq {i} /\ page["admin"].resp[i] = None /\ t.touched)
  PROVE  doubled' \subseteq doubled
<1>1. CASE Conflict(page["admin"], t)
  BY <1>1 DEF AdminClicks, Click, Dies
<1>2. CASE ~Conflict(page["admin"], t)
  <2>1. WriteRows(t) /\ "admin" \in Viewers
    BY <1>2 DEF AdminClicks, Click, Viewers
  <2>2. InsertsFirst(t)
    BY <1>2, <2>1, ClickInsertsFirst
  <2> QED
    BY <2>1, <2>2, NoSecond
<1> QED
  BY <1>1, <1>2

LEMMA AdminSaveInserts ==
  ASSUME NEW p \in PageRow, NEW i \in Items, NEW score \in Scores, NEW text \in Texts
  PROVE  LET t == AdminSave(p, i, score, text)
         IN t.inserts = {} \/ (t.inserts \subseteq {i} /\ p.resp[i] = None /\ t.touched)
<1> DEFINE got == GetSelfEval(p, i)
           t == AdminSave(p, i, score, text)
<1>1. CASE p.resp[i] # None
  BY <1>1, AdminSaveOK
<1>2. CASE p.resp[i] = None
  <2>1. got.inserts \subseteq {i}
    BY <1>2, GetSelfEvalIs
  <2>2. \E P, R, G, I, T : got = Transaction(P, R, G, I, T)
    BY DEF GetSelfEval, Create
  <2>3. \E q : t = [got EXCEPT !.p = q, !.responses = {i}]
    BY DEF AdminSave
  <2>4. t.inserts = got.inserts
    <3> HIDE DEF got, t
    <3> QED
      BY <2>2, <2>3 DEF Transaction
  <2>5. t.touched
    BY <1>2, AdminSaveOK
  <2> HIDE DEF got, t
  <2> QED
    BY <1>2, <2>1, <2>4, <2>5 DEF t
<1> QED
  BY <1>1, <1>2

LEMMA AdminWritesNoSecond ==
  ASSUME IInv, NEW i \in Items,
         \/ AdminRetractsSelf(i) \/ AdminRetractsGrade(i)
         \/ \E score \in GivenScores, text \in Texts : AdminSavesSelf(i, score, text)
  PROVE  doubled' \subseteq doubled
<1> DEFINE p == page["admin"]
<1>1. CASE AdminRetractsSelf(i)
  <2> DEFINE t == Retract(p, i)
  <2>1. p # None /\ AdminClicks(t, i)
    BY <1>1 DEF AdminRetractsSelf, AdminAt
  <2>2. t.inserts = {}
    BY <2>1, AdminsPage, RetractOK
  <2> HIDE DEF t
  <2> QED
    BY <2>1, <2>2, AdminNoSecond
<1>2. CASE AdminRetractsGrade(i)
  <2> DEFINE t == RetractGrade(p, i)
  <2>1. p # None /\ AdminClicks(t, i)
    BY <1>2 DEF AdminRetractsGrade, AdminAt
  <2>2. t.inserts = {}
    BY <2>1, AdminsPage, RetractGradeOK
  <2> HIDE DEF t
  <2> QED
    BY <2>1, <2>2, AdminNoSecond
<1>3. CASE \E score \in GivenScores, text \in Texts : AdminSavesSelf(i, score, text)
  <2>1. PICK score \in GivenScores, text \in Texts : AdminSavesSelf(i, score, text)
    BY <1>3
  <2> DEFINE t == AdminSave(p, i, score, text)
  <2>2. p # None /\ AdminClicks(t, i)
    BY <2>1 DEF AdminSavesSelf, AdminAt
  <2>3. t.inserts = {} \/ (t.inserts \subseteq {i} /\ p.resp[i] = None /\ t.touched)
    BY <2>2, AdminsPage, AdminSaveInserts, PagesAssumption
  <2> HIDE DEF t
  <2> QED
    BY <2>2, <2>3, AdminNoSecond
<1> QED
  BY <1>1, <1>2, <1>3

\* An administrator who sees the grade writes it; who does not, inserts one.
LEMMA AdminGradesSecond ==
  ASSUME IInv, NEW i \in Items, NEW score \in GivenScores, NEW status \in GivenStatuses,
         AdminGrades(i, score, status), NEW j \in doubled' \ doubled
  PROVE  AdminAt(j) /\ page["admin"].grade[j] = None
<1> DEFINE p == page["admin"]
           t == GiveGrade(p, i, score, status)
<1>1. p # None /\ AdminClicks(t, i) /\ AdminAt(i)
  BY DEF AdminGrades, AdminAt
<1>2. /\ p.grade[i] = None => t.inserts = {i}
      /\ p.grade[i] # None => t.inserts = {}
  BY <1>1, AdminsPage, GiveGradeOK, PagesAssumption
<1> HIDE DEF t
<1>3. WriteRows(t)
  BY <1>1 DEF AdminClicks, Click, Dies
<1>4. j \in t.inserts
  BY <1>3 DEF WriteRows
<1> QED
  BY <1>1, <1>2, <1>4

\* Requests see the grade that there is.
LEMMA RequestNoSecond ==
  ASSUME NEW t, Request(t), InsertsFirst(t)
  PROVE  doubled' \subseteq doubled
BY NoSecond DEF Request

LEMMA ResponsesAfreshNoSecond ==
  ASSUME IInv, NEW i \in Items,
         \/ \E v \in Viewers : DeletesSelf(v, i)
         \/ \E v \in Viewers, score \in GivenScores, text \in Texts : PutsSelf(v, i, score, text)
         \/ \E score \in GivenScores, text \in Texts : AdminSavesSelfAfresh(i, score, text)
         \/ AdminRetractsSelfAfresh(i)
  PROVE  doubled' \subseteq doubled
<1>1. Loaded \in PageRow /\ Loaded.resp = resp /\ TypeOK /\ GradesHaveResponses(resp, grade)
  BY LoadedRows DEF IInv
<1>2. CASE \E v \in Viewers : DeletesSelf(v, i)
  <2> DEFINE t == Retract(Loaded, i)
  <2>1. TransactionOK(t) /\ t.inserts = {}
    BY <1>1, RetractOK
  <2>2. PICK P, G : t = Transaction(P, {i}, G, {}, TRUE)
    BY RetractIs
  <2>3. Request(Quietly(t))
    BY <1>2 DEF DeletesSelf
  <2> HIDE DEF t
  <2>4. Quietly(t).inserts = {}
    BY <2>1, <2>2, QuietlyOK
  <2> QED
    BY <2>3, <2>4, RequestNoSecond DEF InsertsFirst
<1>3. CASE \E v \in Viewers, score \in GivenScores, text \in Texts : PutsSelf(v, i, score, text)
  <2>1. PICK v \in Viewers, score \in GivenScores, text \in Texts : PutsSelf(v, i, score, text)
    BY <1>3
  <2> DEFINE t == Save(Loaded, i, score, text)
  <2>2. t.inserts = {} \/ (t.inserts \subseteq {i} /\ (grade[i] = None \/ Loaded.resp[i] = None))
    BY <1>1, SaveInserts, PagesAssumption
  <2>3. Request(t)
    BY <2>1 DEF PutsSelf
  <2> HIDE DEF t
  <2>4. InsertsFirst(t)
    BY <1>1, <2>2 DEF InsertsFirst, GradesHaveResponses
  <2> QED
    BY <2>3, <2>4, RequestNoSecond
<1>4. CASE \E score \in GivenScores, text \in Texts : AdminSavesSelfAfresh(i, score, text)
  <2>1. PICK score \in GivenScores, text \in Texts : AdminSavesSelfAfresh(i, score, text)
    BY <1>4
  <2> DEFINE t == AdminSave(Loaded, i, score, text)
  <2>2. t.inserts = {} \/ (t.inserts \subseteq {i} /\ Loaded.resp[i] = None)
    BY <1>1, AdminSaveInserts, PagesAssumption
  <2>3. Request(t)
    BY <2>1 DEF AdminSavesSelfAfresh
  <2> HIDE DEF t
  <2>4. InsertsFirst(t)
    BY <1>1, <2>2 DEF InsertsFirst, GradesHaveResponses
  <2> QED
    BY <2>3, <2>4, RequestNoSecond
<1>5. CASE AdminRetractsSelfAfresh(i)
  <2> DEFINE t == Retract(Loaded, i)
  <2>1. t.inserts = {}
    BY <1>1, RetractOK
  <2>2. Request(t)
    BY <1>5 DEF AdminRetractsSelfAfresh
  <2> HIDE DEF t
  <2> QED
    BY <2>1, <2>2, RequestNoSecond DEF InsertsFirst
<1> QED
  BY <1>2, <1>3, <1>4, <1>5

LEMMA GivesGradeAfreshNoSecond ==
  ASSUME IInv, NEW i \in Items, NEW score \in Scores, NEW status \in Statuses,
         \/ Request(GiveGrade(Loaded, i, score, status))
         \/ Request(Quietly(GiveGrade(Loaded, i, score, status)))
  PROVE  doubled' \subseteq doubled
<1> DEFINE t == GiveGrade(Loaded, i, score, status)
<1>1. Loaded \in PageRow /\ Loaded.grade = grade
  BY LoadedRows
<1>2. /\ grade[i] = None => t.inserts = {i}
      /\ grade[i] # None => t.inserts = {}
      /\ Quietly(t).inserts = t.inserts
  BY <1>1, GiveGradeOK, GiveGradeQuietlyOK
<1>3. InsertsFirst(t) /\ InsertsFirst(Quietly(t))
  <2> HIDE DEF t
  <2> QED
    BY <1>2 DEF InsertsFirst
<1> QED
  BY <1>3, RequestNoSecond

LEMMA GradingNoSecond ==
  ASSUME IInv, NEW i \in Items,
         \/ OpensGrading(i) \/ DeletesGrade(i)
         \/ \E score \in GivenScores, status \in GivenStatuses :
              SavesGrade(i, score, status) \/ PutsGrade(i, score, status)
  PROVE  doubled' \subseteq doubled
<1>1. CASE OpensGrading(i)
  <2>1. 0 \in Scores /\ "editing" \in Statuses
    BY PagesAssumption DEF Scores, Statuses
  <2> QED
    BY <1>1, <2>1, GivesGradeAfreshNoSecond DEF OpensGrading
<1>2. CASE DeletesGrade(i)
  <2> DEFINE t == RetractGrade(Loaded, i)
  <2>1. TransactionOK(t) /\ t.inserts = {}
    BY LoadedRows, RetractGradeOK
  <2>2. \E P, R, G, I, T : t = Transaction(P, R, G, I, T)
    BY DEF RetractGrade
  <2>3. Request(Quietly(t))
    BY <1>2 DEF DeletesGrade
  <2> HIDE DEF t
  <2>4. PICK P, R, G, I, T : t = Transaction(P, R, G, I, T)
    BY <2>2
  <2>5. Quietly(t).inserts = {}
    BY <2>1, <2>4, QuietlyOK
  <2> QED
    BY <2>3, <2>5, RequestNoSecond DEF InsertsFirst
<1>3. CASE \E score \in GivenScores, status \in GivenStatuses :
             SavesGrade(i, score, status) \/ PutsGrade(i, score, status)
  BY <1>3, GivesGradeAfreshNoSecond, PagesAssumption DEF SavesGrade, PutsGrade
<1> QED
  BY <1>1, <1>2, <1>3

\* A second grade for one response (get_grader_eval inserts where the cache has
\* none) comes from nobody but an administrator whose page has no grade for it.
THEOREM SecondGrades == Spec => SecondGradeOnlyByAdmin
<1> DEFINE Second == \A i \in doubled' \ doubled : AdminAt(i) /\ page["admin"].grade[i] = None
<1>1. ASSUME IInv, Next
      PROVE  Second
  <2>1. CASE \/ Tick
             \/ \E date \in EvalDates : SetEvalDate(date)
             \/ \E v \in Viewers : OpenPage(v) \/ ClosePage(v) \/ GoDefault(v)
             \/ \E v \in Viewers, i \in Items : GoTo(v, i)
    BY <2>1 DEF Tick, SetEvalDate, OpenPage, ClosePage, GoDefault, GoTo, Dies
  <2>2. CASE \E score \in Scores, text \in Texts : OwnerSaves(score, text)
    BY <1>1, <2>2, OwnerNoSecond
  <2>3. CASE \E i \in Items : AdminRetractsSelf(i) \/ AdminRetractsGrade(i)
    BY <1>1, <2>3, AdminWritesNoSecond
  <2>4. CASE \E i \in Items, score \in GivenScores, text \in Texts : AdminSavesSelf(i, score, text)
    BY <1>1, <2>4, AdminWritesNoSecond
  <2>5. CASE \E i \in Items, score \in GivenScores, status \in GivenStatuses :
               AdminGrades(i, score, status)
    BY <1>1, <2>5, AdminGradesSecond
  <2>6. CASE \E i \in Items :
               \/ \E v \in Viewers : DeletesSelf(v, i)
               \/ \E v \in Viewers, score \in GivenScores, text \in Texts : PutsSelf(v, i, score, text)
               \/ \E score \in GivenScores, text \in Texts : AdminSavesSelfAfresh(i, score, text)
               \/ AdminRetractsSelfAfresh(i)
    BY <1>1, <2>6, ResponsesAfreshNoSecond
  <2>7. CASE \E i \in Items :
               \/ OpensGrading(i) \/ DeletesGrade(i)
               \/ \E score \in GivenScores, status \in GivenStatuses :
                    SavesGrade(i, score, status) \/ PutsGrade(i, score, status)
    BY <1>1, <2>7, GradingNoSecond
  <2> QED
    BY <1>1, <2>1, <2>2, <2>3, <2>4, <2>5, <2>6, <2>7 DEF Next
<1>2. UNCHANGED vars => Second
  BY DEF vars
<1> QED
  BY <1>1, <1>2, InitInv, NextInv, PTL DEF Spec, SecondGradeOnlyByAdmin
=============================================================================
