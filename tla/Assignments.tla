---------------------------- MODULE Assignments ----------------------------
(***************************************************************************)
(* Assignments and their evaluation items, as administrators edit them,    *)
(* and what becomes of a student who works meanwhile: the list of          *)
(* assignments with its dates, the page of one assignment's items, the     *)
(* home page with its rows, buttons and date editors, and the evaluation   *)
(* it leads to (view/web/view/Assignments_view.C, Edit_assignment_view.C,  *)
(* Submissions_view.C, model/Assignment.C, Eval_item.C, Submission.C).     *)
(*                                                                         *)
(* The unit of time is a day; a date is the end of its day.  Every page    *)
(* belongs to a session of its own, which keeps the rows that the page     *)
(* refers to as they were when it first loaded them.  A write carries the  *)
(* version of the copy and ends the session when the row has another, or   *)
(* is gone.  An assignment's row is its number, so a number that is used   *)
(* again starts over at version 0; other rows are never used again.        *)
(*                                                                         *)
(* Names, check boxes, and what an item asks and is worth are left out,    *)
(* but for the versions that saving an item uses up.                       *)
(***************************************************************************)
EXTENDS Deadlines, Sequences, FiniteSets

CONSTANTS
  Admins,         \* sessions of administrators
  FirstDates,     \* the dates of assignment 1 as the model starts
  Days,           \* bound: the days that may be typed into a date editor
  Edited,         \* bound: the dates of an assignment that are edited
  LastDay,        \* bound: the last day
  MaxAssignments, \* bound: assignment numbers
  MaxItems,       \* bound: evaluation items ever made
  MaxWrites,      \* bound: edits by administrators
  None

ASSUME AssignmentsAssumption ==
  /\ FirstDates \in [open : Nat, due : Nat, eval : Nat]
  /\ Days \subseteq Nat /\ Edited \subseteq {"open", "due", "eval"} /\ LastDay \in Nat
  /\ MaxAssignments \in Nat \ {0} /\ MaxItems \in Nat \ {0} /\ MaxWrites \in Nat
  /\ None \notin Admins

VARIABLES
  now,
  assignments,  \* number -> the dates and the version of the row
  items,        \* the rows of eval_item: which assignment, which place, the version, whether the row is there
  submissions,  \* number -> the student's submission: its dates; history: when it was made, with which
                \* due date, and whether an administrator has set that date since
  evals,        \* the items that the student has evaluated
  pages,        \* administrator -> the page of the session, or None
  student,      \* the page of the student's session, or None
  writes,
  removed,      \* history: how often each number has been removed
  overlapped    \* history: two administrators have had the same kind of editing page at the same time

db == <<assignments, items, submissions, evals>>
rest == <<now, writes, removed, overlapped>>
vars == <<db, pages, student, rest>>

Numbers == 1 .. MaxAssignments
LiveItems == {i \in DOMAIN items : items[i].live}
ItemsOf(n) == {i \in LiveItems : items[i].of = n}
Dates(row) == [open |-> row.open, due |-> row.due, eval |-> row.eval]

(* Whether the first item has been evaluated, which ends handing in. *)
Started(n) == \E i \in evals : items[i].live /\ items[i].of = n /\ items[i].seq = 1
StatusBy(asgn, sub, n) == Status(now, Dates(asgn), [due |-> sub.due, eval |-> sub.eval], Started(n))

(* A table with one row more, or another one. *)
Put(f, x, v) == [y \in DOMAIN f \cup {x} |-> IF y = x THEN v ELSE f[y]]

Enough == writes < MaxWrites /\ writes' = writes + 1

Init ==
  /\ now = 0
  /\ assignments = [n \in {1} |-> [open |-> FirstDates.open, due |-> FirstDates.due, eval |-> FirstDates.eval, ver |-> 0]]
  /\ items = <<[of |-> 1, seq |-> 1, ver |-> 0, live |-> TRUE]>>
  /\ submissions = <<>> /\ evals = {}
  /\ pages = [a \in Admins |-> None] /\ student = None
  /\ writes = 0 /\ removed = [n \in Numbers |-> 0] /\ overlapped = FALSE

-----------------------------------------------------------------------------
(* Pages *)

(* What a page holds: its rows, copies of assignments and submissions, and the copies of submissions that are old.   *)
EmptyPage == [kind |-> "none", of |-> None, rows |-> <<>>, vers |-> <<>>, asgn |-> <<>>, sub |-> <<>>, old |-> {},
              drawn |-> <<>>, asked |-> None, consent |-> FALSE]
Copies(f, S, kept) == [n \in S |-> IF n \in DOMAIN kept THEN kept[n] ELSE f[n]]
Kept(page) == IF page = None THEN EmptyPage ELSE page

(* When the submissions S are written or removed, pages other than the writer's hold old copies. *)
Aged(page, S) == IF page = None THEN None ELSE [page EXCEPT !.old = @ \cup (S \cap DOMAIN page.sub)]
AgedElsewhere(a, S) == [b \in Admins |-> IF b = a THEN pages[b] ELSE Aged(pages[b], S)]

Show(a, page) ==
  /\ pages' = [pages EXCEPT ![a] = page]
  /\ overlapped' = (overlapped \/ (page.kind # "home" /\ \E b \in Admins \ {a} : Kept(pages[b]).kind = page.kind))

AdminDies(a) == pages' = [pages EXCEPT ![a] = None] /\ UNCHANGED <<db, student, rest>>
StudentDies == student' = None /\ UNCHANGED <<db, pages, rest>>

(* A dialog is modal. *)
Unasked(a) == Kept(pages[a]).asked = None
Free(a, kind) == Kept(pages[a]).kind = kind /\ Unasked(a)

ClosePage(a) == pages[a] # None /\ AdminDies(a)

Tick == now < LastDay /\ now' = now + 1 /\ UNCHANGED <<db, pages, student, writes, removed, overlapped>>

-----------------------------------------------------------------------------
(* The list of assignments *)

InOrder(S) == CHOOSE s \in [1 .. Cardinality(S) -> S] : \A j, k \in DOMAIN s : j < k => s[j] < s[k]

OpenList(a) ==
  /\ Unasked(a)
  /\ Show(a, [EmptyPage EXCEPT !.kind = "list", !.rows = InOrder(DOMAIN assignments),
                               !.asgn = Copies(assignments, DOMAIN assignments, Kept(pages[a]).asgn)])
  /\ UNCHANGED <<now, db, student, writes, removed>>

(* The number comes from the rows of the page; a number that is taken makes the database refuse. *)
More(a) ==
  LET n == Len(pages[a].rows) + 1
      row == [open |-> now, due |-> now, eval |-> now, ver |-> 0]
  IN
  /\ Free(a, "list") /\ n \in Numbers
  /\ \/ /\ n \notin DOMAIN assignments /\ Enough
        /\ assignments' = Put(assignments, n, row)
        /\ pages' = [pages EXCEPT ![a].rows = Append(@, n), ![a].asgn = Put(@, n, row)]
        /\ UNCHANGED <<now, items, submissions, evals, student, removed, overlapped>>
     \/ n \in DOMAIN assignments /\ AdminDies(a)

SameVersion(a, n) == n \in DOMAIN assignments /\ assignments[n].ver = pages[a].asgn[n].ver

(* Mutant: a write does not look at the version. *)
SetDateBlindly(a, n, field, day) ==
  /\ Free(a, "list") /\ n \in DOMAIN pages[a].asgn \cap DOMAIN assignments /\ day # pages[a].asgn[n][field] /\ Enough
  /\ assignments' = [assignments EXCEPT ![n] = [pages[a].asgn[n] EXCEPT ![field] = day, !.ver = @ + 1]]
  /\ pages' = [pages EXCEPT ![a].asgn[n] = assignments'[n]]
  /\ UNCHANGED <<now, items, submissions, evals, student, removed, overlapped>>

(* A date editor writes the copy with one date changed. *)
SetDate(a, n, field, day) ==
  /\ Free(a, "list") /\ n \in DOMAIN pages[a].asgn /\ day # pages[a].asgn[n][field]
  /\ \/ /\ SameVersion(a, n) /\ Enough
        /\ assignments' = [assignments EXCEPT ![n] = [pages[a].asgn[n] EXCEPT ![field] = day, !.ver = @ + 1]]
        /\ pages' = [pages EXCEPT ![a].asgn[n] = assignments'[n]]
        /\ UNCHANGED <<now, items, submissions, evals, student, removed, overlapped>>
     \/ ~SameVersion(a, n) /\ AdminDies(a)

Last(rows) == rows[Len(rows)]
EvalsOf(n) == {i \in evals : items[i].of = n}

(* "Fewer" counts what would go along with the last row.  When something would, a dialog asks; either way the      *)
(* removal is a transaction of its own.  The evaluations that there were are history.                              *)
Ask(a, shown, had) == pages' = [pages EXCEPT ![a].asked = [shown |-> shown, had |-> had]]

FewerAssignments(a) ==
  LET n == Last(pages[a].rows) IN
  /\ Free(a, "list") /\ pages[a].rows # <<>>
  /\ Ask(a, n \in DOMAIN submissions \/ ItemsOf(n) # {}, EvalsOf(n))
  /\ UNCHANGED <<db, student, rest>>

Confirming(a, kind) == Kept(pages[a]).kind = kind /\ ~Unasked(a)
Rows(page) == SubSeq(page.rows, 1, Len(page.rows) - 1)

(* Items, submissions and evaluations go along with an assignment. *)
RemoveAssignment(a) ==
  LET n == Last(pages[a].rows) IN
  /\ Confirming(a, "list")
  /\ \/ /\ SameVersion(a, n) /\ Enough
        /\ assignments' = [m \in DOMAIN assignments \ {n} |-> assignments[m]]
        /\ items' = [i \in DOMAIN items |-> IF items[i].of = n THEN [items[i] EXCEPT !.live = FALSE] ELSE items[i]]
        /\ submissions' = [m \in DOMAIN submissions \ {n} |-> submissions[m]]
        /\ evals' = evals \ ItemsOf(n)
        /\ pages' = [AgedElsewhere(a, {n}) EXCEPT ![a].asked = None, ![a].rows = Rows(pages[a]),
                                                  ![a].asgn = [m \in DOMAIN @ \ {n} |-> @[m]]]
        /\ student' = Aged(student, {n})
        /\ removed' = [removed EXCEPT ![n] = @ + 1]
        /\ UNCHANGED <<now, overlapped>>
     \/ ~SameVersion(a, n) /\ AdminDies(a)

Decline(a) ==
  /\ ~Unasked(a) /\ pages[a].asked.shown
  /\ pages' = [pages EXCEPT ![a].asked = None]
  /\ UNCHANGED <<db, student, rest>>

-----------------------------------------------------------------------------
(* The items of one assignment *)

BySequence(S) == CHOOSE s \in [1 .. Cardinality(S) -> S] :
                   /\ \A j, k \in DOMAIN s : j # k => s[j] # s[k]
                   /\ \A j, k \in DOMAIN s : j < k => items[s[j]].seq <= items[s[k]].seq

OpenItems(a, n) ==
  /\ Unasked(a) /\ n \in DOMAIN assignments
  /\ LET kept == Kept(pages[a]) IN
     Show(a, [EmptyPage EXCEPT !.kind = "items", !.of = n, !.rows = BySequence(ItemsOf(n)),
                               !.vers = Copies([i \in DOMAIN items |-> items[i].ver], ItemsOf(n), kept.vers),
                               !.asgn = Copies(assignments, {n}, kept.asgn)])
  /\ UNCHANGED <<now, db, student, writes, removed>>

(* Mutant: a new item has the number of the last one. *)
MoreItemsAtLast(a) ==
  /\ Free(a, "items") /\ Len(items) < MaxItems /\ pages[a].of \in DOMAIN assignments /\ Enough
  /\ items' = Append(items, [of |-> pages[a].of, seq |-> Cardinality(ItemsOf(pages[a].of)), ver |-> 0, live |-> TRUE])
  /\ pages' = [pages EXCEPT ![a].rows = Append(@, Len(items')), ![a].vers = Put(@, Len(items'), 0)]
  /\ UNCHANGED <<now, assignments, submissions, evals, student, removed, overlapped>>

(* The place of a new item comes from the database, not from the page. *)
MoreItems(a) ==
  LET n == pages[a].of IN
  /\ Free(a, "items") /\ Len(items) < MaxItems
  /\ \/ /\ n \in DOMAIN assignments /\ Enough
        /\ items' = Append(items, [of |-> n, seq |-> Cardinality(ItemsOf(n)) + 1, ver |-> 0, live |-> TRUE])
        /\ pages' = [pages EXCEPT ![a].rows = Append(@, Len(items')), ![a].vers = Put(@, Len(items'), 0)]
        /\ UNCHANGED <<now, assignments, submissions, evals, student, removed, overlapped>>
     \/ n \notin DOMAIN assignments /\ AdminDies(a)

SameItem(a, i) == items[i].live /\ items[i].ver = pages[a].vers[i]

SaveItem(a, i) ==
  /\ Free(a, "items") /\ i \in DOMAIN pages[a].vers
  /\ \/ /\ SameItem(a, i) /\ Enough
        /\ items' = [items EXCEPT ![i].ver = @ + 1]
        /\ pages' = [pages EXCEPT ![a].vers[i] = @ + 1]
        /\ UNCHANGED <<now, assignments, submissions, evals, student, removed, overlapped>>
     \/ ~SameItem(a, i) /\ AdminDies(a)

(* Mutant: the dialog is shown when nothing would be lost. *)
FewerItemsTheOtherWay(a) ==
  LET asked == evals \cap {Last(pages[a].rows)} IN
  /\ Free(a, "items") /\ pages[a].rows # <<>>
  /\ Ask(a, asked = {}, asked)
  /\ UNCHANGED <<db, student, rest>>

FewerItems(a) ==
  LET asked == evals \cap {Last(pages[a].rows)} IN
  /\ Free(a, "items") /\ pages[a].rows # <<>>
  /\ Ask(a, asked # {}, asked)
  /\ UNCHANGED <<db, student, rest>>

RemoveItem(a) ==
  LET i == Last(pages[a].rows) IN
  /\ Confirming(a, "items")
  /\ \/ /\ SameItem(a, i) /\ Enough
        /\ items' = [items EXCEPT ![i].live = FALSE]
        /\ evals' = evals \ {i}
        /\ pages' = [pages EXCEPT ![a].asked = None, ![a].rows = Rows(pages[a]),
                                   ![a].vers = [j \in DOMAIN @ \ {i} |-> @[j]]]
        /\ UNCHANGED <<now, assignments, submissions, student, removed, overlapped>>
     \/ ~SameItem(a, i) /\ AdminDies(a)

-----------------------------------------------------------------------------
(* The home page of the student, and of an administrator who looks at it *)

(* Submissions are listed by number, with nothing where an assignment is missing: the page takes the owner of each, *)
(* and a gap ends the session.                                                                                     *)
Gapless == DOMAIN assignments = 1 .. Cardinality(DOMAIN assignments)

(* Mutant: a submission starts out with the wrong date of its assignment. *)
FirstTouchByOpenDate(asgn) ==
  [n \in DOMAIN assignments |->
     IF n \in DOMAIN submissions THEN submissions[n]
     ELSE [due |-> asgn[n].open, eval |-> asgn[n].eval,
           made |-> removed[n], first |-> asgn[n].due, moved |-> FALSE]]

FirstTouch(asgn) ==
  [n \in DOMAIN assignments |->
     IF n \in DOMAIN submissions THEN submissions[n]
     ELSE [due |-> asgn[n].due, eval |-> asgn[n].eval,
           made |-> removed[n], first |-> asgn[n].due, moved |-> FALSE]]

(* What the buttons of a row offer. *)
Offers(status) ==
  (IF status \in {"open", "extended", "overtime"} THEN {"submit"} ELSE {})
    \cup (IF status \in {"overtime", "self_eval", "extended_eval", "closed"} THEN {"evaluate"} ELSE {})
Drawn(asgn, sub, n) == Offers(StatusBy(asgn, sub, n))

Home(before, made) ==
  LET asgn == Copies(assignments, DOMAIN assignments, before.asgn)
      same == {n \in DOMAIN before.sub \cap DOMAIN made : before.sub[n].made = made[n].made}
      sub == Copies(made, DOMAIN assignments, [n \in same |-> before.sub[n]])
  IN [EmptyPage EXCEPT !.kind = "home", !.asgn = asgn, !.sub = sub, !.old = before.old \cap same]
HomePage(before, made) ==
  LET page == Home(before, made)
  IN [page EXCEPT !.drawn = [n \in DOMAIN assignments |-> Drawn(page.asgn[n], page.sub[n], n)]]

OpenHome ==
  LET made == FirstTouch(Copies(assignments, DOMAIN assignments, Kept(student).asgn)) IN
  /\ \/ /\ Gapless
        /\ submissions' = made
        /\ student' = HomePage(Kept(student), made)
        /\ UNCHANGED <<assignments, items, evals, pages, rest>>
     \/ ~Gapless /\ student # None /\ StudentDies

OpenStudentsHome(a) ==
  LET made == FirstTouch(Copies(assignments, DOMAIN assignments, Kept(pages[a]).asgn)) IN
  /\ Unasked(a)
  /\ \/ /\ Gapless
        /\ submissions' = made
        /\ Show(a, Home(Kept(pages[a]), made))
        /\ UNCHANGED <<now, assignments, items, evals, student, writes, removed>>
     \/ ~Gapless /\ pages[a] # None /\ AdminDies(a)

(* An administrator's row sets the dates of the submission. *)
SetOwnDate(a, n, field, day) ==
  LET copy == pages[a].sub[n]
      fresh == n \in DOMAIN submissions /\ n \notin pages[a].old
  IN
  /\ Free(a, "home") /\ n \in DOMAIN pages[a].sub
  /\ day # IF field = "due" THEN EffectiveDueDate(pages[a].asgn[n], copy) ELSE EffectiveEvalDate(pages[a].asgn[n], copy)
  /\ \/ /\ fresh /\ Enough
        /\ submissions' = [submissions EXCEPT ![n] = [copy EXCEPT ![field] = day, !.moved = @ \/ field = "due"]]
        /\ pages' = [AgedElsewhere(a, {n}) EXCEPT ![a].sub[n] = submissions'[n]]
        /\ student' = Aged(student, {n})
        /\ UNCHANGED <<now, assignments, items, evals, removed, overlapped>>
     \/ ~fresh /\ AdminDies(a)

-----------------------------------------------------------------------------
(* The student goes from a row to its evaluation, and evaluates *)

EvaluationPage(n, consent) ==
  [student EXCEPT !.kind = "eval", !.of = n, !.rows = BySequence(ItemsOf(n)), !.drawn = <<>>, !.asked = None, !.consent = consent]

(* The evaluation opens once handing in is over by the dates that the session knows. *)
GoEval(n, consent) ==
  LET due == EffectiveDueDate(student.asgn[n], student.sub[n]) IN
  \/ /\ n \in DOMAIN assignments /\ due < now
     /\ student' = EvaluationPage(n, consent)
     /\ UNCHANGED <<db, pages, rest>>
  \/ ~(n \in DOMAIN assignments /\ due < now) /\ StudentDies

StatusNow(n) == StatusBy(student.asgn[n], student.sub[n], n)

(* Pressing the button of a row that was drawn some time ago looks at the status again, and asks in overtime. *)

(* Mutant: what the row was drawn with decides whether to ask. *)
ClickEvalAsDrawn(n) ==
  /\ student # None /\ student.kind = "home" /\ student.asked = None
  /\ n \in DOMAIN student.drawn /\ "evaluate" \in student.drawn[n]
  /\ \/ "submit" \in student.drawn[n] /\ student' = [student EXCEPT !.asked = n]
        /\ UNCHANGED <<db, pages, rest>>
     \/ "submit" \notin student.drawn[n] /\ GoEval(n, FALSE)

ClickEval(n) ==
  /\ student # None /\ student.kind = "home" /\ student.asked = None
  /\ n \in DOMAIN student.drawn /\ "evaluate" \in student.drawn[n]
  /\ \/ StatusNow(n) = "overtime" /\ student' = [student EXCEPT !.asked = n]
        /\ UNCHANGED <<db, pages, rest>>
     \/ StatusNow(n) # "overtime" /\ GoEval(n, FALSE)

Consent ==
  /\ student # None /\ student.kind = "home" /\ student.asked # None
  /\ \/ GoEval(student.asked, TRUE)
     \/ student' = [student EXCEPT !.asked = None] /\ UNCHANGED <<db, pages, rest>>

(* Saving touches the submission.  Items are answered in their order. *)
Answer(i) ==
  LET n == student.of
      fresh == n \in DOMAIN submissions /\ n \notin student.old /\ items[i].live
  IN
  /\ student # None /\ student.kind = "eval"
  /\ \E k \in DOMAIN student.rows :
       student.rows[k] = i /\ \A j \in 1 .. k - 1 : student.rows[j] \in evals \/ ~items[student.rows[j]].live
  /\ StatusNow(n) \in EvalStatuses
  /\ \/ /\ fresh
        /\ evals' = evals \cup {i}
        /\ pages' = [b \in Admins |-> Aged(pages[b], {n})]
        /\ UNCHANGED <<assignments, items, submissions, student, rest>>
     \/ ~fresh /\ StudentDies

LeaveSite == student # None /\ StudentDies

Next ==
  \/ Tick
  \/ \E a \in Admins :
       \/ OpenList(a) \/ \E n \in Numbers : OpenItems(a, n)
       \/ More(a) \/ FewerAssignments(a) \/ RemoveAssignment(a) \/ Decline(a)
       \/ MoreItems(a) \/ FewerItems(a) \/ RemoveItem(a) \/ \E i \in DOMAIN items : SaveItem(a, i)
       \/ OpenStudentsHome(a) \/ ClosePage(a)
       \/ \E n \in Numbers, day \in Days :
            \/ \E field \in Edited : SetDate(a, n, field, day)
            \/ \E field \in {"due", "eval"} : SetOwnDate(a, n, field, day)
  \/ OpenHome \/ Consent \/ LeaveSite
  \/ \E n \in Numbers : ClickEval(n)
  \/ \E i \in DOMAIN items : Answer(i)

Spec == Init /\ [][Next]_vars
-----------------------------------------------------------------------------
(* Properties *)

(* Assignments, and the items of each, are numbered from 1 without gaps, unless two administrators have edited the *)
(* same thing at the same time: with a gap nobody's home page opens, and a number used twice cannot be looked up   *)
(* (Assignments_view.C:177, Edit_assignment_view.C:189, User.C:134-142).                                           *)
NumberedInOrder ==
  ~overlapped =>
    /\ Gapless
    /\ \A n \in DOMAIN assignments : {items[i].seq : i \in ItemsOf(n)} = 1 .. Cardinality(ItemsOf(n))

(* A student who has a submission never loses time: the date in effect is not before the one that the submission   *)
(* was made with, however the assignment's is moved, unless the submission's own has been set                      *)
(* (Submission.C:37-38 and 89-92).                                                                                  *)
DeadlineStands ==
  \A n \in DOMAIN submissions :
    submissions[n].moved \/ EffectiveDueDate(assignments[n], submissions[n]) >= submissions[n].first

(* Evaluations go with their item or assignment only after a dialog, but for those that came between the count     *)
(* and the removal (Edit_assignment_view.C:200-233, Assignments_view.C:192-227).                                   *)
RemovedKnowingly ==
  [][evals \subseteq evals' \/
     \E a \in Admins : ~Unasked(a) /\ (pages[a].asked.shown \/ pages[a].asked.had \cap (evals \ evals') = {})]_vars

(* An administrator who changes a date does not undo another's change, though each writes the whole row, unless    *)
(* the number has been used before (Assignments_view.C:69-103).                                                     *)
DatesOneAtATime ==
  [][\A n \in {m \in DOMAIN assignments \cap DOMAIN assignments' : removed[m] = 0} :
       Cardinality({f \in {"open", "due", "eval"} : assignments'[n][f] # assignments[n][f]}) <= 1]_vars

(* A student who comes from the home page gives up handing in only after the warning, however long ago the page    *)
(* was drawn and whatever has been moved since (Submissions_view.C:515-546).                                        *)
ClosedKnowingly ==
  [][evals' # evals =>
       \A n \in DOMAIN submissions :
         ~Started(n) /\ Started(n)' /\ StatusBy(assignments[n], submissions[n], n) \in SubmitStatuses
           => student.consent]_vars

=============================================================================
