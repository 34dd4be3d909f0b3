# Verification of gsc-server

`gsc-server` ("GSC Server") is the homework server of a programming course: a C++ web
application built on Wt (web interface and sessions), Wt::Dbo (the object-relational
mapper) and PostgreSQL.  Students hand in files, work in pairs, evaluate their own work
item by item; graders grade those evaluations; administrators set dates and repair
things.  One process serves all browser sessions and all REST requests.

Contents: 1 inventory of the system, 2 modules and how they correspond to the code,
3 runs, 4 proofs, 5 what the external software is assumed to do, 6 findings,
7 not modelled, 8 plan.

## 1. Inventory

Source paths are relative to `src/` of the repository, so that `src/model/...` below is
`src/src/model/...` in `PROJECT.json`.

| Component | State | Operations | What must hold |
|---|---|---|---|
| Deadlines and status (`model/Submission.C`, `Assignment.C`) | dates of assignment and submission | `status`, `in_submit_period`, `in_eval_period`, effective dates | the calendar only moves forward; phases for handing in and evaluating do not overlap once evaluation has begun |
| Evaluation (`model/Submission.C`, `Self_eval.C`, `Grader_eval.C`, REST evals, admin widgets, scripts) | rows of `self_eval` and `grader_eval` | save, retract, delete a response; give, hold, retract a grade; freeze; automatic grades; extensions | a grade belongs to the response that is there; students do not award themselves grades; full marks are not overwritten; readiness and grade agree |
| Evaluation pages and submission caches (`Evaluation_view.C`, `widget/*eval_item*`, `Submission::reload_cache`) | per session: rows loaded with the page, status, grade and counts computed from them | open, move between items, save, retract, grade from a page | a page overwrites only what it shows; a grade given meanwhile is not missed; cached figures fit each other |
| Grading sessions (`view/web/view/Grading_view.C`, `Self_eval.C`, `Application_controller.C`) | editing holds (rows), a page per session with its copy of a row | ask for work, open, save, hold, leave, crash | no grade is lost by closing pages; nobody overwrites what they have not seen; holds end |
| Partnership (`Submission.C`, `Partner_request.C`, widgets) | submissions with one or two owners, requests | create, accept, cancel, join, split, delete | nobody owns two submissions; requests distinct and still meaningful; consent |
| Files and quota (`File_meta.C`, `File_manager_view.C`, REST files) | file rows, per page a byte count | upload, rename, move, delete, join, give back | names distinct in a submission, quota, no work lost, each partner's work theirs after a split |
| Assignments and items (`Assignments_view.C`, `Edit_assignment_view.C`, `Submissions_view.C`) | assignments with dates, items, pages of administrators, a student's home page | add, remove, date, edit; evaluate from the home page | numbers without gaps, no deadline lost, nothing removed or closed unasked |
| Explanation parser, line numbering (`model/util`, `common/lines_iterator.h`, `File_viewer.C`) | a page's numbered rows, the lexer's look-ahead | count, number, parse, link, light up | citations resolve to the lines meant |
| Accounts (`Session.C`, `Application_controller.C`, `model/auth`, `Admin_view.C`, `Profile_view.C`, `gsc-auth.C`, `view/files`) | users, roles, API keys; per session a copy of its user | log in, switch user, visit a path, change role, add, delete, regenerate a key | nobody sees or does what they have no right to, whatever is stale |
| REST interface (`view/api`) | none of its own | dispatch to the above | who may do what |
| Exam grades, profile statistics | rows | set, show | |
| Game (`view/game`, `model/game`) | a puzzle per widget, scores | guess, new word, record | scores count games once |
| Layout, statistics, deployment, dictionary, `3rdparty` | | presentation | |

Interactions.  Every browser session has its own `Session` object: a database connection
and an identity map of loaded rows.  A click runs as one database transaction on the
session's loaded copies, which are not refreshed between clicks; a REST request starts
from an empty map.  Sessions of one process run in parallel (one thread at a time per
session).  They meet only in the database, where Wt::Dbo's `version` column makes a
write or removal of a stale copy fail.  Scripts run from cron speak SQL directly and go
around versions and objects.

The hard behaviours are therefore: overlapping transactions that find and then insert;
copies that went stale while a page was open, and figures computed from them; destructors
that write to the database when a page is closed, in an order fixed by the widget tree;
sessions that die by an exception or with the server; holds that time out under their
owner; operations that move many rows one by one; rights that are decided on a session's
own copy of an account; long legal sequences of saves, grades, retractions and dates, whose
combined effect no single handler decides.  `PROJECT.json` lists the hazards, each at its
line, with the properties that watch it.

## 2. Modules

Each module takes the part of the state that its properties are about, and the others'
part as what their actions do to it.  They overlap on purpose: `Evaluation` has every way
to change a response or a grade, from sessions that have just loaded it; `EvaluationPages`
and `Grading` have the same operations from sessions that loaded it earlier.  `Deadlines`
is extended by `Evaluation` and `Assignments`; `Files` implements `Folders`.

**`Deadlines`** — pure operators: `Status` is the cascade of `Submission::status`
(`Submission.C`), with `overtime` in place of the two evaluation phases until the first
item has been answered.  `Assignment::status` is not modelled: nothing calls it.

**`Evaluation`** — one submission.  `selfEval` and `graderEval` are the two tables, one
entry per item or `None`; `dates` the submission's own columns; `now` the clock; `unseen`
a history variable: the items whose response its owners changed after the staff graded it.
One action is one transaction of a session that has just loaded what it reads:

| Action | Code |
|---|---|
| `SaveSelfEval` | `Submission::save_self_eval` with `check_can_eval`, `get_self_eval`, `Self_eval::freeze_status`, `set_`, `regrade_` and `retract_grader_eval`; by owners or by staff |
| `DeleteSelfEval`, `PutGrade`, `DeleteGrade`, `ViewEvalItem` | the REST requests in `view/api/resources.C` |
| `OpenGrading`, `SaveGrade`, `HoldGrade`, `AbandonGrading`, `DropOldEditingHolds` | `Grader_eval::get_for`, `Grading_view`'s buttons and destructor, `Self_eval::find_ungraded_permalink` |
| `AdminSaveSelf`, `AdminRetractSelf`, `AdminSaveGrade`, `AdminRetractGrade`, `AdminSetDates` | `Admin_eval_item_widget`, `Submission_date_editor`'s setters |
| `AutoExtend`, `CreateGraderEval` | `bin/autoextend.sh` and the SQL file it mirrors, `bin/create_grader_evals.sh` |

Scores are `0..FullScore` where the code has doubles in [0, 1]; an explanation is a member
of a small set.  The grader on record is abstracted to "an owner" or "staff".

**`EvaluationPages`** — one submission past its due date.  `resp` and `grade` are the rows;
`page["owner"]` and `page["admin"]` are open evaluation pages with the rows as they loaded
them, which of those copies are out of date (`aged`), the cache `Submission` filled from
them, and the item on display with what is frozen in its form.  A click works on the
page's copies: writing one that is out of date is a `Conflict`, which ends the session and
changes nothing; otherwise the copies of the other page age.

| Action | Code |
|---|---|
| `OpenPage`, `ClosePage`, `GoTo`, `GoDefault` | `Evaluation_view::load_`, `go_to`, `go_default`, the list's links |
| `OwnerSaves` | `Self_eval_item_widget::save_action_`, for what `Response_widget` lets through, with `save_self_eval` on the page's copies and cache |
| `AdminSavesSelf`, `AdminRetractsSelf`, `AdminGrades`, `AdminRetractsGrade` | `Admin_eval_item_widget`, which loads its cache anew after each |
| `...Afresh`, `PutsSelf`, `DeletesSelf`, `PutsGrade`, `DeletesGrade`, `OpensGrading`, `SavesGrade` | the same from sessions that load everything: REST, another page, a grading page |
| `SetEvalDate`, `Tick` | the date editor, and time passing, under an open page |

**`Grading`** — the same grades, seen from graders' browser sessions.  `rows` is the table
`grader_eval` with identifier, version and the age of an editing hold; `page[s]` the copy of
a row that session `s` shows; `request[s]` a request that has begun and not yet committed.
A request for a page is two steps, `Look` (what `Grader_eval::get_for` reads) and `Open`
(what it inserts, then the commit, then the destructor of the old page), so that two
requests overlap.  `Save` begins the same way: it writes the row, drops old holds and
chooses the next item in the transaction that also makes the next page.  `Die` is what an
uncaught exception does: the session ends, its page is closed, the hold it shows is
removed.  `Crash` is the server stopping: pages vanish, holds stay.  The owners appear by
what `save_self_eval` does to the table (`AnswerUngraded`, `AnswerGraded`).

**`Partnership`** — submissions and requests for one assignment, users as numbers in
alphabetical order.  `CreateRequest` follows `Partner_request::create` with its checks in
order; submissions that the checks looked at stay created after a refusal.  `Confirm` is
`Partner_request::confirm` for two users with `Submission::join_together`; `Divorce` is
`Submission::divorce`, reached from the X button or from a REST request that clears the
second owner.  The calendar is abstracted to one flag per submission (`open`) that any
step of time, dates or evaluation may flip.

**`Folders`** — the abstract specification of the file store: `folder[s][n]`, what name `n`
of submission `s` leads to.  Put, delete, move, merge, split by author, discard: nothing
else ever happens to a file.

**`Files`** — the rows that implement it.  `subs` are the submissions (second owner, quota,
whether in the submit period), `files` the rows of `file_meta`, `page[u]` the byte count that
a student's open page has added up (`Submission::byte_count`).  A page whose copy of the
submission has gone stale can write nothing more, since every write it makes writes the
submission: it is dropped at once.  `overrun` is a history variable: the submissions whose
quota was passed in a way that the code allows knowingly.  `FolderOf` maps rows to folders.

| Action | Code |
|---|---|
| `OpenPage`, `CreateSubmission`, `ClosePage` | a visit, which finds or creates the submission |
| `WebUpload`, `WebDelete` | `File_uploader::uploaded_` with `File_meta::upload`, one file at a time; `File_deleter::go` |
| `RestPut`, `RestDelete`, `RestPatch` | the REST requests on files; `RestPatch` with `File_meta::move` |
| `Join`, `Divorce` | `join_together` with `partition_files` and `ensure_disjoint`; `divorce` with `give_back_files` |
| `RestDeleteSubmission`, `SetQuota`, `Calendar` | the removal of a submission, its quota, and time |

A file's content is its size; a name is what `classify_file_type`'s patterns tell apart.
Refusals change nothing and are no steps.

**`Accounts`** — `accounts` are the rows of `gsc_user` with role, nickname, key and whether
the row is there; `sessions[b]` the web session of browser `b`: as whom it acts, the page it
shows, the rows it keeps and whether they are stale; `submissions` who owns what; `answer`
what the last step showed to whom; `held` a history of who has had which role.

| Action | Code |
|---|---|
| `Visit`, `Close` | `Session::authenticate_from_environment` with `find_by_login` and `create_user`; an administrator may say as whom |
| `GoPlain`, `GoHome`, `GoSubmission`, `GoProfile`, `GoMissingUser` | `Application_controller::handle_internal_path`: redirections, checks in the code's order, what is made on the way, error page or end of the session |
| `SaveCallMe`, `RegenerateKey` | `Profile_view`, `Api_key_widget` |
| `AdminChangesRole`, `AdminAddsUser`, `AdminSwitches`, `AdminTypesStudent`, `AdminJumpsNowhere` | the widgets of `Admin_view` |
| `GetUser`, `PostUser`, `PatchRole`, `DeleteUser` | the REST requests on users |
| `Join`, `Split` | what `Partnership` does to owners |

`GetsSubmission`, `GetsFile` and `CheckUser` are the conditions under which requests that
change nothing are answered: a submission over REST, a file, and the gate of `gsc-auth`.
The build modelled is the one installed, `gscd-fcgi`, which takes the user from the
environment or an API key.

**`Assignments`** — `assignments` with dates and version, `items`, the `submissions` of a
student, the items answered (`evals`), `pages[a]` of administrators with the copies they keep
and the dialog that may be open, and the student's pages.  `removed[n]` counts how often a
number was given up; `overlapped` is set when two administrators' edits of one thing
cross.  A day is the unit of time.

| Action | Code |
|---|---|
| `OpenList`, `More`, `FewerAssignments`, `RemoveAssignment`, `SetDate` | `Assignments_view` and its rows |
| `OpenItems`, `MoreItems`, `FewerItems`, `RemoveItem`, `SaveItem` | `Edit_assignment_view` |
| `Decline` | the dialog of "Fewer" when answers would go |
| `OpenStudentsHome`, `SetOwnDate` | an administrator's page of a student's submissions |
| `OpenHome`, `ClickEval`, `Consent`, `Answer`, `LeaveSite` | the student: `Submissions_view` (rows drawn once, the warning before evaluating), then the evaluation page |

**`Listing`** — `Upload` counts the lines of a file (`lines_iterator.h`), `Reload` gives the
viewer's rows their numbers (`File_viewer::reload_`), `Read` and `ParseStep` run the explanation's lexer and
parser token by token, with its stack of tokens put back, writing links and lighting lines.
What it should do is stated about the characters alone, without tokens.

**`MCEvaluation`, `MCEvaluationPages`, `MCGrading`, `MCFiles`, `MCAccounts`, `MCAssignments`,
`MCListing`** give the small instances; `Partnership` needs none.
**`Evaluation_proofs`, `EvaluationPages_proofs`, `Grading_proofs`, `Partnership_proofs`,
`Files_proofs`, `Accounts_proofs`, `Assignments_proofs`, `Listing_proofs`** hold the theorems.

Operators marked "Mutant" are deliberately wrong variants of the definition that follows
them; no action uses them.  Each shows, by replacing that definition, that a property
can be broken by a plausible slip in the code.

## 3. Runs

| Run | Shows | Instance, and why it is enough |
|---|---|---|
| `evaluation` | type; grades have responses; no self-awarded grades; changed responses await regrading; ready means graded; full marks stand | one Boolean and one Scale item: the code treats items one by one, and differs on type, on whether the item is the first, and on how many are answered; three scores (none, the reward, full); two texts; a short calendar (due as it opens, evaluation a tick long, one later date for both dates), in which the evaluation period opens, closes and is extended; `HoldTime` 0 lets holds age in one tick |
| `evaluation_informational` | work is settled once evaluated; closed grades stand; the calendar moves forward; extensions reopen | the first item informational and worthless, hence graded automatically, the second Boolean; one text, since none of these properties tells texts apart; every phase occurs, with dates in and out of order; clock to 4, so that a submission can close, be extended and close again |
| `evaluation_pages` | cached figures fit each other; pages overwrite what they show; changed responses lose their grade but for one blind case; second grades only from an administrator's old page | one Boolean item and one informational item that is graded automatically; one page open at a time, of an owner or an administrator, while every operation also comes from sessions that load afresh: a second old page would only add to what changes under the first; three writes: load a page, have the response and the grade changed under it, and save; two evaluation dates, so that evaluation ends or is extended under the page |
| `partnership` | type; one submission each; requests distinct; partnered users unasked; consent | three students, because "somebody else asked one of the pair" needs a third, and an administrator, who passes the submit-period checks |
| `grading` | type; saved grades survive | two sessions of two graders, two items: the "next" item differs from the one on the page; each row written once, two saves by owners |
| `grading_holds` | what is overwritten was shown; no hold lasts for ever | one item, rows written twice, holds that age through an hour in two ticks; under `FairSpec` |
| `files` | type, and files have a submission; names distinct; quota; joining and splitting lose no work; the folders of `Folders` are implemented | two students and an administrator; two assignments, with work of the first student for both, so that files move between assignments; a source file and a log, because only logs are dropped when names collide; two files of one byte and a quota of one, so that the second file is one too many and every join passes the quota; submissions always open, because a closed one only takes steps away |
| `accounts` | work and keys shown to the entitled; powers from administrators; the gate; a stale copy undoes nothing | two browsers, of an administrator and a student, three accounts ever (each person's, and one more of either name, so that names are used again and are used twice), two changes by administrators or owners, each key replaced once.  Of the paths, those are visited that differ in the check or in what they make |
| `assignments` | numbers without gaps; no time lost; nothing removed unasked; one date at a time; handing in ended knowingly | two administrators (symmetric), two assignments, two items, two edits, on three days; a date is moved to the past or to the last day; the due and evaluation dates are edited, and the opening date is the same code |
| `listing` | text copied once; lines named are linked and lit; lines counted and numbered alike | every file of up to five characters from a line's character and two line ends (single, double, mixed, none); pairs of short files of the four kinds that the viewer tells apart, under names that differ or not but for capitals; explanations of up to four tokens or longer fragments, and of up to six from two tags and a dash, for three lines; the largest int is 13, so that a range can start there |
| `grading_duplicates`, `evaluation_no_return` | a counterexample each: section 6 | the smallest instances in which it occurs |

Named bounds: `MaxTime`, `LastDay` (clock and extensions), `Ids` (identifiers of rows,
reused when no row, page or request refers to them: four with two items, enough for two
rows and two copies of rows that are gone; six with one item, where four already reach 97%
of the states), `MaxVersion` (writes of a row), `MaxSaves` (saves by owners), `MaxPages`,
`MaxWrites`, `MaxFiles`, `MaxAccounts`, `MaxKeys`, `MaxAssignments`, `MaxItems`.  In
`Grading.cfg` sessions with their graders, and items, are symmetric; the run with the
liveness property uses no symmetry.

Deadlock is checked, but in `evaluation_pages`, `accounts`, `assignments` and `listing`.
These stop by their bounds (`MaxWrites`, the clock) or because a file has been listed and its
explanation read: the program waits for the next click there, and no step of it waits for
another.

Fairness (`FairSpec` of `Grading`).  Weak fairness of serving each request: the server
answers what it has begun.  Weak fairness of `Tick`: time passes.  Strong fairness of
"somebody asks for work": an assumption about graders, not about the program, and the
only one under which the program promises anything, since old holds are dropped when the
next grader asks and at no other time.  It is strong because a server that crashes again and
again may interrupt every session.  Nobody is expected to save, leave or log out.  The other
modules promise nothing that must happen: every operation ends in its own transaction.

## 4. Proofs

For all values of the constants that satisfy the modules' named assumptions (any number of
items of any type and value, any calendar, any scores, any set of users, sessions, names
and files), without the bounds being small:

* `Evaluation_proofs`: `TypeCorrect`, `GradesHaveResponses`, `NoSelfAwardedGrades`,
  `ChangedResponsesAwaitRegrade`, `ReadyIsGraded`, `EvaluatedWorkIsSettled`,
  `CalendarMovesForward`, `FullMarksAreKept`, `ClosedGradesStand`, `ExtensionsReopen`.
  The inductive invariant is `TypeOK` together with `ItemOK(i)` for each item and
  `AwaitsRegrade`.  The properties alone are not inductive: that a student's grade was not
  self-awarded is kept by a save only if one knows that the grade has a response, that an
  informational item was never given a response of its own, and that a grade by a student
  which a later save keeps was the reward for the same answer.  `ItemOK` says so, item by
  item, so that each action has one lemma about the item it touches.  `ReadyIsGraded`
  turns equal counts into equal sets by the theorems on finite cardinalities:
  ready grades are a subset of the answered items.  `CalendarMovesForward` compares the
  status before and after over the cascade of dates.  `ClosedGradesStand` needs the points as a
  sum: an owner of closed work can only look at an informational item, which may add a grade,
  and `WorthNothing` says that a sum over one more item that is worth nothing stays the same.
  `ExtensionsReopen` is about assignments that are open: with one that is due before it
  opens (nothing in the code refuses such dates) the status is "future", however far it is
  extended.
* `EvaluationPages_proofs`: `TypeCorrect`, `CachesCohere`, `WritesShown`, `Regraded`,
  `SecondGrades`.  The invariant says what a copy on a page is worth (`Current`): a response that
  is not known to be old is the row, one that the page lacks is not there as long as the page's
  submission is fresh, and a grade that was neither changed nor removed is the row; and what a
  cache is worth (`Coherent`): its points are those of the copied grades, and it says "ready"
  only if the copied responses are exactly those with a ready grade.  It needs
  `GradesHaveResponses` of the rows, from which equal counts become equal sets.  A save is
  followed through its two halves, what it looks up (`LookedUp`) and what it writes; every
  write by an operation on copies either meets a row that equals its copy or is a `Conflict`.
* `Partnership_proofs`: `TypeCorrect`, `OneSubmissionPerUser`, `OwnersAreOrdered`,
  `RequestsAreDistinct`, `PartneredAreUnasked`, `PartnersConsented`.  The invariant is in
  two halves: `Tidy` about submissions (disjoint owners, in order) and `Waiting` about
  requests (distinct, and only between users without partners).  Joining needs both:
  dropping the pair's requests is enough only because no request of a partnered third user
  exists.
* `Grading_proofs`: `TypeCorrect`, `GradesSurvive` (no closing page, dropped hold, dying
  session or crash removes a saved grade), `NothingUnseenOverwritten`.  What a destructor may
  delete is decided by a page's copy, so the invariant is about copies: identifiers of rows
  are distinct; a copy is never newer than its row; a copy of the row's version that says
  "editing" belongs to a row still being edited; and the page of a request that saves shows
  the status that it saves.  A step is followed by what becomes of a row (`Stems`: it stays,
  is written and thus newer, or ages), from which every other session's copy stays in order.
* `Files_proofs`: `NoOrphans`, `NamesAreDistinct`, `WorkIsKept`, and `ImplementsFolders`: every
  step of `Files` is a step of `Folders` or leaves the folders alone.  The invariant has
  distinct names, files and pages only of submissions that exist, and `PartnersOnce` (a second
  owner has no other submission to that assignment), without which a split could give files
  back into a submission that has others.  With distinct names `FolderOf` is a function of the
  rows, and lemmas say what adding, removing, renaming and relabelling rows does to it; each
  action is then one abstract action.
  `TypeCorrect` and `QuotaIsKept` rest on a second invariant, `QuotaInv`: the table is finite,
  quotas are passed knowingly only in submissions that exist, and a page of an owner reckons
  with at least the bytes that are there (`Reckons`), unless the quota is passed already.  Then
  a page that finds room for a file is right, although it counted long ago.  That REST requests,
  joins and splits by others cannot make an old count too small holds because each of them
  either ends the page (it writes the submission), takes bytes away, or is one of the known ways
  past the quota.  The bytes are a fold over a set.  `AddingUp`, `BytesPicked`, `BytesWithout`
  and `BytesSplit` show that the fold is what it should be: it exists for finite sets, adds one
  file and the rest, whichever file is taken, and splits over a subset; `StoredBytes`,
  `MovedBytes`, `JoinedBytes` and `GivenBackBytes` say what the operations do to the sum.
* `Accounts_proofs`: `TypeCorrect`, `PowersComeFromAdmins`, `GateIsKept`,
  `WorkIsShownToTheEntitled`, `OneFieldIsWritten`.  Rights are decided on a session's copies,
  which may be stale, so the invariant says what a copy is worth (`CopyOK`): its role is one
  that somebody of its name has had, and if nothing was written since, it agrees with its
  row.  `SessionOK` adds where a session's place comes from: acting for somebody else, and the
  administrators' page, need a role of administrator that the session's person has had; a
  profile that is shown is the person's own or shown to such an administrator.  `TablesOK`
  keeps the record `held` complete and the owners of submissions among the accounts, without
  which a name used again could be taken for its former account.  What a visit shows
  (`AnswerOK`) follows from the copy that its check reads.  `OneFieldIsWritten` needs `CopyOK`
  alone: who may write has a copy that agrees with the row.
* `Assignments_proofs`: `TypeCorrect`, `DeadlineKept`, `RemovalsAsk`, `OneDate`,
  `EndsKnowingly`, `NumbersInOrder`.  The first invariant is about copies again: a copy with the
  version of its row is the row, as long as its number was never given up (`CopiesOK`), and a
  student's copy of a submission is the submission unless it was written since (`StudentOK`).
  `EndsKnowingly` also needs that no assignment has two items with number 1 and that
  the evaluation of the first item stays as long as the item: whoever reaches the evaluation
  without the warning then finds handing in closed, or ended by an answer.  `NumbersInOrder` has
  an invariant of its own (`OrderedInv`), conditional on no two editors having crossed: numbers
  are 1 to n, and the page of the administrator who edits a list shows exactly that list, so that
  the number a page computes for a new row is the next one, and the row it removes the last.
* `Listing_proofs`: `CopiesOnce`, `NamedAreLit`, `LinesAreNumbered`, for explanations and files
  of any length and any number of files.  The invariant of the first is that what is written,
  then the tokens put back (from the top of the stack), then the rest of the text are one run
  without gap or overlap (`Writes`, `Runs`).  Lemmas about `Skip` give each token its place; the
  parser's five ways to go on each write tokens and put back others so that the run stays one.
  `NamedAreLit` adds `LightInv`: what the characters before the parser's place name, by a reading
  that knows no tokens, is what is linked and lit (`NamedTo`, `LinkedTo`), and the first line noted
  is the least of them.  For that the parser must never stop between the two ends of a range
  (`Whole`), so each first part lies with its second on the same side of the place; `Passed`
  shows which tags a step passes, whatever the five ways, and that the second part of a range
  is never taken for a first.  `RangeOf` and `NumberOf` show that the two readings of a
  range and of a number agree.
  `LinesAreNumbered` has an invariant of its own (`FilesInv`): stored files have distinct names
  and the count of their lines, and what the viewer shows since the last upload are the rows of
  all files in some order.  About one file, by induction from its end: its lines hold what is
  kept of it (`LinesKeep`), and there are as many as ends of lines, with one more where the last is
  not ended (`LinesCount`).  About all of them, by induction on their number: each file's rows
  are one stretch of the whole (`Blocks`, `OwnRowsAre`), to which other files add nothing, because
  an order of the files holds each of them once (`OrderIs`).

Assumptions on constants are named in the modules.  Besides types, `NoneAssumption` in
`Grading` and `Files` says that `None` is none of the records, and `PagesAssumption` that `Shut`
(no form on display) is none of the states of a form; TLC's model values are.  `PagesAssumption`
also says that the statuses an administrator may choose are those of the enumeration
`Grader_eval_status`, and `ListingAssumption` that explanations and files are made of the
characters that the module tells apart, and that files have names that the viewer can order.

Induction is by hand, since the library's induction theorems take an operator, which the
installed provers cannot instantiate: `SetInduction` (a set of naturals with 0 that is closed under
adding 1 is all of them, from the well-foundedness of `<`) and `SubsetInduction` (the same
for the subsets of a finite set) take a set instead; `Recursion` and `RecursionDown` show that a
function defined along an interval exists, and `GoingUp` and `GoingDown` what holds all along it.
That reaches recursive functions and the folds of the community modules, once unfolded to the
function they choose, but not RECURSIVE operators, which no module uses.

Every invariant and action property that a passing run checks is proved.  Only
`NoHoldLastsForever` is only model-checked: liveness, and with it ENABLED, is beyond the
prover.

## 5. External assumptions

* Wt::Dbo writes and removes with `where id = ? and version = ?` and throws
  `StaleObjectException` when no row matches; a loaded object is not read again unless it
  is reread explicitly, as long as something refers to it; `hasOne` throws when it finds two
  rows, as does a query for one row; raw `execute` runs at once, before pending object writes
  are flushed.  An exception rolls back the outermost transaction with all that is nested in
  it, so that a page that is refused leaves no row behind.
* An exception that reaches Wt's event loop ends that session; its widgets are destroyed.
  An exception in the page's destructor is swallowed there, so a failing removal does nothing.
  In a REST request an exception becomes an answer.
* PostgreSQL runs at READ COMMITTED.  Row locks are not modelled: of two transactions that
  write a row, the first to commit prevails and the second finds its version stale.
* Foreign keys cascade as `sql/` and the `belongsTo` mappings say: removing a response
  removes its grade; removing a user removes the submissions it owns first, its requests,
  its login and its key; removing an item or an assignment removes its answers.
* People send only keys that their own accounts have or had, and the web server in front
  tells the truth about who the user is.

Where a module relies on more: `Partnership`, `Files` and `Accounts` take a request as one
step (only `Grading` splits them); files uploaded together on the web are uploaded one at a
time; `Assignments` knows that a number used again starts over at version 0, and
`DatesOneAtATime` is about numbers that were never given up.

Known ways past the quota, which `QuotaKept` excludes by `overrun`: the quota is lowered;
files come along when submissions are joined or are moved in by PATCH; a student replaces
an administrator's file, which was not counted but makes room; the page of the student who
accepts a request goes on with the count it had.

## 6. Findings

1. `grading_duplicates` — two graders who ask at the same time both insert a hold on the
   same item (`Grader_eval.C:49`); the mapping is `hasOne`, so that following it throws from
   then on.
2. `evaluation_no_return` — DELETE of the first answer (`resources.C:944`) puts work back into
   overtime, where files may be changed; the interface warns that evaluating ends that.

Also seen while modelling.  These are in the models where a state they tell apart is, but
have no run of their own:

* Evaluation: looking at an informational item over REST answers it after the deadline
  (`Eval_item.C:94`); `Grader_eval`'s `read` maps "regrade" to `ready` (`Grader_eval.C:154`);
  `autoextend.sh:16` extends from the submission's own date, which may not be the one in
  effect; REST requests that remove an answer or a grade do not touch the submission.
* Evaluation pages: an administrator's page that was loaded before there was a grade adds a
  second one, and every later load of that submission's grades throws; an explanation of a
  "yes" that a grade froze meanwhile is saved from a page without the grade, and is not marked
  for regrading; `Base_eval_item_widget::retract_action_` is not reachable.
* Grading: asking for `/grade` again from a grading page finds the hold that the page shows, and
  closing the old page removes it under the new one; leaving a page that shows
  another grader's hold removes that hold, though `Self_eval.C` speaks of an hour.
* Partnership: `is_active` looks at the wrong submission in its second half
  (`Partner_request.C:213`) and `confirm` never asks it: hidden requests can be accepted.
* Files: DELETE of a file asks for neither the submit period nor touches the submission; PATCH
  asks for no period where the file comes from, no quota and no touch; PATCH and PUT that
  overlap can make two files of a name; a file whose uploader is deleted breaks the byte count.
* Accounts: `New_user_widget` does not look for an account of that name, and two of one name lock
  both out; `Access_check_failed` is no `Load_error` and ends the web session where others
  show a page; Enter without a match in the submission chooser takes element -1 of a list;
  an administrator who is demoted keeps an open page with its powers; the last
  administrator can demote himself; deleting the first owner of a joint submission
  deletes it for the partner; returning from another user goes to `//?whoami=`.
* Assignments: the comment at `Submissions_view.C:225` on re-reading the evaluation status does
  not hold, as it is cached; a gap in the numbers makes `Submissions_view.C:103` throw for
  everyone, though line 581 is ready for empty rows; two items of one number cannot be looked
  up; a deadline moved earlier does not reach students who have a submission, and is shown
  as their extension; "Fewer" counts the answers in one transaction and removes in another;
  typing the path of an evaluation avoids the warning; an invalid evaluation date
  colours the editor of the due date; the unused `Assignment::status` tests the dates in another order.
* Listing: names that differ only in capitals have no defined order, so that line numbers may
  change from load to load; a last line without an end makes `skip_eol_` read past the
  contents; a range that starts at the largest int overflows, a larger number fails the page;
  a reversed range lights only its ends; "L0" cancels scrolling; a letter l before a digit
  inside a word is a citation ("html5"); reloading the viewer puts the lights out.
* Game: `find_ranking` counts rows where the list of high scores ranks densely.

## 7. Not modelled

* Exam grades: independent rows that are set and displayed.  The game: a widget of its own
  that adds up a score in one row per user, read by the list of high scores only.
* Builds that log in by password or cookie: passwords and tokens belong to Wt::Auth.
* Web presentation, statistics, styles, the dictionary, migrations and third-party code have
  no state that the properties are about; REST dispatch, parsing and rendering likewise, but
  for what they change or refuse.
* Overlap within `Partnership`, `Files` and `Accounts`: two first requests of one user that
  overlap make two submissions (`Submission.C:423`), since nothing in the schema refuses the
  second; a split of their requests into steps as in `Grading` is in the plan.
* `Partner_request::is_active`, which only decides what is listed.

## 8. Plan

1. *Overlapping requests for submissions* (`find_by_assignment_and_user`), as steps of
   `Partnership`.
2. *An abstract specification of graded responses*, implemented by `Evaluation` and by
   `EvaluationPages`.
