------------------------------ MODULE Grading ------------------------------
(***************************************************************************)
(* Graders at work in the web interface (Grading_view, and the /grade pages *)
(* of Application_controller): asking for something to grade takes an      *)
(* editing hold, a row of grader_eval; saving turns the hold into a grade  *)
(* and asks for the next; leaving the page gives the hold up.              *)
(*                                                                         *)
(* Every web session keeps its own copies of the rows it has loaded.  They *)
(* are not refreshed; a version number in the row lets a write go through  *)
(* only if the row is still the one that was loaded.  Requests of several  *)
(* sessions overlap: what a request read may have changed when it commits. *)
(* Of two requests that write the same row the first to commit prevails.   *)
(* All work is past its due date.                                          *)
(***************************************************************************)
EXTENDS Integers, FiniteSets

CONSTANTS
  None,
  Items,       \* the self evaluations there may be
  Sessions,    \* web sessions of graders
  Graders,
  User,        \* whose session it is
  HoldTime,    \* an editing hold older than this (1 hour) is forgotten
  Ids,         \* BOUND: the identifiers rows may have
  MaxVersion,  \* BOUND: how often a row is written
  MaxSaves     \* BOUND: how often the owners save a self evaluation

ASSUME GradingAssumption ==
  /\ User \in [Sessions -> Graders]
  /\ HoldTime \in Nat /\ MaxVersion \in Nat /\ MaxSaves \in Nat
  /\ None \notin Items \cup Graders \cup Ids

Statuses == {"editing", "held_back", "ready", "regrade"}

\* grader: None when one of the owners is the grader on record.
Rows == [id : Ids, item : Items, grader : Graders \cup {None},
         status : Statuses, age : 0..HoldTime + 1, version : 0..MaxVersion]

\* The copy of a row that a session works with.
Pages == [id : Ids, item : Items, status : Statuses, version : 0..MaxVersion]

ASSUME NoneAssumption == None \notin Pages

\* A request under way: the item it will show, or None for the game that is
\* offered when there is nothing to grade; the status it saves first, if any;
\* and, once it has looked, the copy of the row it found, if any.
Requests == [item : Items \cup {None}, save : {None, "ready", "held_back"},
             looked : BOOLEAN, found : Pages \cup {None}]

VARIABLES
  answered,  \* the items that have a self evaluation
  saves,     \* how often the owners have saved
  rows,      \* the table grader_eval
  page,      \* the page each session shows, or None
  request    \* the request each session has under way, or None

vars == <<answered, saves, rows, page, request>>

-----------------------------------------------------------------------------
RowsOf(item) == {r \in rows : r.item = item}

\* Mutant: off by one, where ages no longer are told apart.
IsOlder(r) == r.status = "editing" /\ r.age > HoldTime + 1

IsOld(r) == r.status = "editing" /\ r.age > HoldTime

DropOldEditingHolds(table) == {r \in table : ~IsOld(r)}

\* Mutant: the hold is returned in place of its item.
OffersHold(table, grader) ==
  LET mine == {r \in table : r.grader = grader /\ r.status = "editing"}
      free == answered \ {r.item : r \in table}
  IN IF mine # {} THEN {r.id : r \in mine}
     ELSE IF free # {} THEN free ELSE {None}

\* What find_ungraded_permalink may return: an item the grader holds already,
\* else one that nobody holds and nobody graded.
Offers(table, grader) ==
  LET mine == {r \in table : r.grader = grader /\ r.status = "editing"}
      free == answered \ {r.item : r \in table}
  IN IF mine # {} THEN {r.item : r \in mine}
     ELSE IF free # {} THEN free ELSE {None}

NoIdLeft == \A id \in Ids :
  \/ \E r \in rows : r.id = id
  \/ \E s \in Sessions : page[s] # None /\ page[s].id = id
  \/ \E s \in Sessions : /\ request[s] # None /\ request[s].found # None
                         /\ request[s].found.id = id

\* Stands for a sequence: an identifier nothing refers to any more.
NewId == CHOOSE id \in Ids :
  /\ \A r \in rows : r.id # id
  /\ \A s \in Sessions : page[s] # None => page[s].id # id
  /\ \A s \in Sessions : request[s] # None /\ request[s].found # None
                           => request[s].found.id # id

Hold(item, grader) ==
  [id |-> NewId, item |-> item, grader |-> grader,
   status |-> "editing", age |-> 0, version |-> 0]

Copy(r) == [id |-> r.id, item |-> r.item, status |-> r.status, version |-> r.version]

\* Does the row that a page was loaded from still stand as it was?
IsCurrent(p, r) == r.id = p.id /\ r.version = p.version

\* Mutant: the row goes even if it has changed since.
CloseAnyVersion(table, p) ==
  IF p # None /\ p.status = "editing"
  THEN {r \in table : r.id # p.id} ELSE table

\* Closing a page removes its row if the page's copy is still being edited;
\* when the row has changed since, the removal fails and nothing happens.
Close(table, p) ==
  IF p # None /\ p.status = "editing"
  THEN {r \in table : ~IsCurrent(p, r)} ELSE table

Write(r, grader, status) ==
  [r EXCEPT !.grader = grader, !.status = status, !.age = 0,
            !.version = r.version + 1]

\* Mutant: every grade of the page's item is written.
SavedByItem(table, s, status) ==
  {IF r.item = page[s].item THEN Write(r, User[s], status) ELSE r : r \in table}

\* Writing a page's status to its row.
Saved(table, s, status) ==
  {IF IsCurrent(page[s], r) THEN Write(r, User[s], status) ELSE r : r \in table}

Request(item, save) ==
  [item |-> item, save |-> save, looked |-> item = None, found |-> None]

Init ==
  /\ answered = {}
  /\ saves = 0
  /\ rows = {}
  /\ page = [s \in Sessions |-> None]
  /\ request = [s \in Sessions |-> None]

-----------------------------------------------------------------------------
(* The graders' sessions.                                                  *)

\* Following a link to /grade.
Ask(s) ==
  /\ request[s] = None
  /\ rows' = DropOldEditingHolds(rows)
  /\ \E item \in Offers(rows', User[s]) :
       request' = [request EXCEPT ![s] = Request(item, None)]
  /\ UNCHANGED <<answered, saves, page>>

\* Following a link to /grade/<permalink>, as from the list of held-back and
\* unfinished evaluations.
Visit(s) ==
  /\ request[s] = None
  /\ \E item \in answered : request' = [request EXCEPT ![s] = Request(item, None)]
  /\ UNCHANGED <<answered, saves, rows, page>>

\* An exception nobody catches ends the session, and closes its page.
Die(s) ==
  /\ rows' = Close(rows, page[s])
  /\ page' = [page EXCEPT ![s] = None]
  /\ request' = [request EXCEPT ![s] = None]
  /\ UNCHANGED <<answered, saves>>

\* Yes, No, Apply and Hold: write the row, and ask for the next item in the
\* same transaction.  The old holds go first, be they the session's own.
Save(s, status) ==
  /\ request[s] = None /\ page[s] # None
  /\ page[s].version < MaxVersion
  /\ LET kept == DropOldEditingHolds(rows)
     IN IF \E r \in kept : IsCurrent(page[s], r)
        THEN /\ \E item \in Offers(Saved(kept, s, status), User[s]) :
                  request' = [request EXCEPT ![s] = Request(item, status)]
             /\ page' = [page EXCEPT ![s].status = status]
             /\ UNCHANGED rows
        ELSE /\ page' = [page EXCEPT ![s] = None]
             /\ UNCHANGED <<rows, request>>
  /\ UNCHANGED <<answered, saves>>

\* Grader_eval::get_for looks for the row: finding two throws, and a row that
\* the session has loaded already is not loaded again.
Look(s) ==
  /\ request[s] # None /\ ~request[s].looked
  /\ LET item == request[s].item
     IN IF Cardinality(RowsOf(item)) > 1
        THEN Die(s)
        ELSE /\ request' = [request EXCEPT
                  ![s].looked = TRUE,
                  ![s].found =
                    IF RowsOf(item) = {} THEN None
                    ELSE LET r == CHOOSE r \in RowsOf(item) : TRUE
                         IN IF page[s] # None /\ page[s].id = r.id
                            THEN page[s] ELSE Copy(r)]
             /\ UNCHANGED <<answered, saves, rows, page>>

\* The request commits; the new page is made before the old one is closed.
Open(s) ==
  /\ request[s] # None /\ request[s].looked
  /\ LET q == request[s]
         saved == IF q.save = None THEN rows
                  ELSE DropOldEditingHolds(Saved(rows, s, q.save))
         new == Hold(q.item, User[s])
     IN IF q.save # None /\ ~\E r \in rows : IsCurrent(page[s], r)
        THEN Die(s)
        ELSE /\ IF q.item # None /\ q.found = None
                THEN /\ ~NoIdLeft
                     /\ rows' = Close(saved \cup {new}, page[s])
                     /\ page' = [page EXCEPT ![s] = Copy(new)]
                ELSE /\ rows' = Close(saved, page[s])
                     /\ page' = [page EXCEPT ![s] = q.found]
             /\ request' = [request EXCEPT ![s] = None]
             /\ UNCHANGED <<answered, saves>>

\* Going elsewhere, logging out, or staying away until the session times out.
Leave(s) ==
  /\ request[s] = None /\ page[s] # None
  /\ Die(s)

\* The server stops: sessions are gone, and close nothing.
Crash ==
  /\ page' = [s \in Sessions |-> None]
  /\ request' = [s \in Sessions |-> None]
  /\ UNCHANGED <<answered, saves, rows>>

-----------------------------------------------------------------------------
(* The owners, whose requests load everything afresh (module Evaluation    *)
(* says which of the effects a save has), and the clock.                   *)

\* save_self_eval on an item without a grade; an honest "no" is rewarded.
AnswerUngraded(i) ==
  /\ RowsOf(i) = {}
  /\ \/ UNCHANGED rows
     \/ /\ ~NoIdLeft
        /\ rows' = rows \cup
             {[Hold(i, None) EXCEPT !.status = "ready"]}

\* save_self_eval on an item with a grade that is not a full mark.
AnswerGraded(i) ==
  \E r \in RowsOf(i) :
    /\ RowsOf(i) = {r}
    /\ r.version < MaxVersion
    /\ \/ rows' = (rows \ {r}) \cup {Write(r, None, r.status)}
       \/ rows' = (rows \ {r}) \cup {Write(r, r.grader, "regrade")}
       \/ rows' = rows \ {r}

SaveSelfEval(i) ==
  /\ saves < MaxSaves
  /\ saves' = saves + 1
  /\ answered' = answered \cup {i}
  /\ AnswerUngraded(i) \/ AnswerGraded(i)
  /\ UNCHANGED <<page, request>>

Tick ==
  /\ \E r \in rows : r.status = "editing" /\ r.age <= HoldTime
  /\ rows' = {IF r.status = "editing" /\ r.age <= HoldTime
              THEN [r EXCEPT !.age = r.age + 1] ELSE r : r \in rows}
  /\ UNCHANGED <<answered, saves, page, request>>

Serve(s) == Look(s) \/ Open(s)

Next ==
  \/ \E s \in Sessions :
       \/ Ask(s)
       \/ Visit(s)
       \/ Look(s)
       \/ Open(s)
       \/ Leave(s)
       \/ \E status \in {"ready", "held_back"} : Save(s, status)
  \/ \E i \in Items : SaveSelfEval(i)
  \/ Crash
  \/ Tick

Spec == Init /\ [][Next]_vars

\* The server answers every request, time passes, and somebody asks for work
\* over and over.  Nobody is expected to save, to leave or to crash.
FairSpec ==
  /\ Spec
  /\ \A s \in Sessions : WF_vars(Serve(s))
  /\ WF_vars(Tick)
  /\ SF_vars(\E s \in Sessions : Ask(s))

-----------------------------------------------------------------------------
(* Properties.                                                             *)

TypeOK ==
  /\ answered \subseteq Items
  /\ saves \in 0..MaxSaves
  /\ rows \subseteq Rows
  /\ page \in [Sessions -> Pages \cup {None}]
  /\ request \in [Sessions -> Requests \cup {None}]

\* Nothing that happens to graders' pages takes a grade away: closing a page
\* whose copy says "editing" (however long ago it was loaded), forgetting old
\* holds and dying sessions remove holds only.
SavedGradesSurvive ==
  [][saves' = saves =>
       \A r \in rows : r.status # "editing" => \E q \in rows' : q.id = r.id]_vars

\* A grade on record is overwritten only by a request from a page that shows
\* it: of two pages that show one row, the second to save does not undo the
\* first.
OverwritesWhatItShows ==
  [][saves' = saves =>
       \A r \in rows, q \in rows' :
         q.id = r.id /\ r.status # "editing" /\ q # r =>
           \E s \in Sessions :
             /\ request[s] # None /\ request'[s] = None /\ User[s] = q.grader
             /\ page[s] # None
             /\ page[s].id = r.id /\ page[s].version = r.version]_vars

\* However sessions end, no hold keeps an item from the other graders for
\* ever, provided that somebody goes on asking for work.
NoHoldLastsForever ==
  \A id \in Ids :
    (\E r \in rows : r.id = id /\ r.status = "editing")
      ~> ~(\E r \in rows : r.id = id /\ r.status = "editing")

-----------------------------------------------------------------------------
(* What the text of the program says, and its code does not do.            *)

\* Self_eval.h maps grader_eval by dbo::hasOne, so that a self evaluation has
\* one grade at most; two graders who are offered the same item at the same
\* time insert two.
OneGradeEach == \A q, r \in rows : q.item = r.item => q = r
=============================================================================
