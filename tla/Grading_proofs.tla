---------------------------- MODULE Grading_proofs ----------------------------
(***************************************************************************)
(* What module Grading promises, proved for any number of sessions,        *)
(* graders and items, however their requests overlap.                      *)
(*                                                                         *)
(* The argument is about copies.  A page, or a request that has looked,    *)
(* holds a copy of a row, which is never newer than the row; and when it   *)
(* is as new, and says that the row is being edited, then it is.           *)
(***************************************************************************)
EXTENDS Grading, TLAPS

\* A copy c of one of the rows of a table, if that row is still there.
CopyOK(c, table) ==
  \A r \in table : r.id = c.id =>
    /\ c.version <= r.version
    /\ c.version = r.version /\ c.status = "editing" => r.status = "editing"

\* No two rows have the same identifier.
Distinct(table) == \A q, r \in table : q.id = r.id => q = r

\* The page p and the request q of one session.
SessionOK(p, q, table) ==
  /\ p # None => CopyOK(p, table)
  /\ q # None /\ q.found # None => CopyOK(q.found, table)
  /\ q # None /\ q.save # None => p # None /\ p.version < MaxVersion /\ p.status = q.save

IInv ==
  /\ TypeOK
  /\ Distinct(rows)
  /\ \A s \in Sessions : SessionOK(page[s], request[s], rows)

\* What becomes of a row: it stays, is written and thus newer, or ages.
Stems(q, r) ==
  /\ q.id = r.id
  /\ r.version <= q.version
  /\ q.version = r.version => q.status = r.status

\* No row, page or request has the identifier.
Unused(id) ==
  /\ \A r \in rows : r.id # id
  /\ \A s \in Sessions : page[s] # None => page[s].id # id
  /\ \A s \in Sessions : request[s] # None /\ request[s].found # None
                           => request[s].found.id # id

\* A table whose rows stem from those of now, or are new.
Follows(later) ==
  /\ later \in SUBSET Rows
  /\ Distinct(later)
  /\ \A q \in later : (\E r \in rows : Stems(q, r)) \/ Unused(q.id)

-----------------------------------------------------------------------------
(* Tables and copies.                                                      *)

\* Copies stay in order when every row stems from one of before.
LEMMA CopiesStayOK ==
  ASSUME NEW c \in Pages, NEW table \in SUBSET Rows, NEW later \in SUBSET Rows,
         CopyOK(c, table),
         \A q \in later : q.id = c.id => \E r \in table : Stems(q, r)
  PROVE  CopyOK(c, later)
  BY DEF CopyOK, Stems, Pages, Rows

LEMMA DropOldSmaller ==
  ASSUME NEW table
  PROVE  /\ DropOldEditingHolds(table) \subseteq table
         /\ \A r \in table : r.status # "editing" => r \in DropOldEditingHolds(table)
  BY DEF DropOldEditingHolds, IsOld

\* Closing a page whose copy is in order removes holds only.
LEMMA CloseSmaller ==
  ASSUME NEW table \in SUBSET Rows, NEW p, p # None => CopyOK(p, table)
  PROVE  /\ Close(table, p) \subseteq table
         /\ \A r \in table : r.status # "editing" => r \in Close(table, p)
  BY DEF Close, CopyOK, IsCurrent

\* The identifier of a new row is not in use.
LEMMA FreshId ==
  ASSUME ~NoIdLeft
  PROVE  NewId \in Ids /\ Unused(NewId)
<1>1. \E id \in Ids : Unused(id)
  BY DEF NoIdLeft, Unused
<1>2. NewId = CHOOSE id \in Ids : Unused(id)
  BY DEF NewId, Unused
<1> QED BY <1>1, <1>2

LEMMA HoldIsRow ==
  ASSUME ~NoIdLeft, NEW item \in Items, NEW grader \in Graders \cup {None}
  PROVE  Hold(item, grader) \in Rows /\ Hold(item, grader).id = NewId
  BY FreshId, GradingAssumption DEF Hold, Rows, Statuses

LEMMA CopyIsPage ==
  ASSUME NEW r \in Rows
  PROVE  Copy(r) \in Pages
  BY DEF Copy, Rows, Pages

\* A fresh copy of a row is in order.
LEMMA CopyOfRow ==
  ASSUME NEW table \in SUBSET Rows, Distinct(table), NEW r \in table
  PROVE  CopyOK(Copy(r), table)
  BY DEF Copy, CopyOK, Distinct, Rows

\* A written row stems from the row it was.
LEMMA WriteStems ==
  ASSUME NEW r \in Rows, r.version < MaxVersion, NEW grader \in Graders \cup {None},
         NEW status \in Statuses
  PROVE  /\ Write(r, grader, status) \in Rows
         /\ Stems(Write(r, grader, status), r)
         /\ Write(r, grader, status).status = status
         /\ Write(r, grader, status).grader = grader
<1>1. r.version + 1 \in 0..MaxVersion /\ 0 \in 0..HoldTime + 1
  BY GradingAssumption DEF Rows
<1>2. /\ Write(r, grader, status) \in Rows
      /\ Write(r, grader, status).id = r.id
      /\ Write(r, grader, status).version = r.version + 1
      /\ Write(r, grader, status).status = status
      /\ Write(r, grader, status).grader = grader
  BY <1>1 DEF Write, Rows
<1>3. r.version \in Int /\ r.version + 1 # r.version /\ r.version <= r.version + 1
  BY GradingAssumption DEF Rows
<1> QED BY <1>2, <1>3 DEF Stems

LEMMA StemsSelf ==
  ASSUME NEW r \in Rows
  PROVE  Stems(r, r)
  BY GradingAssumption DEF Stems, Rows

LEMMA SubsetFollows ==
  ASSUME IInv, NEW later \in SUBSET rows
  PROVE  Follows(later)
  BY StemsSelf DEF IInv, TypeOK, Follows, Distinct

LEMMA SubsetOfFollower ==
  ASSUME NEW table, Follows(table), NEW later \in SUBSET table
  PROVE  Follows(later)
  BY DEF Follows, Distinct

\* A row that is new may join a table that follows.
LEMMA NewRowFollows ==
  ASSUME IInv, NEW table, Follows(table), ~NoIdLeft, NEW r \in Rows, r.id = NewId,
         \A q \in table : \E o \in rows : Stems(q, o)
  PROVE  Follows(table \cup {r})
<1>1. Unused(NewId)
  BY FreshId
<1>2. \A q \in table : q.id # NewId
  BY <1>1 DEF Unused, Stems
<1> QED BY <1>1, <1>2 DEF Follows, Distinct

\* Sessions that a step leaves alone are in order with the rows it makes.
LEMMA SessionStaysOK ==
  ASSUME IInv, NEW later, Follows(later), NEW s \in Sessions
  PROVE  SessionOK(page[s], request[s], later)
<1>1. ASSUME page[s] # None  PROVE CopyOK(page[s], later)
  <2>1. page[s] \in Pages /\ CopyOK(page[s], rows)
    BY <1>1 DEF IInv, TypeOK, SessionOK
  <2>2. \A q \in later : q.id = page[s].id => \E r \in rows : Stems(q, r)
    BY <1>1 DEF Follows, Unused
  <2> QED BY <2>1, <2>2, CopiesStayOK DEF IInv, TypeOK, Follows
<1>2. ASSUME request[s] # None, request[s].found # None
      PROVE  CopyOK(request[s].found, later)
  <2>1. request[s].found \in Pages /\ CopyOK(request[s].found, rows)
    BY <1>2 DEF IInv, TypeOK, SessionOK, Requests
  <2>2. \A q \in later : q.id = request[s].found.id => \E r \in rows : Stems(q, r)
    BY <1>2 DEF Follows, Unused
  <2> QED BY <2>1, <2>2, CopiesStayOK DEF IInv, TypeOK, Follows
<1> QED BY <1>1, <1>2 DEF IInv, SessionOK

\* The table with a page's status written to its row: every row stems from
\* one of before, grades remain grades, and only the page's row changes.
LEMMA SavedTable ==
  ASSUME IInv, NEW s \in Sessions, request[s] # None, request[s].save # None
  PROVE  LET later == Saved(rows, s, request[s].save)
         IN /\ Follows(later)
            /\ \A q \in later : \E r \in rows : Stems(q, r)
            /\ \A r \in rows : r.status # "editing" =>
                 \E q \in later : q.id = r.id /\ q.status # "editing"
            /\ \A q \in later : q \notin rows =>
                 q.grader = User[s] /\ page[s].id = q.id
                 /\ \E r \in rows : r.id = q.id /\ page[s].version = r.version
<1> DEFINE save == request[s].save
           Step(r) == IF IsCurrent(page[s], r) THEN Write(r, User[s], save) ELSE r
           later == Saved(rows, s, save)
<1>1. page[s].version < MaxVersion /\ save \in Statuses /\ save # "editing"
  BY DEF IInv, TypeOK, SessionOK, Requests, Statuses
<1>2. User[s] \in Graders \cup {None}
  BY GradingAssumption
<1>3. ASSUME NEW r \in rows
      PROVE  /\ Step(r) \in Rows /\ Stems(Step(r), r)
             /\ r.status # "editing" => Step(r).status # "editing"
             /\ Step(r) # r => /\ Step(r).grader = User[s]
                               /\ page[s].id = r.id /\ page[s].version = r.version
  <2>0. r \in Rows
    BY DEF IInv, TypeOK
  <2>1. CASE IsCurrent(page[s], r)
    <3>1. r.version < MaxVersion
      BY <1>1, <2>1 DEF IsCurrent
    <3>2. /\ Write(r, User[s], save) \in Rows
          /\ Stems(Write(r, User[s], save), r)
          /\ Write(r, User[s], save).status = save
          /\ Write(r, User[s], save).grader = User[s]
      BY ONLY <1>1, <1>2, <2>0, <3>1, WriteStems
    <3> QED BY <1>1, <2>1, <3>2 DEF IsCurrent
  <2>2. CASE ~IsCurrent(page[s], r)
    BY <2>0, <2>2, StemsSelf
  <2> QED BY <2>1, <2>2
<1>4. later = {Step(r) : r \in rows}
  BY DEF Saved
<1> HIDE DEF Step, later
<1>5. \A q \in later : \E r \in rows : q = Step(r)
  BY <1>4
<1>6. \A r \in rows : Step(r) \in later /\ Step(r).id = r.id
  BY <1>3, <1>4 DEF Stems
<1>7. Distinct(later)
  BY <1>5, <1>6 DEF IInv, Distinct
<1>8. \A q \in later : \E r \in rows : Stems(q, r)
  BY <1>3, <1>5
<1>9. Follows(later)
  BY <1>3, <1>5, <1>7, <1>8 DEF Follows
<1>10. \A r \in rows : r.status # "editing" =>
         \E q \in later : q.id = r.id /\ q.status # "editing"
  BY <1>3, <1>6
<1>11. ASSUME NEW q \in later, q \notin rows
       PROVE  q.grader = User[s] /\ page[s].id = q.id
              /\ \E r \in rows : r.id = q.id /\ page[s].version = r.version
  <2>1. PICK r \in rows : q = Step(r)
    BY <1>5
  <2> QED BY <1>3, <1>6, <1>11, <2>1
<1> QED BY <1>8, <1>9, <1>10, <1>11 DEF later

-----------------------------------------------------------------------------
(* The steps.                                                              *)

\* What a request leaves when it commits, before the page it leaves closes.
LEMMA OpenTable ==
  ASSUME IInv, NEW s \in Sessions, request[s] # None
  PROVE  LET q == request[s]
             saved == IF q.save = None THEN rows
                      ELSE DropOldEditingHolds(Saved(rows, s, q.save))
         IN /\ Follows(saved)
            /\ \A t \in saved : \E r \in rows : Stems(t, r)
            /\ \A r \in rows : r.status # "editing" =>
                 \E t \in saved : t.id = r.id /\ t.status # "editing"
            /\ \A t \in saved : t \notin rows =>
                 /\ q.save # None /\ t.grader = User[s] /\ page[s].id = t.id
                 /\ \E r \in rows : r.id = t.id /\ page[s].version = r.version
<1> DEFINE q == request[s]
           saved == IF q.save = None THEN rows
                    ELSE DropOldEditingHolds(Saved(rows, s, q.save))
<1>1. CASE q.save = None
  <2>1. Follows(rows)
    BY SubsetFollows
  <2>2. \A r \in rows : Stems(r, r)
    BY StemsSelf DEF IInv, TypeOK
  <2>3. \A r \in rows : r.status # "editing" =>
          \E t \in rows : t.id = r.id /\ t.status # "editing"
    OBVIOUS
  <2> QED BY <1>1, <2>1, <2>2, <2>3
<1>2. CASE q.save # None
  <2> DEFINE table == Saved(rows, s, q.save)
  <2>1. /\ Follows(table)
        /\ \A t \in table : \E r \in rows : Stems(t, r)
        /\ \A r \in rows : r.status # "editing" =>
             \E t \in table : t.id = r.id /\ t.status # "editing"
        /\ \A t \in table : t \notin rows =>
             /\ t.grader = User[s] /\ page[s].id = t.id
             /\ \E r \in rows : r.id = t.id /\ page[s].version = r.version
    BY <1>2, SavedTable
  <2>2. saved = DropOldEditingHolds(table)
    BY <1>2
  <2> HIDE DEF table, saved
  <2>3. /\ saved \subseteq table
        /\ \A t \in table : t.status # "editing" => t \in saved
    BY <2>2, DropOldSmaller
  <2>4. Follows(saved)
    BY <2>1, <2>3, SubsetOfFollower
  <2> QED BY <1>2, <2>1, <2>3, <2>4 DEF saved
<1> QED BY <1>1, <1>2

\* A commit that goes through: the rows it makes follow, and the page it
\* shows is a copy in order.
LEMMA OpenStep ==
  ASSUME IInv, NEW s \in Sessions, Open(s)
  PROVE  /\ Follows(rows')
         /\ page' \in [Sessions -> Pages \cup {None}]
         /\ page'[s] # None => CopyOK(page'[s], rows')
         /\ \A r \in rows : r.status # "editing" => \E t \in rows' : t.id = r.id
         /\ \A r \in rows, t \in rows' :
              t.id = r.id /\ r.status # "editing" /\ t # r =>
                /\ page[s] # None /\ page[s].id = r.id
                /\ page[s].version = r.version /\ t.grader = User[s]
<1> DEFINE q == request[s]
           saved == IF q.save = None THEN rows
                    ELSE DropOldEditingHolds(Saved(rows, s, q.save))
           new == Hold(q.item, User[s])
<1>1. q \in Requests /\ request[s] # None
  BY DEF Open, IInv, TypeOK
<1>2. /\ Follows(saved)
      /\ \A t \in saved : \E r \in rows : Stems(t, r)
      /\ \A r \in rows : r.status # "editing" =>
           \E t \in saved : t.id = r.id /\ t.status # "editing"
      /\ \A t \in saved : t \notin rows =>
           /\ q.save # None /\ t.grader = User[s] /\ page[s].id = t.id
           /\ \E r \in rows : r.id = t.id /\ page[s].version = r.version
  BY <1>1, OpenTable
<1>3. \/ /\ rows' = Close(rows, page[s])
         /\ page' = [page EXCEPT ![s] = None]
      \/ /\ q.item # None /\ ~NoIdLeft
         /\ rows' = Close(saved \cup {new}, page[s])
         /\ page' = [page EXCEPT ![s] = Copy(new)]
      \/ /\ rows' = Close(saved, page[s])
         /\ page' = [page EXCEPT ![s] = q.found]
  BY DEF Open, Die
<1> HIDE DEF saved, new
<1>4. page \in [Sessions -> Pages \cup {None}] /\ q.found \in Pages \cup {None}
  BY <1>1 DEF IInv, TypeOK, Requests
<1>5. \A r \in rows, t \in rows : t.id = r.id => t = r
  BY DEF IInv, Distinct
<1>6. ASSUME NEW table, Follows(table)
      PROVE  /\ Follows(Close(table, page[s]))
             /\ \A t \in table : t.status # "editing" => t \in Close(table, page[s])
             /\ Close(table, page[s]) \subseteq table
  <2>1. table \in SUBSET Rows /\ (page[s] # None => CopyOK(page[s], table))
    BY <1>6, SessionStaysOK DEF Follows, SessionOK
  <2>2. /\ Close(table, page[s]) \subseteq table
        /\ \A t \in table : t.status # "editing" => t \in Close(table, page[s])
    BY <2>1, CloseSmaller
  <2> QED BY <1>6, <2>2, SubsetOfFollower
<1>7. ASSUME NEW t \in saved, NEW r \in rows, t.id = r.id, t # r
      PROVE  /\ page[s] # None /\ page[s].id = r.id
             /\ page[s].version = r.version /\ t.grader = User[s]
  <2>1. t \notin rows
    BY <1>5, <1>7
  <2>2. page[s] # None
    BY <1>1, <1>2, <2>1 DEF IInv, SessionOK
  <2> QED BY <1>2, <1>5, <1>7, <2>1, <2>2
<1>8. CASE /\ rows' = Close(rows, page[s])
           /\ page' = [page EXCEPT ![s] = None]
  <2>1. Follows(rows)
    BY SubsetFollows
  <2> QED BY <1>4, <1>5, <1>6, <1>8, <2>1
<1>9. CASE /\ q.item # None /\ ~NoIdLeft
           /\ rows' = Close(saved \cup {new}, page[s])
           /\ page' = [page EXCEPT ![s] = Copy(new)]
  <2>1. new \in Rows /\ new.id = NewId
    BY <1>1, <1>9, HoldIsRow, GradingAssumption DEF Requests, new
  <2>2. Follows(saved \cup {new})
    BY <1>2, <1>9, <2>1, NewRowFollows
  <2>3. CopyOK(Copy(new), saved \cup {new})
    BY <2>2, CopyOfRow DEF Follows
  <2>4. Copy(new) \in Pages
    BY <2>1, CopyIsPage
  <2>5. page'[s] = Copy(new) /\ page' \in [Sessions -> Pages \cup {None}]
    BY <1>4, <1>9, <2>4
  <2>6. \A r \in rows : r.id # NewId
    BY <1>9, FreshId DEF Unused
  <2>7. /\ Follows(rows')
        /\ \A t \in saved \cup {new} : t.status # "editing" => t \in rows'
        /\ rows' \subseteq saved \cup {new}
    BY <1>6, <1>9, <2>2
  <2>8. CopyOK(page'[s], rows')
    BY <2>3, <2>5, <2>7 DEF CopyOK
  <2>9. \A r \in rows : r.status # "editing" => \E t \in rows' : t.id = r.id
    BY <1>2, <2>7
  <2>10. ASSUME NEW r \in rows, NEW t \in rows', t.id = r.id, t # r
         PROVE  /\ page[s] # None /\ page[s].id = r.id
                /\ page[s].version = r.version /\ t.grader = User[s]
    <3>1. t \in saved
      BY <2>1, <2>6, <2>7, <2>10
    <3> QED BY <1>7, <2>10, <3>1
  <2> QED BY <2>5, <2>7, <2>8, <2>9, <2>10
<1>10. CASE /\ rows' = Close(saved, page[s])
            /\ page' = [page EXCEPT ![s] = q.found]
  <2>1. page'[s] = q.found /\ page' \in [Sessions -> Pages \cup {None}]
    BY <1>4, <1>10
  <2>2. /\ Follows(rows')
        /\ \A t \in saved : t.status # "editing" => t \in rows'
        /\ rows' \subseteq saved
    BY <1>2, <1>6, <1>10
  <2>3. page'[s] # None => CopyOK(page'[s], rows')
    BY <1>1, <2>1, <2>2, SessionStaysOK DEF SessionOK
  <2>4. \A r \in rows : r.status # "editing" => \E t \in rows' : t.id = r.id
    BY <1>2, <2>2
  <2>5. ASSUME NEW r \in rows, NEW t \in rows', t.id = r.id, t # r
        PROVE  /\ page[s] # None /\ page[s].id = r.id
               /\ page[s].version = r.version /\ t.grader = User[s]
    BY <1>7, <2>2, <2>5
  <2> QED BY <2>1, <2>2, <2>3, <2>4, <2>5
<1> QED BY <1>3, <1>8, <1>9, <1>10

\* Time, and the owners: rows are written, forgotten or new.
LEMMA TickFollows ==
  ASSUME IInv, Tick
  PROVE  /\ Follows(rows')
         /\ \A r \in rows : \E t \in rows' : t.id = r.id
         /\ \A r \in rows, t \in rows' : t.id = r.id /\ r.status # "editing" => t = r
<1> DEFINE Step(r) == IF r.status = "editing" /\ r.age <= HoldTime
                      THEN [r EXCEPT !.age = r.age + 1] ELSE r
<1>1. rows' = {Step(r) : r \in rows}
  BY DEF Tick
<1>2. ASSUME NEW r \in rows
      PROVE  /\ Step(r) \in Rows /\ Stems(Step(r), r)
             /\ r.status # "editing" => Step(r) = r
  <2>1. r \in Rows /\ r.version \in Int /\ r.age \in Int /\ HoldTime \in Int
    BY GradingAssumption DEF IInv, TypeOK, Rows
  <2>2. CASE r.status = "editing" /\ r.age <= HoldTime
    <3>1. r.age + 1 \in 0..HoldTime + 1
      BY <2>1, <2>2 DEF Rows
    <3>2. /\ Step(r) = [r EXCEPT !.age = r.age + 1]
          /\ Step(r) \in Rows
          /\ Step(r).id = r.id /\ Step(r).version = r.version /\ Step(r).status = r.status
      BY <2>1, <2>2, <3>1 DEF Rows
    <3> QED BY <2>1, <2>2, <3>2 DEF Stems
  <2>3. CASE ~(r.status = "editing" /\ r.age <= HoldTime)
    BY <2>1, <2>3, StemsSelf
  <2> QED BY <2>2, <2>3
<1> HIDE DEF Step
<1>3. \A t \in rows' : \E r \in rows : t = Step(r)
  BY <1>1
<1>4. \A r \in rows : Step(r) \in rows' /\ Step(r).id = r.id
  BY <1>1, <1>2 DEF Stems
<1>5. \A q, r \in rows : q.id = r.id => q = r
  BY DEF IInv, Distinct
<1>6. Distinct(rows')
  BY <1>3, <1>4, <1>5 DEF Distinct
<1>7. Follows(rows')
  BY <1>2, <1>3, <1>6 DEF Follows
<1> QED BY <1>2, <1>3, <1>4, <1>5, <1>7

LEMMA SaveFollows ==
  ASSUME IInv, NEW i \in Items, AnswerUngraded(i) \/ AnswerGraded(i)
  PROVE  Follows(rows')
<1>0. rows \in SUBSET Rows /\ Follows(rows)
  BY SubsetFollows DEF IInv, TypeOK
<1>1. CASE AnswerUngraded(i)
  <2>1. CASE UNCHANGED rows
    BY <1>0, <2>1
  <2>2. CASE /\ ~NoIdLeft
             /\ rows' = rows \cup {[Hold(i, None) EXCEPT !.status = "ready"]}
    <3> DEFINE new == [Hold(i, None) EXCEPT !.status = "ready"]
    <3>1. Hold(i, None) \in Rows /\ Hold(i, None).id = NewId
      BY <2>2, HoldIsRow
    <3>2. new \in Rows /\ new.id = NewId
      BY <3>1 DEF Rows, Statuses
    <3>3. \A q \in rows : \E o \in rows : Stems(q, o)
      BY <1>0, StemsSelf
    <3> HIDE DEF new
    <3>4. Follows(rows \cup {new})
      BY <1>0, <2>2, <3>2, <3>3, NewRowFollows
    <3> QED BY <2>2, <3>4 DEF new
  <2> QED BY <1>1, <2>1, <2>2 DEF AnswerUngraded
<1>2. CASE AnswerGraded(i)
  <2>1. PICK r \in RowsOf(i) :
          /\ r.version < MaxVersion
          /\ \/ rows' = (rows \ {r}) \cup {Write(r, None, r.status)}
             \/ rows' = (rows \ {r}) \cup {Write(r, r.grader, "regrade")}
             \/ rows' = rows \ {r}
    BY <1>2 DEF AnswerGraded
  <2>2. r \in rows /\ r \in Rows /\ r.status \in Statuses
        /\ r.grader \in Graders \cup {None} /\ None \in Graders \cup {None}
        /\ "regrade" \in Statuses
    BY <1>0, <2>1 DEF RowsOf, Rows, Statuses
  <2>3. ASSUME NEW w \in Rows, Stems(w, r), rows' = (rows \ {r}) \cup {w}
        PROVE  Follows(rows')
    <3>1. \A q \in rows' : \E o \in rows : Stems(q, o)
      BY <1>0, <2>2, <2>3, StemsSelf
    <3>2. Distinct(rows')
      BY <1>0, <2>2, <2>3 DEF Follows, Distinct, Stems
    <3> QED BY <1>0, <2>3, <3>1, <3>2 DEF Follows
  <2>4. CASE rows' = (rows \ {r}) \cup {Write(r, None, r.status)}
    BY <2>1, <2>2, <2>3, <2>4, WriteStems
  <2>5. CASE rows' = (rows \ {r}) \cup {Write(r, r.grader, "regrade")}
    BY <2>1, <2>2, <2>3, <2>5, WriteStems
  <2>6. CASE rows' = rows \ {r}
    BY <2>6, SubsetFollows
  <2> QED BY <2>1, <2>4, <2>5, <2>6
<1> QED BY <1>1, <1>2

\* What is left to show of a step when its rows follow.
LEMMA InvFromSessions ==
  ASSUME IInv, Follows(rows'),
         answered' \subseteq Items, saves' \in 0..MaxSaves,
         page' \in [Sessions -> Pages \cup {None}],
         request' \in [Sessions -> Requests \cup {None}],
         \A s \in Sessions :
           SessionOK(page'[s], request'[s], rows')
  PROVE  IInv'
  BY DEF IInv, TypeOK, Follows

\* Forgetting the session, or all of them, asks nothing of the pages.
LEMMA DieStep ==
  ASSUME IInv, NEW s \in Sessions, Die(s)
  PROVE  IInv' /\ rows' \subseteq rows
         /\ \A r \in rows : r.status # "editing" => r \in rows'
<1>1. page[s] # None => CopyOK(page[s], rows)
  BY DEF IInv, SessionOK
<1>2. /\ rows' \subseteq rows
      /\ \A r \in rows : r.status # "editing" => r \in rows'
  BY <1>1, CloseSmaller DEF Die, IInv, TypeOK
<1>3. Follows(rows')
  BY <1>2, SubsetFollows
<1>4. /\ page' \in [Sessions -> Pages \cup {None}]
      /\ request' \in [Sessions -> Requests \cup {None}]
      /\ answered' \subseteq Items /\ saves' \in 0..MaxSaves
  BY DEF Die, IInv, TypeOK
<1>5. ASSUME NEW t \in Sessions
      PROVE  SessionOK(page'[t], request'[t], rows')
  <2>1. CASE t = s
    BY <2>1 DEF Die, SessionOK, IInv, TypeOK
  <2>2. CASE t # s
    <3>1. page'[t] = page[t] /\ request'[t] = request[t]
      BY <2>2 DEF Die, IInv, TypeOK
    <3> QED BY <1>3, <3>1, SessionStaysOK
  <2> QED BY <2>1, <2>2
<1>6. IInv'
  BY <1>3, <1>4, <1>5, InvFromSessions
<1> QED BY <1>2, <1>6

LEMMA OffersItems ==
  ASSUME TypeOK, NEW table \in SUBSET Rows, NEW grader
  PROVE  Offers(table, grader) \subseteq Items \cup {None}
  BY DEF Offers, TypeOK, Rows

LEMMA RequestOK ==
  ASSUME NEW item \in Items \cup {None}, NEW save \in {None, "ready", "held_back"}
  PROVE  /\ Request(item, save) \in Requests
         /\ Request(item, save).found = None
         /\ Request(item, save).save = save
  BY DEF Request, Requests

\* The strengthened invariant holds at first, every step keeps it, and it
\* implies what the checker is asked.
LEMMA Initially == Init => IInv
  BY GradingAssumption DEF Init, IInv, TypeOK, Distinct, SessionOK

LEMMA Inductive == IInv /\ [Next]_vars => IInv'
<1> SUFFICES ASSUME IInv, [Next]_vars
             PROVE  IInv'
  OBVIOUS
<1> USE DEF vars
<1>0. /\ page \in [Sessions -> Pages \cup {None}]
      /\ request \in [Sessions -> Requests \cup {None}]
      /\ rows \in SUBSET Rows /\ Follows(rows)
  BY SubsetFollows DEF IInv, TypeOK
<1>1. ASSUME NEW s \in Sessions, Ask(s)
      PROVE  IInv'
  <2>1. rows' \subseteq rows
    BY <1>1, DropOldSmaller DEF Ask
  <2>2. PICK item \in Offers(rows', User[s]) :
          request' = [request EXCEPT ![s] = Request(item, None)]
    BY <1>1 DEF Ask
  <2>3. item \in Items \cup {None}
    BY <1>0, <2>1, <2>2, OffersItems DEF IInv
  <2>4. /\ Request(item, None) \in Requests /\ Request(item, None).found = None
        /\ Request(item, None).save = None
    BY <2>3, RequestOK
  <2>5. Follows(rows')
    BY <2>1, SubsetFollows
  <2>6. \A t \in Sessions : SessionOK(page[t], request[t], rows')
    BY <2>5, SessionStaysOK
  <2>7. request' \in [Sessions -> Requests \cup {None}]
    BY <1>0, <2>2, <2>4
  <2>8. \A t \in Sessions : SessionOK(page'[t], request'[t], rows')
    BY <1>0, <1>1, <2>2, <2>4, <2>6 DEF Ask, SessionOK
  <2> QED BY <1>0, <1>1, <2>5, <2>7, <2>8, InvFromSessions DEF Ask, IInv, TypeOK
<1>2. ASSUME NEW s \in Sessions, Visit(s)
      PROVE  IInv'
  <2>1. PICK item \in answered : request' = [request EXCEPT ![s] = Request(item, None)]
    BY <1>2 DEF Visit
  <2>2. /\ Request(item, None) \in Requests /\ Request(item, None).found = None
        /\ Request(item, None).save = None
    BY <2>1, RequestOK DEF IInv, TypeOK
  <2>3. request' \in [Sessions -> Requests \cup {None}]
    BY <1>0, <2>1, <2>2
  <2>4. \A t \in Sessions : SessionOK(page'[t], request'[t], rows')
    BY <1>0, <1>2, <2>1, <2>2 DEF Visit, SessionOK, IInv
  <2> QED BY <1>0, <1>2, <2>3, <2>4, InvFromSessions DEF Visit, IInv, TypeOK
<1>3. ASSUME NEW s \in Sessions, Look(s)
      PROVE  IInv'
  <2> DEFINE item == request[s].item
  <2>1. CASE Cardinality(RowsOf(item)) > 1
    BY <1>3, <2>1, DieStep DEF Look
  <2>2. CASE ~(Cardinality(RowsOf(item)) > 1)
    <3>1. PICK found :
            /\ found = None \/ (page[s] # None /\ found = page[s])
                 \/ \E r \in rows : found = Copy(r)
            /\ request' = [request EXCEPT ![s].looked = TRUE, ![s].found = found]
      BY <1>3, <2>2 DEF Look, RowsOf
    <3>2. request[s] # None /\ request[s] \in Requests
      BY <1>0, <1>3 DEF Look
    <3>3. found \in Pages \cup {None} /\ (found # None => CopyOK(found, rows))
      BY <1>0, <3>1, CopyIsPage, CopyOfRow DEF IInv, SessionOK
    <3> DEFINE new == [request[s] EXCEPT !.looked = TRUE, !.found = found]
    <3>4. new \in Requests /\ new.found = found /\ new.save = request[s].save
      BY <3>2, <3>3 DEF Requests
    <3>5. request' = [request EXCEPT ![s] = new]
      BY <1>0, <3>1
    <3> HIDE DEF new
    <3>6. request' \in [Sessions -> Requests \cup {None}]
      BY <1>0, <3>4, <3>5
    <3>7. rows' = rows /\ page' = page /\ answered' = answered /\ saves' = saves
      BY <1>3, <2>2 DEF Look
    <3>8. ASSUME NEW t \in Sessions
          PROVE  SessionOK(page'[t], request'[t], rows')
      <4>1. SessionOK(page[t], request[t], rows)
        BY DEF IInv
      <4>2. CASE t = s
        BY <1>0, <3>2, <3>3, <3>4, <3>5, <3>7, <4>1, <4>2 DEF SessionOK
      <4>3. CASE t # s
        BY <1>0, <3>5, <3>7, <4>1, <4>3
      <4> QED BY <4>2, <4>3
    <3> QED BY <1>0, <3>6, <3>7, <3>8, InvFromSessions DEF IInv, TypeOK
  <2> QED BY <2>1, <2>2
<1>4. ASSUME NEW s \in Sessions, Open(s)
      PROVE  IInv'
  <2>1. /\ Follows(rows')
        /\ page' \in [Sessions -> Pages \cup {None}]
        /\ page'[s] # None => CopyOK(page'[s], rows')
    BY <1>4, OpenStep
  <2>2. /\ request' = [request EXCEPT ![s] = None]
        /\ \A t \in Sessions \ {s} : page'[t] = page[t]
        /\ answered' = answered /\ saves' = saves
    BY <1>0, <1>4 DEF Open, Die
  <2>3. request' \in [Sessions -> Requests \cup {None}]
    BY <1>0, <2>2
  <2>4. ASSUME NEW t \in Sessions
        PROVE  SessionOK(page'[t], request'[t], rows')
    <3>1. CASE t = s
      BY <1>0, <2>1, <2>2, <3>1 DEF SessionOK
    <3>2. CASE t # s
      BY <1>0, <2>1, <2>2, <3>2, SessionStaysOK
    <3> QED BY <3>1, <3>2
  <2> QED BY <2>1, <2>2, <2>3, <2>4, InvFromSessions DEF IInv, TypeOK
<1>5. ASSUME NEW s \in Sessions, Leave(s)
      PROVE  IInv'
  BY <1>5, DieStep DEF Leave
<1>6. ASSUME NEW s \in Sessions, NEW status \in {"ready", "held_back"}, Save(s, status)
      PROVE  IInv'
  <2>0. /\ page[s] # None /\ page[s] \in Pages /\ page[s].version < MaxVersion
        /\ request[s] = None
        /\ rows' = rows /\ answered' = answered /\ saves' = saves
    BY <1>0, <1>6 DEF Save
  <2>1. CASE /\ page' = [page EXCEPT ![s] = None]
             /\ request' = request
    <3>1. ASSUME NEW t \in Sessions
          PROVE  SessionOK(page'[t], request'[t], rows')
      BY <1>0, <2>0, <2>1 DEF SessionOK, IInv
    <3> QED BY <1>0, <2>0, <2>1, <3>1, InvFromSessions DEF IInv, TypeOK
  <2>2. CASE ~(/\ page' = [page EXCEPT ![s] = None]
               /\ request' = request)
    <3> DEFINE kept == DropOldEditingHolds(rows)
    <3>1. PICK r \in kept, item \in Offers(Saved(kept, s, status), User[s]) :
            /\ IsCurrent(page[s], r)
            /\ request' = [request EXCEPT ![s] = Request(item, status)]
            /\ page' = [page EXCEPT ![s].status = status]
      BY <1>6, <2>2 DEF Save
    <3>2. \A q \in Saved(kept, s, status) : q.item \in Items
      <4>1. kept \subseteq Rows
        BY <1>0, DropOldSmaller
      <4> HIDE DEF kept
      <4>2. \A q \in kept : q.item \in Items /\ Write(q, User[s], status).item = q.item
        BY <4>1 DEF Rows, Write
      <4> QED BY <4>2 DEF Saved
    <3> HIDE DEF kept
    <3>3. item \in Items \cup {None}
      BY <3>1, <3>2 DEF Offers, IInv, TypeOK
    <3>4. /\ Request(item, status) \in Requests /\ Request(item, status).found = None
          /\ Request(item, status).save = status
      BY <3>3, RequestOK
    <3> DEFINE new == [page[s] EXCEPT !.status = status]
    <3>5. /\ new \in Pages /\ new.id = page[s].id /\ new.version = page[s].version
          /\ new.status = status
      BY <2>0 DEF Pages, Statuses
    <3>6. page' = [page EXCEPT ![s] = new]
      BY <1>0, <3>1
    <3> HIDE DEF new
    <3>7. CopyOK(new, rows)
      BY <2>0, <3>5 DEF IInv, SessionOK, CopyOK
    <3>8. /\ page' \in [Sessions -> Pages \cup {None}]
          /\ request' \in [Sessions -> Requests \cup {None}]
      BY <1>0, <3>1, <3>4, <3>5, <3>6
    <3>9. ASSUME NEW t \in Sessions
          PROVE  SessionOK(page'[t], request'[t], rows')
      <4>1. CASE t = s
        <5>1. page'[t] = new /\ request'[t] = Request(item, status) /\ new # None
          BY <1>0, <3>1, <3>5, <3>6, <4>1, NoneAssumption
        <5> QED BY <2>0, <3>4, <3>5, <3>7, <5>1 DEF SessionOK
      <4>2. CASE t # s
        BY <1>0, <2>0, <3>1, <3>6, <4>2 DEF IInv
      <4> QED BY <4>1, <4>2
    <3> QED BY <1>0, <2>0, <3>8, <3>9, InvFromSessions DEF IInv, TypeOK
  <2> QED BY <2>1, <2>2
<1>7. ASSUME NEW i \in Items, SaveSelfEval(i)
      PROVE  IInv'
  <2>1. Follows(rows') /\ page' = page /\ request' = request
    BY <1>7, SaveFollows DEF SaveSelfEval
  <2>2. answered' \subseteq Items /\ saves' \in 0..MaxSaves
    BY <1>7, GradingAssumption DEF SaveSelfEval, IInv, TypeOK
  <2>3. \A t \in Sessions : SessionOK(page'[t], request'[t], rows')
    BY <2>1, SessionStaysOK
  <2> QED BY <1>0, <2>1, <2>2, <2>3, InvFromSessions
<1>8. ASSUME Crash
      PROVE  IInv'
  <2>1. \A t \in Sessions : page'[t] = None /\ request'[t] = None
    BY <1>8 DEF Crash
  <2>2. \A t \in Sessions : SessionOK(page'[t], request'[t], rows')
    BY <2>1 DEF SessionOK
  <2>3. /\ page' \in [Sessions -> Pages \cup {None}]
        /\ request' \in [Sessions -> Requests \cup {None}]
    BY <1>8 DEF Crash
  <2> QED BY <1>0, <1>8, <2>2, <2>3, InvFromSessions DEF Crash, IInv, TypeOK
<1>9. ASSUME Tick
      PROVE  IInv'
  <2>1. Follows(rows')
    BY <1>9, TickFollows
  <2>2. \A t \in Sessions : SessionOK(page'[t], request'[t], rows')
    BY <1>9, <2>1, SessionStaysOK DEF Tick
  <2> QED BY <1>0, <1>9, <2>1, <2>2, InvFromSessions DEF Tick, IInv, TypeOK
<1>10. ASSUME UNCHANGED vars
       PROVE  IInv'
  BY <1>10 DEF IInv, TypeOK, Distinct, SessionOK, CopyOK
<1> QED BY <1>1, <1>2, <1>3, <1>4, <1>5, <1>6, <1>7, <1>8, <1>9, <1>10 DEF Next

LEMMA Invariance == Spec => []IInv
<1> QED BY Initially, Inductive, PTL DEF Spec

\* What a step that is not a save of the owners does to the grades.
LEMMA GradesKept ==
  ASSUME IInv, [Next]_vars, saves' = saves
  PROVE  \A r \in rows : r.status # "editing" =>
           /\ \E q \in rows' : q.id = r.id
           /\ \A q \in rows' : q.id = r.id /\ q # r =>
                \E s \in Sessions :
                  /\ request[s] # None /\ request'[s] = None /\ User[s] = q.grader
                  /\ page[s] # None
                  /\ page[s].id = r.id /\ page[s].version = r.version
<1> SUFFICES ASSUME NEW r \in rows, r.status # "editing"
             PROVE  /\ \E q \in rows' : q.id = r.id
                    /\ \A q \in rows' : q.id = r.id /\ q # r =>
                         \E s \in Sessions :
                           /\ request[s] # None /\ request'[s] = None
                           /\ User[s] = q.grader /\ page[s] # None
                           /\ page[s].id = r.id /\ page[s].version = r.version
  OBVIOUS
<1>0. \A q \in rows : q.id = r.id => q = r
  BY DEF IInv, Distinct
<1>1. ASSUME rows' \subseteq rows, r \in rows'
      PROVE  /\ \E q \in rows' : q.id = r.id
             /\ \A q \in rows' : q.id = r.id => q = r
  BY <1>0, <1>1
<1>2. ASSUME NEW s \in Sessions, Ask(s)
      PROVE  rows' \subseteq rows /\ r \in rows'
  BY <1>2, DropOldSmaller DEF Ask
<1>3. ASSUME NEW s \in Sessions, Visit(s)
      PROVE  rows' \subseteq rows /\ r \in rows'
  BY <1>3 DEF Visit
<1>4. ASSUME NEW s \in Sessions, Look(s)
      PROVE  rows' \subseteq rows /\ r \in rows'
  BY <1>4, DieStep DEF Look
<1>5. ASSUME NEW s \in Sessions, Leave(s)
      PROVE  rows' \subseteq rows /\ r \in rows'
  BY <1>5, DieStep DEF Leave
<1>6. ASSUME NEW s \in Sessions, NEW status \in {"ready", "held_back"}, Save(s, status)
      PROVE  rows' \subseteq rows /\ r \in rows'
  BY <1>6 DEF Save
<1>7. ASSUME NEW s \in Sessions, Open(s)
      PROVE  /\ \E q \in rows' : q.id = r.id
             /\ \A q \in rows' : q.id = r.id /\ q # r =>
                  \E t \in Sessions :
                    /\ request[t] # None /\ request'[t] = None
                    /\ User[t] = q.grader /\ page[t] # None
                    /\ page[t].id = r.id /\ page[t].version = r.version
  <2>1. request[s] # None /\ request'[s] = None
    BY <1>7 DEF Open, Die, IInv, TypeOK
  <2>2. /\ \E q \in rows' : q.id = r.id
        /\ \A q \in rows' : q.id = r.id /\ q # r =>
             /\ page[s] # None /\ page[s].id = r.id
             /\ page[s].version = r.version /\ q.grader = User[s]
    BY <1>7, OpenStep
  <2> QED BY <2>1, <2>2
<1>8. ASSUME NEW i \in Items, SaveSelfEval(i)
      PROVE  FALSE
  BY <1>8 DEF SaveSelfEval, IInv, TypeOK
<1>9. ASSUME Crash \/ UNCHANGED vars
      PROVE  rows' \subseteq rows /\ r \in rows'
  BY <1>9 DEF Crash, vars
<1>10. ASSUME Tick
       PROVE  /\ \E q \in rows' : q.id = r.id
              /\ \A q \in rows' : q.id = r.id => q = r
  BY <1>10, TickFollows
<1> QED BY <1>1, <1>2, <1>3, <1>4, <1>5, <1>6, <1>7, <1>8, <1>9, <1>10 DEF Next

-----------------------------------------------------------------------------
(* What is promised.                                                       *)

\* Pages, requests and rows are what the handlers take them to be.
THEOREM TypeCorrect == Spec => []TypeOK
<1>1. IInv => TypeOK
  BY DEF IInv
<1> QED BY <1>1, Invariance, PTL

\* No page that closes, however old its copy, no old hold that is forgotten,
\* no session that dies and no crash takes a saved grade away.
THEOREM GradesSurvive == Spec => SavedGradesSurvive
<1>1. IInv /\ [Next]_vars =>
        [saves' = saves =>
           \A r \in rows : r.status # "editing" => \E q \in rows' : q.id = r.id]_vars
  BY GradesKept
<1> QED BY <1>1, Invariance, PTL DEF Spec, SavedGradesSurvive

\* A saved grade changes only by a request from a page that shows it as it
\* is: of several pages that show one row only the first to save prevails.
THEOREM NothingUnseenOverwritten == Spec => OverwritesWhatItShows
<1>1. IInv /\ [Next]_vars =>
        [saves' = saves =>
           \A r \in rows, q \in rows' :
             q.id = r.id /\ r.status # "editing" /\ q # r =>
               \E s \in Sessions :
                 /\ request[s] # None /\ request'[s] = None /\ User[s] = q.grader
                 /\ page[s] # None
                 /\ page[s].id = r.id /\ page[s].version = r.version]_vars
  BY GradesKept
<1> QED BY <1>1, Invariance, PTL DEF Spec, OverwritesWhatItShows
=============================================================================
