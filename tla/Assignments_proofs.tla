------------------------- MODULE Assignments_proofs -------------------------
(***************************************************************************)
(* What module Assignments promises, proved for any number of              *)
(* administrators, assignments, items and edits.                           *)
(*                                                                         *)
(* The argument has three parts.  A copy of a row that has the version of  *)
(* the row is the row, as long as its number has never been removed; a     *)
(* copy of a submission that was not written since is the submission.      *)
(* The first item of an assignment is the only one with number 1, and its  *)
(* evaluation stays as long as the item does, so whoever comes to the      *)
(* evaluation unasked finds handing in closed or ended by an answer.       *)
(* Finally, an administrator who alone edits the list, or the items of an  *)
(* assignment, has a page that lists exactly what there is.                *)
(***************************************************************************)
EXTENDS Assignments, FiniteSetTheorems, SequenceTheorems, WellFoundedInduction, TLAPS

TableOf(D, R) == UNION {[S -> R] : S \in SUBSET D}

AssignmentRow == [open : Nat, due : Nat, eval : Nat, ver : Nat]

ItemRow == [of : Numbers, seq : Nat, ver : Nat, live : BOOLEAN]

SubmissionRow == [due : Nat, eval : Nat, made : Nat, first : Nat, moved : BOOLEAN]

\* Nothing is asked of administrators only where there is nothing to lose.
Questions == {q \in [shown : BOOLEAN, had : SUBSET Nat] : q.shown \/ q.had = {}}

PageRow(Asked) ==
  [kind : {"none", "list", "items", "home", "eval"}, of : Numbers \cup {None},
   rows : Seq(Nat), vers : TableOf(Nat, Nat), asgn : TableOf(Numbers, AssignmentRow),
   sub : TableOf(Numbers, SubmissionRow), old : SUBSET Numbers,
   drawn : TableOf(Numbers, SUBSET {"submit", "evaluate"}), asked : Asked, consent : BOOLEAN]

AdminPage == PageRow(Questions \cup {None})

StudentPage == PageRow(Numbers \cup {None})

TypeOK ==
  /\ now \in Nat /\ writes \in Nat /\ overlapped \in BOOLEAN
  /\ assignments \in TableOf(Numbers, AssignmentRow)
  /\ items \in Seq(ItemRow)
  /\ submissions \in TableOf(Numbers, SubmissionRow)
  /\ evals \subseteq LiveItems
  /\ removed \in [Numbers -> Nat]
  /\ pages \in [Admins -> AdminPage \cup {None}]
  /\ student \in StudentPage \cup {None}

\* Submissions keep the due date that they were made with.
SubmissionsOK(subs) == \A n \in DOMAIN subs : subs[n].moved \/ subs[n].due >= subs[n].first

\* No assignment has two items with number 1.
FirstItems(table) ==
  \A i, j \in DOMAIN table :
    table[i].live /\ table[j].live /\ table[i].of = table[j].of
      /\ table[i].seq = 1 /\ table[j].seq = 1 => i = j

\* What the copies of an administrator's page are worth.
CopiesOK(p, asgn, subs, gone) ==
  /\ \A n \in DOMAIN p.asgn : gone[n] = 0 =>
       /\ n \in DOMAIN asgn
       /\ p.asgn[n].ver <= asgn[n].ver
       /\ p.asgn[n].ver = asgn[n].ver => p.asgn[n] = asgn[n]
  /\ \A n \in DOMAIN p.sub \ p.old : n \in DOMAIN subs /\ subs[n] = p.sub[n]
  /\ p.kind = "list" => DOMAIN p.sub = {}

\* By the dates that the page p has, the evaluation of n is over.
ClosedBy(p, n, time) ==
  /\ p.asgn[n].open < time /\ p.asgn[n].due < time /\ p.asgn[n].eval < time
  /\ p.sub[n].due < time /\ p.sub[n].eval < time

\* A row with a button for the evaluation is one of an assignment that has
\* opened; who is on the evaluation page without having been asked finds it
\* over, or the first item evaluated.
StudentOK(p, table, done, time) ==
  /\ DOMAIN p.drawn \subseteq DOMAIN p.asgn \cap DOMAIN p.sub
  /\ \A n \in DOMAIN p.drawn : "evaluate" \in p.drawn[n] => p.asgn[n].open < time
  /\ p.kind = "home" /\ p.asked # None => p.asked \in DOMAIN p.drawn
  /\ p.kind = "eval" =>
       /\ p.of \in DOMAIN p.asgn \cap DOMAIN p.sub
       /\ \A k \in DOMAIN p.rows : p.rows[k] \in DOMAIN table /\ table[p.rows[k]].of = p.of
       /\ p.consent \/ ClosedBy(p, p.of, time)
            \/ \A k \in DOMAIN p.rows :
                 table[p.rows[k]].live /\ table[p.rows[k]].seq = 1 => p.rows[k] \in done

IInv ==
  /\ TypeOK
  /\ DOMAIN submissions \subseteq DOMAIN assignments
  /\ SubmissionsOK(submissions)
  /\ FirstItems(items)
  /\ \A a \in Admins : pages[a] # None => CopiesOK(pages[a], assignments, submissions, removed)
  /\ student # None => StudentOK(student, items, evals, now)

\* What the table has of an assignment.
There(table, n) == {i \in DOMAIN table : table[i].live /\ table[i].of = n}

Numbered(table) ==
  \A n \in Numbers :
    /\ {table[i].seq : i \in There(table, n)} = 1 .. Cardinality(There(table, n))
    /\ \A i, j \in There(table, n) : table[i].seq = table[j].seq => i = j

\* The rows of the one page that edits the list.
ListAt(numbers, rows) == numbers = 1 .. Len(rows) /\ \A k \in 1 .. Len(rows) : rows[k] = k

\* The rows of the one page that edits the items of an assignment: those that
\* went along with an assignment, then those that there are.
ItemsAt(table, n, rows) ==
  LET count == Cardinality(There(table, n))
      gone == Len(rows) - count
  IN /\ gone \in Nat
     /\ \A k \in 1 .. gone : rows[k] \in DOMAIN table /\ ~table[rows[k]].live
     /\ \A k \in 1 .. count : rows[gone + k] \in There(table, n) /\ table[rows[gone + k]].seq = k

PageFits(p, numbers, table) ==
  /\ p.kind = "list" => ListAt(numbers, p.rows)
  /\ p.kind = "items" => p.of \in Numbers /\ ItemsAt(table, p.of, p.rows)
  /\ p.kind \in {"list", "items"} /\ p.asked # None => p.rows # <<>>

Apart(p, q) == p.kind = q.kind => p.kind \in {"none", "home"}

Ordered ==
  /\ Gapless
  /\ Numbered(items)
  /\ \A a, b \in Admins : a # b => Apart(Kept(pages[a]), Kept(pages[b]))
  /\ \A a \in Admins : PageFits(Kept(pages[a]), DOMAIN assignments, items)

OrderedInv == ~overlapped => Ordered

-----------------------------------------------------------------------------
(* Tables *)

LEMMA TableIs ==
  ASSUME NEW D, NEW R, NEW f
  PROVE  f \in TableOf(D, R) <=> DOMAIN f \subseteq D /\ f \in [DOMAIN f -> R]
BY DEF TableOf

LEMMA TableMade ==
  ASSUME NEW D, NEW R, NEW S \in SUBSET D, NEW f \in [S -> R]
  PROVE  f \in TableOf(D, R)
BY DEF TableOf

LEMMA TableSet ==
  ASSUME NEW D, NEW R, NEW f \in TableOf(D, R), NEW x, NEW r \in R
  PROVE  /\ [f EXCEPT ![x] = r] \in TableOf(D, R)
         /\ DOMAIN [f EXCEPT ![x] = r] = DOMAIN f
         /\ \A y \in DOMAIN f : [f EXCEPT ![x] = r][y] = IF y = x THEN r ELSE f[y]
<1>1. f \in [DOMAIN f -> R] /\ DOMAIN f \subseteq D
  BY TableIs
<1>2. [f EXCEPT ![x] = r] \in [DOMAIN f -> R]
  BY <1>1
<1>3. DOMAIN [f EXCEPT ![x] = r] = DOMAIN f
  BY <1>1
<1>4. \A y \in DOMAIN f : [f EXCEPT ![x] = r][y] = IF y = x THEN r ELSE f[y]
  BY <1>1
<1> QED
  BY <1>1, <1>2, <1>3, <1>4, TableMade

LEMMA TablePut ==
  ASSUME NEW D, NEW R, NEW f \in TableOf(D, R), NEW x \in D, NEW r \in R
  PROVE  /\ Put(f, x, r) \in TableOf(D, R)
         /\ DOMAIN Put(f, x, r) = DOMAIN f \cup {x}
         /\ Put(f, x, r)[x] = r
         /\ \A y \in DOMAIN f : y # x => Put(f, x, r)[y] = f[y]
<1>1. f \in [DOMAIN f -> R] /\ DOMAIN f \subseteq D
  BY TableIs
<1>2. Put(f, x, r) = [y \in DOMAIN f \cup {x} |-> IF y = x THEN r ELSE f[y]]
  BY DEF Put
<1>3. Put(f, x, r) \in [DOMAIN f \cup {x} -> R]
  BY <1>1, <1>2
<1> QED
  BY <1>1, <1>2, <1>3, TableMade

LEMMA TableCut ==
  ASSUME NEW D, NEW R, NEW f \in TableOf(D, R), NEW x
  PROVE  LET g == [y \in DOMAIN f \ {x} |-> f[y]]
         IN g \in TableOf(D, R) /\ DOMAIN g = DOMAIN f \ {x} /\ \A y \in DOMAIN g : g[y] = f[y]
<1> DEFINE g == [y \in DOMAIN f \ {x} |-> f[y]]
<1>1. f \in [DOMAIN f -> R] /\ DOMAIN f \subseteq D
  BY TableIs
<1>2. g \in [DOMAIN f \ {x} -> R]
  BY <1>1
<1> QED
  BY <1>1, <1>2, TableMade

\* What a session has already loaded stays as it was.
LEMMA CopiesTable ==
  ASSUME NEW D, NEW R, NEW f \in TableOf(D, R), NEW kept \in TableOf(D, R), NEW S, S \subseteq DOMAIN f
  PROVE  /\ Copies(f, S, kept) \in TableOf(D, R)
         /\ DOMAIN Copies(f, S, kept) = S
         /\ \A n \in S : Copies(f, S, kept)[n] = IF n \in DOMAIN kept THEN kept[n] ELSE f[n]
<1>1. /\ f \in [DOMAIN f -> R] /\ DOMAIN f \subseteq D
      /\ kept \in [DOMAIN kept -> R]
  BY TableIs
<1>2. Copies(f, S, kept) = [n \in S |-> IF n \in DOMAIN kept THEN kept[n] ELSE f[n]]
  BY DEF Copies
<1>3. Copies(f, S, kept) \in [S -> R]
  BY <1>1, <1>2
<1> QED
  BY <1>1, <1>2, <1>3, TableMade

LEMMA EmptyTable ==
  ASSUME NEW D, NEW R
  PROVE  <<>> \in TableOf(D, R) /\ DOMAIN <<>> = {}
<1>1. <<>> \in [{} -> R]
  OBVIOUS
<1> QED
  BY <1>1, TableMade

-----------------------------------------------------------------------------
(* Listings *)

LEMMA SetInduction ==
  ASSUME NEW S \in SUBSET Nat, 0 \in S, \A n \in S : n + 1 \in S
  PROVE  S = Nat
<1> SUFFICES ASSUME Nat \ S # {} PROVE FALSE
  OBVIOUS
<1>1. \E R : R = {m \in Nat \X Nat : m[1] < m[2]} /\ IsWellFoundedOn(R, Nat)
  <2>1. OpToRel(<, Nat) = {m \in Nat \X Nat : m[1] < m[2]}
    BY DEF OpToRel
  <2>2. IsWellFoundedOn(OpToRel(<, Nat), Nat)
    BY NatLessThanWellFounded
  <2>3. IsWellFoundedOn({m \in Nat \X Nat : m[1] < m[2]}, Nat)
    BY <2>1, <2>2
  <2> QED
    BY <2>3
<1>2. PICK R : R = {m \in Nat \X Nat : m[1] < m[2]} /\ IsWellFoundedOn(R, Nat)
  BY <1>1
<1>3. PICK x \in Nat \ S : \A y \in Nat \ S : ~(<<y, x>> \in R)
  BY <1>2, WFMin
<1>4. \A y \in Nat \ S : ~(y < x)
  BY <1>2, <1>3
<1>5. x # 0 /\ x - 1 \in Nat /\ x - 1 < x
  BY <1>3
<1>6. x - 1 \in S
  BY <1>4, <1>5
<1>7. (x - 1) + 1 = x
  BY <1>3
<1> QED
  BY <1>3, <1>6, <1>7

\* The least of some naturals.
LEMMA LeastOf ==
  ASSUME NEW S \in SUBSET Nat, S # {}
  PROVE  \E m \in S : \A x \in S : m <= x
<1> SUFFICES ASSUME \A m \in S : \E x \in S : x < m PROVE FALSE
  OBVIOUS
<1> DEFINE Above == {b \in Nat : \A x \in S : b <= x}
<1>1. 0 \in Above
  OBVIOUS
<1>2. ASSUME NEW b \in Above PROVE b + 1 \in Above
  <2>1. b \notin S
    BY <1>2
  <2> QED
    BY <1>2, <2>1
<1>3. Above = Nat
  <2> HIDE DEF Above
  <2>1. Above \subseteq Nat
    BY DEF Above
  <2> QED
    BY <1>1, <1>2, <2>1, SetInduction
<1>4. PICK m \in S : TRUE
  OBVIOUS
<1>5. m + 1 \in Above
  BY <1>3, <1>4
<1> QED
  BY <1>4, <1>5

\* s lists the elements of S, those that weigh less first.
Lists(s, S, w) ==
  /\ s \in [1 .. Cardinality(S) -> S]
  /\ \A j, k \in 1 .. Cardinality(S) : j # k => s[j] # s[k]
  /\ \A j, k \in 1 .. Cardinality(S) : j < k => w[s[j]] <= w[s[k]]

LEMMA ListingExists ==
  ASSUME NEW T, IsFiniteSet(T), NEW w \in [T -> Nat]
  PROVE  \E s : Lists(s, T, w)
<1> DEFINE Sizes == {c \in Nat : \A S \in SUBSET T : Cardinality(S) = c => \E s : Lists(s, S, w)}
<1>1. 0 \in Sizes
  <2> SUFFICES ASSUME NEW S \in SUBSET T, Cardinality(S) = 0 PROVE \E s : Lists(s, S, w)
    OBVIOUS
  <2>1. S = {}
    BY FS_Subset, FS_EmptySet
  <2>2. Lists([x \in {} |-> x], S, w)
    <3>1. 1 .. Cardinality(S) = {}
      OBVIOUS
    <3> QED
      BY <2>1, <3>1 DEF Lists
  <2> QED
    BY <2>2
<1>2. ASSUME NEW c \in Sizes PROVE c + 1 \in Sizes
  <2> SUFFICES ASSUME NEW S \in SUBSET T, Cardinality(S) = c + 1 PROVE \E s : Lists(s, S, w)
    OBVIOUS
  <2>1. IsFiniteSet(S) /\ S # {}
    BY FS_Subset, FS_EmptySet
  <2> DEFINE weights == {w[x] : x \in S}
  <2>2. PICK x \in S : \A y \in S : w[x] <= w[y]
    <3>1. weights \subseteq Nat /\ weights # {}
      BY <2>1
    <3>2. PICK m \in weights : \A n \in weights : m <= n
      BY <3>1, LeastOf
    <3> QED
      BY <3>2
  <2> DEFINE R == S \ {x}
  <2>3. Cardinality(R) = c /\ R \subseteq T
    <3>1. Cardinality(S \ {x}) = Cardinality(S) - 1
      BY <2>1, FS_RemoveElement
    <3> QED
      BY <3>1
  <2>4. PICK r : Lists(r, R, w)
    BY <1>2, <2>3
  <2> DEFINE s == [k \in 1 .. c + 1 |-> IF k = 1 THEN x ELSE r[k - 1]]
  <2>5. \A k \in 1 .. c + 1 : /\ s[k] \in S
                              /\ k = 1 => s[k] = x
                              /\ k # 1 => k - 1 \in 1 .. c /\ s[k] = r[k - 1] /\ s[k] \in R
    <3> TAKE k \in 1 .. c + 1
    <3>1. k # 1 => k - 1 \in 1 .. c
      OBVIOUS
    <3> QED
      BY <2>3, <2>4, <3>1 DEF Lists
  <2>6. s \in [1 .. c + 1 -> S]
    BY <2>5
  <2> HIDE DEF s
  <2>7. \A j, k \in 1 .. c + 1 : j # k => s[j] # s[k]
    <3> TAKE j, k \in 1 .. c + 1
    <3> HAVE j # k
    <3>1. CASE j = 1 \/ k = 1
      BY <2>5, <3>1
    <3>2. CASE j # 1 /\ k # 1
      <4>1. j - 1 # k - 1 /\ j - 1 \in 1 .. Cardinality(R) /\ k - 1 \in 1 .. Cardinality(R)
        BY <2>3, <3>2
      <4>2. r[j - 1] # r[k - 1]
        BY <2>4, <4>1 DEF Lists
      <4> QED
        BY <2>5, <3>2, <4>2
    <3> QED
      BY <3>1, <3>2
  <2>8. \A j, k \in 1 .. c + 1 : j < k => w[s[j]] <= w[s[k]]
    <3> TAKE j, k \in 1 .. c + 1
    <3> HAVE j < k
    <3>0. k # 1
      OBVIOUS
    <3>1. CASE j = 1
      BY <2>2, <2>5, <3>1
    <3>2. CASE j # 1
      <4>1. j - 1 < k - 1 /\ j - 1 \in 1 .. Cardinality(R) /\ k - 1 \in 1 .. Cardinality(R)
        BY <2>3, <3>0, <3>2
      <4>2. w[r[j - 1]] <= w[r[k - 1]]
        BY <2>4, <4>1 DEF Lists
      <4> QED
        BY <2>5, <3>0, <3>2, <4>2
    <3> QED
      BY <3>1, <3>2
  <2> QED
    BY <2>6, <2>7, <2>8 DEF Lists
<1>3. Cardinality(T) \in Nat
  BY FS_CardinalityType
<1>4. Cardinality(T) \in Sizes
  <2> HIDE DEF Sizes
  <2>1. Sizes \subseteq Nat
    BY DEF Sizes
  <2>2. Sizes = Nat
    BY <1>1, <1>2, <2>1, SetInduction
  <2> QED
    BY <1>3, <2>2
<1> QED
  BY <1>4

\* The rows of the list of assignments are distinct numbers.
LEMMA InOrderIs ==
  ASSUME NEW S \in SUBSET Numbers
  PROVE  /\ InOrder(S) \in [1 .. Cardinality(S) -> S]
         /\ \A j, k \in 1 .. Cardinality(S) : j < k => InOrder(S)[j] < InOrder(S)[k]
         /\ Cardinality(S) \in Nat
<1>1. IsFiniteSet(S) /\ S \subseteq Nat
  <2>1. IsFiniteSet(1 .. MaxAssignments)
    BY AssignmentsAssumption, FS_Interval
  <2>2. Numbers \subseteq Nat
    BY AssignmentsAssumption DEF Numbers
  <2> QED
    BY <2>1, <2>2, FS_Subset DEF Numbers
<1>2. Cardinality(S) \in Nat
  BY <1>1, FS_CardinalityType
<1> DEFINE w == [x \in S |-> x]
<1>3. PICK s : Lists(s, S, w)
  <2>1. w \in [S -> Nat]
    BY <1>1
  <2> HIDE DEF w
  <2> QED
    BY <1>1, <2>1, ListingExists
<1>4. s \in [1 .. Cardinality(S) -> S] /\ \A j, k \in DOMAIN s : j < k => s[j] < s[k]
  <2>1. s \in [1 .. Cardinality(S) -> S] /\ DOMAIN s = 1 .. Cardinality(S)
    BY <1>3 DEF Lists
  <2>2. ASSUME NEW j \in DOMAIN s, NEW k \in DOMAIN s, j < k PROVE s[j] < s[k]
    <3>1. s[j] # s[k] /\ w[s[j]] <= w[s[k]]
      <4> HIDE DEF w
      <4> QED
        BY <1>3, <2>1, <2>2 DEF Lists
    <3>2. s[j] \in Nat /\ s[k] \in Nat /\ w[s[j]] = s[j] /\ w[s[k]] = s[k]
      BY <1>1, <2>1, <2>2
    <3> QED
      BY <3>1, <3>2
  <2> QED
    BY <2>1, <2>2
<1>5. /\ InOrder(S) \in [1 .. Cardinality(S) -> S]
      /\ \A j, k \in DOMAIN InOrder(S) : j < k => InOrder(S)[j] < InOrder(S)[k]
  BY <1>4 DEF InOrder
<1> QED
  BY <1>2, <1>5

\* The rows of a page of items are the items, in the order of their numbers.
LEMMA BySequenceIs ==
  ASSUME items \in Seq(ItemRow), NEW S \in SUBSET DOMAIN items
  PROVE  /\ BySequence(S) \in [1 .. Cardinality(S) -> S]
         /\ \A j, k \in 1 .. Cardinality(S) : j # k => BySequence(S)[j] # BySequence(S)[k]
         /\ \A j, k \in 1 .. Cardinality(S) : j < k => items[BySequence(S)[j]].seq <= items[BySequence(S)[k]].seq
         /\ IsFiniteSet(S) /\ Cardinality(S) \in Nat
<1>1. IsFiniteSet(S) /\ S \subseteq Nat
  <2>1. DOMAIN items = 1 .. Len(items) /\ Len(items) \in Nat
    OBVIOUS
  <2>2. IsFiniteSet(1 .. Len(items))
    BY <2>1, FS_Interval
  <2> QED
    BY <2>1, <2>2, FS_Subset
<1>2. Cardinality(S) \in Nat
  BY <1>1, FS_CardinalityType
<1> DEFINE w == [x \in S |-> items[x].seq]
<1>3. PICK s : Lists(s, S, w)
  <2>1. w \in [S -> Nat]
    <3>1. \A x \in S : items[x] \in ItemRow
      OBVIOUS
    <3> QED
      BY <3>1 DEF ItemRow
  <2> HIDE DEF w
  <2> QED
    BY <1>1, <2>1, ListingExists
<1>4. /\ s \in [1 .. Cardinality(S) -> S]
      /\ \A j, k \in DOMAIN s : j # k => s[j] # s[k]
      /\ \A j, k \in DOMAIN s : j < k => items[s[j]].seq <= items[s[k]].seq
  <2>1. s \in [1 .. Cardinality(S) -> S] /\ DOMAIN s = 1 .. Cardinality(S)
    BY <1>3 DEF Lists
  <2>2. ASSUME NEW j \in DOMAIN s, NEW k \in DOMAIN s, j < k PROVE items[s[j]].seq <= items[s[k]].seq
    <3>1. w[s[j]] <= w[s[k]]
      <4> HIDE DEF w
      <4> QED
        BY <1>3, <2>1, <2>2 DEF Lists
    <3>2. w[s[j]] = items[s[j]].seq /\ w[s[k]] = items[s[k]].seq
      BY <2>1, <2>2
    <3> QED
      BY <3>1, <3>2
  <2> HIDE DEF w
  <2> QED
    BY <1>3, <2>1, <2>2 DEF Lists
<1>5. /\ BySequence(S) \in [1 .. Cardinality(S) -> S]
      /\ \A j, k \in DOMAIN BySequence(S) : j # k => BySequence(S)[j] # BySequence(S)[k]
      /\ \A j, k \in DOMAIN BySequence(S) :
           j < k => items[BySequence(S)[j]].seq <= items[BySequence(S)[k]].seq
  BY <1>4 DEF BySequence
<1> QED
  BY <1>1, <1>2, <1>5

-----------------------------------------------------------------------------
(* Pages *)

LEMMA PageParts ==
  ASSUME NEW A, NEW p \in PageRow(A)
  PROVE  /\ \A n \in DOMAIN p.asgn : n \in Numbers /\ p.asgn[n] \in AssignmentRow
         /\ \A n \in DOMAIN p.sub : n \in Numbers /\ p.sub[n] \in SubmissionRow
         /\ p.old \subseteq Numbers /\ p.rows \in Seq(Nat)
         /\ p.asgn \in TableOf(Numbers, AssignmentRow) /\ p.sub \in TableOf(Numbers, SubmissionRow)
         /\ p.vers \in TableOf(Nat, Nat)
<1>1. /\ p.asgn \in TableOf(Numbers, AssignmentRow) /\ p.sub \in TableOf(Numbers, SubmissionRow)
      /\ p.old \subseteq Numbers /\ p.rows \in Seq(Nat) /\ p.vers \in TableOf(Nat, Nat)
  BY DEF PageRow
<1>2. /\ DOMAIN p.asgn \subseteq Numbers /\ p.asgn \in [DOMAIN p.asgn -> AssignmentRow]
      /\ DOMAIN p.sub \subseteq Numbers /\ p.sub \in [DOMAIN p.sub -> SubmissionRow]
  BY <1>1, TableIs
<1> QED
  BY <1>1, <1>2

LEMMA EmptyIsPage ==
  ASSUME NEW A, None \in A
  PROVE  /\ EmptyPage \in PageRow(A)
         /\ EmptyPage.kind = "none" /\ DOMAIN EmptyPage.asgn = {} /\ DOMAIN EmptyPage.sub = {}
         /\ DOMAIN EmptyPage.drawn = {} /\ EmptyPage.old = {} /\ EmptyPage.asked = None
<1>1. /\ <<>> \in TableOf(Numbers, AssignmentRow) /\ <<>> \in TableOf(Numbers, SubmissionRow)
      /\ <<>> \in TableOf(Nat, Nat) /\ <<>> \in TableOf(Numbers, SUBSET {"submit", "evaluate"})
      /\ DOMAIN <<>> = {} /\ <<>> \in Seq(Nat)
  BY EmptyTable
<1> QED
  BY <1>1 DEF EmptyPage, PageRow

LEMMA KeptIsPage ==
  ASSUME NEW A, None \in A, NEW p \in PageRow(A) \cup {None}
  PROVE  Kept(p) \in PageRow(A) /\ (p = None => Kept(p) = EmptyPage) /\ (p # None => Kept(p) = p)
BY EmptyIsPage DEF Kept

LEMMA AgedPage ==
  ASSUME NEW A, NEW p \in PageRow(A), p # None, NEW S
  PROVE  /\ Aged(p, S) \in PageRow(A)
         /\ Aged(p, S).kind = p.kind /\ Aged(p, S).of = p.of /\ Aged(p, S).rows = p.rows
         /\ Aged(p, S).asgn = p.asgn /\ Aged(p, S).sub = p.sub /\ Aged(p, S).vers = p.vers
         /\ Aged(p, S).drawn = p.drawn /\ Aged(p, S).asked = p.asked /\ Aged(p, S).consent = p.consent
         /\ Aged(p, S).old = p.old \cup (S \cap DOMAIN p.sub)
<1>1. Aged(p, S) = [p EXCEPT !.old = p.old \cup (S \cap DOMAIN p.sub)]
  BY DEF Aged
<1>2. p.old \cup (S \cap DOMAIN p.sub) \in SUBSET Numbers
  BY PageParts
<1> QED
  BY <1>1, <1>2 DEF PageRow

\* A row whose version grows when it changes, and goes for good as far as the
\* copies count, leaves the copies what they are.
LEMMA CopiesStay ==
  ASSUME NEW p, NEW q, NEW asgn, NEW asgn2, NEW subs, NEW subs2, NEW gone, NEW gone2,
         CopiesOK(p, asgn, subs, gone),
         q.asgn = p.asgn, q.sub = p.sub, q.kind = p.kind, p.old \subseteq q.old,
         \A n \in DOMAIN p.asgn : p.asgn[n].ver \in Nat,
         \A n \in DOMAIN asgn : asgn[n].ver \in Nat,
         \A n \in DOMAIN p.asgn : gone2[n] = 0 =>
           /\ gone[n] = 0
           /\ n \in DOMAIN asgn => /\ n \in DOMAIN asgn2
                                   /\ \/ asgn2[n] = asgn[n]
                                      \/ asgn2[n].ver = asgn[n].ver + 1,
         \A n \in DOMAIN subs : n \in DOMAIN p.sub \ q.old => n \in DOMAIN subs2 /\ subs2[n] = subs[n]
  PROVE  CopiesOK(q, asgn2, subs2, gone2)
BY DEF CopiesOK

\* Items keep their assignment and number, and their evaluation as long as
\* they are there.
Evolves(table, table2, done, done2) ==
  \A i \in DOMAIN table :
    /\ i \in DOMAIN table2 /\ table2[i].of = table[i].of /\ table2[i].seq = table[i].seq
    /\ table2[i].live => table[i].live /\ (i \in done => i \in done2)

LEMMA StudentStays ==
  ASSUME NEW p \in StudentPage, NEW q, NEW table, NEW table2, NEW done, NEW done2,
         NEW time \in Nat, NEW time2 \in Nat, time <= time2,
         StudentOK(p, table, done, time), Evolves(table, table2, done, done2),
         q.asgn = p.asgn, q.sub = p.sub, q.drawn = p.drawn, q.kind = p.kind, q.of = p.of,
         q.rows = p.rows, q.asked = p.asked, q.consent = p.consent
  PROVE  StudentOK(q, table2, done2, time2)
<1>1. /\ \A n \in DOMAIN p.asgn : p.asgn[n] \in AssignmentRow
      /\ \A n \in DOMAIN p.sub : p.sub[n] \in SubmissionRow
  BY PageParts DEF StudentPage
<1>2. DOMAIN q.drawn \subseteq DOMAIN q.asgn \cap DOMAIN q.sub
  BY DEF StudentOK
<1>3. \A n \in DOMAIN q.drawn : "evaluate" \in q.drawn[n] => q.asgn[n].open < time2
  BY <1>1, <1>2 DEF StudentOK, AssignmentRow
<1>4. q.kind = "home" /\ q.asked # None => q.asked \in DOMAIN q.drawn
  BY DEF StudentOK
<1>5. ASSUME q.kind = "eval"
      PROVE  /\ q.of \in DOMAIN q.asgn \cap DOMAIN q.sub
             /\ \A k \in DOMAIN q.rows : q.rows[k] \in DOMAIN table2 /\ table2[q.rows[k]].of = q.of
             /\ q.consent \/ ClosedBy(q, q.of, time2)
                 \/ \A k \in DOMAIN q.rows :
                      table2[q.rows[k]].live /\ table2[q.rows[k]].seq = 1 => q.rows[k] \in done2
  <2>1. /\ p.of \in DOMAIN p.asgn \cap DOMAIN p.sub
        /\ \A k \in DOMAIN p.rows : p.rows[k] \in DOMAIN table /\ table[p.rows[k]].of = p.of
        /\ p.consent \/ ClosedBy(p, p.of, time)
            \/ \A k \in DOMAIN p.rows :
                 table[p.rows[k]].live /\ table[p.rows[k]].seq = 1 => p.rows[k] \in done
    BY <1>5 DEF StudentOK
  <2>2. ClosedBy(p, p.of, time) => ClosedBy(q, q.of, time2)
    BY <1>1, <2>1 DEF ClosedBy, AssignmentRow, SubmissionRow
  <2> QED
    BY <2>1, <2>2 DEF Evolves
<1> QED
  BY <1>2, <1>3, <1>4, <1>5 DEF StudentOK

-----------------------------------------------------------------------------
(* Steps that write no assignment and no submission *)

LEMMA DbRows ==
  ASSUME TypeOK
  PROVE  /\ \A n \in DOMAIN assignments : n \in Numbers /\ assignments[n] \in AssignmentRow
         /\ \A n \in DOMAIN submissions : n \in Numbers /\ submissions[n] \in SubmissionRow
         /\ \A i \in DOMAIN items : i \in Nat /\ items[i] \in ItemRow
         /\ DOMAIN items = 1 .. Len(items) /\ Len(items) \in Nat
         /\ \A n \in Numbers : n \in Nat /\ removed[n] \in Nat
<1>1. /\ DOMAIN assignments \subseteq Numbers /\ assignments \in [DOMAIN assignments -> AssignmentRow]
      /\ DOMAIN submissions \subseteq Numbers /\ submissions \in [DOMAIN submissions -> SubmissionRow]
  BY TableIs DEF TypeOK
<1>2. items \in Seq(ItemRow)
  BY DEF TypeOK
<1>3. \A n \in Numbers : n \in Nat /\ removed[n] \in Nat
  BY AssignmentsAssumption DEF TypeOK, Numbers
<1> QED
  BY <1>1, <1>2, <1>3

ItemTable(table, done) ==
  /\ table \in Seq(ItemRow)
  /\ FirstItems(table)
  /\ \A i \in done : i \in DOMAIN table /\ table[i].live

LEMMA ItemTableIs == TypeOK /\ FirstItems(items) => ItemTable(items, evals)
BY DEF TypeOK, ItemTable, LiveItems

LEMMA SameItems == Evolves(items, items, evals, evals)
BY DEF Evolves

\* The page of administrator a becomes q.
Becomes(a, q) == pages' = [b \in Admins |-> IF b = a THEN q ELSE pages[b]]

LEMMA PageStep ==
  ASSUME IInv, NEW a \in Admins, NEW q \in AdminPage \cup {None}, Becomes(a, q),
         q # None => CopiesOK(q, assignments, submissions, removed),
         ItemTable(items', evals'), Evolves(items, items', evals, evals'),
         UNCHANGED <<now, assignments, submissions, student, removed>>,
         writes' \in Nat, overlapped' \in BOOLEAN
  PROVE  IInv'
<1>1. \A b \in Admins : pages'[b] = IF b = a THEN q ELSE pages[b]
  BY DEF Becomes
<1>2. pages' \in [Admins -> AdminPage \cup {None}]
  BY DEF Becomes, IInv, TypeOK
<1>3. TypeOK'
  BY <1>2 DEF IInv, TypeOK, ItemTable, LiveItems
<1>4. \A b \in Admins : pages'[b] # None => CopiesOK(pages'[b], assignments', submissions', removed')
  BY <1>1 DEF IInv
<1>5. student' # None => StudentOK(student', items', evals', now')
  <2> SUFFICES ASSUME student # None PROVE StudentOK(student, items', evals', now)
    OBVIOUS
  <2>1. student \in StudentPage /\ StudentOK(student, items, evals, now) /\ now \in Nat /\ now <= now
    BY DEF IInv, TypeOK
  <2> QED
    BY <2>1, StudentStays
<1> QED
  BY <1>3, <1>4, <1>5 DEF IInv, ItemTable

\* A session that is over.
LEMMA AdminDiesStep ==
  ASSUME IInv, NEW a \in Admins, AdminDies(a)
  PROVE  IInv'
<1>1. Becomes(a, None)
  BY DEF AdminDies, Becomes, IInv, TypeOK
<1>2. UNCHANGED <<now, assignments, submissions, student, removed, items, evals, writes, overlapped>>
  BY DEF AdminDies, db, rest
<1>3. ItemTable(items', evals') /\ Evolves(items, items', evals, evals')
  BY <1>2, ItemTableIs, SameItems DEF IInv
<1>4. writes' \in Nat /\ overlapped' \in BOOLEAN
  BY <1>2 DEF IInv, TypeOK
<1> QED
  BY <1>1, <1>2, <1>3, <1>4, PageStep

\* A page that keeps its copies.
SameCopies(p, q) == q.asgn = p.asgn /\ q.sub = p.sub /\ q.old = p.old /\ q.kind = p.kind

LEMMA SameCopiesOK ==
  ASSUME NEW p, NEW q, SameCopies(p, q), NEW asgn, NEW subs, NEW gone, CopiesOK(p, asgn, subs, gone)
  PROVE  CopiesOK(q, asgn, subs, gone)
BY DEF SameCopies, CopiesOK

LEMMA AdminHas ==
  ASSUME IInv, NEW a \in Admins, NEW kind \in {"list", "items", "home"}, Kept(pages[a]).kind = kind
  PROVE  /\ pages[a] # None /\ pages[a] \in AdminPage /\ Kept(pages[a]) = pages[a]
         /\ pages[a].kind = kind
         /\ CopiesOK(pages[a], assignments, submissions, removed)
<1>1. None \in Questions \cup {None}
  OBVIOUS
<1>2. pages[a] # None
  BY <1>1, EmptyIsPage DEF Kept
<1> QED
  BY <1>2 DEF Kept, IInv, TypeOK

LEMMA AdminKept ==
  ASSUME IInv, NEW a \in Admins
  PROVE  /\ Kept(pages[a]) \in AdminPage
         /\ CopiesOK(Kept(pages[a]), assignments, submissions, removed)
<1>1. None \in Questions \cup {None} /\ pages[a] \in AdminPage \cup {None}
  BY DEF IInv, TypeOK
<1>2. CASE pages[a] = None
  <2>1. Kept(pages[a]) = EmptyPage
    BY <1>2 DEF Kept
  <2> QED
    BY <1>1, <2>1, EmptyIsPage DEF CopiesOK, AdminPage
<1>3. CASE pages[a] # None
  BY <1>1, <1>3 DEF Kept, IInv
<1> QED
  BY <1>2, <1>3

LEMMA QuietStep ==
  ASSUME IInv, NEW a \in Admins, NEW q \in AdminPage, Becomes(a, q),
         CopiesOK(q, assignments, submissions, removed),
         UNCHANGED <<now, assignments, items, submissions, evals, student, removed>>,
         writes' = writes, overlapped' \in BOOLEAN
  PROVE  IInv'
<1>1. ItemTable(items', evals') /\ Evolves(items, items', evals, evals')
  BY ItemTableIs, SameItems DEF IInv
<1>2. writes' \in Nat
  BY DEF IInv, TypeOK
<1> QED
  BY <1>1, <1>2, PageStep

\* Copies that were just loaded, or were there before.
LEMMA NewCopies ==
  ASSUME IInv, NEW a \in Admins, NEW S, S \subseteq DOMAIN assignments,
         NEW q, q.asgn = Copies(assignments, S, Kept(pages[a]).asgn), DOMAIN q.sub = {}
  PROVE  /\ q.asgn \in TableOf(Numbers, AssignmentRow)
         /\ CopiesOK(q, assignments, submissions, removed)
<1> DEFINE kept == Kept(pages[a]).asgn
<1>1. assignments \in TableOf(Numbers, AssignmentRow) /\ kept \in TableOf(Numbers, AssignmentRow)
  BY AdminKept, PageParts DEF IInv, TypeOK, AdminPage
<1>2. /\ q.asgn \in TableOf(Numbers, AssignmentRow) /\ DOMAIN q.asgn = S
      /\ \A n \in S : q.asgn[n] = IF n \in DOMAIN kept THEN kept[n] ELSE assignments[n]
  BY <1>1, CopiesTable
<1>3. \A n \in S : n \in DOMAIN kept /\ removed[n] = 0 =>
        /\ kept[n].ver <= assignments[n].ver
        /\ kept[n].ver = assignments[n].ver => kept[n] = assignments[n]
  BY AdminKept DEF CopiesOK
<1>4. \A n \in S : assignments[n].ver \in Nat
  BY DbRows DEF IInv, AssignmentRow
<1> HIDE DEF kept
<1> QED
  BY <1>2, <1>3, <1>4 DEF CopiesOK

LEMMA ShowBecomes ==
  ASSUME IInv, NEW a \in Admins, NEW q, Show(a, q)
  PROVE  Becomes(a, q) /\ overlapped' \in BOOLEAN
BY DEF Show, Becomes, IInv, TypeOK

LEMMA OpenListStep ==
  ASSUME IInv, NEW a \in Admins, OpenList(a)
  PROVE  IInv'
<1> DEFINE rows == InOrder(DOMAIN assignments)
           asgn == Copies(assignments, DOMAIN assignments, Kept(pages[a]).asgn)
           q == [EmptyPage EXCEPT !.kind = "list", !.rows = rows, !.asgn = asgn]
<1>1. EmptyPage \in AdminPage
  BY EmptyIsPage DEF AdminPage
<1>2. q.asgn = asgn /\ q.sub = EmptyPage.sub /\ DOMAIN q.sub = {}
  BY <1>1, EmptyIsPage DEF AdminPage, PageRow
<1>3. q.asgn \in TableOf(Numbers, AssignmentRow) /\ CopiesOK(q, assignments, submissions, removed)
  <2> HIDE DEF q
  <2> QED
    BY <1>2, NewCopies
<1>4. rows \in Seq(Nat)
  <2>1. DOMAIN assignments \subseteq Numbers /\ Numbers \subseteq Nat
    BY TableIs, AssignmentsAssumption DEF IInv, TypeOK, Numbers
  <2>2. rows \in [1 .. Cardinality(DOMAIN assignments) -> Nat] /\ Cardinality(DOMAIN assignments) \in Nat
    BY <2>1, InOrderIs
  <2> HIDE DEF rows
  <2> QED
    BY <2>2
<1>5. q \in AdminPage
  <2> HIDE DEF rows, asgn
  <2> QED
    BY <1>1, <1>2, <1>3, <1>4 DEF AdminPage, PageRow
<1>6. Becomes(a, q) /\ overlapped' \in BOOLEAN
  <2>1. Show(a, q)
    BY DEF OpenList
  <2> HIDE DEF q
  <2> QED
    BY <2>1, ShowBecomes
<1>7. UNCHANGED <<now, assignments, items, submissions, evals, student, writes, removed>>
  BY DEF OpenList, db
<1> HIDE DEF q
<1> QED
  BY <1>3, <1>5, <1>6, <1>7, QuietStep

LEMMA OpenItemsStep ==
  ASSUME IInv, NEW a \in Admins, NEW n \in Numbers, OpenItems(a, n)
  PROVE  IInv'
<1> DEFINE rows == BySequence(ItemsOf(n))
           current == [i \in DOMAIN items |-> items[i].ver]
           vers == Copies(current, ItemsOf(n), Kept(pages[a]).vers)
           asgn == Copies(assignments, {n}, Kept(pages[a]).asgn)
           q == [EmptyPage EXCEPT !.kind = "items", !.of = n, !.rows = rows, !.vers = vers, !.asgn = asgn]
<1>1. EmptyPage \in AdminPage /\ n \in DOMAIN assignments
  BY EmptyIsPage DEF AdminPage, OpenItems
<1>2. q.asgn = asgn /\ q.sub = EmptyPage.sub /\ DOMAIN q.sub = {}
  BY <1>1, EmptyIsPage DEF AdminPage, PageRow
<1>3. q.asgn \in TableOf(Numbers, AssignmentRow) /\ CopiesOK(q, assignments, submissions, removed)
  <2>1. {n} \subseteq DOMAIN assignments
    BY <1>1
  <2> HIDE DEF q
  <2> QED
    BY <1>2, <2>1, NewCopies
<1>4. ItemsOf(n) \subseteq DOMAIN items /\ DOMAIN items \subseteq Nat
  BY DbRows DEF ItemsOf, LiveItems, IInv
<1>5. rows \in Seq(Nat)
  <2>1. rows \in [1 .. Cardinality(ItemsOf(n)) -> Nat] /\ Cardinality(ItemsOf(n)) \in Nat
    BY <1>4, BySequenceIs DEF IInv, TypeOK
  <2> HIDE DEF rows
  <2> QED
    BY <2>1
<1>6. vers \in TableOf(Nat, Nat)
  <2>1. current \in [DOMAIN items -> Nat]
    BY DbRows DEF IInv, ItemRow
  <2>2. current \in TableOf(Nat, Nat) /\ DOMAIN current = DOMAIN items
    BY <1>4, <2>1, TableMade
  <2>3. Kept(pages[a]).vers \in TableOf(Nat, Nat)
    BY AdminKept, PageParts DEF AdminPage
  <2> HIDE DEF current
  <2> QED
    BY <1>4, <2>2, <2>3, CopiesTable
<1>7. q \in AdminPage
  <2> HIDE DEF rows, asgn, vers
  <2> QED
    BY <1>1, <1>2, <1>3, <1>5, <1>6 DEF AdminPage, PageRow
<1>8. Becomes(a, q) /\ overlapped' \in BOOLEAN
  <2>1. Show(a, q)
    BY DEF OpenItems
  <2> HIDE DEF q
  <2> QED
    BY <2>1, ShowBecomes
<1>9. UNCHANGED <<now, assignments, items, submissions, evals, student, writes, removed>>
  BY DEF OpenItems, db
<1> HIDE DEF q
<1> QED
  BY <1>3, <1>7, <1>8, <1>9, QuietStep

\* A dialog that opens or closes.
LEMMA AskedPage ==
  ASSUME NEW p \in AdminPage, NEW asked \in Questions \cup {None}
  PROVE  /\ [p EXCEPT !.asked = asked] \in AdminPage
         /\ SameCopies(p, [p EXCEPT !.asked = asked])
         /\ [p EXCEPT !.asked = asked].kind = p.kind /\ [p EXCEPT !.asked = asked].rows = p.rows
         /\ [p EXCEPT !.asked = asked].of = p.of /\ [p EXCEPT !.asked = asked].asked = asked
BY DEF AdminPage, PageRow, SameCopies

LEMMA AskedStep ==
  ASSUME IInv, NEW a \in Admins, pages[a] # None, NEW asked \in Questions \cup {None},
         pages' = [pages EXCEPT ![a].asked = asked], UNCHANGED <<db, student, rest>>
  PROVE  IInv'
<1> DEFINE q == [pages[a] EXCEPT !.asked = asked]
<1>1. pages[a] \in AdminPage /\ CopiesOK(pages[a], assignments, submissions, removed)
  BY DEF IInv, TypeOK
<1>2. q \in AdminPage /\ CopiesOK(q, assignments, submissions, removed)
  BY <1>1, AskedPage, SameCopiesOK
<1>3. Becomes(a, q)
  BY DEF Becomes, IInv, TypeOK
<1>4. UNCHANGED <<now, assignments, items, submissions, evals, student, removed, writes, overlapped>>
  BY DEF db, rest
<1>5. overlapped' \in BOOLEAN
  BY <1>4 DEF IInv, TypeOK
<1> HIDE DEF q
<1> QED
  BY <1>2, <1>3, <1>4, <1>5, QuietStep

LEMMA FewerAssignmentsStep ==
  ASSUME IInv, NEW a \in Admins, FewerAssignments(a)
  PROVE  IInv'
<1> DEFINE n == Last(pages[a].rows)
           asked == [shown |-> n \in DOMAIN submissions \/ ItemsOf(n) # {}, had |-> EvalsOf(n)]
<1>1. /\ Free(a, "list") /\ pages' = [pages EXCEPT ![a].asked = asked]
      /\ UNCHANGED <<db, student, rest>>
  BY DEF FewerAssignments, Ask
<1>2. evals \subseteq LiveItems /\ LiveItems \subseteq Nat
  BY DbRows DEF IInv, TypeOK, LiveItems
<1>3. EvalsOf(n) \subseteq ItemsOf(n) /\ EvalsOf(n) \subseteq Nat
  <2> HIDE DEF n
  <2> QED
    BY <1>2 DEF EvalsOf, ItemsOf
<1>4. asked \in Questions
  <2>1. (n \in DOMAIN submissions \/ ItemsOf(n) # {}) \in BOOLEAN
    OBVIOUS
  <2> HIDE DEF n
  <2> QED
    BY <1>3, <2>1 DEF Questions
<1>5. pages[a] # None
  BY <1>1, AdminHas DEF Free
<1> HIDE DEF asked
<1> QED
  BY <1>1, <1>4, <1>5, AskedStep

LEMMA FewerItemsStep ==
  ASSUME IInv, NEW a \in Admins, FewerItems(a)
  PROVE  IInv'
<1> DEFINE had == evals \cap {Last(pages[a].rows)}
           asked == [shown |-> had # {}, had |-> had]
<1>1. /\ Free(a, "items") /\ pages' = [pages EXCEPT ![a].asked = asked]
      /\ UNCHANGED <<db, student, rest>>
  BY DEF FewerItems, Ask
<1>2. evals \subseteq LiveItems /\ LiveItems \subseteq Nat
  BY DbRows DEF IInv, TypeOK, LiveItems
<1>3. asked \in Questions
  <2>1. (had # {}) \in BOOLEAN /\ had \subseteq Nat
    BY <1>2
  <2> HIDE DEF had
  <2> QED
    BY <2>1 DEF Questions
<1>4. pages[a] # None
  BY <1>1, AdminHas DEF Free
<1> HIDE DEF asked
<1> QED
  BY <1>1, <1>3, <1>4, AskedStep

LEMMA DeclineStep ==
  ASSUME IInv, NEW a \in Admins, Decline(a)
  PROVE  IInv'
<1>1. pages[a] # None
  BY EmptyIsPage DEF Decline, Unasked, Kept
<1> QED
  BY <1>1, AskedStep DEF Decline

-----------------------------------------------------------------------------
(* Steps that write items *)

RowsPage(p, rows, vers, asked) == [p EXCEPT !.rows = rows, !.vers = vers, !.asked = asked]

LEMMA RowsPageIs ==
  ASSUME NEW p \in AdminPage, NEW rows \in Seq(Nat), NEW vers \in TableOf(Nat, Nat),
         NEW asked \in Questions \cup {None}
  PROVE  /\ RowsPage(p, rows, vers, asked) \in AdminPage
         /\ SameCopies(p, RowsPage(p, rows, vers, asked))
         /\ RowsPage(p, rows, vers, asked).kind = p.kind /\ RowsPage(p, rows, vers, asked).of = p.of
         /\ RowsPage(p, rows, vers, asked).rows = rows /\ RowsPage(p, rows, vers, asked).asked = asked
BY DEF AdminPage, PageRow, RowsPage, SameCopies

LEMMA ItemsPageStep ==
  ASSUME IInv, NEW a \in Admins, pages[a] # None,
         NEW rows \in Seq(Nat), NEW vers \in TableOf(Nat, Nat), NEW asked \in Questions \cup {None},
         Becomes(a, RowsPage(pages[a], rows, vers, asked)),
         ItemTable(items', evals'), Evolves(items, items', evals, evals'),
         UNCHANGED <<now, assignments, submissions, student, removed, overlapped>>, Enough
  PROVE  IInv'
<1> DEFINE q == RowsPage(pages[a], rows, vers, asked)
<1>1. pages[a] \in AdminPage /\ CopiesOK(pages[a], assignments, submissions, removed)
  BY DEF IInv, TypeOK
<1>2. q \in AdminPage /\ SameCopies(pages[a], q)
  BY <1>1, RowsPageIs
<1> HIDE DEF q
<1>3. CopiesOK(q, assignments, submissions, removed)
  BY <1>1, <1>2, SameCopiesOK
<1>4. writes' \in Nat /\ overlapped' \in BOOLEAN
  BY DEF Enough, IInv, TypeOK
<1>5. Becomes(a, q)
  BY DEF q
<1> QED
  BY <1>2, <1>3, <1>4, <1>5, PageStep

\* The number of a new item is one more than there are items.
LEMMA NextNumber ==
  ASSUME TypeOK, NEW n
  PROVE  /\ Cardinality(ItemsOf(n)) \in Nat /\ IsFiniteSet(ItemsOf(n))
         /\ Cardinality(ItemsOf(n)) + 1 = 1 <=> ItemsOf(n) = {}
<1>1. DOMAIN items = 1 .. Len(items) /\ Len(items) \in Nat
  BY DbRows
<1>2. IsFiniteSet(DOMAIN items)
  BY <1>1, FS_Interval
<1>3. IsFiniteSet(ItemsOf(n))
  BY <1>2, FS_Subset DEF ItemsOf, LiveItems
<1>4. Cardinality(ItemsOf(n)) \in Nat
  BY <1>3, FS_CardinalityType
<1>5. Cardinality(ItemsOf(n)) = 0 <=> ItemsOf(n) = {}
  BY <1>3, FS_EmptySet
<1> QED
  BY <1>3, <1>4, <1>5

LEMMA ItemAppended ==
  ASSUME IInv, NEW row \in ItemRow, row.live, row.seq = Cardinality(ItemsOf(row.of)) + 1,
         items' = Append(items, row), evals' = evals
  PROVE  ItemTable(items', evals') /\ Evolves(items, items', evals, evals')
<1>1. items \in Seq(ItemRow) /\ DOMAIN items = 1 .. Len(items) /\ Len(items) \in Nat
  BY DbRows DEF IInv, TypeOK
<1>2. /\ items' \in Seq(ItemRow) /\ DOMAIN items' = 1 .. Len(items) + 1
      /\ items'[Len(items) + 1] = row
      /\ \A i \in DOMAIN items : items'[i] = items[i]
  BY <1>1
<1>3. FirstItems(items')
  <2> SUFFICES ASSUME NEW i \in DOMAIN items', NEW j \in DOMAIN items',
                      items'[i].live, items'[j].live, items'[i].of = items'[j].of,
                      items'[i].seq = 1, items'[j].seq = 1, i # j
               PROVE  FALSE
    BY DEF FirstItems
  <2>1. CASE i \in DOMAIN items /\ j \in DOMAIN items
    BY <1>2, <2>1 DEF IInv, FirstItems
  <2>2. ASSUME NEW k \in DOMAIN items, items[k].live, items[k].of = row.of, row.seq = 1 PROVE FALSE
    <3>1. k \in ItemsOf(row.of)
      BY <2>2 DEF ItemsOf, LiveItems
    <3> QED
      BY <2>2, <3>1, NextNumber DEF IInv
  <2>3. CASE i \notin DOMAIN items
    <3>1. i = Len(items) + 1 /\ j \in DOMAIN items
      BY <1>1, <1>2, <2>3
    <3> QED
      BY <1>2, <2>2, <3>1
  <2>4. CASE j \notin DOMAIN items
    <3>1. j = Len(items) + 1 /\ i \in DOMAIN items
      BY <1>1, <1>2, <2>4
    <3> QED
      BY <1>2, <2>2, <3>1
  <2> QED
    BY <2>1, <2>3, <2>4
<1>4. \A i \in evals : i \in DOMAIN items' /\ items'[i].live
  BY <1>1, <1>2 DEF IInv, TypeOK, LiveItems
<1>5. Evolves(items, items', evals, evals')
  BY <1>1, <1>2 DEF Evolves
<1> QED
  BY <1>2, <1>3, <1>4, <1>5 DEF ItemTable

LEMMA MoreItemsStep ==
  ASSUME IInv, NEW a \in Admins, MoreItems(a)
  PROVE  IInv'
<1> DEFINE p == pages[a]
           n == p.of
           row == [of |-> n, seq |-> Cardinality(ItemsOf(n)) + 1, ver |-> 0, live |-> TRUE]
<1>1. CASE AdminDies(a)
  BY <1>1, AdminDiesStep
<1>2. CASE /\ n \in DOMAIN assignments /\ Enough /\ items' = Append(items, row)
           /\ pages' = [pages EXCEPT ![a].rows = Append(@, Len(items')), ![a].vers = Put(@, Len(items'), 0)]
           /\ UNCHANGED <<now, assignments, submissions, evals, student, removed, overlapped>>
  <2>1. p # None /\ p \in AdminPage
    BY AdminHas DEF MoreItems, Free
  <2>2. row \in ItemRow /\ row.live /\ row.of = n
    BY <1>2, DbRows, NextNumber DEF IInv, ItemRow
  <2>3. ItemTable(items', evals') /\ Evolves(items, items', evals, evals')
    <3>1. row.seq = Cardinality(ItemsOf(row.of)) + 1
      OBVIOUS
    <3> HIDE DEF row
    <3> QED
      BY <1>2, <2>2, <3>1, ItemAppended
  <2>4. Len(items') \in Nat
    BY <2>3 DEF ItemTable
  <2> DEFINE rows == Append(p.rows, Len(items'))
             vers == Put(p.vers, Len(items'), 0)
  <2>5. rows \in Seq(Nat) /\ vers \in TableOf(Nat, Nat)
    <3>1. p.rows \in Seq(Nat) /\ p.vers \in TableOf(Nat, Nat)
      BY <2>1, PageParts DEF AdminPage
    <3>2. vers \in TableOf(Nat, Nat)
      BY <2>4, <3>1, TablePut
    <3> QED
      BY <2>4, <3>1, <3>2
  <2>6. p.asked \in Questions \cup {None}
    BY <2>1 DEF AdminPage, PageRow
  <2>7. Becomes(a, RowsPage(p, rows, vers, p.asked))
    <3>1. RowsPage(p, rows, vers, p.asked) = [p EXCEPT !.rows = rows, !.vers = vers]
      <4> HIDE DEF rows, vers
      <4> QED
        BY <2>1 DEF RowsPage, AdminPage, PageRow
    <3>2. pages \in [Admins -> AdminPage \cup {None}]
      BY DEF IInv, TypeOK
    <3>3. pages' = [pages EXCEPT ![a] = [p EXCEPT !.rows = rows, !.vers = vers]]
      BY <1>2, <2>1, <3>2 DEF AdminPage, PageRow
    <3> HIDE DEF rows, vers
    <3> QED
      BY <3>1, <3>2, <3>3 DEF Becomes
  <2> HIDE DEF rows, vers
  <2> QED
    BY <1>2, <2>1, <2>3, <2>5, <2>6, <2>7, ItemsPageStep
<1> QED
  BY <1>1, <1>2 DEF MoreItems

\* An item that only gets another version, or goes along with its evaluation.
LEMMA ItemChanged ==
  ASSUME IInv, NEW i \in DOMAIN items, NEW row \in ItemRow,
         row.of = items[i].of, row.seq = items[i].seq, row.live => items[i].live,
         items' = [items EXCEPT ![i] = row],
         evals' = IF row.live THEN evals ELSE evals \ {i}
  PROVE  ItemTable(items', evals') /\ Evolves(items, items', evals, evals')
<1>1. items \in Seq(ItemRow) /\ FirstItems(items) /\ evals \subseteq LiveItems
  BY DEF IInv, TypeOK
<1>2. items' \in Seq(ItemRow) /\ DOMAIN items' = DOMAIN items
      /\ \A j \in DOMAIN items : items'[j] = IF j = i THEN row ELSE items[j]
  <2>1. i \in 1 .. Len(items)
    BY <1>1
  <2>2. items' \in Seq(ItemRow) /\ Len(items') = Len(items)
    BY <1>1, <2>1, ExceptSeq
  <2> QED
    BY <1>1, <2>2
<1>3. \A j \in DOMAIN items : /\ items'[j].of = items[j].of /\ items'[j].seq = items[j].seq
                              /\ items'[j].live => items[j].live
  BY <1>2
<1>4. FirstItems(items')
  BY <1>1, <1>2, <1>3 DEF FirstItems
<1>5. \A j \in evals' : j \in DOMAIN items' /\ items'[j].live
  BY <1>1, <1>2 DEF LiveItems
<1>6. Evolves(items, items', evals, evals')
  BY <1>2, <1>3 DEF Evolves
<1> QED
  BY <1>2, <1>4, <1>5, <1>6 DEF ItemTable

LEMMA SaveItemStep ==
  ASSUME IInv, NEW a \in Admins, NEW i \in DOMAIN items, SaveItem(a, i)
  PROVE  IInv'
<1> DEFINE p == pages[a]
<1>1. CASE AdminDies(a)
  BY <1>1, AdminDiesStep
<1>2. CASE /\ SameItem(a, i) /\ Enough
           /\ items' = [items EXCEPT ![i].ver = @ + 1]
           /\ pages' = [pages EXCEPT ![a].vers[i] = @ + 1]
           /\ UNCHANGED <<now, assignments, submissions, evals, student, removed, overlapped>>
  <2>1. p # None /\ p \in AdminPage /\ i \in DOMAIN p.vers
    BY AdminHas DEF SaveItem, Free
  <2> DEFINE row == [items[i] EXCEPT !.ver = items[i].ver + 1]
             ver == p.vers[i] + 1
             vers == [p.vers EXCEPT ![i] = ver]
  <2>2. items[i] \in ItemRow /\ items[i].live
    BY <1>2, DbRows DEF IInv, SameItem
  <2>3. row \in ItemRow /\ row.of = items[i].of /\ row.seq = items[i].seq /\ row.live
    BY <2>2 DEF ItemRow
  <2>4. items' = [items EXCEPT ![i] = row] /\ evals' = evals
    BY <1>2
  <2>5. ItemTable(items', evals') /\ Evolves(items, items', evals, evals')
    <3> HIDE DEF row
    <3> QED
      BY <2>2, <2>3, <2>4, ItemChanged
  <2>6. p.rows \in Seq(Nat) /\ vers \in TableOf(Nat, Nat) /\ p.asked \in Questions \cup {None}
    <3>1. p.rows \in Seq(Nat) /\ p.vers \in TableOf(Nat, Nat)
      BY <2>1, PageParts DEF AdminPage
    <3>2. p.vers \in [DOMAIN p.vers -> Nat]
      BY <3>1, TableIs
    <3>3. ver \in Nat
      BY <2>1, <3>2
    <3>4. vers \in TableOf(Nat, Nat)
      <4> HIDE DEF ver
      <4> QED
        BY <3>1, <3>3, TableSet
    <3> QED
      BY <2>1, <3>1, <3>4 DEF AdminPage, PageRow
  <2>7. Becomes(a, RowsPage(p, p.rows, vers, p.asked))
    <3>1. RowsPage(p, p.rows, vers, p.asked) = [p EXCEPT !.vers = vers]
      <4> HIDE DEF vers
      <4> QED
        BY <2>1 DEF RowsPage, AdminPage, PageRow
    <3>2. pages \in [Admins -> AdminPage \cup {None}]
      BY DEF IInv, TypeOK
    <3>3. pages' = [pages EXCEPT ![a] = [p EXCEPT !.vers = vers]]
      BY <1>2, <2>1, <3>2 DEF AdminPage, PageRow
    <3> HIDE DEF vers
    <3> QED
      BY <3>1, <3>2, <3>3 DEF Becomes
  <2> HIDE DEF vers
  <2> QED
    BY <1>2, <2>1, <2>5, <2>6, <2>7, ItemsPageStep
<1> QED
  BY <1>1, <1>2 DEF SaveItem

LEMMA FrontRows ==
  ASSUME NEW p \in AdminPage, p.rows # <<>>
  PROVE  /\ Rows(p) \in Seq(Nat) /\ Len(Rows(p)) = Len(p.rows) - 1
         /\ \A k \in 1 .. Len(p.rows) - 1 : Rows(p)[k] = p.rows[k]
BY PageParts DEF AdminPage, Rows

LEMMA FrontIsRows ==
  ASSUME NEW p \in AdminPage
  PROVE  Rows(p) \in Seq(Nat)
<1>1. p.rows \in Seq(Nat)
  BY PageParts DEF AdminPage
<1>2. CASE p.rows = <<>>
  <2>1. Rows(p) = <<>>
    BY <1>2 DEF Rows
  <2> QED
    BY <2>1
<1>3. CASE p.rows # <<>>
  BY <1>3, FrontRows
<1> QED
  BY <1>2, <1>3

LEMMA RemoveItemStep ==
  ASSUME IInv, NEW a \in Admins, RemoveItem(a)
  PROVE  IInv'
<1> DEFINE p == pages[a]
           i == Last(p.rows)
<1>1. CASE AdminDies(a)
  BY <1>1, AdminDiesStep
<1>2. CASE /\ SameItem(a, i) /\ Enough
           /\ items' = [items EXCEPT ![i].live = FALSE]
           /\ evals' = evals \ {i}
           /\ pages' = [pages EXCEPT ![a].asked = None, ![a].rows = Rows(pages[a]),
                                     ![a].vers = [j \in DOMAIN @ \ {i} |-> @[j]]]
           /\ UNCHANGED <<now, assignments, submissions, student, removed, overlapped>>
  <2>1. p # None /\ p \in AdminPage
    BY AdminHas DEF RemoveItem, Confirming
  <2> HIDE DEF i
  <2> DEFINE vers == [j \in DOMAIN p.vers \ {i} |-> p.vers[j]]
             rows == Rows(p)
  <2>2. ItemTable(items', evals') /\ Evolves(items, items', evals, evals')
    <3>1. CASE i \in DOMAIN items
      <4> DEFINE row == [items[i] EXCEPT !.live = FALSE]
      <4>1. items[i] \in ItemRow
        BY <3>1, DbRows DEF IInv
      <4>2. row \in ItemRow /\ row.of = items[i].of /\ row.seq = items[i].seq /\ ~row.live
        BY <4>1 DEF ItemRow
      <4>3. items' = [items EXCEPT ![i] = row] /\ evals' = evals \ {i}
        BY <1>2
      <4> HIDE DEF row
      <4>4. evals' = IF row.live THEN evals ELSE evals \ {i}
        BY <4>2, <4>3
      <4>5. row.live => items[i].live
        BY <4>2
      <4> QED
        BY <3>1, <4>2, <4>3, <4>4, <4>5, ItemChanged
    <3>2. CASE i \notin DOMAIN items
      <4>1. items' = items /\ evals' = evals
        <5>1. items \in Seq(ItemRow) /\ evals \subseteq DOMAIN items
          BY DEF IInv, TypeOK, LiveItems
        <5>2. items' = items
          BY <1>2, <3>2, <5>1
        <5> QED
          BY <1>2, <3>2, <5>1, <5>2
      <4> QED
        BY <4>1, ItemTableIs, SameItems DEF IInv
    <3> QED
      BY <3>1, <3>2
  <2>3. rows \in Seq(Nat) /\ vers \in TableOf(Nat, Nat)
    <3>1. p.vers \in TableOf(Nat, Nat)
      BY <2>1, PageParts DEF AdminPage
    <3> QED
      BY <2>1, <3>1, FrontIsRows, TableCut
  <2>4. Becomes(a, RowsPage(p, rows, vers, None))
    <3>1. pages \in [Admins -> AdminPage \cup {None}]
      BY DEF IInv, TypeOK
    <3>2. pages' = [pages EXCEPT ![a] = [p EXCEPT !.asked = None, !.rows = rows, !.vers = vers]]
      BY <1>2, <2>1, <3>1 DEF AdminPage, PageRow
    <3> HIDE DEF rows, vers
    <3>3. RowsPage(p, rows, vers, None) = [p EXCEPT !.asked = None, !.rows = rows, !.vers = vers]
      BY <2>1 DEF RowsPage, AdminPage, PageRow
    <3> QED
      BY <3>1, <3>2, <3>3 DEF Becomes
  <2>5. None \in Questions \cup {None}
    OBVIOUS
  <2> HIDE DEF rows, vers
  <2> QED
    BY <1>2, <2>1, <2>2, <2>3, <2>4, <2>5, ItemsPageStep
<1> QED
  BY <1>1, <1>2 DEF RemoveItem

-----------------------------------------------------------------------------
(* Steps that write assignments and submissions *)

AssignmentsEvolve ==
  \A n \in Numbers : removed'[n] = 0 =>
    /\ removed[n] = 0
    /\ n \in DOMAIN assignments =>
         n \in DOMAIN assignments' /\ (assignments'[n] = assignments[n] \/ assignments'[n].ver = assignments[n].ver + 1)

SubmissionsKeep(S) ==
  \A n \in DOMAIN submissions : n \notin S => n \in DOMAIN submissions' /\ submissions'[n] = submissions[n]

\* Everybody's page but that of administrator a learns that the submissions S
\* are written.
OthersAge(S, a) ==
  \A b \in Admins : b # a => pages'[b] = Aged(pages[b], S) \/ (S = {} /\ pages'[b] = pages[b])

LEMMA OthersStay ==
  ASSUME IInv, NEW S, NEW b \in Admins, AssignmentsEvolve, SubmissionsKeep(S),
         NEW q, q = Aged(pages[b], S) \/ (S = {} /\ q = pages[b])
  PROVE  /\ q \in AdminPage \cup {None}
         /\ q # None => CopiesOK(q, assignments', submissions', removed')
<1>1. CASE pages[b] = None
  BY <1>1 DEF Aged
<1>2. CASE pages[b] # None
  <2> DEFINE p == pages[b]
  <2>1. p \in AdminPage /\ CopiesOK(p, assignments, submissions, removed)
    BY <1>2 DEF IInv, TypeOK
  <2>2. /\ q \in AdminPage /\ q.asgn = p.asgn /\ q.sub = p.sub /\ q.kind = p.kind
        /\ p.old \cup (S \cap DOMAIN p.sub) \subseteq q.old
    <3>1. CASE q = Aged(p, S)
      BY <1>2, <2>1, <3>1, AgedPage DEF AdminPage
    <3>2. CASE S = {} /\ q = p
      BY <2>1, <3>2
    <3> QED
      BY <3>1, <3>2
  <2>3. \A n \in DOMAIN p.asgn : n \in Numbers /\ p.asgn[n].ver \in Nat
    BY <2>1, PageParts DEF AdminPage, AssignmentRow
  <2>4. \A n \in DOMAIN assignments : assignments[n].ver \in Nat
    BY DbRows DEF IInv, AssignmentRow
  <2>5. \A n \in DOMAIN submissions :
          n \in DOMAIN p.sub \ q.old => n \in DOMAIN submissions' /\ submissions'[n] = submissions[n]
    BY <2>2 DEF SubmissionsKeep
  <2>6. \A n \in DOMAIN p.asgn : removed'[n] = 0 =>
           /\ removed[n] = 0
           /\ n \in DOMAIN assignments =>
                 /\ n \in DOMAIN assignments'
                 /\ \/ assignments'[n] = assignments[n]
                    \/ assignments'[n].ver = assignments[n].ver + 1
    BY <2>3 DEF AssignmentsEvolve
  <2>7. p.old \subseteq q.old
    BY <2>2
  <2> HIDE DEF p
  <2> QED
    BY <2>1, <2>2, <2>3, <2>4, <2>5, <2>6, <2>7, CopiesStay
<1> QED
  BY <1>1, <1>2

TablesOK ==
  /\ assignments \in TableOf(Numbers, AssignmentRow)
  /\ submissions \in TableOf(Numbers, SubmissionRow)
  /\ removed \in [Numbers -> Nat]
  /\ DOMAIN submissions \subseteq DOMAIN assignments
  /\ SubmissionsOK(submissions)

LEMMA StudentAges ==
  ASSUME IInv, NEW S, student' = student \/ student' = Aged(student, S),
         Evolves(items, items', evals, evals'), now' \in Nat, now <= now'
  PROVE  /\ student' \in StudentPage \cup {None}
         /\ student' # None => StudentOK(student', items', evals', now')
<1>1. CASE student = None
  BY <1>1 DEF Aged
<1>2. CASE student # None
  <2>1. student \in StudentPage /\ StudentOK(student, items, evals, now) /\ now \in Nat
    BY <1>2 DEF IInv, TypeOK
  <2>2. /\ student' \in StudentPage
        /\ student'.asgn = student.asgn /\ student'.sub = student.sub /\ student'.drawn = student.drawn
        /\ student'.kind = student.kind /\ student'.of = student.of /\ student'.rows = student.rows
        /\ student'.asked = student.asked /\ student'.consent = student.consent
    BY <1>2, <2>1, AgedPage DEF StudentPage
  <2> QED
    BY <2>1, <2>2, StudentStays
<1> QED
  BY <1>1, <1>2

LEMMA WriteStep ==
  ASSUME IInv, NEW a \in Admins, NEW q \in AdminPage, NEW S,
         pages' \in [Admins -> {pages'[b] : b \in Admins}], pages'[a] = q, OthersAge(S, a),
         CopiesOK(q, assignments', submissions', removed'),
         TablesOK', AssignmentsEvolve, SubmissionsKeep(S),
         ItemTable(items', evals'), Evolves(items, items', evals, evals'),
         student' = student \/ student' = Aged(student, S),
         now' = now, writes' \in Nat, overlapped' \in BOOLEAN
  PROVE  IInv'
<1>1. \A b \in Admins : /\ pages'[b] \in AdminPage \cup {None}
                        /\ pages'[b] # None => CopiesOK(pages'[b], assignments', submissions', removed')
  <2> TAKE b \in Admins
  <2>1. CASE b = a
    BY <2>1
  <2>2. CASE b # a
    <3>1. pages'[b] = Aged(pages[b], S) \/ (S = {} /\ pages'[b] = pages[b])
      BY <2>2 DEF OthersAge
    <3> QED
      BY <3>1, OthersStay
  <2> QED
    BY <2>1, <2>2
<1>2. pages' \in [Admins -> AdminPage \cup {None}]
  BY <1>1
<1>3. /\ student' \in StudentPage \cup {None}
      /\ student' # None => StudentOK(student', items', evals', now')
  <2>1. now' \in Nat /\ now <= now'
    BY DEF IInv, TypeOK
  <2> QED
    BY <2>1, StudentAges
<1>4. now' \in Nat
  BY DEF IInv, TypeOK
<1>5. TypeOK'
  BY <1>2, <1>3, <1>4 DEF TypeOK, TablesOK, ItemTable, LiveItems
<1> QED
  BY <1>1, <1>3, <1>5 DEF IInv, TablesOK, ItemTable

LEMMA MoreStep ==
  ASSUME IInv, NEW a \in Admins, More(a)
  PROVE  IInv'
<1> DEFINE p == pages[a]
           n == Len(p.rows) + 1
           row == [open |-> now, due |-> now, eval |-> now, ver |-> 0]
<1>1. CASE AdminDies(a)
  BY <1>1, AdminDiesStep
<1>2. CASE /\ n \notin DOMAIN assignments /\ Enough
           /\ assignments' = Put(assignments, n, row)
           /\ pages' = [pages EXCEPT ![a].rows = Append(@, n), ![a].asgn = Put(@, n, row)]
           /\ UNCHANGED <<now, items, submissions, evals, student, removed, overlapped>>
  <2>1. /\ p # None /\ p \in AdminPage /\ n \in Numbers
        /\ CopiesOK(p, assignments, submissions, removed)
    BY AdminHas DEF More, Free
  <2>2. row \in AssignmentRow
    BY DEF IInv, TypeOK, AssignmentRow
  <2>3. p.asgn \in TableOf(Numbers, AssignmentRow) /\ p.rows \in Seq(Nat)
    BY <2>1, PageParts DEF AdminPage
  <2> DEFINE asgn == Put(p.asgn, n, row)
             rows == Append(p.rows, n)
             q == [p EXCEPT !.rows = rows, !.asgn = asgn]
  <2>4. pages' = [pages EXCEPT ![a] = q]
    <3>1. pages \in [Admins -> AdminPage \cup {None}]
      BY DEF IInv, TypeOK
    <3> QED
      BY <1>2, <2>1, <3>1 DEF AdminPage, PageRow
  <2> HIDE DEF row, n
  <2>5. /\ asgn \in TableOf(Numbers, AssignmentRow)
        /\ DOMAIN asgn = DOMAIN p.asgn \cup {n} /\ asgn[n] = row
        /\ \A m \in DOMAIN p.asgn : m # n => asgn[m] = p.asgn[m]
    <3>1. asgn \in TableOf(Numbers, AssignmentRow)
      BY <2>1, <2>2, <2>3, TablePut
    <3> QED
      BY <3>1 DEF Put
  <2>6. /\ assignments' \in TableOf(Numbers, AssignmentRow)
        /\ DOMAIN assignments' = DOMAIN assignments \cup {n} /\ assignments'[n] = row
        /\ \A m \in DOMAIN assignments : m # n => assignments'[m] = assignments[m]
    <3>1. assignments \in TableOf(Numbers, AssignmentRow)
      BY DEF IInv, TypeOK
    <3>2. Put(assignments, n, row) \in TableOf(Numbers, AssignmentRow)
      BY <2>1, <2>2, <3>1, TablePut
    <3> QED
      BY <1>2, <3>2 DEF Put
  <2>7. rows \in Seq(Nat)
    BY <2>1, <2>3, DbRows DEF IInv
  <2>8. /\ q \in AdminPage /\ q.asgn = asgn /\ q.sub = p.sub /\ q.old = p.old /\ q.kind = p.kind
    <3> HIDE DEF asgn, rows
    <3> QED
      BY <2>1, <2>5, <2>7 DEF AdminPage, PageRow
  <2> HIDE DEF asgn, rows, q
  <2>9. CopiesOK(q, assignments', submissions', removed')
    <3>1. row.ver \in Nat
      BY <2>2 DEF AssignmentRow
    <3> QED
      BY <1>2, <2>1, <2>5, <2>6, <2>8, <3>1 DEF CopiesOK
  <2>10. TablesOK'
    BY <1>2, <2>6 DEF TablesOK, IInv, TypeOK
  <2>11. AssignmentsEvolve /\ SubmissionsKeep({})
    BY <1>2, <2>6 DEF AssignmentsEvolve, SubmissionsKeep
  <2>12. ItemTable(items', evals') /\ Evolves(items, items', evals, evals')
    BY <1>2, ItemTableIs, SameItems DEF IInv
  <2>13. writes' \in Nat /\ overlapped' \in BOOLEAN
    BY <1>2 DEF Enough, IInv, TypeOK
  <2>14. /\ pages' \in [Admins -> {pages'[b] : b \in Admins}] /\ pages'[a] = q /\ OthersAge({}, a)
    BY <2>4 DEF OthersAge, IInv, TypeOK
  <2> QED
    BY <1>2, <2>8, <2>9, <2>10, <2>11, <2>12, <2>13, <2>14, WriteStep
<1> QED
  BY <1>1, <1>2 DEF More

\* A row with another date is one version on.
Redated(row, field, day) == [row EXCEPT ![field] = day, !.ver = @ + 1]

LEMMA RedatedRow ==
  ASSUME NEW row \in AssignmentRow, NEW field \in {"open", "due", "eval"}, NEW day \in Nat
  PROVE  /\ Redated(row, field, day) \in AssignmentRow
         /\ Redated(row, field, day).ver = row.ver + 1
         /\ \A f \in {"open", "due", "eval"} : f # field => Redated(row, field, day)[f] = row[f]
<1> DEFINE Fields == {"open", "due", "eval", "ver"}
           new == [row EXCEPT ![field] = day, !["ver"] = @ + 1]
<1>1. row \in [Fields -> Nat]
  BY DEF AssignmentRow
<1>2. /\ new \in [Fields -> Nat] /\ new["ver"] = row["ver"] + 1
      /\ \A f \in {"open", "due", "eval"} : f # field => new[f] = row[f]
  BY <1>1
<1>3. Redated(row, field, day) = new
  BY DEF Redated
<1> HIDE DEF new
<1>4. new \in AssignmentRow /\ new["ver"] = new.ver /\ row["ver"] = row.ver
  BY <1>2 DEF AssignmentRow
<1> QED
  BY <1>2, <1>3, <1>4

LEMMA SetDateStep ==
  ASSUME IInv, NEW a \in Admins, NEW n \in Numbers, NEW field \in Edited, NEW day \in Days,
         SetDate(a, n, field, day)
  PROVE  IInv'
<1> DEFINE p == pages[a]
           row == Redated(p.asgn[n], field, day)
<1>1. CASE AdminDies(a)
  BY <1>1, AdminDiesStep
<1>2. CASE /\ SameVersion(a, n) /\ Enough
           /\ assignments' = [assignments EXCEPT ![n] = row]
           /\ pages' = [pages EXCEPT ![a].asgn[n] = assignments'[n]]
           /\ UNCHANGED <<now, items, submissions, evals, student, removed, overlapped>>
  <2>1. /\ p # None /\ p \in AdminPage /\ n \in DOMAIN p.asgn
        /\ CopiesOK(p, assignments, submissions, removed)
        /\ n \in DOMAIN assignments /\ assignments[n].ver = p.asgn[n].ver
    BY <1>2, AdminHas DEF SetDate, Free, SameVersion
  <2>2. p.asgn \in TableOf(Numbers, AssignmentRow) /\ p.asgn[n] \in AssignmentRow
    BY <2>1, PageParts DEF AdminPage
  <2>3. row \in AssignmentRow /\ row.ver = assignments[n].ver + 1
    <3>1. field \in {"open", "due", "eval"} /\ day \in Nat
      BY AssignmentsAssumption
    <3>2. row \in AssignmentRow /\ row.ver = p.asgn[n].ver + 1
      <4> HIDE DEF p
      <4> QED
        BY <2>2, <3>1, RedatedRow
    <3> QED
      BY <2>1, <3>2
  <2> HIDE DEF row
  <2>4. /\ assignments' \in TableOf(Numbers, AssignmentRow)
        /\ DOMAIN assignments' = DOMAIN assignments
        /\ \A m \in DOMAIN assignments : assignments'[m] = IF m = n THEN row ELSE assignments[m]
    BY <1>2, <2>3, TableSet DEF IInv, TypeOK
  <2>5. assignments'[n] = row
    BY <2>1, <2>4
  <2> DEFINE asgn == [p.asgn EXCEPT ![n] = row]
             q == [p EXCEPT !.asgn = asgn]
  <2>6. pages' = [pages EXCEPT ![a] = q]
    <3>1. pages \in [Admins -> AdminPage \cup {None}]
      BY DEF IInv, TypeOK
    <3> QED
      BY <1>2, <2>1, <2>5, <3>1 DEF AdminPage, PageRow
  <2>7. /\ asgn \in TableOf(Numbers, AssignmentRow) /\ DOMAIN asgn = DOMAIN p.asgn
        /\ \A m \in DOMAIN p.asgn : asgn[m] = IF m = n THEN row ELSE p.asgn[m]
    BY <2>2, <2>3, TableSet
  <2>8. /\ q \in AdminPage /\ q.asgn = asgn /\ q.sub = p.sub /\ q.old = p.old /\ q.kind = p.kind
    <3> HIDE DEF asgn
    <3> QED
      BY <2>1, <2>7 DEF AdminPage, PageRow
  <2> HIDE DEF asgn, q
  <2>9. CopiesOK(q, assignments', submissions', removed')
    <3>1. row.ver \in Nat
      BY <2>3 DEF AssignmentRow
    <3> QED
      BY <1>2, <2>1, <2>4, <2>7, <2>8, <3>1 DEF CopiesOK
  <2>10. TablesOK'
    BY <1>2, <2>4 DEF TablesOK, IInv, TypeOK
  <2>11. AssignmentsEvolve /\ SubmissionsKeep({})
    BY <1>2, <2>3, <2>4 DEF AssignmentsEvolve, SubmissionsKeep
  <2>12. ItemTable(items', evals') /\ Evolves(items, items', evals, evals')
    BY <1>2, ItemTableIs, SameItems DEF IInv
  <2>13. writes' \in Nat /\ overlapped' \in BOOLEAN
    BY <1>2 DEF Enough, IInv, TypeOK
  <2>14. /\ pages' \in [Admins -> {pages'[b] : b \in Admins}] /\ pages'[a] = q /\ OthersAge({}, a)
    BY <2>6 DEF OthersAge, IInv, TypeOK
  <2> QED
    BY <1>2, <2>8, <2>9, <2>10, <2>11, <2>12, <2>13, <2>14, WriteStep
<1> QED
  BY <1>1, <1>2 DEF SetDate, Redated

\* The items of an assignment go along with it.
LEMMA ItemsGo ==
  ASSUME IInv, NEW n,
         items' = [i \in DOMAIN items |-> IF items[i].of = n THEN [items[i] EXCEPT !.live = FALSE] ELSE items[i]],
         evals' = evals \ ItemsOf(n)
  PROVE  ItemTable(items', evals') /\ Evolves(items, items', evals, evals')
<1>1. items \in Seq(ItemRow) /\ FirstItems(items) /\ evals \subseteq LiveItems
  BY DEF IInv, TypeOK
<1>2. DOMAIN items = 1 .. Len(items) /\ Len(items) \in Nat /\ DOMAIN items' = DOMAIN items
  BY <1>1
<1>3. \A j \in DOMAIN items :
        /\ items'[j] \in ItemRow
        /\ items'[j].of = items[j].of /\ items'[j].seq = items[j].seq
        /\ items'[j].live <=> items[j].live /\ items[j].of # n
  <2> TAKE j \in DOMAIN items
  <2>1. items[j] \in ItemRow
    BY <1>1
  <2>2. items'[j] = IF items[j].of = n THEN [items[j] EXCEPT !.live = FALSE] ELSE items[j]
    OBVIOUS
  <2> QED
    BY <2>1, <2>2 DEF ItemRow
<1>4. items' \in Seq(ItemRow)
  BY <1>2, <1>3
<1>5. FirstItems(items')
  BY <1>1, <1>2, <1>3 DEF FirstItems
<1>6. \A j \in evals' : j \in DOMAIN items' /\ items'[j].live
  BY <1>1, <1>2, <1>3 DEF LiveItems, ItemsOf
<1>7. Evolves(items, items', evals, evals')
  BY <1>2, <1>3 DEF Evolves, ItemsOf
<1> QED
  BY <1>4, <1>5, <1>6, <1>7 DEF ItemTable

LEMMA RemoveAssignmentStep ==
  ASSUME IInv, NEW a \in Admins, RemoveAssignment(a)
  PROVE  IInv'
<1> DEFINE p == pages[a]
           n == Last(p.rows)
<1>1. CASE AdminDies(a)
  BY <1>1, AdminDiesStep
<1>2. CASE /\ SameVersion(a, n) /\ Enough
           /\ assignments' = [m \in DOMAIN assignments \ {n} |-> assignments[m]]
           /\ items' = [i \in DOMAIN items |-> IF items[i].of = n THEN [items[i] EXCEPT !.live = FALSE] ELSE items[i]]
           /\ submissions' = [m \in DOMAIN submissions \ {n} |-> submissions[m]]
           /\ evals' = evals \ ItemsOf(n)
           /\ pages' = [AgedElsewhere(a, {n}) EXCEPT ![a].asked = None, ![a].rows = Rows(pages[a]),
                                                     ![a].asgn = [m \in DOMAIN @ \ {n} |-> @[m]]]
           /\ student' = Aged(student, {n})
           /\ removed' = [removed EXCEPT ![n] = @ + 1]
           /\ UNCHANGED <<now, overlapped>>
  <2>1. /\ p # None /\ p \in AdminPage /\ p.kind = "list"
        /\ CopiesOK(p, assignments, submissions, removed)
        /\ n \in DOMAIN assignments /\ n \in Numbers
    <3>1. n \in DOMAIN assignments
      BY <1>2 DEF SameVersion
    <3> QED
      BY <3>1, AdminHas, DbRows DEF RemoveAssignment, Confirming, IInv
  <2> HIDE DEF n
  <2> DEFINE asgn == [m \in DOMAIN p.asgn \ {n} |-> p.asgn[m]]
             rows == Rows(p)
             q == [p EXCEPT !.asked = None, !.rows = rows, !.asgn = asgn]
             rest0 == AgedElsewhere(a, {n})
  <2>2. /\ asgn \in TableOf(Numbers, AssignmentRow) /\ DOMAIN asgn = DOMAIN p.asgn \ {n}
        /\ \A m \in DOMAIN asgn : asgn[m] = p.asgn[m]
    BY <2>1, PageParts, TableCut DEF AdminPage
  <2>3. rows \in Seq(Nat)
    BY <2>1, FrontIsRows
  <2>4. /\ pages' = [rest0 EXCEPT ![a] = q] /\ rest0[a] = p /\ DOMAIN rest0 = Admins
        /\ \A b \in Admins : b # a => rest0[b] = Aged(pages[b], {n})
    <3>1. /\ rest0[a] = p /\ DOMAIN rest0 = Admins
          /\ \A b \in Admins : b # a => rest0[b] = Aged(pages[b], {n})
          /\ rest0 = [b \in Admins |-> rest0[b]]
      BY DEF AgedElsewhere
    <3>2. pages' = [rest0 EXCEPT ![a] = [p EXCEPT !.asked = None, !.rows = rows, !.asgn = asgn]]
      <4>1. pages' = [rest0 EXCEPT ![a].asked = None, ![a].rows = rows,
                                   ![a].asgn = [m \in DOMAIN @ \ {n} |-> @[m]]]
        BY <1>2
      <4> HIDE DEF rest0, rows
      <4> QED
        BY <2>1, <3>1, <4>1 DEF AdminPage, PageRow
    <3> QED
      BY <3>1, <3>2
  <2>5. /\ q \in AdminPage /\ q.asgn = asgn /\ q.sub = p.sub /\ q.old = p.old /\ q.kind = p.kind
    <3> HIDE DEF asgn, rows
    <3> QED
      BY <2>1, <2>2, <2>3 DEF AdminPage, PageRow
  <2>6. /\ assignments' \in TableOf(Numbers, AssignmentRow) /\ DOMAIN assignments' = DOMAIN assignments \ {n}
        /\ \A m \in DOMAIN assignments' : assignments'[m] = assignments[m]
    BY <1>2, TableCut DEF IInv, TypeOK
  <2>7. /\ submissions' \in TableOf(Numbers, SubmissionRow) /\ DOMAIN submissions' = DOMAIN submissions \ {n}
        /\ \A m \in DOMAIN submissions' : submissions'[m] = submissions[m]
    BY <1>2, TableCut DEF IInv, TypeOK
  <2>8. /\ removed' \in [Numbers -> Nat] /\ removed'[n] # 0
        /\ \A m \in Numbers : m # n => removed'[m] = removed[m]
    BY <1>2, <2>1, DbRows DEF IInv, TypeOK
  <2> HIDE DEF asgn, rows, q, rest0
  <2>9. CopiesOK(q, assignments', submissions', removed')
    <3>1. DOMAIN q.sub = {}
      BY <2>1, <2>5 DEF CopiesOK
    <3>2. \A m \in DOMAIN p.asgn : m \in Numbers
      BY <2>1, PageParts DEF AdminPage
    <3> QED
      BY <2>1, <2>2, <2>5, <2>6, <2>8, <3>1, <3>2 DEF CopiesOK
  <2>10. TablesOK'
    BY <2>6, <2>7, <2>8 DEF TablesOK, IInv, SubmissionsOK
  <2>11. AssignmentsEvolve /\ SubmissionsKeep({n})
    BY <2>6, <2>7, <2>8 DEF AssignmentsEvolve, SubmissionsKeep
  <2>12. ItemTable(items', evals') /\ Evolves(items, items', evals, evals')
    BY <1>2, ItemsGo
  <2>13. writes' \in Nat /\ overlapped' \in BOOLEAN
    BY <1>2 DEF Enough, IInv, TypeOK
  <2>14. /\ pages' \in [Admins -> {pages'[b] : b \in Admins}] /\ pages'[a] = q /\ OthersAge({n}, a)
    BY <2>4 DEF OthersAge
  <2> QED
    BY <1>2, <2>5, <2>9, <2>10, <2>11, <2>12, <2>13, <2>14, WriteStep
<1> QED
  BY <1>1, <1>2 DEF RemoveAssignment

\* Where an assignment has no submission yet, one is made; it has the due date
\* of the assignment that it was made from.
LEMMA MadeIs ==
  ASSUME IInv, NEW kept \in TableOf(Numbers, AssignmentRow)
  PROVE  LET made == FirstTouch(Copies(assignments, DOMAIN assignments, kept))
         IN /\ made \in TableOf(Numbers, SubmissionRow)
            /\ DOMAIN made = DOMAIN assignments
            /\ SubmissionsOK(made)
            /\ \A n \in DOMAIN submissions : n \in DOMAIN made /\ made[n] = submissions[n]
<1> DEFINE asgn == Copies(assignments, DOMAIN assignments, kept)
           made == FirstTouch(asgn)
<1>1. asgn \in TableOf(Numbers, AssignmentRow) /\ DOMAIN asgn = DOMAIN assignments
  BY CopiesTable DEF IInv, TypeOK
<1>2. \A n \in DOMAIN assignments : asgn[n] \in AssignmentRow /\ n \in Numbers
  BY <1>1, TableIs
<1> HIDE DEF asgn
<1>3. /\ DOMAIN made = DOMAIN assignments
      /\ \A n \in DOMAIN assignments :
           made[n] = IF n \in DOMAIN submissions THEN submissions[n]
                     ELSE [due |-> asgn[n].due, eval |-> asgn[n].eval,
                           made |-> removed[n], first |-> asgn[n].due, moved |-> FALSE]
      /\ made = [n \in DOMAIN assignments |-> made[n]]
  BY DEF FirstTouch
<1> HIDE DEF made
<1>4. \A n \in DOMAIN assignments :
        made[n] \in SubmissionRow /\ (made[n].moved \/ made[n].due >= made[n].first)
  <2> TAKE n \in DOMAIN assignments
  <2>1. CASE n \in DOMAIN submissions
    BY <1>3, <2>1, DbRows DEF IInv, SubmissionsOK
  <2>2. CASE n \notin DOMAIN submissions
    <3>1. made[n] = [due |-> asgn[n].due, eval |-> asgn[n].eval,
                     made |-> removed[n], first |-> asgn[n].due, moved |-> FALSE]
      BY <1>3, <2>2
    <3>2. asgn[n].due \in Nat /\ asgn[n].eval \in Nat /\ removed[n] \in Nat
      BY <1>2, DbRows DEF AssignmentRow, IInv
    <3> QED
      BY <3>1, <3>2 DEF SubmissionRow
  <2> QED
    BY <2>1, <2>2
<1>5. made \in [DOMAIN assignments -> SubmissionRow] /\ DOMAIN assignments \in SUBSET Numbers
  BY <1>2, <1>3, <1>4
<1>6. made \in TableOf(Numbers, SubmissionRow)
  BY <1>5, TableMade
<1>7. \A n \in DOMAIN submissions : n \in DOMAIN made /\ made[n] = submissions[n]
  BY <1>3 DEF IInv
<1>8. /\ made \in TableOf(Numbers, SubmissionRow)
      /\ DOMAIN made = DOMAIN assignments
      /\ SubmissionsOK(made)
      /\ \A n \in DOMAIN submissions : n \in DOMAIN made /\ made[n] = submissions[n]
  BY <1>3, <1>4, <1>6, <1>7 DEF SubmissionsOK
<1> QED
  BY <1>8 DEF made, asgn

\* A home page holds copies of all that there is; those that the session had
\* already stay, and are old if they were.
LEMMA HomeIs ==
  ASSUME IInv, NEW A, None \in A, NEW before \in PageRow(A),
         NEW made \in TableOf(Numbers, SubmissionRow), DOMAIN made = DOMAIN assignments
  PROVE  LET q == Home(before, made)
         IN /\ q \in PageRow(A)
            /\ q.kind = "home" /\ q.asked = None /\ DOMAIN q.drawn = {} /\ q.old \subseteq before.old
            /\ q.asgn = Copies(assignments, DOMAIN assignments, before.asgn)
            /\ DOMAIN q.asgn = DOMAIN assignments /\ DOMAIN q.sub = DOMAIN assignments
            /\ \A n \in DOMAIN q.sub : \/ q.sub[n] = made[n]
                                       \/ n \in DOMAIN before.sub /\ q.sub[n] = before.sub[n]
                                            /\ (n \in before.old => n \in q.old)
<1> DEFINE asgn == Copies(assignments, DOMAIN assignments, before.asgn)
           same == {n \in DOMAIN before.sub \cap DOMAIN made : before.sub[n].made = made[n].made}
           kept == [n \in same |-> before.sub[n]]
           sub == Copies(made, DOMAIN assignments, kept)
           old == before.old \cap same
           q == [EmptyPage EXCEPT !.kind = "home", !.asgn = asgn, !.sub = sub, !.old = old]
<1>1. before.asgn \in TableOf(Numbers, AssignmentRow) /\ before.sub \in TableOf(Numbers, SubmissionRow)
  BY PageParts
<1>2. asgn \in TableOf(Numbers, AssignmentRow) /\ DOMAIN asgn = DOMAIN assignments
  BY <1>1, CopiesTable DEF IInv, TypeOK
<1>3. same \subseteq DOMAIN before.sub /\ old = before.old \cap same
  OBVIOUS
<1> HIDE DEF same
<1>4. kept \in TableOf(Numbers, SubmissionRow) /\ DOMAIN kept = same
      /\ \A n \in same : kept[n] = before.sub[n]
  <2>1. DOMAIN before.sub \subseteq Numbers /\ before.sub \in [DOMAIN before.sub -> SubmissionRow]
    BY <1>1, TableIs
  <2>2. kept \in [same -> SubmissionRow] /\ same \in SUBSET Numbers
    BY <1>3, <2>1
  <2>3. kept \in TableOf(Numbers, SubmissionRow)
    <3> HIDE DEF kept
    <3> QED
      BY <2>2, TableMade
  <2> QED
    BY <2>3
<1> HIDE DEF kept
<1>5. /\ sub \in TableOf(Numbers, SubmissionRow) /\ DOMAIN sub = DOMAIN assignments
      /\ \A n \in DOMAIN assignments : sub[n] = IF n \in DOMAIN kept THEN kept[n] ELSE made[n]
  BY <1>4, CopiesTable
<1>6. EmptyPage \in PageRow(A) /\ DOMAIN EmptyPage.drawn = {} /\ EmptyPage.asked = None
  BY EmptyIsPage
<1>7. old \subseteq Numbers
  BY PageParts
<1> HIDE DEF asgn, sub, old
<1>8. /\ q \in PageRow(A) /\ q.kind = "home" /\ q.asked = None /\ DOMAIN q.drawn = {}
      /\ q.old = old /\ q.asgn = asgn /\ q.sub = sub
  BY <1>2, <1>5, <1>6, <1>7 DEF PageRow
<1>9. Home(before, made) = q
  BY DEF Home, asgn, sub, kept, same, old
<1> HIDE DEF q
<1>10. \A n \in DOMAIN q.sub : \/ q.sub[n] = made[n]
                               \/ n \in DOMAIN before.sub /\ q.sub[n] = before.sub[n]
                                    /\ (n \in before.old => n \in q.old)
  BY <1>3, <1>4, <1>5, <1>8
<1>11. q.asgn = Copies(assignments, DOMAIN assignments, before.asgn)
  BY <1>8 DEF asgn
<1>12. q.old \subseteq before.old
  BY <1>3, <1>8
<1> QED
  BY <1>2, <1>5, <1>8, <1>9, <1>10, <1>11, <1>12

LEMMA OpenStudentsHomeStep ==
  ASSUME IInv, NEW a \in Admins, OpenStudentsHome(a)
  PROVE  IInv'
<1> DEFINE before == Kept(pages[a])
           made == FirstTouch(Copies(assignments, DOMAIN assignments, before.asgn))
           q == Home(before, made)
<1>1. CASE AdminDies(a)
  BY <1>1, AdminDiesStep
<1>2. CASE /\ submissions' = made /\ Show(a, q)
           /\ UNCHANGED <<now, assignments, items, evals, student, writes, removed>>
  <2>1. before \in AdminPage /\ CopiesOK(before, assignments, submissions, removed)
    BY AdminKept
  <2>2. before.asgn \in TableOf(Numbers, AssignmentRow)
    BY <2>1, PageParts DEF AdminPage
  <2> HIDE DEF before
  <2>3. /\ made \in TableOf(Numbers, SubmissionRow)
        /\ DOMAIN made = DOMAIN assignments
        /\ SubmissionsOK(made)
        /\ \A n \in DOMAIN submissions : n \in DOMAIN made /\ made[n] = submissions[n]
    BY <2>2, MadeIs
  <2> HIDE DEF made
  <2>4. /\ q \in AdminPage
        /\ q.kind = "home" /\ q.old \subseteq before.old
        /\ q.asgn = Copies(assignments, DOMAIN assignments, before.asgn)
        /\ DOMAIN q.asgn = DOMAIN assignments /\ DOMAIN q.sub = DOMAIN assignments
        /\ \A n \in DOMAIN q.sub : \/ q.sub[n] = made[n]
                                   \/ n \in DOMAIN before.sub /\ q.sub[n] = before.sub[n]
                                        /\ (n \in before.old => n \in q.old)
    <3>1. None \in Questions \cup {None}
      OBVIOUS
    <3> QED
      BY <2>1, <2>3, <3>1, HomeIs DEF AdminPage
  <2> HIDE DEF q
  <2>5. Becomes(a, q) /\ overlapped' \in BOOLEAN
    BY <1>2, ShowBecomes
  <2>6. CopiesOK(q, assignments', submissions', removed')
    <3>1. \A n \in DOMAIN q.asgn : q.asgn[n] = IF n \in DOMAIN before.asgn THEN before.asgn[n] ELSE assignments[n]
      BY <2>2, <2>4, CopiesTable DEF IInv, TypeOK
    <3>2. \A n \in DOMAIN q.asgn : removed[n] = 0 =>
            /\ n \in DOMAIN assignments
            /\ q.asgn[n].ver <= assignments[n].ver
            /\ q.asgn[n].ver = assignments[n].ver => q.asgn[n] = assignments[n]
      <4>1. \A n \in DOMAIN assignments : assignments[n].ver \in Nat
        BY DbRows DEF IInv, AssignmentRow
      <4> QED
        BY <2>1, <2>4, <3>1, <4>1 DEF CopiesOK
    <3>3. \A n \in DOMAIN q.sub \ q.old : n \in DOMAIN made /\ made[n] = q.sub[n]
      BY <2>1, <2>3, <2>4 DEF CopiesOK
    <3> QED
      BY <1>2, <2>4, <3>2, <3>3 DEF CopiesOK
  <2>7. TablesOK'
    BY <1>2, <2>3 DEF TablesOK, IInv, TypeOK
  <2>8. AssignmentsEvolve /\ SubmissionsKeep({})
    BY <1>2, <2>3 DEF AssignmentsEvolve, SubmissionsKeep
  <2>9. ItemTable(items', evals') /\ Evolves(items, items', evals, evals')
    BY <1>2, ItemTableIs, SameItems DEF IInv
  <2>10. writes' \in Nat
    BY <1>2 DEF IInv, TypeOK
  <2>11. /\ pages' \in [Admins -> {pages'[b] : b \in Admins}] /\ pages'[a] = q /\ OthersAge({}, a)
    BY <2>5 DEF OthersAge, Becomes
  <2> QED
    BY <1>2, <2>4, <2>5, <2>6, <2>7, <2>8, <2>9, <2>10, <2>11, WriteStep
<1> QED
  BY <1>1, <1>2 DEF OpenStudentsHome

LEMMA OwnRow ==
  ASSUME NEW copy \in SubmissionRow, NEW field \in {"due", "eval"}, NEW day \in Nat
  PROVE  LET row == [copy EXCEPT ![field] = day, !.moved = @ \/ field = "due"]
         IN /\ row \in SubmissionRow
            /\ copy.moved \/ copy.due >= copy.first => row.moved \/ row.due >= row.first
<1> DEFINE row == [copy EXCEPT ![field] = day, !.moved = @ \/ field = "due"]
<1>1. CASE field = "due"
  <2>1. row = [copy EXCEPT !["due"] = day, !.moved = @ \/ field = "due"]
    BY <1>1
  <2>2. row = [copy EXCEPT !.due = day, !.moved = TRUE]
    <3>1. [copy EXCEPT !["due"] = day, !.moved = @ \/ field = "due"]
            = [copy EXCEPT !.due = day, !.moved = TRUE]
      BY <1>1 DEF SubmissionRow
    <3> QED
      BY <2>1, <3>1
  <2> HIDE DEF row
  <2>3. row \in SubmissionRow /\ row.moved
    BY <2>2 DEF SubmissionRow
  <2> QED
    BY <2>3 DEF row
<1>2. CASE field = "eval"
  <2>1. row = [copy EXCEPT !["eval"] = day, !.moved = @ \/ field = "due"]
    BY <1>2
  <2>2. row = [copy EXCEPT !.eval = day]
    <3>1. [copy EXCEPT !["eval"] = day, !.moved = @ \/ field = "due"] = [copy EXCEPT !.eval = day]
      BY <1>2 DEF SubmissionRow
    <3> QED
      BY <2>1, <3>1
  <2> HIDE DEF row
  <2>3. row \in SubmissionRow /\ row.moved = copy.moved /\ row.due = copy.due /\ row.first = copy.first
    BY <2>2 DEF SubmissionRow
  <2>4. copy.moved \/ copy.due >= copy.first => row.moved \/ row.due >= row.first
    BY <2>3
  <2> QED
    BY <2>3, <2>4 DEF row
<1> QED
  BY <1>1, <1>2

LEMMA SetOwnDateStep ==
  ASSUME IInv, NEW a \in Admins, NEW n \in Numbers, NEW field \in {"due", "eval"}, NEW day \in Days,
         SetOwnDate(a, n, field, day)
  PROVE  IInv'
<1> DEFINE p == pages[a]
           copy == p.sub[n]
           row == [copy EXCEPT ![field] = day, !.moved = @ \/ field = "due"]
<1>1. CASE AdminDies(a)
  BY <1>1, AdminDiesStep
<1>2. CASE /\ n \in DOMAIN submissions /\ n \notin p.old /\ Enough
           /\ submissions' = [submissions EXCEPT ![n] = row]
           /\ pages' = [AgedElsewhere(a, {n}) EXCEPT ![a].sub[n] = submissions'[n]]
           /\ student' = Aged(student, {n})
           /\ UNCHANGED <<now, assignments, items, evals, removed, overlapped>>
  <2>1. /\ p # None /\ p \in AdminPage /\ n \in DOMAIN p.sub /\ p.kind = "home"
        /\ CopiesOK(p, assignments, submissions, removed)
    BY AdminHas DEF SetOwnDate, Free
  <2>2. p.sub \in TableOf(Numbers, SubmissionRow) /\ copy \in SubmissionRow
    BY <2>1, PageParts DEF AdminPage
  <2>3. copy = submissions[n]
    BY <1>2, <2>1 DEF CopiesOK
  <2>4. row \in SubmissionRow /\ (row.moved \/ row.due >= row.first)
    <3>1. copy.moved \/ copy.due >= copy.first
      BY <1>2, <2>3 DEF IInv, SubmissionsOK
    <3>2. day \in Nat
      BY AssignmentsAssumption
    <3>3. /\ row \in SubmissionRow
          /\ copy.moved \/ copy.due >= copy.first => row.moved \/ row.due >= row.first
      <4> HIDE DEF copy
      <4> QED
        BY <2>2, <3>2, OwnRow
    <3> HIDE DEF row
    <3> QED
      BY <3>1, <3>3
  <2> HIDE DEF row, copy
  <2>5. /\ submissions' \in TableOf(Numbers, SubmissionRow)
        /\ DOMAIN submissions' = DOMAIN submissions
        /\ \A m \in DOMAIN submissions : submissions'[m] = IF m = n THEN row ELSE submissions[m]
    BY <1>2, <2>4, TableSet DEF IInv, TypeOK
  <2> DEFINE sub == [p.sub EXCEPT ![n] = row]
             q == [p EXCEPT !.sub = sub]
             rest0 == AgedElsewhere(a, {n})
  <2>6. /\ pages' = [rest0 EXCEPT ![a] = q] /\ rest0[a] = p /\ DOMAIN rest0 = Admins
        /\ \A b \in Admins : b # a => rest0[b] = Aged(pages[b], {n})
    <3>1. /\ rest0[a] = p /\ DOMAIN rest0 = Admins
          /\ \A b \in Admins : b # a => rest0[b] = Aged(pages[b], {n})
          /\ rest0 = [b \in Admins |-> rest0[b]]
      BY DEF AgedElsewhere
    <3>2. submissions'[n] = row
      BY <1>2, <2>5
    <3>3. pages' = [rest0 EXCEPT ![a].sub[n] = row]
      BY <1>2, <3>2
    <3>4. pages' = [rest0 EXCEPT ![a] = [p EXCEPT !.sub = [p.sub EXCEPT ![n] = row]]]
      <4> HIDE DEF rest0
      <4> QED
        BY <2>1, <3>1, <3>3 DEF AdminPage, PageRow
    <3> QED
      BY <3>1, <3>4
  <2>7. /\ sub \in TableOf(Numbers, SubmissionRow) /\ DOMAIN sub = DOMAIN p.sub
        /\ \A m \in DOMAIN p.sub : sub[m] = IF m = n THEN row ELSE p.sub[m]
    BY <2>2, <2>4, TableSet
  <2>8. /\ q \in AdminPage /\ q.asgn = p.asgn /\ q.sub = sub /\ q.old = p.old /\ q.kind = p.kind
    <3> HIDE DEF sub
    <3> QED
      BY <2>1, <2>7 DEF AdminPage, PageRow
  <2> HIDE DEF sub, q, rest0
  <2>9. CopiesOK(q, assignments', submissions', removed')
    <3>1. \A m \in DOMAIN q.sub \ q.old : m \in DOMAIN submissions' /\ submissions'[m] = q.sub[m]
      BY <2>1, <2>5, <2>7, <2>8 DEF CopiesOK
    <3> QED
      BY <1>2, <2>1, <2>8, <3>1 DEF CopiesOK
  <2>10. TablesOK'
    BY <1>2, <2>4, <2>5 DEF TablesOK, IInv, TypeOK, SubmissionsOK
  <2>11. AssignmentsEvolve /\ SubmissionsKeep({n})
    BY <1>2, <2>5 DEF AssignmentsEvolve, SubmissionsKeep
  <2>12. ItemTable(items', evals') /\ Evolves(items, items', evals, evals')
    BY <1>2, ItemTableIs, SameItems DEF IInv
  <2>13. writes' \in Nat /\ overlapped' \in BOOLEAN
    BY <1>2 DEF Enough, IInv, TypeOK
  <2>14. /\ pages' \in [Admins -> {pages'[b] : b \in Admins}] /\ pages'[a] = q /\ OthersAge({n}, a)
    BY <2>6 DEF OthersAge
  <2> QED
    BY <1>2, <2>8, <2>9, <2>10, <2>11, <2>12, <2>13, <2>14, WriteStep
<1> QED
  BY <1>1, <1>2 DEF SetOwnDate

-----------------------------------------------------------------------------
(* Steps of the student and of time *)

LEMMA OutsideStep ==
  ASSUME IInv, NEW S,
         pages' \in [Admins -> {pages'[b] : b \in Admins}],
         \A b \in Admins : pages'[b] = Aged(pages[b], S) \/ (S = {} /\ pages'[b] = pages[b]),
         TablesOK', AssignmentsEvolve, SubmissionsKeep(S),
         ItemTable(items', evals'),
         student' \in StudentPage \cup {None},
         student' # None => StudentOK(student', items', evals', now'),
         now' \in Nat, writes' = writes, overlapped' = overlapped
  PROVE  IInv'
<1>1. \A b \in Admins : /\ pages'[b] \in AdminPage \cup {None}
                        /\ pages'[b] # None => CopiesOK(pages'[b], assignments', submissions', removed')
  BY OthersStay
<1>2. pages' \in [Admins -> AdminPage \cup {None}]
  BY <1>1
<1>3. writes' \in Nat /\ overlapped' \in BOOLEAN
  BY DEF IInv, TypeOK
<1>4. TypeOK'
  BY <1>2, <1>3 DEF TypeOK, TablesOK, ItemTable, LiveItems
<1> QED
  BY <1>1, <1>4 DEF IInv, TablesOK, ItemTable

\* What changes nothing but the student's page, or the time.
LEMMA StudentStep ==
  ASSUME IInv, UNCHANGED <<db, pages, writes, removed, overlapped>>, now' \in Nat, now <= now',
         student' \in StudentPage \cup {None},
         student' # None => StudentOK(student', items', evals', now')
  PROVE  IInv'
<1>1. UNCHANGED <<assignments, items, submissions, evals, pages, writes, removed, overlapped>>
  BY DEF db
<1>2. TablesOK'
  BY <1>1 DEF TablesOK, IInv, TypeOK
<1>3. AssignmentsEvolve /\ SubmissionsKeep({})
  BY <1>1 DEF AssignmentsEvolve, SubmissionsKeep
<1>4. ItemTable(items', evals')
  BY <1>1, ItemTableIs DEF IInv
<1>5. /\ pages' \in [Admins -> {pages'[b] : b \in Admins}]
      /\ \A b \in Admins : pages'[b] = Aged(pages[b], {}) \/ ({} = {} /\ pages'[b] = pages[b])
  BY <1>1 DEF IInv, TypeOK
<1> QED
  BY <1>1, <1>2, <1>3, <1>4, <1>5, OutsideStep

LEMMA TickStep ==
  ASSUME IInv, Tick
  PROVE  IInv'
<1>1. /\ now' = now + 1 /\ student' = student
      /\ UNCHANGED <<db, pages, writes, removed, overlapped>>
  BY DEF Tick
<1>2. now' \in Nat /\ now <= now'
  BY <1>1 DEF IInv, TypeOK
<1>3. Evolves(items, items', evals, evals')
  BY <1>1, SameItems DEF db
<1>4. /\ student' \in StudentPage \cup {None}
      /\ student' # None => StudentOK(student', items', evals', now')
  BY <1>1, <1>2, <1>3, StudentAges
<1> QED
  BY <1>1, <1>2, <1>4, StudentStep

LEMMA StudentDiesStep ==
  ASSUME IInv, StudentDies
  PROVE  IInv'
<1>1. /\ student' = None /\ now' = now
      /\ UNCHANGED <<db, pages, writes, removed, overlapped>>
  BY DEF StudentDies, rest
<1>2. now' \in Nat /\ now <= now'
  BY <1>1 DEF IInv, TypeOK
<1> QED
  BY <1>1, <1>2, StudentStep

\* What a status says about the dates and the first item.
LEMMA StatusSays ==
  ASSUME TypeOK, NEW asgn \in AssignmentRow, NEW sub \in SubmissionRow, NEW n
  PROVE  /\ StatusBy(asgn, sub, n) \in {"overtime", "self_eval", "extended_eval", "closed"} => asgn.open < now
         /\ StatusBy(asgn, sub, n) = "closed" => /\ asgn.open < now /\ asgn.due < now /\ asgn.eval < now
                                                 /\ sub.due < now /\ sub.eval < now
         /\ StatusBy(asgn, sub, n) \in {"self_eval", "extended_eval"} => Started(n)
         /\ asgn.open < now /\ EffectiveDueDate(asgn, sub) < now =>
              StatusBy(asgn, sub, n) \in {"overtime", "self_eval", "extended_eval", "closed"}
         /\ Started(n) => StatusBy(asgn, sub, n) # "overtime"
<1>1. /\ asgn.open \in Nat /\ asgn.due \in Nat /\ asgn.eval \in Nat
      /\ sub.due \in Nat /\ sub.eval \in Nat /\ now \in Nat
  BY DEF AssignmentRow, SubmissionRow, TypeOK
<1>2. StatusBy(asgn, sub, n) =
        (IF now <= asgn.open THEN "future"
         ELSE IF now <= asgn.due THEN "open"
         ELSE IF now <= sub.due THEN "extended"
         ELSE IF now <= asgn.eval THEN OvertimeOr("self_eval", Started(n))
         ELSE IF now <= sub.eval THEN OvertimeOr("extended_eval", Started(n))
         ELSE "closed")
  BY DEF StatusBy, Status, Dates
<1> HIDE DEF StatusBy
<1>3. StatusBy(asgn, sub, n) =
        (IF now <= asgn.open THEN "future"
         ELSE IF now <= asgn.due THEN "open"
         ELSE IF now <= sub.due THEN "extended"
         ELSE IF now <= asgn.eval THEN (IF Started(n) THEN "self_eval" ELSE "overtime")
         ELSE IF now <= sub.eval THEN (IF Started(n) THEN "extended_eval" ELSE "overtime")
         ELSE "closed")
  BY <1>2 DEF OvertimeOr
<1>4. EffectiveDueDate(asgn, sub) < now <=> asgn.due < now /\ sub.due < now
  BY <1>1 DEF EffectiveDueDate, Later
<1> QED
  BY <1>1, <1>3, <1>4

\* A home page that the student sees has a row for every assignment, and leads
\* to the evaluation only of those that have opened.
LEMMA HomePageIs ==
  ASSUME IInv, NEW before \in StudentPage,
         NEW made \in TableOf(Numbers, SubmissionRow), DOMAIN made = DOMAIN assignments
  PROVE  HomePage(before, made) \in StudentPage /\ StudentOK(HomePage(before, made), items, evals, now)
<1> DEFINE page == Home(before, made)
           drawn == [n \in DOMAIN assignments |-> Drawn(page.asgn[n], page.sub[n], n)]
           q == [page EXCEPT !.drawn = drawn]
<1>1. /\ page \in StudentPage /\ page.kind = "home" /\ page.asked = None
      /\ DOMAIN page.asgn = DOMAIN assignments /\ DOMAIN page.sub = DOMAIN assignments
  <2>1. None \in Numbers \cup {None}
    OBVIOUS
  <2> QED
    BY <2>1, HomeIs DEF StudentPage
<1> HIDE DEF page
<1>2. \A n \in DOMAIN assignments :
        /\ n \in Numbers /\ page.asgn[n] \in AssignmentRow /\ page.sub[n] \in SubmissionRow
        /\ Drawn(page.asgn[n], page.sub[n], n) \subseteq {"submit", "evaluate"}
        /\ "evaluate" \in Drawn(page.asgn[n], page.sub[n], n) => page.asgn[n].open < now
  <2> TAKE n \in DOMAIN assignments
  <2>1. n \in Numbers /\ page.asgn[n] \in AssignmentRow /\ page.sub[n] \in SubmissionRow
    BY <1>1, PageParts DEF StudentPage
  <2> DEFINE status == StatusBy(page.asgn[n], page.sub[n], n)
  <2>2. status \in {"overtime", "self_eval", "extended_eval", "closed"} => page.asgn[n].open < now
    BY <2>1, StatusSays DEF IInv
  <2> HIDE DEF status
  <2>3. Drawn(page.asgn[n], page.sub[n], n) = Offers(status)
    BY DEF Drawn, status
  <2>4. /\ Offers(status) \subseteq {"submit", "evaluate"}
        /\ "evaluate" \in Offers(status) => status \in {"overtime", "self_eval", "extended_eval", "closed"}
    BY DEF Offers
  <2> QED
    BY <2>1, <2>2, <2>3, <2>4
<1>3. DOMAIN drawn = DOMAIN assignments /\ \A n \in DOMAIN assignments : drawn[n] = Drawn(page.asgn[n], page.sub[n], n)
  OBVIOUS
<1>4. drawn \in TableOf(Numbers, SUBSET {"submit", "evaluate"})
  <2>1. drawn \in [DOMAIN assignments -> SUBSET {"submit", "evaluate"}] /\ DOMAIN assignments \in SUBSET Numbers
    BY <1>2
  <2> HIDE DEF drawn
  <2> QED
    BY <2>1, TableMade
<1> HIDE DEF drawn
<1>5. /\ q \in StudentPage /\ q.kind = "home" /\ q.asked = None
      /\ q.asgn = page.asgn /\ q.sub = page.sub /\ q.drawn = drawn
  BY <1>1, <1>4 DEF StudentPage, PageRow
<1>6. HomePage(before, made) = q
  BY DEF HomePage, page, drawn
<1> HIDE DEF q
<1>7. StudentOK(q, items, evals, now)
  BY <1>1, <1>2, <1>3, <1>5 DEF StudentOK
<1> QED
  BY <1>5, <1>6, <1>7

LEMMA OpenHomeStep ==
  ASSUME IInv, OpenHome
  PROVE  IInv'
<1> DEFINE before == Kept(student)
           made == FirstTouch(Copies(assignments, DOMAIN assignments, before.asgn))
           q == HomePage(before, made)
<1>1. CASE StudentDies
  BY <1>1, StudentDiesStep
<1>2. CASE submissions' = made /\ student' = q /\ UNCHANGED <<assignments, items, evals, pages, rest>>
  <2>1. before \in StudentPage
    <3>1. None \in Numbers \cup {None} /\ student \in PageRow(Numbers \cup {None}) \cup {None}
      BY DEF IInv, TypeOK, StudentPage
    <3> QED
      BY <3>1, KeptIsPage DEF StudentPage
  <2>2. before.asgn \in TableOf(Numbers, AssignmentRow)
    BY <2>1, PageParts DEF StudentPage
  <2> HIDE DEF before
  <2>3. /\ made \in TableOf(Numbers, SubmissionRow)
        /\ DOMAIN made = DOMAIN assignments
        /\ SubmissionsOK(made)
        /\ \A n \in DOMAIN submissions : n \in DOMAIN made /\ made[n] = submissions[n]
    BY <2>2, MadeIs
  <2> HIDE DEF made
  <2>4. q \in StudentPage /\ StudentOK(q, items, evals, now)
    BY <2>1, <2>3, HomePageIs
  <2> HIDE DEF q
  <2>5. UNCHANGED <<now, writes, removed, overlapped>>
    BY <1>2 DEF rest
  <2>6. TablesOK'
    BY <1>2, <2>3, <2>5 DEF TablesOK, IInv, TypeOK
  <2>7. AssignmentsEvolve /\ SubmissionsKeep({})
    BY <1>2, <2>3, <2>5 DEF AssignmentsEvolve, SubmissionsKeep
  <2>8. ItemTable(items', evals')
    BY <1>2, ItemTableIs DEF IInv
  <2>9. /\ pages' \in [Admins -> {pages'[b] : b \in Admins}]
        /\ \A b \in Admins : pages'[b] = Aged(pages[b], {}) \/ ({} = {} /\ pages'[b] = pages[b])
    BY <1>2 DEF IInv, TypeOK
  <2>10. /\ student' \in StudentPage \cup {None}
         /\ student' # None => StudentOK(student', items', evals', now')
         /\ now' \in Nat
    BY <1>2, <2>4, <2>5 DEF IInv, TypeOK
  <2> QED
    BY <2>5, <2>6, <2>7, <2>8, <2>9, <2>10, OutsideStep
<1> QED
  BY <1>1, <1>2 DEF OpenHome

\* Who gets to the evaluation without having been asked finds handing in over:
\* the dates have passed, or the first item is evaluated.
LEMMA GoEvalStep ==
  ASSUME IInv, student # None, student.kind = "home", NEW n \in DOMAIN student.drawn,
         NEW consent \in BOOLEAN, GoEval(n, consent),
         consent \/ ("evaluate" \in student.drawn[n] /\ StatusNow(n) # "overtime")
  PROVE  IInv'
<1> DEFINE due == EffectiveDueDate(student.asgn[n], student.sub[n])
           rows == BySequence(ItemsOf(n))
           q == EvaluationPage(n, consent)
<1>1. CASE StudentDies
  BY <1>1, StudentDiesStep
<1>2. CASE due < now /\ student' = q /\ UNCHANGED <<db, pages, rest>>
  <2>1. student \in StudentPage /\ StudentOK(student, items, evals, now)
    BY DEF IInv, TypeOK
  <2>2. /\ n \in DOMAIN student.asgn \cap DOMAIN student.sub
        /\ n \in Numbers /\ student.asgn[n] \in AssignmentRow /\ student.sub[n] \in SubmissionRow
        /\ "evaluate" \in student.drawn[n] => student.asgn[n].open < now
    <3>1. /\ n \in DOMAIN student.asgn \cap DOMAIN student.sub
          /\ "evaluate" \in student.drawn[n] => student.asgn[n].open < now
      BY <2>1 DEF StudentOK
    <3> QED
      BY <2>1, <3>1, PageParts DEF StudentPage
  <2>3. ItemsOf(n) \subseteq DOMAIN items /\ DOMAIN items \subseteq Nat
    BY DbRows DEF ItemsOf, LiveItems, IInv
  <2>4. rows \in [1 .. Cardinality(ItemsOf(n)) -> ItemsOf(n)] /\ Cardinality(ItemsOf(n)) \in Nat
    BY <2>3, BySequenceIs DEF IInv, TypeOK
  <2> HIDE DEF rows
  <2>5. rows \in Seq(Nat) /\ \A k \in DOMAIN rows : rows[k] \in ItemsOf(n)
    BY <2>3, <2>4
  <2>6. /\ q \in StudentPage /\ q.kind = "eval" /\ q.of = n /\ q.rows = rows /\ q.consent = consent
        /\ q.asgn = student.asgn /\ q.sub = student.sub /\ DOMAIN q.drawn = {}
    <3>1. q = [student EXCEPT !.kind = "eval", !.of = n, !.rows = rows, !.drawn = <<>>, !.asked = None,
                              !.consent = consent]
      BY DEF EvaluationPage, rows
    <3>2. <<>> \in TableOf(Numbers, SUBSET {"submit", "evaluate"}) /\ DOMAIN <<>> = {}
      BY EmptyTable
    <3> HIDE DEF q
    <3> QED
      BY <2>1, <2>2, <2>5, <3>1, <3>2 DEF StudentPage, PageRow
  <2> HIDE DEF q
  <2>7. \A k \in DOMAIN rows : rows[k] \in DOMAIN items /\ items[rows[k]].of = n
    BY <2>3, <2>5 DEF ItemsOf
  <2>8. consent \/ ClosedBy(student, n, now)
          \/ \A k \in DOMAIN rows : items[rows[k]].live /\ items[rows[k]].seq = 1 => rows[k] \in evals
    <3> SUFFICES ASSUME "evaluate" \in student.drawn[n], StatusNow(n) # "overtime", ~ClosedBy(student, n, now),
                        NEW k \in DOMAIN rows, items[rows[k]].live, items[rows[k]].seq = 1
                 PROVE  rows[k] \in evals
      OBVIOUS
    <3> DEFINE status == StatusBy(student.asgn[n], student.sub[n], n)
    <3>0. TypeOK /\ FirstItems(items) /\ evals \subseteq LiveItems
      BY DEF IInv, TypeOK
    <3>1. status \in {"overtime", "self_eval", "extended_eval", "closed"}
      BY <1>2, <2>2, <3>0, StatusSays
    <3>2. status = "closed" => ClosedBy(student, n, now)
      BY <2>2, <3>0, StatusSays DEF ClosedBy
    <3>3. status \in {"self_eval", "extended_eval"} => Started(n)
      BY <2>2, <3>0, StatusSays
    <3>4. status # "overtime"
      BY DEF StatusNow
    <3> HIDE DEF status
    <3>5. Started(n)
      BY <3>1, <3>2, <3>3, <3>4
    <3>6. PICK i \in evals : items[i].live /\ items[i].of = n /\ items[i].seq = 1
      BY <3>5 DEF Started
    <3>7. i \in DOMAIN items
      BY <3>0, <3>6 DEF LiveItems
    <3>8. i = rows[k]
      BY <2>7, <3>0, <3>6, <3>7 DEF FirstItems
    <3> QED
      BY <3>6, <3>8
  <2>9. StudentOK(q, items, evals, now)
    <3>1. ClosedBy(student, n, now) => ClosedBy(q, q.of, now)
      BY <2>6 DEF ClosedBy
    <3> QED
      BY <2>2, <2>6, <2>7, <2>8, <3>1 DEF StudentOK
  <2>10. UNCHANGED <<db, pages, writes, removed, overlapped>> /\ now' = now /\ items' = items /\ evals' = evals
    BY <1>2 DEF rest, db
  <2>11. now' \in Nat /\ now <= now'
    BY <2>10 DEF IInv, TypeOK
  <2> QED
    BY <1>2, <2>6, <2>9, <2>10, <2>11, StudentStep
<1> QED
  BY <1>1, <1>2 DEF GoEval

LEMMA DialogStep ==
  ASSUME IInv, student # None, student.kind = "home",
         NEW asked, asked = None \/ asked \in DOMAIN student.drawn,
         student' = [student EXCEPT !.asked = asked], UNCHANGED <<db, pages, rest>>
  PROVE  IInv'
<1> DEFINE q == [student EXCEPT !.asked = asked]
<1>1. student \in StudentPage /\ StudentOK(student, items, evals, now) /\ now \in Nat
  BY DEF IInv, TypeOK
<1>2. asked \in Numbers \cup {None}
  <2>1. DOMAIN student.drawn \subseteq DOMAIN student.asgn
    BY <1>1 DEF StudentOK
  <2> QED
    BY <1>1, <2>1, PageParts DEF StudentPage
<1>3. /\ q \in StudentPage /\ q.asked = asked
      /\ q.asgn = student.asgn /\ q.sub = student.sub /\ q.drawn = student.drawn /\ q.kind = student.kind
  BY <1>1, <1>2 DEF StudentPage, PageRow
<1> HIDE DEF q
<1>4. StudentOK(q, items, evals, now)
  BY <1>1, <1>3 DEF StudentOK
<1>5. UNCHANGED <<db, pages, writes, removed, overlapped>> /\ now' = now /\ items' = items /\ evals' = evals
  BY DEF rest, db
<1>6. student' = q
  BY DEF q
<1>7. now' \in Nat /\ now <= now'
  BY <1>1, <1>5
<1> QED
  BY <1>3, <1>4, <1>5, <1>6, <1>7, StudentStep

LEMMA ClickEvalStep ==
  ASSUME IInv, NEW n \in Numbers, ClickEval(n)
  PROVE  IInv'
<1>1. /\ student # None /\ student.kind = "home" /\ n \in DOMAIN student.drawn /\ "evaluate" \in student.drawn[n]
  BY DEF ClickEval
<1>2. CASE student' = [student EXCEPT !.asked = n] /\ UNCHANGED <<db, pages, rest>>
  BY <1>1, <1>2, DialogStep
<1>3. CASE StatusNow(n) # "overtime" /\ GoEval(n, FALSE)
  BY <1>1, <1>3, GoEvalStep
<1> QED
  BY <1>2, <1>3 DEF ClickEval

LEMMA ConsentStep ==
  ASSUME IInv, Consent
  PROVE  IInv'
<1>1. student # None /\ student.kind = "home" /\ student.asked # None
  BY DEF Consent
<1>2. student.asked \in DOMAIN student.drawn
  BY <1>1 DEF IInv, StudentOK
<1>3. CASE GoEval(student.asked, TRUE)
  BY <1>1, <1>2, <1>3, GoEvalStep
<1>4. CASE student' = [student EXCEPT !.asked = None] /\ UNCHANGED <<db, pages, rest>>
  BY <1>1, <1>4, DialogStep
<1> QED
  BY <1>3, <1>4 DEF Consent

LEMMA AnswerStep ==
  ASSUME IInv, NEW i \in DOMAIN items, Answer(i)
  PROVE  IInv'
<1> DEFINE n == student.of
<1>1. CASE StudentDies
  BY <1>1, StudentDiesStep
<1>2. CASE /\ items[i].live
           /\ evals' = evals \cup {i}
           /\ pages' = [b \in Admins |-> Aged(pages[b], {n})]
           /\ UNCHANGED <<assignments, items, submissions, student, rest>>
  <2>1. UNCHANGED <<now, writes, removed, overlapped>>
    BY <1>2 DEF rest
  <2>2. ItemTable(items', evals') /\ Evolves(items, items', evals, evals')
    <3>1. ItemTable(items, evals) /\ Evolves(items, items, evals, evals)
      BY ItemTableIs, SameItems DEF IInv
    <3> QED
      BY <1>2, <3>1 DEF ItemTable, Evolves
  <2>3. now' \in Nat /\ now <= now'
    BY <2>1 DEF IInv, TypeOK
  <2>4. /\ student' \in StudentPage \cup {None}
        /\ student' # None => StudentOK(student', items', evals', now')
    BY <1>2, <2>2, <2>3, StudentAges
  <2>5. TablesOK'
    BY <1>2, <2>1 DEF TablesOK, IInv, TypeOK
  <2>6. AssignmentsEvolve /\ SubmissionsKeep({n})
    BY <1>2, <2>1 DEF AssignmentsEvolve, SubmissionsKeep
  <2>7. /\ pages' \in [Admins -> {pages'[b] : b \in Admins}]
        /\ \A b \in Admins : pages'[b] = Aged(pages[b], {n})
    BY <1>2
  <2> QED
    BY <2>1, <2>2, <2>3, <2>4, <2>5, <2>6, <2>7, OutsideStep
<1> QED
  BY <1>1, <1>2 DEF Answer

-----------------------------------------------------------------------------
(* The invariant holds *)

LEMMA InitHolds == Init => IInv
<1> SUFFICES ASSUME Init PROVE IInv
  OBVIOUS
<1> DEFINE row == [open |-> FirstDates.open, due |-> FirstDates.due, eval |-> FirstDates.eval, ver |-> 0]
           item == [of |-> 1, seq |-> 1, ver |-> 0, live |-> TRUE]
<1>1. /\ now = 0 /\ assignments = [n \in {1} |-> row] /\ items = <<item>>
      /\ submissions = <<>> /\ evals = {} /\ pages = [a \in Admins |-> None] /\ student = None
      /\ writes = 0 /\ removed = [n \in Numbers |-> 0] /\ overlapped = FALSE
  BY DEF Init
<1>2. row \in AssignmentRow /\ item \in ItemRow /\ 1 \in Numbers
  BY AssignmentsAssumption DEF AssignmentRow, ItemRow, Numbers
<1> HIDE DEF row, item
<1>3. assignments \in TableOf(Numbers, AssignmentRow)
  <2>1. assignments \in [{1} -> AssignmentRow] /\ {1} \in SUBSET Numbers
    BY <1>1, <1>2
  <2> QED
    BY <2>1, TableMade
<1>4. submissions \in TableOf(Numbers, SubmissionRow) /\ DOMAIN submissions = {}
  BY <1>1, EmptyTable
<1>5. items \in Seq(ItemRow) /\ DOMAIN items = {1}
  BY <1>1, <1>2
<1>6. FirstItems(items)
  BY <1>5 DEF FirstItems
<1>7. TypeOK
  BY <1>1, <1>3, <1>4, <1>5 DEF TypeOK, LiveItems
<1> QED
  BY <1>1, <1>4, <1>6, <1>7 DEF IInv, SubmissionsOK

LEMMA AdminStep ==
  ASSUME IInv, NEW a \in Admins,
         \/ OpenList(a) \/ \E n \in Numbers : OpenItems(a, n)
         \/ More(a) \/ FewerAssignments(a) \/ RemoveAssignment(a) \/ Decline(a)
         \/ MoreItems(a) \/ FewerItems(a) \/ RemoveItem(a) \/ \E i \in DOMAIN items : SaveItem(a, i)
         \/ OpenStudentsHome(a) \/ ClosePage(a)
         \/ \E n \in Numbers, day \in Days :
              \/ \E field \in Edited : SetDate(a, n, field, day)
              \/ \E field \in {"due", "eval"} : SetOwnDate(a, n, field, day)
  PROVE  IInv'
<1>1. CASE OpenList(a) \/ \E n \in Numbers : OpenItems(a, n)
  BY <1>1, OpenListStep, OpenItemsStep
<1>2. CASE More(a) \/ FewerAssignments(a) \/ RemoveAssignment(a) \/ Decline(a)
  BY <1>2, MoreStep, FewerAssignmentsStep, RemoveAssignmentStep, DeclineStep
<1>3. CASE MoreItems(a) \/ FewerItems(a) \/ RemoveItem(a) \/ \E i \in DOMAIN items : SaveItem(a, i)
  BY <1>3, MoreItemsStep, FewerItemsStep, RemoveItemStep, SaveItemStep
<1>4. CASE OpenStudentsHome(a)
  BY <1>4, OpenStudentsHomeStep
<1>5. CASE ClosePage(a)
  BY <1>5, AdminDiesStep DEF ClosePage
<1>6. CASE \E n \in Numbers, day \in Days : \E field \in Edited : SetDate(a, n, field, day)
  BY <1>6, SetDateStep
<1>7. CASE \E n \in Numbers, day \in Days : \E field \in {"due", "eval"} : SetOwnDate(a, n, field, day)
  BY <1>7, SetOwnDateStep
<1> QED
  BY <1>1, <1>2, <1>3, <1>4, <1>5, <1>6, <1>7

LEMMA NextHolds == IInv /\ [Next]_vars => IInv'
<1> SUFFICES ASSUME IInv, [Next]_vars PROVE IInv'
  OBVIOUS
<1>1. CASE Tick
  BY <1>1, TickStep
<1>2. CASE \E a \in Admins :
             \/ OpenList(a) \/ \E n \in Numbers : OpenItems(a, n)
             \/ More(a) \/ FewerAssignments(a) \/ RemoveAssignment(a) \/ Decline(a)
             \/ MoreItems(a) \/ FewerItems(a) \/ RemoveItem(a) \/ \E i \in DOMAIN items : SaveItem(a, i)
             \/ OpenStudentsHome(a) \/ ClosePage(a)
             \/ \E n \in Numbers, day \in Days :
                  \/ \E field \in Edited : SetDate(a, n, field, day)
                  \/ \E field \in {"due", "eval"} : SetOwnDate(a, n, field, day)
  BY <1>2, AdminStep
<1>3. CASE OpenHome \/ Consent \/ LeaveSite
  BY <1>3, OpenHomeStep, ConsentStep, StudentDiesStep DEF LeaveSite
<1>4. CASE \E n \in Numbers : ClickEval(n)
  BY <1>4, ClickEvalStep
<1>5. CASE \E i \in DOMAIN items : Answer(i)
  BY <1>5, AnswerStep
<1>6. CASE UNCHANGED vars
  <2>1. UNCHANGED <<now, db, pages, student, writes, removed, overlapped>>
    BY <1>6 DEF vars, rest
  <2>2. Evolves(items, items', evals, evals')
    BY <2>1, SameItems DEF db
  <2>3. now' \in Nat /\ now <= now'
    BY <2>1 DEF IInv, TypeOK
  <2>4. /\ student' \in StudentPage \cup {None}
        /\ student' # None => StudentOK(student', items', evals', now')
    BY <2>1, <2>2, <2>3, StudentAges
  <2> QED
    BY <2>1, <2>3, <2>4, StudentStep
<1> QED
  BY <1>1, <1>2, <1>3, <1>4, <1>5, <1>6 DEF Next

LEMMA Invariant == Spec => []IInv
BY InitHolds, NextHolds, PTL DEF Spec

\* Rows, pages and copies always have their form; an evaluation belongs to an
\* item that there is.
THEOREM TypeCorrect == Spec => []TypeOK
BY Invariant, PTL DEF IInv

\* However the assignment's dates are moved, a submission keeps at least the due
\* date that it was made with, unless its own has been set.
THEOREM DeadlineKept == Spec => []DeadlineStands
<1>1. IInv => DeadlineStands
  <2> SUFFICES ASSUME IInv, NEW n \in DOMAIN submissions, ~submissions[n].moved
               PROVE  EffectiveDueDate(assignments[n], submissions[n]) >= submissions[n].first
    BY DEF DeadlineStands
  <2>1. assignments[n] \in AssignmentRow /\ submissions[n] \in SubmissionRow
    BY DbRows DEF IInv
  <2>2. submissions[n].due >= submissions[n].first
    BY DEF IInv, SubmissionsOK
  <2> QED
    BY <2>1, <2>2 DEF EffectiveDueDate, Later, AssignmentRow, SubmissionRow
<1> QED
  BY <1>1, Invariant, PTL

-----------------------------------------------------------------------------
(* What a step may do to the rows *)

\* A step that writes neither assignments nor evaluations.
Elsewhere == UNCHANGED <<assignments, evals>>

LEMMA StepsElsewhere ==
  ASSUME [Next]_vars
  PROVE  \/ Elsewhere
         \/ \E a \in Admins : More(a) \/ RemoveAssignment(a) \/ RemoveItem(a)
         \/ \E a \in Admins, n \in Numbers, day \in Days, field \in Edited : SetDate(a, n, field, day)
         \/ \E i \in DOMAIN items : Answer(i)
<1>1. CASE Tick
  BY <1>1 DEF Tick, Elsewhere, db
<1>2. ASSUME NEW a \in Admins, OpenList(a) \/ (\E n \in Numbers : OpenItems(a, n)) \/ FewerAssignments(a)
                                \/ Decline(a) \/ FewerItems(a) \/ OpenStudentsHome(a) \/ ClosePage(a)
      PROVE  Elsewhere
  BY <1>2 DEF OpenList, OpenItems, FewerAssignments, Decline, FewerItems, OpenStudentsHome, ClosePage,
              AdminDies, Elsewhere, db
<1>3. ASSUME NEW a \in Admins, MoreItems(a) \/ \E i \in DOMAIN items : SaveItem(a, i)
      PROVE  Elsewhere
  BY <1>3 DEF MoreItems, SaveItem, AdminDies, Elsewhere, db
<1>4. ASSUME NEW a \in Admins, NEW n \in Numbers, NEW day \in Days, NEW field \in {"due", "eval"},
             SetOwnDate(a, n, field, day)
      PROVE  Elsewhere
  BY <1>4 DEF SetOwnDate, AdminDies, Elsewhere, db
<1>5. CASE OpenHome \/ Consent \/ LeaveSite \/ \E n \in Numbers : ClickEval(n)
  BY <1>5 DEF OpenHome, Consent, LeaveSite, ClickEval, GoEval, StudentDies, Elsewhere, db
<1>6. CASE UNCHANGED vars
  BY <1>6 DEF vars, db, Elsewhere
<1> QED
  BY <1>1, <1>2, <1>3, <1>4, <1>5, <1>6 DEF Next

\* Evaluations are lost only to a removal that asked, or had nothing to ask
\* about when it counted.
THEOREM RemovalsAsk == Spec => RemovedKnowingly
<1> DEFINE Kn == evals \subseteq evals' \/
             \E a \in Admins : ~Unasked(a) /\ (pages[a].asked.shown \/ pages[a].asked.had \cap (evals \ evals') = {})
<1>1. IInv /\ [Next]_vars => Kn
  <2> SUFFICES ASSUME IInv, [Next]_vars PROVE Kn
    OBVIOUS
  <2>1. ASSUME NEW a \in Admins, NEW kind \in {"list", "items"}, Confirming(a, kind) PROVE Kn
    <3>1. pages[a] \in AdminPage /\ Kept(pages[a]) = pages[a] /\ ~Unasked(a)
      BY <2>1, AdminHas DEF Confirming
    <3>2. pages[a].asked # None /\ pages[a].asked \in Questions \cup {None}
      BY <3>1 DEF Unasked, AdminPage, PageRow
    <3>3. pages[a].asked.shown \/ pages[a].asked.had = {}
      BY <3>2 DEF Questions
    <3> QED
      BY <3>1, <3>3
  <2>2. ASSUME NEW a \in Admins, RemoveAssignment(a) \/ RemoveItem(a) PROVE Kn
    BY <2>1, <2>2 DEF RemoveAssignment, RemoveItem
  <2>3. ASSUME NEW a \in Admins, More(a) PROVE Kn
    BY <2>3 DEF More, AdminDies, db
  <2>4. ASSUME NEW a \in Admins, NEW n \in Numbers, NEW day \in Days, NEW field \in Edited, SetDate(a, n, field, day)
        PROVE  Kn
    BY <2>4 DEF SetDate, AdminDies, db
  <2>5. ASSUME NEW i \in DOMAIN items, Answer(i) PROVE Kn
    BY <2>5 DEF Answer, StudentDies, db
  <2>6. CASE Elsewhere
    BY <2>6 DEF Elsewhere
  <2> HIDE DEF Kn
  <2> QED
    BY <2>2, <2>3, <2>4, <2>5, <2>6, StepsElsewhere
<1> QED
  BY <1>1, Invariant, PTL DEF Spec, RemovedKnowingly

\* An administrator who changes a date changes no other, however old the copy
\* is that the row is written from.
THEOREM OneDate == Spec => DatesOneAtATime
<1> DEFINE changed(n) == {f \in {"open", "due", "eval"} : assignments'[n][f] # assignments[n][f]}
           One == \A n \in {m \in DOMAIN assignments \cap DOMAIN assignments' : removed[m] = 0} :
                    Cardinality(changed(n)) <= 1
<1>1. IInv /\ [Next]_vars => One
  <2> SUFFICES ASSUME IInv, [Next]_vars,
                      NEW n \in DOMAIN assignments \cap DOMAIN assignments', removed[n] = 0
               PROVE  Cardinality(changed(n)) <= 1
    OBVIOUS
  <2>1. ASSUME NEW f, changed(n) \subseteq {f} PROVE Cardinality(changed(n)) <= 1
    <3>1. IsFiniteSet({f}) /\ Cardinality({f}) = 1
      BY FS_Singleton
    <3>2. Cardinality(changed(n)) <= Cardinality({f})
      <4> HIDE DEF changed
      <4> QED
        BY <2>1, <3>1, FS_Subset
    <3>3. IsFiniteSet(changed(n)) /\ Cardinality(changed(n)) \in Nat
      <4> HIDE DEF changed
      <4> QED
        BY <2>1, <3>1, FS_Subset, FS_CardinalityType
    <3> HIDE DEF changed
    <3> QED
      BY <3>1, <3>2, <3>3
  <2>2. ASSUME assignments'[n] = assignments[n] PROVE changed(n) \subseteq {"open"}
    BY <2>2
  <2>3. ASSUME NEW a \in Admins, More(a) PROVE assignments'[n] = assignments[n]
    BY <2>3 DEF More, Put, AdminDies, db
  <2>4. ASSUME NEW a \in Admins, RemoveAssignment(a) PROVE assignments'[n] = assignments[n]
    <3>1. CASE AdminDies(a)
      BY <3>1 DEF AdminDies, db
    <3>2. CASE assignments' = [m \in DOMAIN assignments \ {Last(pages[a].rows)} |-> assignments[m]]
      BY <3>2
    <3> QED
      BY <2>4, <3>1, <3>2 DEF RemoveAssignment
  <2>5. ASSUME NEW a \in Admins, RemoveItem(a) PROVE assignments'[n] = assignments[n]
    BY <2>5 DEF RemoveItem, AdminDies, db
  <2>6. ASSUME NEW i \in DOMAIN items, Answer(i) PROVE assignments'[n] = assignments[n]
    BY <2>6 DEF Answer, StudentDies, db
  <2>7. ASSUME NEW a \in Admins, NEW m \in Numbers, NEW day \in Days, NEW field \in Edited,
               SetDate(a, m, field, day)
        PROVE  changed(n) \subseteq {field}
    <3>1. CASE AdminDies(a)
      BY <3>1 DEF AdminDies, db
    <3>2. CASE /\ SameVersion(a, m)
               /\ assignments' = [assignments EXCEPT ![m] = Redated(pages[a].asgn[m], field, day)]
      <4>1. CASE n # m
        BY <3>2, <4>1
      <4>2. CASE n = m
        <5>1. /\ n \in DOMAIN pages[a].asgn /\ pages[a] \in AdminPage
              /\ CopiesOK(pages[a], assignments, submissions, removed)
              /\ assignments[n].ver = pages[a].asgn[n].ver
          BY <2>7, <3>2, <4>2, AdminHas DEF SetDate, Free, SameVersion
        <5>2. pages[a].asgn[n] = assignments[n]
          BY <5>1 DEF CopiesOK
        <5>3. assignments'[n] = Redated(assignments[n], field, day)
          BY <3>2, <4>2, <5>2
        <5>4. field \in {"open", "due", "eval"} /\ day \in Nat /\ assignments[n] \in AssignmentRow
          BY AssignmentsAssumption, DbRows DEF IInv
        <5> DEFINE row == assignments[n]
        <5>5. \A f \in {"open", "due", "eval"} : f # field => Redated(row, field, day)[f] = row[f]
          <6>1. row \in AssignmentRow
            BY <5>4
          <6> HIDE DEF row
          <6> QED
            BY <5>4, <6>1, RedatedRow
        <5> QED
          BY <5>3, <5>5
      <4> QED
        BY <4>1, <4>2
    <3> QED
      BY <2>7, <3>1, <3>2 DEF SetDate, Redated
  <2>8. CASE Elsewhere
    <3>1. assignments'[n] = assignments[n]
      BY <2>8 DEF Elsewhere
    <3> QED
      BY <2>1, <2>2, <3>1
  <2> HIDE DEF changed
  <2> QED
    BY <2>1, <2>2, <2>3, <2>4, <2>5, <2>6, <2>7, <2>8, StepsElsewhere
<1> QED
  BY <1>1, Invariant, PTL DEF Spec, DatesOneAtATime

\* A first item is evaluated by an answer, of a student who was asked or finds
\* handing in over.
THEOREM EndsKnowingly == Spec => ClosedKnowingly
<1> DEFINE Ended(n) == ~Started(n) /\ Started(n)' /\ StatusBy(assignments[n], submissions[n], n) \in SubmitStatuses
           Knowing == evals' # evals => \A n \in DOMAIN submissions : Ended(n) => student.consent
<1>1. IInv /\ [Next]_vars => Knowing
  <2> SUFFICES ASSUME IInv, [Next]_vars, evals' # evals,
                      NEW n \in DOMAIN submissions, ~Started(n), Started(n)'
               PROVE  student.consent
    OBVIOUS
  <2>0. evals \subseteq DOMAIN items
    BY DEF IInv, TypeOK, LiveItems
  <2>1. PICK j \in evals' : items'[j].live /\ items'[j].of = n /\ items'[j].seq = 1
    BY DEF Started
  <2>2. ASSUME evals' \subseteq evals,
               \A i \in DOMAIN items : items'[i].of = items[i].of /\ items'[i].seq = items[i].seq
                                         /\ (items'[i].live => items[i].live)
        PROVE  FALSE
    BY <2>0, <2>1, <2>2 DEF Started
  <2>3. ASSUME NEW a \in Admins, More(a) PROVE FALSE
    BY <2>3 DEF More, AdminDies, db
  <2>4. ASSUME NEW a \in Admins, RemoveAssignment(a) PROVE FALSE
    <3>1. CASE AdminDies(a)
      BY <3>1 DEF AdminDies, db
    <3>2. ASSUME NEW m,
                 items' = [i \in DOMAIN items |-> IF items[i].of = m THEN [items[i] EXCEPT !.live = FALSE] ELSE items[i]],
                 evals' = evals \ ItemsOf(m)
          PROVE  FALSE
      <4>1. Evolves(items, items', evals, evals')
        BY <3>2, ItemsGo
      <4> QED
        BY <2>2, <3>2, <4>1 DEF Evolves
    <3> QED
      BY <2>4, <3>1, <3>2 DEF RemoveAssignment
  <2>5. ASSUME NEW a \in Admins, RemoveItem(a) PROVE FALSE
    <3>1. CASE AdminDies(a)
      BY <3>1 DEF AdminDies, db
    <3>2. ASSUME NEW i, items' = [items EXCEPT ![i].live = FALSE], evals' = evals \ {i}
          PROVE  FALSE
      <4>1. \A k \in DOMAIN items : items[k] \in ItemRow
        BY DbRows DEF IInv
      <4>2. \A k \in DOMAIN items : items'[k] = IF k = i THEN [items[k] EXCEPT !.live = FALSE] ELSE items[k]
        <5>1. items = [k \in DOMAIN items |-> items[k]]
          BY DEF IInv, TypeOK
        <5> QED
          BY <3>2, <5>1
      <4>3. \A k \in DOMAIN items : items'[k].of = items[k].of /\ items'[k].seq = items[k].seq
                                      /\ (items'[k].live => items[k].live)
        BY <4>1, <4>2 DEF ItemRow
      <4> QED
        BY <2>2, <3>2, <4>3
    <3> QED
      BY <2>5, <3>1, <3>2 DEF RemoveItem
  <2>6. ASSUME NEW a \in Admins, NEW m \in Numbers, NEW day \in Days, NEW field \in Edited, SetDate(a, m, field, day)
        PROVE  FALSE
    BY <2>6 DEF SetDate, AdminDies, db
  <2>7. ASSUME Elsewhere PROVE FALSE
    BY <2>7 DEF Elsewhere
  <2>8. ASSUME NEW i \in DOMAIN items, Answer(i) PROVE student.consent
    <3>1. /\ student # None /\ student.kind = "eval" /\ items[i].live
          /\ StatusNow(student.of) \in EvalStatuses
          /\ evals' = evals \cup {i} /\ items' = items
          /\ \E k \in DOMAIN student.rows : student.rows[k] = i
      BY <2>8 DEF Answer, StudentDies, db
    <3>2. j = i
      BY <2>1, <3>1 DEF Started
    <3>3. PICK k \in DOMAIN student.rows : student.rows[k] = i
      BY <3>1
    <3>4. student \in StudentPage /\ StudentOK(student, items, evals, now) /\ TypeOK
      BY <3>1 DEF IInv, TypeOK
    <3>5. /\ student.of \in DOMAIN student.asgn \cap DOMAIN student.sub
          /\ items[i].of = student.of
          /\ student.consent \/ ClosedBy(student, student.of, now)
               \/ \A l \in DOMAIN student.rows :
                    items[student.rows[l]].live /\ items[student.rows[l]].seq = 1 => student.rows[l] \in evals
      BY <3>1, <3>3, <3>4 DEF StudentOK
    <3>6. i \notin evals
      BY <2>1, <3>1, <3>2 DEF Started
    <3>7. ~ClosedBy(student, student.of, now)
      <4> DEFINE asgn == student.asgn[student.of]
                 sub == student.sub[student.of]
      <4>1. asgn \in AssignmentRow /\ sub \in SubmissionRow
        BY <3>4, <3>5, PageParts DEF StudentPage
      <4>2. StatusNow(student.of) = StatusBy(asgn, sub, student.of)
        BY DEF StatusNow
      <4>3. StatusNow(student.of) # "closed" /\ student.of \in Numbers
        BY <3>1, <3>4, <3>5, PageParts DEF EvalStatuses, StudentPage
      <4> SUFFICES ASSUME asgn.open < now, asgn.due < now, asgn.eval < now, sub.due < now, sub.eval < now
                   PROVE  FALSE
        BY DEF ClosedBy
      <4> HIDE DEF asgn, sub
      <4>4. StatusBy(asgn, sub, student.of) = "closed"
        BY <3>4, <4>1 DEF StatusBy, Status, Dates, AssignmentRow, SubmissionRow, TypeOK
      <4> QED
        BY <4>2, <4>3, <4>4
    <3> QED
      BY <2>1, <3>1, <3>2, <3>3, <3>5, <3>6, <3>7
  <2> QED
    BY <2>3, <2>4, <2>5, <2>6, <2>7, <2>8, StepsElsewhere
<1> QED
  BY <1>1, Invariant, PTL DEF Spec, ClosedKnowingly

-----------------------------------------------------------------------------
(* Numbers without gaps *)

LEMMA CountedRows ==
  ASSUME NEW N \in Nat, NEW s \in [1 .. N -> 1 .. N], \A j, k \in 1 .. N : j < k => s[j] < s[k]
  PROVE  \A k \in 1 .. N : s[k] = k
<1> DEFINE Up == {k \in Nat : k \in 1 .. N => s[k] >= k}
           Down == {d \in Nat : d < N => s[N - d] <= N - d}
<1>1. Up = Nat
  <2>1. 0 \in Up
    OBVIOUS
  <2>2. ASSUME NEW k \in Up PROVE k + 1 \in Up
    <3> SUFFICES ASSUME k + 1 \in 1 .. N PROVE s[k + 1] >= k + 1
      OBVIOUS
    <3>1. CASE k = 0
      <4>1. s[1] \in 1 .. N
        BY <3>1
      <4> QED
        BY <3>1, <4>1
    <3>2. CASE k # 0
      <4>1. k \in 1 .. N /\ s[k] < s[k + 1] /\ s[k] \in 1 .. N /\ s[k + 1] \in 1 .. N
        BY <3>2
      <4>2. s[k] >= k
        BY <2>2, <4>1
      <4> QED
        BY <4>1, <4>2
    <3> QED
      BY <3>1, <3>2
  <2> HIDE DEF Up
  <2>3. Up \subseteq Nat
    BY DEF Up
  <2> QED
    BY <2>1, <2>2, <2>3, SetInduction
<1>2. Down = Nat
  <2>1. 0 \in Down
    <3> SUFFICES ASSUME 0 < N PROVE s[N] <= N
      OBVIOUS
    <3> QED
      OBVIOUS
  <2>2. ASSUME NEW d \in Down PROVE d + 1 \in Down
    <3> SUFFICES ASSUME d + 1 < N PROVE s[N - (d + 1)] <= N - (d + 1)
      OBVIOUS
    <3>1. N - (d + 1) \in 1 .. N /\ N - d \in 1 .. N /\ N - (d + 1) < N - d
      OBVIOUS
    <3>2. s[N - (d + 1)] < s[N - d] /\ s[N - (d + 1)] \in 1 .. N /\ s[N - d] \in 1 .. N
      BY <3>1
    <3>3. s[N - d] <= N - d
      BY <2>2
    <3> QED
      BY <3>1, <3>2, <3>3
  <2> HIDE DEF Down
  <2>3. Down \subseteq Nat
    BY DEF Down
  <2> QED
    BY <2>1, <2>2, <2>3, SetInduction
<1>3. ASSUME NEW k \in 1 .. N PROVE s[k] = k
  <2>1. s[k] >= k
    <3>1. k \in Up
      BY <1>1
    <3> QED
      BY <3>1
  <2>2. s[k] <= k
    <3>1. N - k \in Nat /\ N - k < N /\ N - (N - k) = k
      OBVIOUS
    <3>2. N - k \in Down
      <4> HIDE DEF Down
      <4> QED
        BY <1>2, <3>1
    <3>3. s[N - (N - k)] <= N - (N - k)
      BY <3>1, <3>2
    <3> QED
      BY <3>1, <3>3
  <2>3. s[k] \in Nat
    OBVIOUS
  <2> QED
    BY <2>1, <2>2, <2>3
<1> QED
  BY <1>3

LEMMA ThereIs == \A n : There(items, n) = ItemsOf(n)
BY DEF There, ItemsOf, LiveItems

LEMMA ThereCounted ==
  ASSUME NEW table \in Seq(ItemRow), NEW n
  PROVE  /\ There(table, n) \subseteq DOMAIN table /\ DOMAIN table \subseteq Nat
         /\ IsFiniteSet(There(table, n)) /\ Cardinality(There(table, n)) \in Nat
<1>1. DOMAIN table = 1 .. Len(table) /\ Len(table) \in Nat
  OBVIOUS
<1>2. IsFiniteSet(DOMAIN table)
  BY <1>1, FS_Interval
<1>3. There(table, n) \subseteq DOMAIN table
  BY DEF There
<1> QED
  BY <1>1, <1>2, <1>3, FS_Subset, FS_CardinalityType

\* Only which rows there are, and where, counts.
SamePlaces(table, table2) ==
  /\ DOMAIN table2 = DOMAIN table
  /\ \A i \in DOMAIN table :
       table2[i].live = table[i].live /\ table2[i].of = table[i].of /\ table2[i].seq = table[i].seq

LEMMA PlacesKeep ==
  ASSUME NEW table, NEW table2, SamePlaces(table, table2)
  PROVE  /\ \A n : There(table2, n) = There(table, n)
         /\ Numbered(table) => Numbered(table2)
         /\ \A p, numbers : PageFits(p, numbers, table) => PageFits(p, numbers, table2)
<1>1. \A n : There(table2, n) = There(table, n)
  BY DEF SamePlaces, There
<1>2. \A n : \A i \in There(table, n) : i \in DOMAIN table /\ table2[i].seq = table[i].seq
  BY DEF SamePlaces, There
<1>3. Numbered(table) => Numbered(table2)
  <2> SUFFICES ASSUME Numbered(table), NEW n \in Numbers
               PROVE  /\ {table2[i].seq : i \in There(table2, n)} = 1 .. Cardinality(There(table2, n))
                      /\ \A i, j \in There(table2, n) : table2[i].seq = table2[j].seq => i = j
    BY DEF Numbered
  <2>1. {table2[i].seq : i \in There(table2, n)} = {table[i].seq : i \in There(table, n)}
    BY <1>1, <1>2
  <2> QED
    BY <1>1, <1>2, <2>1 DEF Numbered
<1>4. ASSUME NEW n, NEW rows, ItemsAt(table, n, rows) PROVE ItemsAt(table2, n, rows)
  <2>1. Cardinality(There(table2, n)) = Cardinality(There(table, n))
    BY <1>1
  <2>2. \A r : r \in DOMAIN table /\ ~table[r].live => r \in DOMAIN table2 /\ ~table2[r].live
    BY DEF SamePlaces
  <2> QED
    BY <1>1, <1>2, <1>4, <2>1, <2>2 DEF ItemsAt
<1> QED
  BY <1>1, <1>3, <1>4 DEF PageFits

SameView(p, q) == q.kind = p.kind /\ q.of = p.of /\ q.rows = p.rows /\ (q.asked # None => p.asked # None)

LEMMA ViewKeeps ==
  ASSUME NEW p, NEW q, SameView(p, q)
  PROVE  \A numbers, table : PageFits(p, numbers, table) => PageFits(q, numbers, table)
BY DEF SameView, PageFits

LEMMA HomeFits ==
  ASSUME NEW q, q.kind \in {"none", "home"}
  PROVE  \A numbers, table : PageFits(q, numbers, table)
BY DEF PageFits

LEMMA EmptyView == EmptyPage.kind = "none" /\ EmptyPage.asked = None
BY DEF EmptyPage

LEMMA NumberedHolds == IInv /\ OrderedInv => NumberedInOrder
<1> SUFFICES ASSUME IInv, Ordered PROVE NumberedInOrder
  BY DEF OrderedInv, NumberedInOrder
<1>1. \A n \in Numbers : {items[i].seq : i \in ItemsOf(n)} = 1 .. Cardinality(ItemsOf(n))
  BY ThereIs DEF Ordered, Numbered
<1>2. \A n \in DOMAIN assignments : n \in Numbers
  BY DbRows DEF IInv
<1> QED
  BY <1>1, <1>2 DEF NumberedInOrder, Ordered

-----------------------------------------------------------------------------
(* Steps that leave the numbers and the rows of the pages alone *)

\* A page that lists what it listed, or nothing.
KeepsView(p, q) == SameView(Kept(p), Kept(q)) \/ Kept(q).kind \in {"none", "home"}

LEMMA QuietOrdered ==
  ASSUME Ordered, DOMAIN assignments' = DOMAIN assignments, SamePlaces(items, items'),
         \A b \in Admins : KeepsView(pages[b], pages'[b])
  PROVE  Ordered'
<1>1. Gapless'
  BY DEF Gapless, Ordered
<1>2. Numbered(items')
  BY PlacesKeep DEF Ordered
<1>3. \A b \in Admins : PageFits(Kept(pages'[b]), DOMAIN assignments', items')
  <2> TAKE b \in Admins
  <2>1. CASE SameView(Kept(pages[b]), Kept(pages'[b]))
    <3>1. PageFits(Kept(pages[b]), DOMAIN assignments, items)
      BY DEF Ordered
    <3>2. PageFits(Kept(pages[b]), DOMAIN assignments, items')
      BY <3>1, PlacesKeep
    <3> QED
      BY <2>1, <3>2, ViewKeeps
  <2>2. CASE Kept(pages'[b]).kind \in {"none", "home"}
    BY <2>2, HomeFits
  <2> QED
    BY <2>1, <2>2 DEF KeepsView
<1>4. \A b, c \in Admins : b # c => Apart(Kept(pages'[b]), Kept(pages'[c]))
  <2>1. \A b \in Admins : Kept(pages'[b]).kind \in {"none", "home"} \/ Kept(pages'[b]).kind = Kept(pages[b]).kind
    BY DEF SameView, KeepsView
  <2>2. \A b, c \in Admins : b # c => Apart(Kept(pages[b]), Kept(pages[c]))
    BY DEF Ordered
  <2> QED
    BY <2>1, <2>2 DEF Apart
<1> QED
  BY <1>1, <1>2, <1>3, <1>4 DEF Ordered

LEMMA SamePlacesSame == SamePlaces(items, items)
BY DEF SamePlaces

LEMMA SelfView == \A p : KeepsView(p, p)
BY DEF SameView, KeepsView

LEMMA EditedView ==
  ASSUME NEW p, NEW q, p # None, q.kind = p.kind, q.of = p.of, q.rows = p.rows,
         q.asked = p.asked \/ q.asked = None
  PROVE  KeepsView(p, q)
<1>1. CASE q = None
  BY <1>1, EmptyView DEF KeepsView, Kept
<1>2. CASE q # None
  BY <1>2 DEF KeepsView, SameView, Kept
<1> QED
  BY <1>1, <1>2

LEMMA AgedView ==
  ASSUME NEW p \in AdminPage \cup {None}, NEW S
  PROVE  KeepsView(p, Aged(p, S))
<1>1. CASE p = None
  BY <1>1, SelfView DEF Aged
<1>2. CASE p # None
  <2>1. /\ Aged(p, S).kind = p.kind /\ Aged(p, S).of = p.of /\ Aged(p, S).rows = p.rows
        /\ Aged(p, S).asked = p.asked
    BY <1>2, AgedPage DEF AdminPage
  <2> QED
    BY <1>2, <2>1, EditedView
<1> QED
  BY <1>1, <1>2

\* The pages of others as they were, and a's with the same rows.
LEMMA OnePageOrdered ==
  ASSUME Ordered, DOMAIN assignments' = DOMAIN assignments, SamePlaces(items, items'), NEW a \in Admins,
         \A b \in Admins : b # a => pages'[b] = pages[b],
         KeepsView(pages[a], pages'[a])
  PROVE  Ordered'
BY QuietOrdered, SelfView

LEMMA AdminDiesOrdered ==
  ASSUME IInv, Ordered, NEW a \in Admins, AdminDies(a)
  PROVE  Ordered'
<1>1. /\ pages' = [pages EXCEPT ![a] = None] /\ assignments' = assignments /\ items' = items
      /\ pages \in [Admins -> AdminPage \cup {None}]
  BY DEF AdminDies, db, IInv, TypeOK
<1>2. pages'[a] = None /\ \A b \in Admins : b # a => pages'[b] = pages[b]
  BY <1>1
<1>3. KeepsView(pages[a], pages'[a])
  BY <1>2, EmptyView DEF Kept, KeepsView
<1> QED
  BY <1>1, <1>2, <1>3, OnePageOrdered, SamePlacesSame

LEMMA DeclineOrdered ==
  ASSUME IInv, Ordered, NEW a \in Admins, Decline(a)
  PROVE  Ordered'
<1> DEFINE q == [pages[a] EXCEPT !.asked = None]
<1>1. /\ pages' = [pages EXCEPT ![a].asked = None] /\ assignments' = assignments /\ items' = items
      /\ pages \in [Admins -> AdminPage \cup {None}]
  BY DEF Decline, db, IInv, TypeOK
<1>2. pages[a] # None /\ pages[a] \in AdminPage
  BY <1>1, EmptyView DEF Decline, Unasked, Kept
<1>3. pages'[a] = q /\ \A b \in Admins : b # a => pages'[b] = pages[b]
  BY <1>1
<1>4. None \in Questions \cup {None}
  OBVIOUS
<1>5. q.kind = pages[a].kind /\ q.of = pages[a].of /\ q.rows = pages[a].rows /\ q.asked = None
  BY <1>2, <1>4, AskedPage
<1> HIDE DEF q
<1>6. KeepsView(pages[a], q)
  BY <1>2, <1>5, EditedView
<1> QED
  BY <1>1, <1>3, <1>6, OnePageOrdered, SamePlacesSame

LEMMA SaveItemOrdered ==
  ASSUME IInv, Ordered, NEW a \in Admins, NEW i \in DOMAIN items, SaveItem(a, i)
  PROVE  Ordered'
<1>1. CASE AdminDies(a)
  BY <1>1, AdminDiesOrdered
<1>2. CASE /\ items' = [items EXCEPT ![i].ver = @ + 1]
           /\ pages' = [pages EXCEPT ![a].vers[i] = @ + 1]
           /\ UNCHANGED assignments
  <2>1. pages[a] # None /\ pages[a] \in AdminPage /\ pages \in [Admins -> AdminPage \cup {None}]
    BY AdminHas DEF SaveItem, Free, IInv, TypeOK
  <2>2. \A b \in Admins : b # a => pages'[b] = pages[b]
    BY <1>2, <2>1
  <2>3. /\ pages'[a].kind = pages[a].kind /\ pages'[a].of = pages[a].of
        /\ pages'[a].rows = pages[a].rows /\ pages'[a].asked = pages[a].asked
    BY <1>2, <2>1 DEF AdminPage, PageRow
  <2>4. KeepsView(pages[a], pages'[a])
    BY <2>1, <2>3, EditedView
  <2>5. SamePlaces(items, items')
    <3>1. \A j \in DOMAIN items : items[j] \in ItemRow
      BY DbRows DEF IInv
    <3>2. items = [j \in DOMAIN items |-> items[j]]
      BY DEF IInv, TypeOK
    <3>3. /\ DOMAIN items' = DOMAIN items
          /\ \A j \in DOMAIN items : items'[j] = IF j = i THEN [items[j] EXCEPT !.ver = @ + 1] ELSE items[j]
      BY <1>2, <3>2
    <3> QED
      BY <3>1, <3>3 DEF SamePlaces, ItemRow
  <2> QED
    BY <1>2, <2>2, <2>4, <2>5, OnePageOrdered
<1> QED
  BY <1>1, <1>2 DEF SaveItem

LEMMA SetDateOrdered ==
  ASSUME IInv, Ordered, NEW a \in Admins, NEW n \in Numbers, NEW field \in Edited, NEW day \in Days,
         SetDate(a, n, field, day)
  PROVE  Ordered'
<1>1. CASE AdminDies(a)
  BY <1>1, AdminDiesOrdered
<1>2. CASE /\ assignments' = [assignments EXCEPT ![n] = [pages[a].asgn[n] EXCEPT ![field] = day, !.ver = @ + 1]]
           /\ pages' = [pages EXCEPT ![a].asgn[n] = assignments'[n]]
           /\ UNCHANGED items
  <2>1. pages[a] # None /\ pages[a] \in AdminPage /\ pages \in [Admins -> AdminPage \cup {None}]
    BY AdminHas DEF SetDate, Free, IInv, TypeOK
  <2>2. \A b \in Admins : b # a => pages'[b] = pages[b]
    BY <1>2, <2>1
  <2>3. /\ pages'[a].kind = pages[a].kind /\ pages'[a].of = pages[a].of
        /\ pages'[a].rows = pages[a].rows /\ pages'[a].asked = pages[a].asked
    BY <1>2, <2>1 DEF AdminPage, PageRow
  <2>4. KeepsView(pages[a], pages'[a])
    BY <2>1, <2>3, EditedView
  <2>5. DOMAIN assignments' = DOMAIN assignments
    BY <1>2
  <2> QED
    BY <1>2, <2>2, <2>4, <2>5, OnePageOrdered, SamePlacesSame
<1> QED
  BY <1>1, <1>2 DEF SetDate

LEMMA SetOwnDateOrdered ==
  ASSUME IInv, Ordered, NEW a \in Admins, NEW n \in Numbers, NEW field \in {"due", "eval"}, NEW day \in Days,
         SetOwnDate(a, n, field, day)
  PROVE  Ordered'
<1>1. CASE AdminDies(a)
  BY <1>1, AdminDiesOrdered
<1>2. CASE /\ pages' = [AgedElsewhere(a, {n}) EXCEPT ![a].sub[n] = submissions'[n]]
           /\ UNCHANGED <<assignments, items>>
  <2> DEFINE aged == AgedElsewhere(a, {n})
  <2>1. pages[a] # None /\ pages[a] \in AdminPage /\ pages \in [Admins -> AdminPage \cup {None}]
    BY AdminHas DEF SetOwnDate, Free, IInv, TypeOK
  <2>2. /\ aged = [b \in Admins |-> aged[b]] /\ aged[a] = pages[a]
        /\ \A b \in Admins : b # a => aged[b] = Aged(pages[b], {n})
    BY DEF AgedElsewhere
  <2> HIDE DEF aged
  <2>3. pages' = [aged EXCEPT ![a].sub[n] = submissions'[n]]
    BY <1>2 DEF aged
  <2>4. \A b \in Admins : b # a => pages'[b] = Aged(pages[b], {n})
    BY <2>2, <2>3
  <2>5. /\ pages'[a].kind = pages[a].kind /\ pages'[a].of = pages[a].of
        /\ pages'[a].rows = pages[a].rows /\ pages'[a].asked = pages[a].asked
    BY <2>1, <2>2, <2>3 DEF AdminPage, PageRow
  <2>6. KeepsView(pages[a], pages'[a])
    BY <2>1, <2>5, EditedView
  <2>7. \A b \in Admins : KeepsView(pages[b], pages'[b])
    BY <2>1, <2>4, <2>6, AgedView
  <2> QED
    BY <1>2, <2>7, QuietOrdered, SamePlacesSame
<1> QED
  BY <1>1, <1>2 DEF SetOwnDate

LEMMA OpenStudentsHomeOrdered ==
  ASSUME IInv, Ordered, NEW a \in Admins, OpenStudentsHome(a)
  PROVE  Ordered'
<1>1. CASE AdminDies(a)
  BY <1>1, AdminDiesOrdered
<1>2. ASSUME NEW made, Show(a, Home(Kept(pages[a]), made)), UNCHANGED <<assignments, items>>
      PROVE  Ordered'
  <2> DEFINE q == Home(Kept(pages[a]), made)
  <2>1. q.kind = "home"
    BY DEF Home, EmptyPage
  <2> HIDE DEF q
  <2>2. pages' = [pages EXCEPT ![a] = q]
    BY <1>2 DEF Show, q
  <2>3. pages'[a] = q /\ \A b \in Admins : b # a => pages'[b] = pages[b]
    BY <2>2 DEF IInv, TypeOK
  <2>4. KeepsView(pages[a], q)
    BY <2>1, EmptyView DEF KeepsView, Kept
  <2> QED
    BY <1>2, <2>3, <2>4, OnePageOrdered, SamePlacesSame
<1> QED
  BY <1>1, <1>2 DEF OpenStudentsHome

LEMMA StudentOrdered ==
  ASSUME IInv, Ordered,
         \/ Tick \/ OpenHome \/ Consent \/ LeaveSite \/ UNCHANGED vars
         \/ \E n \in Numbers : ClickEval(n)
         \/ \E i \in DOMAIN items : Answer(i)
  PROVE  Ordered'
<1>1. assignments' = assignments /\ items' = items
  BY DEF Tick, OpenHome, Consent, LeaveSite, ClickEval, Answer, GoEval, StudentDies, db, vars
<1>2. \A b \in Admins : KeepsView(pages[b], pages'[b])
  <2>1. CASE pages' = pages
    BY <2>1, SelfView
  <2>2. ASSUME NEW n, pages' = [b \in Admins |-> Aged(pages[b], {n})]
        PROVE  \A b \in Admins : KeepsView(pages[b], pages'[b])
    <3>1. \A b \in Admins : pages[b] \in AdminPage \cup {None}
      BY DEF IInv, TypeOK
    <3> QED
      BY <2>2, <3>1, AgedView
  <2>3. pages' = pages \/ \E n : pages' = [b \in Admins |-> Aged(pages[b], {n})]
    <3>1. CASE \E i \in DOMAIN items : Answer(i)
      BY <3>1 DEF Answer, StudentDies
    <3>2. CASE ~\E i \in DOMAIN items : Answer(i)
      BY <3>2 DEF Tick, OpenHome, Consent, LeaveSite, ClickEval, GoEval, StudentDies, vars
    <3> QED
      BY <3>1, <3>2
  <2> QED
    BY <2>1, <2>2, <2>3
<1> QED
  BY <1>1, <1>2, QuietOrdered, SamePlacesSame

-----------------------------------------------------------------------------
(* Steps that open an editing page or change what it lists *)

LEMMA EditOrdered ==
  ASSUME Ordered, Gapless', Numbered(items'), NEW a \in Admins,
         \A b \in Admins : b # a =>
           /\ KeepsView(pages[b], pages'[b])
           /\ PageFits(Kept(pages[b]), DOMAIN assignments', items')
           /\ Apart(Kept(pages'[a]), Kept(pages[b])),
         PageFits(Kept(pages'[a]), DOMAIN assignments', items')
  PROVE  Ordered'
<1>1. \A b \in Admins : PageFits(Kept(pages'[b]), DOMAIN assignments', items')
  BY ViewKeeps, HomeFits DEF KeepsView
<1>2. \A b, c \in Admins : b # c => Apart(Kept(pages'[b]), Kept(pages'[c]))
  <2>1. \A b \in Admins : b # a => Kept(pages'[b]).kind \in {"none", "home"} \/ Kept(pages'[b]).kind = Kept(pages[b]).kind
    BY DEF SameView, KeepsView
  <2>2. \A b, c \in Admins : b # c => Apart(Kept(pages[b]), Kept(pages[c]))
    BY DEF Ordered
  <2> QED
    BY <2>1, <2>2 DEF Apart
<1> QED
  BY <1>1, <1>2 DEF Ordered

\* Opening a page, when nobody else has one of its kind.
LEMMA ShowOrdered ==
  ASSUME IInv, Ordered, NEW a \in Admins, NEW q \in AdminPage, Show(a, q), ~overlapped', q.kind # "home",
         q.kind # "none", UNCHANGED <<assignments, items>>, PageFits(q, DOMAIN assignments, items)
  PROVE  Ordered'
<1>1. pages'[a] = q /\ \A b \in Admins : b # a => pages'[b] = pages[b]
  BY DEF Show, IInv, TypeOK
<1>2. \A b \in Admins : b # a => Kept(pages[b]).kind # q.kind
  BY DEF Show
<1>3. Kept(pages'[a]) = q \/ Kept(pages'[a]).kind = "none"
  BY <1>1, EmptyView DEF Kept
<1>4. PageFits(Kept(pages'[a]), DOMAIN assignments', items')
  BY <1>3, HomeFits
<1>5. \A b \in Admins : b # a =>
        /\ KeepsView(pages[b], pages'[b])
        /\ PageFits(Kept(pages[b]), DOMAIN assignments', items')
        /\ Apart(Kept(pages'[a]), Kept(pages[b]))
  BY <1>1, <1>2, <1>3, SelfView DEF Apart, Ordered
<1>6. Gapless' /\ Numbered(items')
  BY DEF Ordered, Gapless
<1> QED
  BY <1>4, <1>5, <1>6, EditOrdered

LEMMA OpenListOrdered ==
  ASSUME IInv, Ordered, NEW a \in Admins, OpenList(a), ~overlapped'
  PROVE  Ordered'
<1> DEFINE rows == InOrder(DOMAIN assignments)
           asgn == Copies(assignments, DOMAIN assignments, Kept(pages[a]).asgn)
           q == [EmptyPage EXCEPT !.kind = "list", !.rows = rows, !.asgn = asgn]
           N == Cardinality(DOMAIN assignments)
<1>1. EmptyPage \in AdminPage /\ EmptyPage.asked = None
  BY EmptyIsPage, EmptyView DEF AdminPage
<1>2. asgn \in TableOf(Numbers, AssignmentRow)
  <2>1. Kept(pages[a]).asgn \in TableOf(Numbers, AssignmentRow)
    BY AdminKept, PageParts DEF AdminPage
  <2> QED
    BY <2>1, CopiesTable DEF IInv, TypeOK
<1>3. N \in Nat /\ DOMAIN assignments = 1 .. N /\ rows \in [1 .. N -> 1 .. N] /\ \A k \in 1 .. N : rows[k] = k
  <2>1. DOMAIN assignments \subseteq Numbers
    BY DbRows DEF IInv
  <2>2. DOMAIN assignments = 1 .. N
    BY DEF Ordered, Gapless
  <2>3. /\ rows \in [1 .. N -> 1 .. N] /\ N \in Nat
        /\ \A j, k \in 1 .. N : j < k => rows[j] < rows[k]
    BY <2>1, <2>2, InOrderIs
  <2> HIDE DEF rows, N
  <2> QED
    BY <2>2, <2>3, CountedRows
<1> HIDE DEF rows, N
<1>4. rows \in Seq(Nat) /\ Len(rows) = N
  BY <1>3
<1>5. q \in AdminPage /\ q.kind = "list" /\ q.rows = rows /\ q.asked = None
  <2> HIDE DEF asgn
  <2> QED
    BY <1>1, <1>2, <1>4 DEF AdminPage, PageRow
<1>6. Show(a, q) /\ UNCHANGED <<assignments, items>>
  BY DEF OpenList, db, rows
<1> HIDE DEF q
<1>7. PageFits(q, DOMAIN assignments, items)
  BY <1>3, <1>4, <1>5 DEF PageFits, ListAt
<1> QED
  BY <1>5, <1>6, <1>7, ShowOrdered

LEMMA OpenItemsOrdered ==
  ASSUME IInv, Ordered, NEW a \in Admins, NEW n \in Numbers, OpenItems(a, n), ~overlapped'
  PROVE  Ordered'
<1> DEFINE rows == BySequence(ItemsOf(n))
           current == [i \in DOMAIN items |-> items[i].ver]
           vers == Copies(current, ItemsOf(n), Kept(pages[a]).vers)
           asgn == Copies(assignments, {n}, Kept(pages[a]).asgn)
           q == [EmptyPage EXCEPT !.kind = "items", !.of = n, !.rows = rows, !.vers = vers, !.asgn = asgn]
           N == Cardinality(ItemsOf(n))
<1>1. EmptyPage \in AdminPage /\ EmptyPage.asked = None /\ n \in DOMAIN assignments
  BY EmptyIsPage, EmptyView DEF AdminPage, OpenItems
<1>2. asgn \in TableOf(Numbers, AssignmentRow)
  <2>1. Kept(pages[a]).asgn \in TableOf(Numbers, AssignmentRow)
    BY AdminKept, PageParts DEF AdminPage
  <2> QED
    BY <1>1, <2>1, CopiesTable DEF IInv, TypeOK
<1>3. ItemsOf(n) \subseteq DOMAIN items /\ DOMAIN items \subseteq Nat
  BY DbRows DEF ItemsOf, LiveItems, IInv
<1>4. vers \in TableOf(Nat, Nat)
  <2>1. current \in [DOMAIN items -> Nat]
    BY DbRows DEF IInv, ItemRow
  <2>2. current \in TableOf(Nat, Nat) /\ DOMAIN current = DOMAIN items
    BY <1>3, <2>1, TableMade
  <2>3. Kept(pages[a]).vers \in TableOf(Nat, Nat)
    BY AdminKept, PageParts DEF AdminPage
  <2> HIDE DEF current
  <2> QED
    BY <1>3, <2>2, <2>3, CopiesTable
<1>5. /\ N \in Nat /\ rows \in [1 .. N -> ItemsOf(n)]
      /\ \A k \in 1 .. N : items[rows[k]].seq = k
  <2>1. /\ rows \in [1 .. N -> ItemsOf(n)] /\ N \in Nat
        /\ \A j, k \in 1 .. N : j # k => rows[j] # rows[k]
        /\ \A j, k \in 1 .. N : j < k => items[rows[j]].seq <= items[rows[k]].seq
    BY <1>3, BySequenceIs DEF IInv, TypeOK
  <2>2. /\ {items[i].seq : i \in ItemsOf(n)} = 1 .. N
        /\ \A i, j \in ItemsOf(n) : items[i].seq = items[j].seq => i = j
    BY ThereIs DEF Ordered, Numbered
  <2> DEFINE s == [k \in 1 .. N |-> items[rows[k]].seq]
  <2> HIDE DEF rows, N
  <2>3. s \in [1 .. N -> 1 .. N] /\ \A k \in 1 .. N : s[k] = items[rows[k]].seq
    BY <2>1, <2>2
  <2>4. \A j, k \in 1 .. N : j < k => s[j] < s[k]
    <3> TAKE j, k \in 1 .. N
    <3> HAVE j < k
    <3>1. rows[j] # rows[k] /\ rows[j] \in ItemsOf(n) /\ rows[k] \in ItemsOf(n)
      BY <2>1
    <3>2. items[rows[j]].seq # items[rows[k]].seq
      BY <2>2, <3>1
    <3>3. s[j] <= s[k] /\ s[j] # s[k] /\ s[j] \in Nat /\ s[k] \in Nat
      BY <2>1, <2>3, <3>2
    <3> HIDE DEF s
    <3> QED
      BY <3>3
  <2> HIDE DEF s
  <2>5. \A k \in 1 .. N : s[k] = k
    BY <2>1, <2>3, <2>4, CountedRows
  <2> QED
    BY <2>1, <2>3, <2>5
<1> HIDE DEF rows, N
<1>6. rows \in Seq(Nat) /\ Len(rows) = N
  BY <1>3, <1>5
<1>7. q \in AdminPage /\ q.kind = "items" /\ q.rows = rows /\ q.asked = None /\ q.of = n
  <2> HIDE DEF asgn, vers
  <2> QED
    BY <1>1, <1>2, <1>4, <1>6 DEF AdminPage, PageRow
<1>8. Show(a, q) /\ UNCHANGED <<assignments, items>>
  BY DEF OpenItems, db, rows
<1> HIDE DEF q
<1>9. PageFits(q, DOMAIN assignments, items)
  <2>1. There(items, n) = ItemsOf(n) /\ Cardinality(There(items, n)) = N
    BY ThereIs DEF N
  <2>2. ItemsAt(items, n, rows)
    BY <1>5, <1>6, <2>1 DEF ItemsAt
  <2> QED
    BY <1>7, <2>2 DEF PageFits
<1> QED
  BY <1>7, <1>8, <1>9, ShowOrdered

LEMMA FewerOrdered ==
  ASSUME IInv, Ordered, NEW a \in Admins, FewerAssignments(a) \/ FewerItems(a)
  PROVE  Ordered'
<1>1. PICK asked : /\ pages' = [pages EXCEPT ![a].asked = asked] /\ assignments' = assignments /\ items' = items
                   /\ pages[a].rows # <<>> /\ (Kept(pages[a]).kind \in {"list", "items"})
  BY DEF FewerAssignments, FewerItems, Ask, db, Free
<1>2. pages[a] # None /\ pages[a] \in AdminPage /\ pages \in [Admins -> AdminPage \cup {None}]
  BY <1>1, AdminHas DEF IInv, TypeOK
<1>3. \A b \in Admins : b # a => pages'[b] = pages[b]
  BY <1>1, <1>2
<1>4. pages'[a].kind = pages[a].kind /\ pages'[a].of = pages[a].of /\ pages'[a].rows = pages[a].rows
  BY <1>1, <1>2 DEF AdminPage, PageRow
<1>5. Kept(pages[a]) = pages[a] /\ (Kept(pages'[a]) = pages'[a] \/ Kept(pages'[a]).kind = "none")
  BY <1>2, EmptyView DEF Kept
<1>6. PageFits(Kept(pages'[a]), DOMAIN assignments', items')
  <2>1. PageFits(pages[a], DOMAIN assignments, items)
    BY <1>5 DEF Ordered
  <2>2. PageFits(pages'[a], DOMAIN assignments, items)
    BY <1>1, <1>4, <2>1 DEF PageFits
  <2> QED
    BY <1>1, <1>5, <2>2, HomeFits
<1>7. \A b \in Admins : b # a =>
        /\ KeepsView(pages[b], pages'[b])
        /\ PageFits(Kept(pages[b]), DOMAIN assignments', items')
        /\ Apart(Kept(pages'[a]), Kept(pages[b]))
  <2> TAKE b \in Admins
  <2> HAVE b # a
  <2>1. KeepsView(pages[b], pages'[b])
    BY <1>3, SelfView
  <2>2. PageFits(Kept(pages[b]), DOMAIN assignments', items')
    BY <1>1 DEF Ordered
  <2>3. Apart(Kept(pages[a]), Kept(pages[b]))
    BY DEF Ordered
  <2>4. Kept(pages'[a]).kind \in {Kept(pages[a]).kind, "none"}
    BY <1>4, <1>5
  <2> QED
    BY <2>1, <2>2, <2>3, <2>4 DEF Apart
<1>8. Gapless' /\ Numbered(items')
  BY <1>1 DEF Ordered, Gapless
<1> QED
  BY <1>6, <1>7, <1>8, EditOrdered

\* The one page that edits has its kind; others have another.
LEMMA Editing ==
  ASSUME IInv, Ordered, NEW a \in Admins, NEW kind \in {"list", "items"}, Kept(pages[a]).kind = kind
  PROVE  /\ PageFits(pages[a], DOMAIN assignments, items)
         /\ \A b \in Admins : b # a => Kept(pages[b]).kind # kind
BY AdminHas DEF Ordered, Apart

LEMMA MoreOrdered ==
  ASSUME IInv, Ordered, NEW a \in Admins, More(a)
  PROVE  Ordered'
<1> DEFINE p == pages[a]
           n == Len(p.rows) + 1
           row == [open |-> now, due |-> now, eval |-> now, ver |-> 0]
<1>1. CASE AdminDies(a)
  BY <1>1, AdminDiesOrdered
<1>2. CASE /\ assignments' = Put(assignments, n, row)
           /\ pages' = [pages EXCEPT ![a].rows = Append(@, n), ![a].asgn = Put(@, n, row)]
           /\ items' = items
  <2>1. /\ p # None /\ p \in AdminPage /\ p.kind = "list" /\ p.asked = None
        /\ Kept(p) = p /\ pages \in [Admins -> AdminPage \cup {None}]
    BY AdminHas DEF More, Free, Unasked, IInv, TypeOK
  <2>2. p.rows \in Seq(Nat) /\ Len(p.rows) \in Nat
    BY <2>1, PageParts DEF AdminPage
  <2>3. DOMAIN assignments = 1 .. Len(p.rows) /\ \A k \in 1 .. Len(p.rows) : p.rows[k] = k
    BY <2>1, Editing DEF PageFits, ListAt
  <2>4. DOMAIN assignments' = 1 .. n
    <3>1. DOMAIN assignments' = DOMAIN assignments \cup {n}
      BY <1>2 DEF Put
    <3> QED
      BY <2>2, <2>3, <3>1
  <2>5. /\ pages'[a].kind = "list" /\ pages'[a].asked = None /\ pages'[a].rows = Append(p.rows, n)
        /\ \A b \in Admins : b # a => pages'[b] = pages[b]
    BY <1>2, <2>1 DEF AdminPage, PageRow
  <2>6. PageFits(pages'[a], DOMAIN assignments', items')
    <3>1. /\ Len(pages'[a].rows) = n
          /\ \A k \in 1 .. n : pages'[a].rows[k] = k
      BY <2>2, <2>3, <2>5
    <3> QED
      BY <2>4, <2>5, <3>1 DEF PageFits, ListAt
  <2>7. Kept(pages'[a]) = pages'[a] \/ Kept(pages'[a]).kind = "none"
    BY EmptyView DEF Kept
  <2>8. \A b \in Admins : b # a =>
          /\ KeepsView(pages[b], pages'[b])
          /\ PageFits(Kept(pages[b]), DOMAIN assignments', items')
          /\ Apart(Kept(pages'[a]), Kept(pages[b]))
    <3> TAKE b \in Admins
    <3> HAVE b # a
    <3>1. Kept(pages[b]).kind # "list"
      BY <2>1, Editing
    <3>2. PageFits(Kept(pages[b]), DOMAIN assignments', items')
      <4>1. PageFits(Kept(pages[b]), DOMAIN assignments, items)
        BY DEF Ordered
      <4> QED
        BY <1>2, <3>1, <4>1 DEF PageFits
    <3>3. Kept(pages'[a]).kind \in {"list", "none"}
      BY <2>5, <2>7
    <3> QED
      BY <2>5, <3>1, <3>2, <3>3, SelfView DEF Apart
  <2>9. Gapless' /\ Numbered(items')
    <3>1. Cardinality(1 .. n) = n
      BY <2>2, FS_Interval
    <3> QED
      BY <1>2, <2>4, <3>1 DEF Ordered, Gapless
  <2> QED
    BY <2>6, <2>7, <2>8, <2>9, HomeFits, EditOrdered
<1> QED
  BY <1>1, <1>2 DEF More

LEMMA MoreItemsOrdered ==
  ASSUME IInv, Ordered, NEW a \in Admins, MoreItems(a)
  PROVE  Ordered'
<1> DEFINE p == pages[a]
           n == p.of
           count == Cardinality(There(items, n))
           row == [of |-> n, seq |-> count + 1, ver |-> 0, live |-> TRUE]
           new == Len(items) + 1
<1>1. CASE AdminDies(a)
  BY <1>1, AdminDiesOrdered
<1>2. CASE /\ n \in DOMAIN assignments /\ items' = Append(items, row)
           /\ pages' = [pages EXCEPT ![a].rows = Append(@, Len(items')), ![a].vers = Put(@, Len(items'), 0)]
           /\ assignments' = assignments
  <2>1. /\ p # None /\ p \in AdminPage /\ p.kind = "items" /\ p.asked = None
        /\ Kept(p) = p /\ pages \in [Admins -> AdminPage \cup {None}]
    BY AdminHas DEF MoreItems, Free, Unasked, IInv, TypeOK
  <2>2. p.rows \in Seq(Nat) /\ Len(p.rows) \in Nat /\ n \in Numbers
    BY <1>2, <2>1, PageParts, DbRows DEF AdminPage, IInv
  <2>3. items \in Seq(ItemRow) /\ DOMAIN items = 1 .. Len(items) /\ Len(items) \in Nat
    BY DbRows DEF IInv, TypeOK
  <2>4. ItemsAt(items, n, p.rows)
    BY <2>1, Editing DEF PageFits
  <2>5. /\ There(items, n) \subseteq DOMAIN items /\ IsFiniteSet(There(items, n)) /\ count \in Nat
    BY <2>3, ThereCounted
  <2>6. /\ DOMAIN items' = DOMAIN items \cup {new} /\ Len(items') = new /\ new \notin DOMAIN items
        /\ items'[new] = row /\ \A i \in DOMAIN items : items'[i] = items[i]
    BY <1>2, <2>3
  <2>7. /\ There(items', n) = There(items, n) \cup {new}
        /\ \A m : m # n => There(items', m) = There(items, m)
    BY <2>6 DEF There
  <2>8. Cardinality(There(items', n)) = count + 1
    <3>1. new \notin There(items, n)
      BY <2>5, <2>6
    <3> QED
      BY <2>5, <2>7, <3>1, FS_AddElement
  <2> HIDE DEF count
  <2>9. Numbered(items')
    <3> SUFFICES ASSUME NEW m \in Numbers
                 PROVE  /\ {items'[i].seq : i \in There(items', m)} = 1 .. Cardinality(There(items', m))
                        /\ \A i, j \in There(items', m) : items'[i].seq = items'[j].seq => i = j
      BY DEF Numbered
    <3>1. /\ {items[i].seq : i \in There(items, m)} = 1 .. Cardinality(There(items, m))
          /\ \A i, j \in There(items, m) : items[i].seq = items[j].seq => i = j
      BY DEF Ordered, Numbered
    <3>2. \A i \in There(items, m) : i \in DOMAIN items /\ items'[i].seq = items[i].seq
      BY <2>6 DEF There
    <3>3. CASE m # n
      BY <2>7, <3>1, <3>2, <3>3
    <3>4. CASE m = n
      <4>1. /\ {items[i].seq : i \in There(items, n)} = 1 .. count
            /\ \A i, j \in There(items, n) : items[i].seq = items[j].seq => i = j
            /\ \A i \in There(items, n) : i \in DOMAIN items /\ items'[i].seq = items[i].seq
        BY <3>1, <3>2, <3>4 DEF count
      <4>2. items'[new].seq = count + 1
        BY <2>6
      <4>3. \A i \in There(items, n) : items'[i].seq \in 1 .. count
        BY <4>1
      <4>4. {items'[i].seq : i \in There(items', n)} = 1 .. count + 1
        <5>1. {items'[i].seq : i \in There(items', n)} = {items'[i].seq : i \in There(items, n)} \cup {count + 1}
          BY <2>7, <4>2
        <5>2. {items'[i].seq : i \in There(items, n)} = 1 .. count
          BY <4>1
        <5>3. (1 .. count) \cup {count + 1} = 1 .. count + 1
          BY <2>5
        <5> QED
          BY <5>1, <5>2, <5>3
      <4>5. \A i, j \in There(items', n) : items'[i].seq = items'[j].seq => i = j
        BY <2>5, <2>7, <4>1, <4>2, <4>3
      <4> QED
        BY <2>8, <3>4, <4>4, <4>5
    <3> QED
      BY <3>3, <3>4
  <2>10. /\ pages'[a].kind = "items" /\ pages'[a].asked = None /\ pages'[a].of = n
         /\ pages'[a].rows = Append(p.rows, new)
         /\ \A b \in Admins : b # a => pages'[b] = pages[b]
    <3>1. pages' = [pages EXCEPT ![a].rows = Append(@, new), ![a].vers = Put(@, new, 0)]
      BY <1>2, <2>6
    <3> HIDE DEF new
    <3> QED
      BY <2>1, <3>1 DEF AdminPage, PageRow
  <2>11. PageFits(pages'[a], DOMAIN assignments', items')
    <3> DEFINE gone == Len(p.rows) - count
               rows2 == Append(p.rows, new)
    <3>1. /\ gone \in Nat
          /\ \A k \in 1 .. gone : p.rows[k] \in DOMAIN items /\ ~items[p.rows[k]].live
          /\ \A k \in 1 .. count : p.rows[gone + k] \in There(items, n) /\ items[p.rows[gone + k]].seq = k
      BY <2>4 DEF ItemsAt, count
    <3>0. gone + count = Len(p.rows) /\ gone + (count + 1) = Len(p.rows) + 1
      <4>1. \A x, y \in Nat : (x - y) + y = x /\ (x - y) + (y + 1) = x + 1
        OBVIOUS
      <4> QED
        BY <2>2, <2>5, <4>1
    <3>2. Len(rows2) = Len(p.rows) + 1 /\ rows2[Len(p.rows) + 1] = new
          /\ \A k \in 1 .. Len(p.rows) : rows2[k] = p.rows[k]
      BY <2>2
    <3> HIDE DEF rows2
    <3>3. Len(rows2) - (count + 1) = gone
      BY <2>2, <2>5, <3>2
    <3>4. \A k \in 1 .. gone : rows2[k] \in DOMAIN items' /\ ~items'[rows2[k]].live
      <4>1. \A k \in 1 .. gone : k \in 1 .. Len(p.rows)
        BY <2>2, <2>5
      <4>2. \A i \in DOMAIN items : i \in DOMAIN items' /\ items'[i] = items[i]
        BY <2>6
      <4> HIDE DEF gone, p, new, row
      <4> TAKE k \in 1 .. gone
      <4>3. rows2[k] = p.rows[k]
        BY <3>2, <4>1
      <4>4. p.rows[k] \in DOMAIN items /\ ~items[p.rows[k]].live
        BY <3>1
      <4>5. p.rows[k] \in DOMAIN items' /\ items'[p.rows[k]] = items[p.rows[k]]
        BY <4>2, <4>4
      <4> QED
        BY <4>3, <4>4, <4>5
    <3>5. \A k \in 1 .. count + 1 : rows2[gone + k] \in There(items', n) /\ items'[rows2[gone + k]].seq = k
      <4> TAKE k \in 1 .. count + 1
      <4>1. CASE k = count + 1
        <5>1. gone + k = Len(p.rows) + 1
          BY <3>0, <4>1
        <5> QED
          BY <2>6, <2>7, <3>2, <4>1, <5>1
      <4>2. CASE k # count + 1
        <5>1. k \in 1 .. count /\ gone + k \in 1 .. Len(p.rows)
          <6>1. k \in 1 .. count
            BY <2>5, <4>2
          <6> HIDE DEF gone, p
          <6> QED
            BY <2>2, <2>5, <3>0, <3>1, <6>1
        <5>2. rows2[gone + k] = p.rows[gone + k]
          BY <3>2, <5>1
        <5>3. p.rows[gone + k] \in There(items, n) /\ items[p.rows[gone + k]].seq = k
          BY <3>1, <5>1
        <5> QED
          BY <2>5, <2>6, <2>7, <5>2, <5>3
      <4> QED
        BY <4>1, <4>2
    <3>6. ItemsAt(items', n, rows2)
      <4> HIDE DEF gone
      <4> QED
        BY <2>8, <3>1, <3>3, <3>4, <3>5 DEF ItemsAt
    <3> QED
      BY <2>2, <2>10, <3>6 DEF PageFits, rows2
  <2>12. Kept(pages'[a]) = pages'[a] \/ Kept(pages'[a]).kind = "none"
    BY EmptyView DEF Kept
  <2>13. \A b \in Admins : b # a =>
          /\ KeepsView(pages[b], pages'[b])
          /\ PageFits(Kept(pages[b]), DOMAIN assignments', items')
          /\ Apart(Kept(pages'[a]), Kept(pages[b]))
    <3> TAKE b \in Admins
    <3> HAVE b # a
    <3>1. Kept(pages[b]).kind # "items"
      BY <2>1, Editing
    <3>2. PageFits(Kept(pages[b]), DOMAIN assignments', items')
      <4>1. PageFits(Kept(pages[b]), DOMAIN assignments, items)
        BY DEF Ordered
      <4> QED
        BY <1>2, <3>1, <4>1 DEF PageFits
    <3>3. Kept(pages'[a]).kind \in {"items", "none"}
      BY <2>10, <2>12
    <3> QED
      BY <2>10, <3>1, <3>2, <3>3, SelfView DEF Apart
  <2>14. Gapless'
    BY <1>2 DEF Ordered, Gapless
  <2> QED
    BY <2>9, <2>11, <2>12, <2>13, <2>14, HomeFits, EditOrdered
<1> QED
  BY <1>1, <1>2, ThereIs DEF MoreItems

\* Where all items of an assignment go, its rows stay as dead ones.
LEMMA GoneFits ==
  ASSUME NEW table \in Seq(ItemRow), NEW table2, DOMAIN table2 = DOMAIN table, NEW n,
         \A i \in DOMAIN table :
           /\ table2[i].of = table[i].of /\ table2[i].seq = table[i].seq
           /\ table2[i].live <=> table[i].live /\ table[i].of # n
  PROVE  /\ Numbered(table) => Numbered(table2)
         /\ \A m : \A rows \in Seq(Nat) : ItemsAt(table, m, rows) => ItemsAt(table2, m, rows)
<1>1. There(table2, n) = {} /\ Cardinality(There(table2, n)) = 0
  BY FS_EmptySet DEF There
<1>2. \A m : m # n => There(table2, m) = There(table, m)
  BY DEF There
<1>3. \A m : \A i \in There(table, m) : i \in DOMAIN table /\ table2[i].seq = table[i].seq
  BY DEF There
<1>4. Numbered(table) => Numbered(table2)
  <2> SUFFICES ASSUME Numbered(table), NEW m \in Numbers
               PROVE  /\ {table2[i].seq : i \in There(table2, m)} = 1 .. Cardinality(There(table2, m))
                      /\ \A i, j \in There(table2, m) : table2[i].seq = table2[j].seq => i = j
    BY DEF Numbered
  <2>1. CASE m = n
    <3>1. 1 .. 0 = {}
      OBVIOUS
    <3> QED
      BY <1>1, <2>1, <3>1
  <2>2. CASE m # n
    <3>1. There(table2, m) = There(table, m)
      BY <1>2, <2>2
    <3>2. /\ {table[i].seq : i \in There(table, m)} = 1 .. Cardinality(There(table, m))
          /\ \A i, j \in There(table, m) : table[i].seq = table[j].seq => i = j
      BY DEF Numbered
    <3> QED
      BY <1>3, <3>1, <3>2
  <2> QED
    BY <2>1, <2>2
<1>5. ASSUME NEW m, NEW rows \in Seq(Nat), ItemsAt(table, m, rows) PROVE ItemsAt(table2, m, rows)
  <2> DEFINE count == Cardinality(There(table, m))
             gone == Len(rows) - count
  <2>1. count \in Nat /\ Len(rows) \in Nat
    BY ThereCounted
  <2>2. /\ gone \in Nat
        /\ \A k \in 1 .. gone : rows[k] \in DOMAIN table /\ ~table[rows[k]].live
        /\ \A k \in 1 .. count : rows[gone + k] \in There(table, m) /\ table[rows[gone + k]].seq = k
    BY <1>5 DEF ItemsAt
  <2>3. \A r : r \in DOMAIN table /\ ~table[r].live => r \in DOMAIN table2 /\ ~table2[r].live
    OBVIOUS
  <2>4. CASE m # n
    <3>1. There(table2, m) = There(table, m) /\ Cardinality(There(table2, m)) = count
      BY <1>2, <2>4
    <3>2. \A k \in 1 .. gone : rows[k] \in DOMAIN table2 /\ ~table2[rows[k]].live
      <4> HIDE DEF gone, count
      <4> QED
        BY <2>2, <2>3
    <3>3. \A k \in 1 .. count : rows[gone + k] \in There(table2, m) /\ table2[rows[gone + k]].seq = k
      <4> HIDE DEF gone, count
      <4> QED
        BY <1>3, <2>2, <3>1
    <3> QED
      BY <2>2, <3>1, <3>2, <3>3 DEF ItemsAt
  <2>5. CASE m = n
    <3>1. \A k \in 1 .. Len(rows) : rows[k] \in DOMAIN table2 /\ ~table2[rows[k]].live
      <4> TAKE k \in 1 .. Len(rows)
      <4>1. CASE k \in 1 .. gone
        BY <2>2, <2>3, <4>1
      <4>2. CASE k \notin 1 .. gone
        <5>1. k - gone \in 1 .. count /\ gone + (k - gone) = k
          <6>1. \A x, y \in Nat : (x - y) + y = x
            OBVIOUS
          <6>2. gone + count = Len(rows)
            BY <2>1, <6>1, <2>2
          <6> HIDE DEF gone, count
          <6> QED
            BY <2>1, <2>2, <4>2, <6>2
        <5>2. rows[k] \in There(table, m)
          BY <2>2, <5>1
        <5> QED
          BY <2>5, <5>2 DEF There
      <4> QED
        BY <4>1, <4>2
    <3>2. Cardinality(There(table2, m)) = 0 /\ Len(rows) - 0 = Len(rows)
      <4>1. There(table2, m) = {}
        BY <1>1, <2>5
      <4>2. \A x \in Nat : x - 0 = x
        OBVIOUS
      <4> QED
        BY <1>1, <2>1, <4>1, <4>2
    <3>3. \A k : ~(k \in 1 .. 0)
      OBVIOUS
    <3> QED
      BY <2>1, <3>1, <3>2, <3>3 DEF ItemsAt
  <2> QED
    BY <2>4, <2>5
<1> QED
  BY <1>4, <1>5

LEMMA RemoveAssignmentOrdered ==
  ASSUME IInv, Ordered, NEW a \in Admins, RemoveAssignment(a)
  PROVE  Ordered'
<1> DEFINE p == pages[a]
           n == Last(p.rows)
           N == Len(p.rows)
           front == Rows(p)
           aged == AgedElsewhere(a, {n})
<1>1. CASE AdminDies(a)
  BY <1>1, AdminDiesOrdered
<1>2. CASE /\ assignments' = [m \in DOMAIN assignments \ {n} |-> assignments[m]]
           /\ items' = [i \in DOMAIN items |-> IF items[i].of = n THEN [items[i] EXCEPT !.live = FALSE] ELSE items[i]]
           /\ pages' = [aged EXCEPT ![a].asked = None, ![a].rows = front,
                                    ![a].asgn = [m \in DOMAIN @ \ {n} |-> @[m]]]
  <2>1. /\ p # None /\ p \in AdminPage /\ p.kind = "list" /\ p.asked # None
        /\ Kept(p) = p /\ pages \in [Admins -> AdminPage \cup {None}]
    BY AdminHas DEF RemoveAssignment, Confirming, Unasked, IInv, TypeOK
  <2>2. /\ DOMAIN assignments = 1 .. N /\ \A k \in 1 .. N : p.rows[k] = k
        /\ p.rows # <<>>
    BY <2>1, Editing DEF PageFits, ListAt
  <2>3. p.rows \in Seq(Nat) /\ N \in Nat \ {0} /\ n = N
    <3>1. p.rows \in Seq(Nat) /\ N \in Nat \ {0}
      BY <2>1, <2>2, PageParts DEF AdminPage
    <3> QED
      BY <2>2, <3>1 DEF Last
  <2>4. DOMAIN assignments' = 1 .. N - 1
    <3>1. DOMAIN assignments' = (1 .. N) \ {N}
      BY <1>2, <2>2, <2>3
    <3> HIDE DEF N
    <3> QED
      BY <2>3, <3>1
  <2>5. front \in Seq(Nat) /\ Len(front) = N - 1 /\ \A k \in 1 .. N - 1 : front[k] = p.rows[k]
    BY <2>1, <2>2, FrontRows
  <2>6. /\ aged = [b \in Admins |-> aged[b]] /\ aged[a] = p
        /\ \A b \in Admins : b # a => aged[b] = Aged(pages[b], {n})
    BY DEF AgedElsewhere
  <2> HIDE DEF aged, front, n
  <2>7. /\ pages'[a].kind = "list" /\ pages'[a].asked = None /\ pages'[a].rows = front
        /\ \A b \in Admins : b # a => pages'[b] = Aged(pages[b], {n})
    BY <1>2, <2>1, <2>6 DEF AdminPage, PageRow
  <2>8. PageFits(pages'[a], DOMAIN assignments', items')
    <3>1. \A k \in 1 .. N - 1 : front[k] = k
      <4>1. \A k \in 1 .. N - 1 : k \in 1 .. N
        BY <2>3
      <4> QED
        BY <2>2, <2>5, <4>1
    <3> HIDE DEF N
    <3> QED
      BY <2>4, <2>5, <2>7, <3>1 DEF PageFits, ListAt
  <2>9. /\ items \in Seq(ItemRow) /\ DOMAIN items' = DOMAIN items
        /\ \A i \in DOMAIN items :
             /\ items'[i].of = items[i].of /\ items'[i].seq = items[i].seq
             /\ items'[i].live <=> items[i].live /\ items[i].of # n
    <3>1. items \in Seq(ItemRow) /\ \A i \in DOMAIN items : items[i] \in ItemRow
      BY DbRows DEF IInv, TypeOK
    <3> QED
      BY <1>2, <3>1 DEF ItemRow
  <2>10. /\ Numbered(items) => Numbered(items')
         /\ \A m : \A rows \in Seq(Nat) : ItemsAt(items, m, rows) => ItemsAt(items', m, rows)
    <3> DEFINE table2 == items'
    <3>1. /\ DOMAIN table2 = DOMAIN items
          /\ \A i \in DOMAIN items :
               /\ table2[i].of = items[i].of /\ table2[i].seq = items[i].seq
               /\ table2[i].live <=> items[i].live /\ items[i].of # n
      BY <2>9
    <3> HIDE DEF table2
    <3>2. /\ Numbered(items) => Numbered(table2)
          /\ \A m : \A rows \in Seq(Nat) : ItemsAt(items, m, rows) => ItemsAt(table2, m, rows)
      BY <2>9, <3>1, GoneFits
    <3> QED
      BY <3>2 DEF table2
  <2>11. Kept(pages'[a]) = pages'[a] \/ Kept(pages'[a]).kind = "none"
    BY EmptyView DEF Kept
  <2>12. \A b \in Admins : b # a =>
          /\ KeepsView(pages[b], pages'[b])
          /\ PageFits(Kept(pages[b]), DOMAIN assignments', items')
          /\ Apart(Kept(pages'[a]), Kept(pages[b]))
    <3> TAKE b \in Admins
    <3> HAVE b # a
    <3>1. Kept(pages[b]).kind # "list"
      BY <2>1, Editing
    <3>2. PageFits(Kept(pages[b]), DOMAIN assignments', items')
      <4>1. PageFits(Kept(pages[b]), DOMAIN assignments, items)
        BY DEF Ordered
      <4>2. Kept(pages[b]).rows \in Seq(Nat)
        BY AdminKept, PageParts DEF AdminPage
      <4> QED
        BY <2>10, <3>1, <4>1, <4>2 DEF PageFits
    <3>3. Kept(pages'[a]).kind \in {"list", "none"}
      BY <2>7, <2>11
    <3>4. KeepsView(pages[b], pages'[b])
      BY <2>1, <2>7, AgedView
    <3> QED
      BY <3>1, <3>2, <3>3, <3>4 DEF Apart
  <2>13. Gapless' /\ Numbered(items')
    <3>1. Cardinality(1 .. N - 1) = N - 1
      <4> HIDE DEF N
      <4> QED
        BY <2>3, FS_Interval
    <3> QED
      BY <2>4, <2>10, <3>1 DEF Ordered, Gapless
  <2> QED
    BY <2>8, <2>11, <2>12, <2>13, HomeFits, EditOrdered
<1> QED
  BY <1>1, <1>2 DEF RemoveAssignment

LEMMA RemoveItemOrdered ==
  ASSUME IInv, Ordered, NEW a \in Admins, RemoveItem(a)
  PROVE  Ordered'
<1> DEFINE p == pages[a]
           n == p.of
           i == Last(p.rows)
           N == Len(p.rows)
           front == Rows(p)
           count == Cardinality(There(items, n))
           gone == N - count
<1>1. CASE AdminDies(a)
  BY <1>1, AdminDiesOrdered
<1>2. CASE /\ items[i].live /\ items' = [items EXCEPT ![i].live = FALSE]
           /\ pages' = [pages EXCEPT ![a].asked = None, ![a].rows = front,
                                     ![a].vers = [j \in DOMAIN @ \ {i} |-> @[j]]]
           /\ assignments' = assignments
  <2>1. /\ p # None /\ p \in AdminPage /\ p.kind = "items" /\ p.asked # None
        /\ Kept(p) = p /\ pages \in [Admins -> AdminPage \cup {None}]
    BY AdminHas DEF RemoveItem, Confirming, Unasked, IInv, TypeOK
  <2>2. ItemsAt(items, n, p.rows) /\ p.rows # <<>> /\ n \in Numbers
    BY <2>1, Editing DEF PageFits
  <2>3. p.rows \in Seq(Nat) /\ N \in Nat \ {0} /\ i = p.rows[N]
    <3>1. p.rows \in Seq(Nat) /\ N \in Nat \ {0}
      BY <2>1, <2>2, PageParts DEF AdminPage
    <3> QED
      BY <3>1 DEF Last
  <2>4. items \in Seq(ItemRow) /\ \A j \in DOMAIN items : items[j] \in ItemRow
    BY DbRows DEF IInv, TypeOK
  <2>5. count \in Nat /\ IsFiniteSet(There(items, n)) /\ There(items, n) \subseteq DOMAIN items
    BY <2>4, ThereCounted
  <2>6. /\ gone \in Nat
        /\ \A k \in 1 .. gone : p.rows[k] \in DOMAIN items /\ ~items[p.rows[k]].live
        /\ \A k \in 1 .. count : p.rows[gone + k] \in There(items, n) /\ items[p.rows[gone + k]].seq = k
    BY <2>2 DEF ItemsAt
  <2>7. front \in Seq(Nat) /\ Len(front) = N - 1 /\ \A k \in 1 .. N - 1 : front[k] = p.rows[k]
    BY <2>1, <2>2, FrontRows
  <2>8. gone + count = N /\ (N - 1) - (count - 1) = gone
    <3>1. \A x, y \in Nat : (x - y) + y = x /\ (x - 1) - (y - 1) = x - y
      OBVIOUS
    <3> QED
      BY <2>3, <2>5, <3>1
  <2> HIDE DEF i, N, front, count, gone
  <2>9. count # 0
    <3> SUFFICES ASSUME count = 0 PROVE FALSE
      OBVIOUS
    <3>1. gone = N /\ N \in 1 .. gone
      BY <2>3, <2>6, <2>8
    <3> QED
      BY <1>2, <2>3, <2>6, <3>1
  <2>10. i \in There(items, n) /\ items[i].seq = count
    <3>1. count \in 1 .. count
      BY <2>5, <2>9
    <3> QED
      BY <2>3, <2>6, <2>8, <3>1
  <2>11. /\ DOMAIN items' = DOMAIN items
         /\ \A j \in DOMAIN items :
              /\ items'[j].of = items[j].of /\ items'[j].seq = items[j].seq
              /\ items'[j].live <=> items[j].live /\ j # i
    <3>1. items = [j \in DOMAIN items |-> items[j]]
      BY <2>4
    <3>2. /\ DOMAIN items' = DOMAIN items
          /\ \A j \in DOMAIN items : items'[j] = IF j = i THEN [items[j] EXCEPT !.live = FALSE] ELSE items[j]
      BY <1>2, <3>1
    <3> QED
      BY <2>4, <3>2 DEF ItemRow
  <2>12. /\ There(items', n) = There(items, n) \ {i}
         /\ \A m : m # n => There(items', m) = There(items, m)
    BY <2>10, <2>11 DEF There
  <2>13. Cardinality(There(items', n)) = count - 1
    BY <2>5, <2>10, <2>12, FS_RemoveElement DEF count
  <2>14. \A m : \A j \in There(items, m) : j \in DOMAIN items /\ items'[j].seq = items[j].seq
    BY <2>11 DEF There
  <2>15. /\ {items[j].seq : j \in There(items, n)} = 1 .. count
         /\ \A j, k \in There(items, n) : items[j].seq = items[k].seq => j = k
    BY <2>2 DEF Ordered, Numbered, count
  <2>16. Numbered(items')
    <3> SUFFICES ASSUME NEW m \in Numbers
                 PROVE  /\ {items'[j].seq : j \in There(items', m)} = 1 .. Cardinality(There(items', m))
                        /\ \A j, k \in There(items', m) : items'[j].seq = items'[k].seq => j = k
      BY DEF Numbered
    <3>1. CASE m # n
      <4>1. /\ {items[j].seq : j \in There(items, m)} = 1 .. Cardinality(There(items, m))
            /\ \A j, k \in There(items, m) : items[j].seq = items[k].seq => j = k
        BY DEF Ordered, Numbered
      <4> QED
        BY <2>12, <2>14, <3>1, <4>1
    <3>2. CASE m = n
      <4>1. \A j \in There(items', n) : /\ j \in There(items, n) /\ j # i /\ items'[j].seq = items[j].seq
                                        /\ items[j].seq # count
        BY <2>10, <2>12, <2>14, <2>15
      <4>2. (1 .. count) \ {count} = 1 .. count - 1
        BY <2>5
      <4>3. {items'[j].seq : j \in There(items', n)} = (1 .. count) \ {count}
        <5>1. \A j \in There(items, n) : items[j].seq # count => j \in There(items', n)
          BY <2>10, <2>12
        <5> QED
          BY <2>15, <4>1, <5>1
      <4>4. \A j, k \in There(items', n) : items'[j].seq = items'[k].seq => j = k
        BY <2>15, <4>1
      <4> QED
        BY <2>13, <3>2, <4>2, <4>3, <4>4
    <3> QED
      BY <3>1, <3>2
  <2>17. /\ pages'[a].kind = "items" /\ pages'[a].asked = None /\ pages'[a].of = n
         /\ pages'[a].rows = front
         /\ \A b \in Admins : b # a => pages'[b] = pages[b]
    BY <1>2, <2>1 DEF AdminPage, PageRow
  <2>18. PageFits(pages'[a], DOMAIN assignments', items')
    <3>1. Len(front) - (count - 1) = gone
      BY <2>7, <2>8
    <3>2. \A k \in 1 .. gone : front[k] \in DOMAIN items' /\ ~items'[front[k]].live
      <4>1. \A k \in 1 .. gone : k \in 1 .. N - 1
        BY <2>3, <2>5, <2>6, <2>8, <2>9
      <4> QED
        BY <2>6, <2>7, <2>11, <4>1
    <3>3. \A k \in 1 .. count - 1 : front[gone + k] \in There(items', n) /\ items'[front[gone + k]].seq = k
      <4> TAKE k \in 1 .. count - 1
      <4>1. k \in 1 .. count /\ gone + k \in 1 .. N - 1 /\ k # count
        BY <2>3, <2>5, <2>6, <2>8, <2>9
      <4>2. front[gone + k] = p.rows[gone + k]
        BY <2>7, <4>1
      <4>3. p.rows[gone + k] \in There(items, n) /\ items[p.rows[gone + k]].seq = k
        BY <2>6, <4>1
      <4> HIDE DEF p, n
      <4>4. p.rows[gone + k] # i
        BY <2>10, <4>1, <4>3
      <4> QED
        BY <2>12, <2>14, <4>2, <4>3, <4>4
    <3>4. ItemsAt(items', n, front)
      BY <2>6, <2>13, <3>1, <3>2, <3>3 DEF ItemsAt
    <3> QED
      BY <2>2, <2>17, <3>4 DEF PageFits
  <2>19. Kept(pages'[a]) = pages'[a] \/ Kept(pages'[a]).kind = "none"
    BY EmptyView DEF Kept
  <2>20. \A b \in Admins : b # a =>
          /\ KeepsView(pages[b], pages'[b])
          /\ PageFits(Kept(pages[b]), DOMAIN assignments', items')
          /\ Apart(Kept(pages'[a]), Kept(pages[b]))
    <3> TAKE b \in Admins
    <3> HAVE b # a
    <3>1. Kept(pages[b]).kind # "items"
      BY <2>1, Editing
    <3>2. PageFits(Kept(pages[b]), DOMAIN assignments', items')
      <4>1. PageFits(Kept(pages[b]), DOMAIN assignments, items)
        BY DEF Ordered
      <4> QED
        BY <1>2, <3>1, <4>1 DEF PageFits
    <3>3. Kept(pages'[a]).kind \in {"items", "none"}
      BY <2>17, <2>19
    <3> QED
      BY <2>17, <3>1, <3>2, <3>3, SelfView DEF Apart
  <2>21. Gapless'
    BY <1>2 DEF Ordered, Gapless
  <2> QED
    BY <2>16, <2>18, <2>19, <2>20, <2>21, HomeFits, EditOrdered
<1> QED
  BY <1>1, <1>2 DEF RemoveItem, SameItem

-----------------------------------------------------------------------------
(* Numbers stay in order *)

LEMMA OverlapStays ==
  ASSUME IInv, [Next]_vars, ~overlapped'
  PROVE  ~overlapped
<1>1. CASE UNCHANGED overlapped
  BY <1>1
<1>2. ASSUME NEW a \in Admins, NEW q, Show(a, q)
      PROVE  ~overlapped
  BY <1>2 DEF Show
<1>3. ASSUME NEW a \in Admins, \/ OpenList(a) \/ OpenStudentsHome(a)
                               \/ \E n \in Numbers : OpenItems(a, n)
      PROVE  ~overlapped
  <2>1. \/ \E q : Show(a, q)
        \/ UNCHANGED overlapped
    BY <1>3 DEF OpenList, OpenItems, OpenStudentsHome, AdminDies, rest
  <2> QED
    BY <1>2, <2>1
<1>4. ASSUME NEW a \in Admins,
             \/ More(a) \/ FewerAssignments(a) \/ RemoveAssignment(a) \/ Decline(a)
             \/ MoreItems(a) \/ FewerItems(a) \/ RemoveItem(a) \/ \E i \in DOMAIN items : SaveItem(a, i)
             \/ ClosePage(a)
      PROVE  UNCHANGED overlapped
  BY <1>4 DEF More, FewerAssignments, RemoveAssignment, Decline, MoreItems, FewerItems, RemoveItem, SaveItem,
              ClosePage, AdminDies, rest
<1>5. ASSUME NEW a \in Admins, NEW n, NEW day, NEW field, SetDate(a, n, field, day) \/ SetOwnDate(a, n, field, day)
      PROVE  UNCHANGED overlapped
  BY <1>5 DEF SetDate, SetOwnDate, AdminDies, rest
<1>6. CASE \/ Tick \/ OpenHome \/ Consent \/ LeaveSite \/ UNCHANGED vars
           \/ \E n \in Numbers : ClickEval(n)
           \/ \E i \in DOMAIN items : Answer(i)
  BY <1>6 DEF Tick, OpenHome, Consent, LeaveSite, ClickEval, Answer, GoEval, StudentDies, rest, vars
<1> QED
  BY <1>1, <1>3, <1>4, <1>5, <1>6 DEF Next

LEMMA OrderedNext == IInv /\ OrderedInv /\ [Next]_vars => OrderedInv'
<1> SUFFICES ASSUME IInv, OrderedInv, [Next]_vars, ~overlapped' PROVE Ordered'
  BY DEF OrderedInv
<1>0. Ordered
  BY OverlapStays DEF OrderedInv
<1>1. CASE \/ Tick \/ OpenHome \/ Consent \/ LeaveSite \/ UNCHANGED vars
           \/ \E n \in Numbers : ClickEval(n)
           \/ \E i \in DOMAIN items : Answer(i)
  BY <1>0, <1>1, StudentOrdered
<1>2. ASSUME NEW a \in Admins,
             \/ OpenList(a) \/ \E n \in Numbers : OpenItems(a, n)
             \/ More(a) \/ FewerAssignments(a) \/ RemoveAssignment(a) \/ Decline(a)
             \/ MoreItems(a) \/ FewerItems(a) \/ RemoveItem(a) \/ \E i \in DOMAIN items : SaveItem(a, i)
             \/ OpenStudentsHome(a) \/ ClosePage(a)
             \/ \E n \in Numbers, day \in Days :
                  \/ \E field \in Edited : SetDate(a, n, field, day)
                  \/ \E field \in {"due", "eval"} : SetOwnDate(a, n, field, day)
      PROVE  Ordered'
  <2>1. CASE OpenList(a) \/ \E n \in Numbers : OpenItems(a, n)
    BY <1>0, <2>1, OpenListOrdered, OpenItemsOrdered
  <2>2. CASE More(a) \/ FewerAssignments(a) \/ RemoveAssignment(a) \/ Decline(a)
    BY <1>0, <2>2, MoreOrdered, FewerOrdered, RemoveAssignmentOrdered, DeclineOrdered
  <2>3. CASE MoreItems(a) \/ FewerItems(a) \/ RemoveItem(a) \/ \E i \in DOMAIN items : SaveItem(a, i)
    BY <1>0, <2>3, MoreItemsOrdered, FewerOrdered, RemoveItemOrdered, SaveItemOrdered
  <2>4. CASE OpenStudentsHome(a)
    BY <1>0, <2>4, OpenStudentsHomeOrdered
  <2>5. CASE ClosePage(a)
    BY <1>0, <2>5, AdminDiesOrdered DEF ClosePage
  <2>6. CASE \E n \in Numbers, day \in Days : \E field \in Edited : SetDate(a, n, field, day)
    BY <1>0, <2>6, SetDateOrdered
  <2>7. CASE \E n \in Numbers, day \in Days : \E field \in {"due", "eval"} : SetOwnDate(a, n, field, day)
    BY <1>0, <2>7, SetOwnDateOrdered
  <2> QED
    BY <1>2, <2>1, <2>2, <2>3, <2>4, <2>5, <2>6, <2>7
<1> QED
  BY <1>1, <1>2 DEF Next

LEMMA OrderedInit == Init => OrderedInv
<1> SUFFICES ASSUME Init PROVE Ordered
  BY DEF OrderedInv
<1>1. /\ DOMAIN assignments = {1} /\ pages = [a \in Admins |-> None]
      /\ items = <<[of |-> 1, seq |-> 1, ver |-> 0, live |-> TRUE]>>
  BY DEF Init
<1>2. Cardinality({1}) = 1 /\ 1 .. 1 = {1} /\ Cardinality({}) = 0 /\ 1 .. 0 = {}
  <2>1. 1 .. 1 = {1} /\ 1 .. 0 = {}
    OBVIOUS
  <2> QED
    BY <2>1, FS_Singleton, FS_EmptySet
<1>3. Gapless
  BY <1>1, <1>2 DEF Gapless
<1>4. There(items, 1) = {1} /\ items[1].seq = 1 /\ \A n : n # 1 => There(items, n) = {}
  BY <1>1 DEF There
<1>5. Numbered(items)
  <2> SUFFICES ASSUME NEW n \in Numbers
               PROVE  /\ {items[i].seq : i \in There(items, n)} = 1 .. Cardinality(There(items, n))
                      /\ \A i, j \in There(items, n) : items[i].seq = items[j].seq => i = j
    BY DEF Numbered
  <2>1. CASE n = 1
    BY <1>2, <1>4, <2>1
  <2>2. CASE n # 1
    <3>1. There(items, n) = {}
      BY <1>4, <2>2
    <3> QED
      BY <1>2, <3>1
  <2> QED
    BY <2>1, <2>2
<1>6. \A a \in Admins : Kept(pages[a]).kind = "none"
  BY <1>1, EmptyView DEF Kept
<1> QED
  BY <1>3, <1>5, <1>6, HomeFits DEF Ordered, Apart

\* As long as no two administrators edit the same thing at once, assignments and
\* items are numbered from 1 without gaps.
THEOREM NumbersInOrder == Spec => []NumberedInOrder
<1>1. Spec => []OrderedInv
  BY OrderedInit, OrderedNext, Invariant, PTL DEF Spec
<1> QED
  BY <1>1, Invariant, NumberedHolds, PTL
=============================================================================
