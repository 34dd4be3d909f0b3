--------------------------- MODULE Accounts_proofs ---------------------------
(***************************************************************************)
(* What module Accounts promises, proved for any number of people,         *)
(* browsers and accounts.                                                  *)
(*                                                                         *)
(* The argument is about what a session knows.  A copy of an account has a *)
(* role that somebody of its name has had, and if it is not stale it       *)
(* agrees with its row.  A session that acts for somebody else, or has the *)
(* administrators' page, got there by the role of an administrator.        *)
(***************************************************************************)
EXTENDS Accounts, FiniteSetTheorems, SequenceTheorems, TLAPS

AccountRow == [name : Names, role : Roles, nick : Nat, key : Nat, live : BOOLEAN]

Copy == [role : Roles, nick : Nat, stale : BOOLEAN]

Copies == UNION {[I -> Copy] : I \in SUBSET Nat}

PageRow == [kind : {"other", "error", "admin", "profile"}, of : Nat \cup {None}]

SessionRow == [as : Nat, page : PageRow, rows : Copies]

SubmissionRow == [first : Nat, second : Nat \cup {None}]

TypeOK ==
  /\ accounts \in Seq(AccountRow)
  /\ submissions \subseteq SubmissionRow
  /\ sessions \in [Browsers -> SessionRow \cup {None}]

\* The copy c of a row r, where past is what roles people have had.
CopyOK(c, r, past) ==
  /\ <<r.name, c.role>> \in past
  /\ ~c.stale => c.role = r.role /\ c.nick = r.nick

\* The session x of browser b.
SessionOK(b, x, table, past) ==
  /\ x.as \in DOMAIN x.rows
  /\ DOMAIN x.rows \subseteq DOMAIN table
  /\ \A i \in DOMAIN x.rows : CopyOK(x.rows[i], table[i], past)
  /\ table[x.as].name # Person[b] \/ x.page.kind = "admin" => <<Person[b], "admin">> \in past
  /\ x.page.kind = "profile" =>
       /\ x.page.of \in DOMAIN table
       /\ table[x.page.of].name = Person[b] \/ <<Person[b], "admin">> \in past

\* Roles in use are on record, and submissions belong to accounts.
TablesOK(table, subs, past) ==
  /\ \A i \in DOMAIN table : <<table[i].name, table[i].role>> \in past
  /\ \A s \in subs : OwnersOf(s) \subseteq DOMAIN table

AnswerOK ==
  /\ answer.kind = "work" => WasAdmin(answer.to) \/ ShareWork({answer.to} \cup answer.of)
  /\ answer.kind = "key" => WasAdmin(answer.to)

IInv ==
  /\ TypeOK
  /\ TablesOK(accounts, submissions, held)
  /\ \A b \in Browsers : sessions[b] # None => SessionOK(b, sessions[b], accounts, held)
  /\ AnswerOK

-----------------------------------------------------------------------------
(* Tables *)

\* What a query that expects one row returns is that row.
LEMMA UniqueThe ==
  ASSUME NEW S, IsFiniteSet(S), Unique(S)
  PROVE  The(S) \in S /\ S = {The(S)}
<1>1. PICK x : S = {x}
  BY FS_Singleton DEF Unique
<1> QED
  BY <1>1 DEF The

LEMMA NamedIsFinite ==
  ASSUME NEW table \in Seq(AccountRow), NEW n
  PROVE  /\ Named(table, n) \subseteq DOMAIN table
         /\ IsFiniteSet(Named(table, n))
<1>1. Named(table, n) \subseteq DOMAIN table
  BY DEF Named
<1>2. IsFiniteSet(1 .. Len(table))
  BY FS_Interval
<1> QED
  BY <1>1, <1>2, FS_Subset

\* The one account of a name.
LEMMA TheNamed ==
  ASSUME NEW table \in Seq(AccountRow), NEW n, Unique(Named(table, n))
  PROVE  /\ The(Named(table, n)) \in DOMAIN table
         /\ The(Named(table, n)) \in Nat
         /\ table[The(Named(table, n))].live
         /\ table[The(Named(table, n))].name = n
<1>1. The(Named(table, n)) \in Named(table, n)
  BY UniqueThe, NamedIsFinite
<1> QED
  BY <1>1 DEF Named

\* One table follows another: names stay, accounts may be added.
Follows(table, past, table2, past2) ==
  /\ DOMAIN table \subseteq DOMAIN table2
  /\ \A i \in DOMAIN table : table2[i].name = table[i].name
  /\ past \subseteq past2

\* New accounts are students'.
Extends(table, table2) ==
  /\ table2 \in Seq(AccountRow)
  /\ DOMAIN table \subseteq DOMAIN table2
  /\ \A i \in DOMAIN table : table2[i] = table[i]
  /\ \A i \in DOMAIN table2 \ DOMAIN table : table2[i].role = "student"

LEMMA CreatedExtends ==
  ASSUME NEW table \in Seq(AccountRow), NEW n \in Names, NEW r \in Roles
  PROVE  /\ Created(table, n, r) \in Seq(AccountRow)
         /\ DOMAIN Created(table, n, r) = DOMAIN table \cup {Len(table) + 1}
         /\ Len(table) + 1 \notin DOMAIN table
         /\ \A i \in DOMAIN table : Created(table, n, r)[i] = table[i]
         /\ Created(table, n, r)[Len(table) + 1] = Account(n, r)
<1>1. Account(n, r) \in AccountRow
  BY DEF Account, AccountRow
<1> QED
  BY <1>1, AppendProperties DEF Created

LEMMA FoundByLogin ==
  ASSUME NEW table \in Seq(AccountRow), NEW n \in Names, NEW create \in BOOLEAN
  PROVE  LET found == FindByLogin(table, n, create)
         IN  /\ Extends(table, found.table)
             /\ found.id # None => found.id \in DOMAIN found.table /\ found.table[found.id].name = n
<1>1. CASE Unique(Named(table, n))
  BY <1>1, TheNamed DEF FindByLogin, Extends
<1>2. CASE ~Unique(Named(table, n)) /\ Named(table, n) = {} /\ create
  <2> DEFINE made == Created(table, n, "student")
  <2>1. "student" \in Roles
    BY DEF Roles, Rank
  <2>2. /\ made \in Seq(AccountRow)
        /\ DOMAIN made = DOMAIN table \cup {Len(table) + 1}
        /\ \A i \in DOMAIN table : made[i] = table[i]
        /\ made[Len(table) + 1] = Account(n, "student")
    BY <2>1, CreatedExtends
  <2>3. Account(n, "student").name = n /\ Account(n, "student").role = "student"
    BY DEF Account
  <2>4. FindByLogin(table, n, create) = [table |-> made, id |-> Len(table) + 1]
    BY <1>2 DEF FindByLogin
  <2>5. Extends(table, made)
    BY <2>2, <2>3 DEF Extends
  <2> QED
    BY <2>2, <2>3, <2>4, <2>5
<1>3. CASE ~Unique(Named(table, n)) /\ ~(Named(table, n) = {} /\ create)
  BY <1>3 DEF FindByLogin, Extends
<1> QED
  BY <1>1, <1>2, <1>3

\* Whoever logs in acts as themselves, or has been an administrator.
LEMMA AuthenticatedAs ==
  ASSUME TypeOK, TablesOK(accounts, submissions, held),
         NEW p \in Names, NEW whoami \in Names \cup {None}
  PROVE  LET found == Authenticated(p, whoami)
         IN  /\ Extends(accounts, found.table)
             /\ found.id # None =>
                  /\ found.id \in DOMAIN found.table
                  /\ found.table[found.id].name = p \/ WasAdmin(p)
<1> DEFINE own == FindByLogin(accounts, p, AutoCreate)
           other == FindByLogin(own.table, whoami, TRUE)
<1>1. /\ Extends(accounts, own.table)
      /\ own.id # None => own.id \in DOMAIN own.table /\ own.table[own.id].name = p
  BY FoundByLogin, AccountsAssumption DEF TypeOK
<1>2. CASE own.id # None /\ whoami # None /\ CanAdmin(own.table[own.id].role)
  <2>1. /\ Extends(own.table, other.table)
        /\ other.id # None => other.id \in DOMAIN other.table
    BY <1>1, <1>2, FoundByLogin DEF Extends
  <2>2. Extends(accounts, other.table)
    BY <1>1, <2>1 DEF Extends
  <2>3. WasAdmin(p)
    BY <1>1, <1>2 DEF Extends, CanAdmin, WasAdmin, TablesOK
  <2> QED
    BY <1>2, <2>1, <2>2, <2>3 DEF Authenticated
<1>3. CASE ~(own.id # None /\ whoami # None /\ CanAdmin(own.table[own.id].role))
  BY <1>1, <1>3 DEF Authenticated
<1> QED
  BY <1>2, <1>3
-----------------------------------------------------------------------------
(* Sessions *)

\* A session in the next table: what it does not mark as stale has not changed.
LEMMA SessionKept ==
  ASSUME NEW b, NEW x, NEW y, NEW table, NEW past, NEW table2, NEW past2,
         SessionOK(b, x, table, past),
         Follows(table, past, table2, past2),
         y.as = x.as, y.page = x.page, DOMAIN y.rows = DOMAIN x.rows,
         \A i \in DOMAIN x.rows :
           /\ y.rows[i].role = x.rows[i].role /\ y.rows[i].nick = x.rows[i].nick
           /\ ~y.rows[i].stale => /\ ~x.rows[i].stale
                                  /\ table2[i].role = table[i].role /\ table2[i].nick = table[i].nick
  PROVE  SessionOK(b, y, table2, past2)
<1>1. \A i \in DOMAIN y.rows : CopyOK(y.rows[i], table2[i], past2)
  BY DEF SessionOK, CopyOK, Follows
<1>2. y.as \in DOMAIN y.rows /\ DOMAIN y.rows \subseteq DOMAIN table2
  BY DEF SessionOK, Follows
<1>3. table2[y.as].name # Person[b] \/ y.page.kind = "admin" => <<Person[b], "admin">> \in past2
  BY DEF SessionOK, Follows
<1>4. y.page.kind = "profile" =>
        /\ y.page.of \in DOMAIN table2
        /\ table2[y.page.of].name = Person[b] \/ <<Person[b], "admin">> \in past2
  BY DEF SessionOK, Follows
<1> QED
  BY <1>1, <1>2, <1>3, <1>4 DEF SessionOK

LEMMA SessionRowType ==
  ASSUME NEW x \in SessionRow
  PROVE  /\ DOMAIN x.rows \subseteq Nat
         /\ x.rows \in [DOMAIN x.rows -> Copy]
<1>1. PICK I \in SUBSET Nat : x.rows \in [I -> Copy]
  BY DEF SessionRow, Copies
<1> QED
  BY <1>1

LEMMA CopiesType ==
  ASSUME NEW I \in SUBSET Nat, NEW f \in [I -> Copy]
  PROVE  f \in Copies
BY DEF Copies

\* A session whose copy of row i is replaced.
LEMMA CopyReplaced ==
  ASSUME NEW x \in SessionRow, NEW i \in DOMAIN x.rows, NEW c \in Copy,
         NEW y, y = [x EXCEPT !.rows[i] = c]
  PROVE  /\ y \in SessionRow
         /\ y.as = x.as /\ y.page = x.page /\ DOMAIN y.rows = DOMAIN x.rows
         /\ y.rows[i] = c
         /\ \A j \in DOMAIN x.rows \ {i} : y.rows[j] = x.rows[j]
<1>1. DOMAIN x.rows \subseteq Nat /\ x.rows \in [DOMAIN x.rows -> Copy]
  BY SessionRowType
<1>2. [x.rows EXCEPT ![i] = c] \in [DOMAIN x.rows -> Copy]
  BY <1>1
<1>3. [x.rows EXCEPT ![i] = c] \in Copies
  BY <1>1, <1>2, CopiesType
<1>4. /\ y.rows = [x.rows EXCEPT ![i] = c] /\ y.as = x.as /\ y.page = x.page
      /\ y = [x EXCEPT !.rows = [x.rows EXCEPT ![i] = c]]
  BY DEF SessionRow
<1>5. y \in SessionRow
  BY <1>3, <1>4 DEF SessionRow
<1> QED
  BY <1>1, <1>4, <1>5

\* When row i changes, the other sessions hold old copies of it.
LEMMA OthersOutdated ==
  ASSUME TypeOK, NEW b, NEW i, NEW table2, NEW past2,
         Follows(accounts, held, table2, past2),
         \A j \in DOMAIN accounts \ {i} :
           table2[j].role = accounts[j].role /\ table2[j].nick = accounts[j].nick,
         NEW c \in Browsers,
         sessions[c] # None => SessionOK(c, sessions[c], accounts, held),
         c # b \/ (sessions[c] # None => i \notin DOMAIN sessions[c].rows)
  PROVE  /\ Outdated(b, i)[c] \in SessionRow \cup {None}
         /\ Outdated(b, i)[c] # None => SessionOK(c, Outdated(b, i)[c], table2, past2)
<1> DEFINE x == sessions[c]
<1>1. x \in SessionRow \cup {None}
  BY DEF TypeOK
<1>2. CASE c # b /\ x # None /\ i \in DOMAIN x.rows
  <2> DEFINE y == [x EXCEPT !.rows[i].stale = TRUE]
             z == [x.rows[i] EXCEPT !.stale = TRUE]
  <2>1. Outdated(b, i)[c] = y
    BY <1>2 DEF Outdated
  <2>2. x \in SessionRow /\ x.rows[i] \in Copy
    BY <1>1, <1>2, SessionRowType
  <2>3. z \in Copy /\ z.stale /\ z.role = x.rows[i].role /\ z.nick = x.rows[i].nick
    BY <2>2 DEF Copy
  <2>4. y = [x EXCEPT !.rows[i] = z]
    OBVIOUS
  <2> HIDE DEF y, z
  <2>5. /\ y \in SessionRow
        /\ y.as = x.as /\ y.page = x.page /\ DOMAIN y.rows = DOMAIN x.rows
        /\ y.rows[i] = z
        /\ \A j \in DOMAIN x.rows \ {i} : y.rows[j] = x.rows[j]
    BY <1>2, <2>2, <2>3, <2>4, CopyReplaced
  <2>6. DOMAIN x.rows \subseteq DOMAIN accounts /\ SessionOK(c, x, accounts, held)
    BY <1>2 DEF SessionOK
  <2>7. \A j \in DOMAIN x.rows :
          /\ y.rows[j].role = x.rows[j].role /\ y.rows[j].nick = x.rows[j].nick
          /\ ~y.rows[j].stale => /\ ~x.rows[j].stale
                                 /\ table2[j].role = accounts[j].role /\ table2[j].nick = accounts[j].nick
    BY <2>3, <2>5, <2>6
  <2>8. SessionOK(c, y, table2, past2)
    BY <2>5, <2>6, <2>7, SessionKept
  <2> QED
    BY <2>1, <2>5, <2>8
<1>3. CASE ~(c # b /\ x # None /\ i \in DOMAIN x.rows)
  <2>1. Outdated(b, i)[c] = x
    BY <1>3 DEF Outdated
  <2>2. ASSUME x # None PROVE SessionOK(c, x, table2, past2)
    <3>1. SessionOK(c, x, accounts, held) /\ i \notin DOMAIN x.rows
      BY <1>3, <2>2
    <3>2. DOMAIN x.rows \subseteq DOMAIN accounts
      BY <3>1 DEF SessionOK
    <3> QED
      BY <3>1, <3>2, SessionKept
  <2> QED
    BY <1>1, <2>1, <2>2
<1> QED
  BY <1>2, <1>3

\* What the account of a session, and its copy of it, say of the person.
LEMMA OwnRights ==
  ASSUME IInv, NEW b \in Browsers, sessions[b] # None
  PROVE  /\ sessions[b] \in SessionRow /\ SessionOK(b, sessions[b], accounts, held)
         /\ sessions[b].as \in DOMAIN accounts
         /\ Own(b) \in Copy /\ CopyOK(Own(b), accounts[sessions[b].as], held)
         /\ MyName(b) = Person[b] \/ WasAdmin(Person[b])
         /\ CanAdmin(Own(b).role) => WasAdmin(Person[b])
<1>1. sessions[b] \in SessionRow /\ SessionOK(b, sessions[b], accounts, held)
  BY DEF IInv, TypeOK
<1>2. sessions[b].as \in DOMAIN sessions[b].rows /\ sessions[b].as \in DOMAIN accounts
  BY <1>1 DEF SessionOK
<1>3. Own(b) \in Copy
  BY <1>1, <1>2, SessionRowType DEF Own
<1>4. CopyOK(Own(b), accounts[sessions[b].as], held)
  BY <1>1, <1>2 DEF SessionOK, Own
<1>5. MyName(b) = Person[b] \/ WasAdmin(Person[b])
  BY <1>1 DEF SessionOK, MyName, WasAdmin
<1>6. CanAdmin(Own(b).role) => WasAdmin(Person[b])
  BY <1>4, <1>5 DEF CopyOK, CanAdmin, WasAdmin, MyName
<1> QED
  BY <1>1, <1>2, <1>3, <1>4, <1>5, <1>6

\* The copies that a session keeps or loads.
LEMMA BaseOK ==
  ASSUME IInv, NEW b \in Browsers, sessions[b] # None, NEW i \in DOMAIN accounts
  PROVE  Base(b, i) \in Copy /\ CopyOK(Base(b, i), accounts[i], held)
<1>1. sessions[b] \in SessionRow /\ SessionOK(b, sessions[b], accounts, held)
  BY OwnRights
<1>2. accounts[i] \in AccountRow
  BY DEF IInv, TypeOK
<1>3. CASE i \in DOMAIN sessions[b].rows
  BY <1>1, <1>3, SessionRowType DEF Base, SessionOK
<1>4. CASE i \notin DOMAIN sessions[b].rows
  BY <1>2, <1>4 DEF Base, Row, Copy, CopyOK, AccountRow, IInv, TablesOK
<1> QED
  BY <1>3, <1>4

LEMMA DomainIsNat == TypeOK => DOMAIN accounts \subseteq Nat
  BY DEF TypeOK

LEMMA RowsKeptOK ==
  ASSUME IInv, NEW b \in Browsers, sessions[b] # None, NEW I \in SUBSET DOMAIN accounts
  PROVE  /\ RowsKept(b, I) \in Copies
         /\ DOMAIN RowsKept(b, I) = I
         /\ \A i \in I : CopyOK(RowsKept(b, I)[i], accounts[i], held)
<1>1. RowsKept(b, I) \in [I -> Copy] /\ \A i \in I : RowsKept(b, I)[i] = Base(b, i)
  BY BaseOK DEF RowsKept
<1>2. I \in SUBSET Nat
  BY DomainIsNat DEF IInv
<1> QED
  BY <1>1, <1>2, CopiesType, BaseOK

\* A session shows another page.
LEMMA PageShown ==
  ASSUME IInv, NEW b \in Browsers, sessions[b] # None,
         NEW I \in SUBSET DOMAIN accounts, sessions[b].as \in I,
         NEW p \in PageRow,
         p.kind = "admin" => WasAdmin(Person[b]),
         p.kind = "profile" => /\ p.of \in DOMAIN accounts
                               /\ accounts[p.of].name = Person[b] \/ WasAdmin(Person[b]),
         ShowPage(b, p, RowsKept(b, I))
  PROVE  \E y \in SessionRow :
           /\ sessions' = [sessions EXCEPT ![b] = y]
           /\ SessionOK(b, y, accounts, held)
<1> DEFINE x == sessions[b]
           y == [x EXCEPT !.page = p, !.rows = RowsKept(b, I)]
<1>1. x \in SessionRow /\ SessionOK(b, x, accounts, held)
  BY OwnRights
<1>2. sessions' = [sessions EXCEPT ![b] = y]
  BY DEF ShowPage, IInv, TypeOK
<1>3. y \in SessionRow /\ y.as = x.as /\ y.page = p /\ y.rows = RowsKept(b, I)
  BY <1>1, RowsKeptOK DEF SessionRow
<1> HIDE DEF y
<1>4. SessionOK(b, y, accounts, held)
  BY <1>1, <1>3, RowsKeptOK DEF SessionOK, WasAdmin
<1> QED
  BY <1>2, <1>3, <1>4

-----------------------------------------------------------------------------
(* Steps that leave the accounts alone *)

SubmissionsOK(subs) ==
  /\ subs \subseteq SubmissionRow
  /\ \A s \in subs : OwnersOf(s) \subseteq DOMAIN accounts

LEMMA LookStep ==
  ASSUME IInv, UNCHANGED <<accounts, held>>, NEW b \in Browsers,
         NEW y \in SessionRow \cup {None},
         sessions' = [sessions EXCEPT ![b] = y],
         y # None => SessionOK(b, y, accounts, held),
         SubmissionsOK(submissions'),
         AnswerOK'
  PROVE  IInv'
<1>1. TypeOK'
  BY DEF IInv, TypeOK, SubmissionsOK
<1>2. TablesOK(accounts, submissions, held)'
  BY DEF IInv, TablesOK, SubmissionsOK
<1>3. \A c \in Browsers : sessions'[c] # None => SessionOK(c, sessions'[c], accounts', held')
  BY DEF IInv, TypeOK
<1> QED
  BY <1>1, <1>2, <1>3 DEF IInv

LEMMA QuietIsOK ==
  ASSUME Quietly
  PROVE  AnswerOK'
BY DEF Quietly, Nothing, AnswerOK

LEMMA SubmissionsAsTheyAre ==
  ASSUME IInv
  PROVE  SubmissionsOK(submissions)
BY DEF IInv, TypeOK, TablesOK, SubmissionsOK

LEMMA DiesStep ==
  ASSUME IInv, NEW b \in Browsers, Dies(b)
  PROVE  IInv'
BY LookStep, QuietIsOK, SubmissionsAsTheyAre DEF Dies, tables

\* Showing the work of a submission to one of its owners or an administrator.
LEMMA ShownWork ==
  ASSUME NEW p, NEW s \in submissions', UNCHANGED <<accounts, held>>,
         Shows(p, OwnersOf(s)),
         WasAdmin(p) \/ p \in NamesOf(OwnersOf(s))
  PROVE  AnswerOK'
<1>1. CASE NamesOf(OwnersOf(s)) \subseteq {p}
  BY <1>1 DEF Shows, Nothing, AnswerOK
<1>2. CASE ~(NamesOf(OwnersOf(s)) \subseteq {p})
  <2>1. /\ answer'.kind = "work" /\ answer'.to = p
        /\ answer'.of = NamesOf(OwnersOf(s)) \ {p}
    BY <1>2 DEF Shows, WorkOf
  <2>2. NamesOf(OwnersOf(s))' = NamesOf(OwnersOf(s))
    BY DEF NamesOf, OwnersOf
  <2>3. WasAdmin(p)' \/ {p} \cup answer'.of \subseteq NamesOf(OwnersOf(s))'
    BY <2>1, <2>2 DEF WasAdmin
  <2> QED
    BY <2>1, <2>3 DEF AnswerOK, ShareWork, WasAdmin
<1> QED
  BY <1>1, <1>2

LEMMA ShownKey ==
  ASSUME NEW p, NEW i, UNCHANGED held, ShowsKey(p, i),
         accounts[i].name = p \/ WasAdmin(p)
  PROVE  AnswerOK'
BY DEF ShowsKey, KeyShown, Nothing, AnswerOK, WasAdmin

\* A user's submission, made if there was none.
LEMMA FirstTouched ==
  ASSUME IInv, NEW i \in DOMAIN accounts
  PROVE  LET made == FirstTouch(submissions, i)
         IN  /\ SubmissionsOK(made)
             /\ SubmissionOf(made, i) \in made
             /\ i \in OwnersOf(SubmissionOf(made, i))
<1> DEFINE made == FirstTouch(submissions, i)
           new == [first |-> i, second |-> None]
<1>1. i \in Nat /\ i # None
  BY DomainIsNat, AccountsAssumption DEF IInv
<1>2. new \in SubmissionRow /\ OwnersOf(new) = {i}
  BY <1>1 DEF SubmissionRow, OwnersOf
<1>3. SubmissionsOK(made)
  BY <1>2, SubmissionsAsTheyAre DEF FirstTouch, SubmissionsOK
<1>4. \E s \in made : i \in OwnersOf(s)
  BY <1>2 DEF FirstTouch, HasSubmission
<1> HIDE DEF made
<1>5. SubmissionOf(made, i) \in made /\ i \in OwnersOf(SubmissionOf(made, i))
  BY <1>4 DEF SubmissionOf
<1> QED
  BY <1>3, <1>5 DEF made

LEMMA PagesTyped ==
  /\ OtherPage \in PageRow /\ OtherPage.kind = "other"
  /\ ErrorPage \in PageRow /\ ErrorPage.kind = "error"
  /\ Page("admin", None) \in PageRow /\ Page("admin", None).kind = "admin"
  /\ \A i \in Nat : /\ Page("profile", i) \in PageRow
                    /\ Page("profile", i).kind = "profile" /\ Page("profile", i).of = i
BY DEF OtherPage, ErrorPage, Page, PageRow

\* A page with nothing but the session's own account, and what it was shown.
LEMMA PlainPageStep ==
  ASSUME IInv, UNCHANGED <<accounts, held>>, NEW b \in Browsers, sessions[b] # None,
         NEW p \in PageRow, p.kind # "profile", p.kind = "admin" => WasAdmin(Person[b]),
         ShowPage(b, p, OwnRow(b)),
         SubmissionsOK(submissions'),
         AnswerOK'
  PROVE  IInv'
<1>1. sessions[b].as \in DOMAIN accounts
  BY OwnRights
<1>2. \E y \in SessionRow :
        /\ sessions' = [sessions EXCEPT ![b] = y]
        /\ SessionOK(b, y, accounts, held)
  BY <1>1, PageShown DEF OwnRow
<1> QED
  BY <1>2, LookStep

LEMMA RefusedStep ==
  ASSUME IInv, NEW b \in Browsers, sessions[b] # None, Refused(b)
  PROVE  IInv'
BY PlainPageStep, PagesTyped, QuietIsOK, SubmissionsAsTheyAre DEF Refused, tables

\* The administrators' page is shown to whose copy has that role.
LEMMA GoPlainStep ==
  ASSUME IInv, NEW b \in Browsers, NEW path, GoPlain(b, path)
  PROVE  IInv'
<1> DEFINE t == Target(b, path)
           p == IF t.kind = "admin" THEN Page("admin", None) ELSE OtherPage
<1>1. CASE /\ Allowed(b, t)
           /\ ShowPage(b, p, OwnRow(b)) /\ Quietly
           /\ UNCHANGED <<tables, writes, held>>
  <2>1. t.kind = "admin" => CanAdmin(Own(b).role)
    BY <1>1 DEF Allowed
  <2>2. p \in PageRow /\ p.kind # "profile" /\ (p.kind = "admin" => WasAdmin(Person[b]))
    BY <2>1, PagesTyped, OwnRights DEF GoPlain
  <2> HIDE DEF p
  <2> QED
    BY <1>1, <2>2, PlainPageStep, QuietIsOK, SubmissionsAsTheyAre DEF GoPlain, tables
<1>2. CASE Refused(b)
  BY <1>2, RefusedStep DEF GoPlain
<1>3. CASE Dies(b)
  BY <1>3, DiesStep
<1> QED
  BY <1>1, <1>2, <1>3 DEF GoPlain

LEMMA GoMissingUserStep ==
  ASSUME IInv, NEW b \in Browsers, NEW path, GoMissingUser(b, path)
  PROVE  IInv'
BY RefusedStep, DiesStep DEF GoMissingUser

\* Who may view a user by name is that user or an administrator.
LEMMA ViewerIsEntitled ==
  ASSUME IInv, NEW b \in Browsers, sessions[b] # None, NEW n, CanView(Own(b).role, MyName(b), n)
  PROVE  n = Person[b] \/ WasAdmin(Person[b])
BY OwnRights DEF CanView

LEMMA GoHomeStep ==
  ASSUME IInv, NEW b \in Browsers, NEW path, GoHome(b, path)
  PROVE  IInv'
<1> DEFINE t == Target(b, path)
           i == The(Named(accounts, t.of))
           s == SubmissionOf(FirstTouch(submissions, i), i)
<1>1. i \in DOMAIN accounts /\ accounts[i].name = t.of
  BY TheNamed DEF GoHome, IInv, TypeOK
<1>2. CASE /\ CanView(Own(b).role, MyName(b), t.of)
           /\ submissions' = FirstTouch(submissions, i)
           /\ ShowPage(b, OtherPage, OwnRow(b))
           /\ Shows(Person[b], OwnersOf(SubmissionOf(submissions', i)))
           /\ UNCHANGED <<accounts, writes, held>>
  <2>1. SubmissionsOK(submissions') /\ s \in submissions' /\ i \in OwnersOf(s)
    BY <1>1, <1>2, FirstTouched
  <2>2. WasAdmin(Person[b]) \/ Person[b] \in NamesOf(OwnersOf(s))
    BY <1>1, <1>2, <2>1, ViewerIsEntitled DEF NamesOf, GoHome
  <2>3. Shows(Person[b], OwnersOf(s))
    BY <1>2
  <2> HIDE DEF s, i, t
  <2>4. AnswerOK'
    BY <1>2, <2>1, <2>2, <2>3, ShownWork
  <2> QED
    BY <1>2, <2>1, <2>4, PlainPageStep, PagesTyped DEF GoHome
<1>3. CASE Dies(b)
  BY <1>3, DiesStep
<1> QED
  BY <1>2, <1>3 DEF GoHome

LEMMA GoSubmissionStep ==
  ASSUME IInv, NEW b \in Browsers, NEW path, NEW duePassed, NEW inRange,
         GoSubmission(b, path, duePassed, inRange)
  PROVE  IInv'
<1> DEFINE t == Target(b, path)
           i == The(Named(accounts, t.of))
           made == FirstTouch(submissions, i)
           s == SubmissionOf(made, i)
<1>1. i \in DOMAIN accounts /\ accounts[i].name = t.of
  BY TheNamed DEF GoSubmission, IInv, TypeOK
<1>2. CASE /\ CanViewSubmission(Own(b).role, sessions[b].as, s)
           /\ submissions' = made
           /\ ShowPage(b, OtherPage, OwnRow(b))
           /\ Shows(Person[b], OwnersOf(s))
           /\ UNCHANGED <<accounts, writes, held>>
  <2>1. SubmissionsOK(submissions') /\ s \in submissions'
    BY <1>1, <1>2, FirstTouched
  <2>2. WasAdmin(Person[b]) \/ Person[b] \in NamesOf(OwnersOf(s))
    BY <1>2, OwnRights DEF CanViewSubmission, NamesOf, MyName, GoSubmission
  <2> HIDE DEF s, i, t, made
  <2>3. AnswerOK'
    BY <1>2, <2>1, <2>2, ShownWork
  <2> QED
    BY <1>2, <2>1, <2>3, PlainPageStep, PagesTyped DEF GoSubmission
<1>3. CASE Refused(b)
  BY <1>3, RefusedStep DEF GoSubmission
<1>4. CASE Dies(b)
  BY <1>4, DiesStep
<1> QED
  BY <1>2, <1>3, <1>4 DEF GoSubmission

LEMMA GoProfileStep ==
  ASSUME IInv, NEW b \in Browsers, NEW path, GoProfile(b, path)
  PROVE  IInv'
<1> DEFINE t == Target(b, path)
           i == The(Named(accounts, t.of))
           I == {sessions[b].as, i}
<1>1. i \in DOMAIN accounts /\ accounts[i].name = t.of /\ i \in Nat
  BY TheNamed DEF GoProfile, IInv, TypeOK
<1>2. CASE /\ CanView(Own(b).role, MyName(b), t.of)
           /\ ShowPage(b, Page("profile", i), RowsKept(b, I))
           /\ ShowsKey(Person[b], i)
           /\ UNCHANGED <<tables, writes, held>>
  <2>1. accounts[i].name = Person[b] \/ WasAdmin(Person[b])
    BY <1>1, <1>2, ViewerIsEntitled DEF GoProfile
  <2>2. I \in SUBSET DOMAIN accounts /\ sessions[b].as \in I /\ sessions[b] # None
    BY <1>1, OwnRights DEF GoProfile
  <2> HIDE DEF i, t, I
  <2>3. \E y \in SessionRow :
          /\ sessions' = [sessions EXCEPT ![b] = y]
          /\ SessionOK(b, y, accounts, held)
    BY <1>1, <1>2, <2>1, <2>2, PagesTyped, PageShown
  <2>4. AnswerOK'
    BY <1>2, <2>1, ShownKey
  <2> QED
    BY <1>2, <2>3, <2>4, LookStep, SubmissionsAsTheyAre DEF tables
<1>3. CASE Dies(b)
  BY <1>3, DiesStep
<1> QED
  BY <1>2, <1>3 DEF GoProfile
-----------------------------------------------------------------------------
(* Steps that add or change accounts *)

LEMMA HoldingKeeps ==
  ASSUME NEW table
  PROVE  /\ held \subseteq Holding(table)
         /\ \A i \in DOMAIN table : <<table[i].name, table[i].role>> \in Holding(table)
BY DEF Holding

\* Sessions that are left alone while accounts are added, or change otherwise
\* than by role and nickname.
LEMMA SessionsFollow ==
  ASSUME IInv, Follows(accounts, held, accounts', held'),
         \A i \in DOMAIN accounts :
           accounts'[i].role = accounts[i].role /\ accounts'[i].nick = accounts[i].nick,
         NEW c \in Browsers, sessions[c] # None
  PROVE  SessionOK(c, sessions[c], accounts', held')
<1>1. SessionOK(c, sessions[c], accounts, held)
  BY DEF IInv
<1>2. DOMAIN sessions[c].rows \subseteq DOMAIN accounts
  BY <1>1 DEF SessionOK
<1> QED
  BY <1>1, <1>2, SessionKept

LEMMA OwnersFollow ==
  ASSUME IInv, Follows(accounts, held, accounts', held'),
         submissions' = submissions,
         \A i \in DOMAIN accounts' : <<accounts'[i].name, accounts'[i].role>> \in held'
  PROVE  TablesOK(accounts', submissions', held')
BY DEF IInv, TablesOK, Follows

\* An account is added, and nothing else happens.
LEMMA AddedStep ==
  ASSUME IInv, NEW n \in Names, NEW r \in Roles, accounts' = Created(accounts, n, r),
         held' = Holding(accounts'), UNCHANGED <<submissions, sessions>>, Quietly
  PROVE  IInv'
<1>1. /\ accounts' \in Seq(AccountRow) /\ DOMAIN accounts \subseteq DOMAIN accounts'
      /\ \A i \in DOMAIN accounts : accounts'[i] = accounts[i]
  <2>1. accounts \in Seq(AccountRow)
    BY DEF IInv, TypeOK
  <2>2. /\ Created(accounts, n, r) \in Seq(AccountRow)
        /\ DOMAIN Created(accounts, n, r) = DOMAIN accounts \cup {Len(accounts) + 1}
        /\ \A i \in DOMAIN accounts : Created(accounts, n, r)[i] = accounts[i]
    BY <2>1, CreatedExtends
  <2> QED
    BY <2>2
<1>2. Follows(accounts, held, accounts', held')
  BY <1>1, HoldingKeeps DEF Follows
<1>3. TablesOK(accounts', submissions', held')
  BY <1>2, OwnersFollow, HoldingKeeps
<1>4. \A c \in Browsers : sessions'[c] # None => SessionOK(c, sessions'[c], accounts', held')
  BY <1>1, <1>2, SessionsFollow
<1>5. TypeOK'
  BY <1>1 DEF IInv, TypeOK
<1> QED
  BY <1>3, <1>4, <1>5, QuietIsOK DEF IInv

LEMMA VisitStep ==
  ASSUME IInv, NEW b \in Browsers, NEW whoami \in Names \cup {None}, Visit(b, whoami)
  PROVE  IInv'
<1> DEFINE found == Authenticated(Person[b], whoami)
           y == LoggedIn(found)
<1>1. /\ accounts' = found.table /\ held' = Holding(found.table)
      /\ sessions' = [sessions EXCEPT ![b] = y]
      /\ found.id # None /\ Quietly /\ submissions' = submissions
  BY DEF Visit
<1>2. /\ Extends(accounts, found.table)
      /\ found.id \in DOMAIN found.table
      /\ found.table[found.id].name = Person[b] \/ WasAdmin(Person[b])
  BY <1>1, AuthenticatedAs, AccountsAssumption DEF IInv
<1> HIDE DEF found
<1>3. Follows(accounts, held, accounts', held')
  BY <1>1, <1>2, HoldingKeeps DEF Follows, Extends
<1>4. TablesOK(accounts', submissions', held')
  BY <1>1, <1>3, OwnersFollow, HoldingKeeps
<1>5. found.id \in Nat /\ found.table[found.id] \in AccountRow
  BY <1>2 DEF Extends
<1>6. /\ Row(found.table, found.id) \in Copy
      /\ CopyOK(Row(found.table, found.id), found.table[found.id], held')
  BY <1>1, <1>2, <1>5, HoldingKeeps DEF Row, Copy, AccountRow, CopyOK
<1>7. /\ y.as = found.id /\ y.page = OtherPage
      /\ y.rows = [i \in {found.id} |-> Row(found.table, i)]
      /\ y = [as |-> y.as, page |-> y.page, rows |-> y.rows]
  BY DEF LoggedIn
<1>8. y.rows \in [{found.id} -> Copy] /\ y.rows[found.id] = Row(found.table, found.id)
  BY <1>6, <1>7
<1>9. y \in SessionRow
  BY <1>5, <1>7, <1>8, CopiesType, PagesTyped DEF SessionRow
<1> HIDE DEF y
<1>10. SessionOK(b, y, accounts', held')
  BY <1>1, <1>2, <1>3, <1>6, <1>7, <1>8, PagesTyped DEF SessionOK, WasAdmin, Follows
<1>11. \A c \in Browsers : sessions'[c] # None => SessionOK(c, sessions'[c], accounts', held')
  <2> SUFFICES ASSUME NEW c \in Browsers, sessions'[c] # None
               PROVE  SessionOK(c, sessions'[c], accounts', held')
    OBVIOUS
  <2>1. CASE c = b
    BY <1>1, <1>10, <2>1 DEF IInv, TypeOK
  <2>2. CASE c # b
    BY <1>1, <1>2, <1>3, <2>2, SessionsFollow DEF Extends, IInv, TypeOK
  <2> QED
    BY <2>1, <2>2
<1>12. TypeOK'
  BY <1>1, <1>2, <1>9 DEF IInv, TypeOK, Extends
<1> QED
  BY <1>1, <1>4, <1>11, <1>12, QuietIsOK DEF IInv

\* One row changes its role or its nickname, and sessions know.
LEMMA RowStep ==
  ASSUME IInv, NEW i \in DOMAIN accounts,
         accounts' \in Seq(AccountRow), DOMAIN accounts' = DOMAIN accounts,
         accounts'[i].name = accounts[i].name,
         \A j \in DOMAIN accounts \ {i} : accounts'[j] = accounts[j],
         held \subseteq held', <<accounts'[i].name, accounts'[i].role>> \in held',
         SubmissionsOK(submissions'),
         NEW b, sessions' \in [Browsers -> SessionRow \cup {None}],
         \A c \in Browsers : \/ sessions'[c] = Outdated(b, i)[c] /\ (c = b /\ sessions[c] # None => i \notin DOMAIN sessions[c].rows)
                             \/ sessions'[c] # None => SessionOK(c, sessions'[c], accounts', held'),
         AnswerOK'
  PROVE  IInv'
<1>1. Follows(accounts, held, accounts', held')
  BY DEF Follows
<1>2. TablesOK(accounts', submissions', held')
  BY DEF IInv, TablesOK, SubmissionsOK
<1>3. \A c \in Browsers : sessions'[c] # None => SessionOK(c, sessions'[c], accounts', held')
  BY <1>1, OthersOutdated DEF IInv
<1>4. TypeOK'
  BY DEF TypeOK, SubmissionsOK
<1> QED
  BY <1>2, <1>3, <1>4 DEF IInv

\* A row is replaced.
LEMMA RowReplaced ==
  ASSUME IInv, NEW i \in DOMAIN accounts, NEW q \in AccountRow,
         accounts' = [accounts EXCEPT ![i] = q]
  PROVE  /\ accounts' \in Seq(AccountRow) /\ DOMAIN accounts' = DOMAIN accounts
         /\ accounts'[i] = q
         /\ \A j \in DOMAIN accounts \ {i} : accounts'[j] = accounts[j]
<1>1. accounts \in Seq(AccountRow)
  BY DEF IInv, TypeOK
<1> QED
  BY <1>1

\* A page writes its copy of a row, which was not stale, with one field changed.
LEMMA WriteRowStep ==
  ASSUME IInv, NEW b \in Browsers, sessions[b] # None, NEW i \in DOMAIN accounts,
         NEW row \in Copy, ~row.stale, WriteRow(b, i, row)
  PROVE  IInv'
<1> DEFINE x == sessions[b]
           y == [x EXCEPT !.rows[i] = row]
<1>1. accounts[i] \in AccountRow /\ row.role \in Roles /\ row.nick \in Nat
  BY DEF IInv, TypeOK, Copy
<1>2. /\ accounts' \in Seq(AccountRow) /\ DOMAIN accounts' = DOMAIN accounts
      /\ accounts'[i].name = accounts[i].name
      /\ accounts'[i].role = row.role /\ accounts'[i].nick = row.nick
      /\ \A j \in DOMAIN accounts \ {i} : accounts'[j] = accounts[j]
  <2> DEFINE q == [accounts[i] EXCEPT !.role = row.role, !.nick = row.nick]
  <2>1. q \in AccountRow /\ q.name = accounts[i].name /\ q.role = row.role /\ q.nick = row.nick
    BY <1>1 DEF AccountRow
  <2>2. accounts' = [accounts EXCEPT ![i] = q]
    BY DEF WriteRow
  <2> HIDE DEF q
  <2> QED
    BY <2>1, <2>2, RowReplaced
<1>3. held \subseteq held' /\ <<accounts'[i].name, accounts'[i].role>> \in held'
  BY <1>2, HoldingKeeps DEF WriteRow
<1>4. x \in SessionRow /\ SessionOK(b, x, accounts, held)
  BY OwnRights
<1>5. CASE i \in DOMAIN x.rows
  <2>1. /\ y \in SessionRow
        /\ y.as = x.as /\ y.page = x.page /\ DOMAIN y.rows = DOMAIN x.rows
        /\ y.rows[i] = row
        /\ \A j \in DOMAIN x.rows \ {i} : y.rows[j] = x.rows[j]
    BY <1>4, <1>5, CopyReplaced
  <2>2. sessions'[b] = y /\ \A c \in Browsers \ {b} : sessions'[c] = Outdated(b, i)[c]
    BY <1>5 DEF WriteRow
  <2> HIDE DEF y
  <2>3. \A j \in DOMAIN y.rows : CopyOK(y.rows[j], accounts'[j], held')
    BY <1>2, <1>3, <1>4, <2>1 DEF SessionOK, CopyOK
  <2>4. \A j \in DOMAIN accounts : accounts'[j].name = accounts[j].name
    BY <1>2
  <2>5. SessionOK(b, y, accounts', held')
    BY <1>2, <1>3, <1>4, <2>1, <2>3, <2>4 DEF SessionOK
  <2>6. Follows(accounts, held, accounts', held')
    BY <1>2, <1>3, <2>4 DEF Follows
  <2>7. \A c \in Browsers : sessions'[c] \in SessionRow \cup {None}
    BY <1>2, <2>1, <2>2, <2>6, OthersOutdated DEF IInv
  <2>8. sessions' \in [Browsers -> SessionRow \cup {None}]
    BY <2>7 DEF WriteRow
  <2>9. SubmissionsOK(submissions') /\ AnswerOK'
    BY QuietIsOK, SubmissionsAsTheyAre DEF WriteRow
  <2>10. \A c \in Browsers :
           \/ /\ sessions'[c] = Outdated(b, i)[c]
              /\ c = b /\ sessions[c] # None => i \notin DOMAIN sessions[c].rows
           \/ sessions'[c] # None => SessionOK(c, sessions'[c], accounts', held')
    BY <2>2, <2>5
  <2> QED
    BY <1>2, <1>3, <2>8, <2>9, <2>10, RowStep
<1>6. CASE i \notin DOMAIN x.rows
  <2>1. \A c \in Browsers : sessions'[c] = Outdated(b, i)[c]
    BY <1>6 DEF WriteRow
  <2>2. Follows(accounts, held, accounts', held')
    BY <1>2, <1>3 DEF Follows
  <2>3. \A c \in Browsers : sessions'[c] \in SessionRow \cup {None}
    BY <1>2, <1>6, <2>1, <2>2, OthersOutdated DEF IInv
  <2>4. sessions' \in [Browsers -> SessionRow \cup {None}]
    BY <2>3 DEF WriteRow
  <2>5. SubmissionsOK(submissions') /\ AnswerOK'
    BY QuietIsOK, SubmissionsAsTheyAre DEF WriteRow
  <2> QED
    BY <1>2, <1>3, <1>6, <2>1, <2>4, <2>5, RowStep
<1> QED
  BY <1>5, <1>6

LEMMA CloseStep ==
  ASSUME IInv, NEW b \in Browsers, Close(b)
  PROVE  IInv'
BY DiesStep DEF Close

LEMMA SaveCallMeStep ==
  ASSUME IInv, NEW b \in Browsers, NEW nick \in {0, 1}, SaveCallMe(b, nick)
  PROVE  IInv'
<1> DEFINE i == sessions[b].page.of
           row == [Base(b, i) EXCEPT !.nick = nick]
<1>1. sessions[b] # None /\ sessions[b].page.kind = "profile"
  BY DEF SaveCallMe, OnPage
<1>2. i \in DOMAIN accounts
  BY <1>1, OwnRights DEF SessionOK
<1>3. CASE MayWrite(b, i) /\ WriteRow(b, i, row)
  <2>1. row \in Copy /\ ~row.stale
    BY <1>1, <1>2, <1>3, BaseOK DEF Copy, MayWrite
  <2> QED
    BY <1>1, <1>2, <1>3, <2>1, WriteRowStep
<1>4. CASE Dies(b)
  BY <1>4, DiesStep
<1> QED
  BY <1>3, <1>4 DEF SaveCallMe

LEMMA AdminChangesRoleStep ==
  ASSUME IInv, NEW b \in Browsers, NEW n \in Names, NEW role \in Roles, AdminChangesRole(b, n, role)
  PROVE  IInv'
<1> DEFINE i == The(Named(accounts, n))
           row == [Base(b, i) EXCEPT !.role = role]
<1>1. sessions[b] # None
  BY DEF AdminChangesRole, OnPage
<1>2. CASE Unique(Named(accounts, n)) /\ MayWrite(b, i) /\ WriteRow(b, i, row)
  <2>1. i \in DOMAIN accounts
    BY <1>2, TheNamed DEF IInv, TypeOK
  <2>2. row \in Copy /\ ~row.stale
    BY <1>1, <1>2, <2>1, BaseOK DEF Copy, MayWrite
  <2> QED
    BY <1>1, <1>2, <2>1, <2>2, WriteRowStep
<1>3. CASE Dies(b)
  BY <1>3, DiesStep
<1> QED
  BY <1>2, <1>3 DEF AdminChangesRole

\* A new key is shown to whose profile the page shows.
LEMMA RegenerateKeyStep ==
  ASSUME IInv, NEW b \in Browsers, RegenerateKey(b)
  PROVE  IInv'
<1> DEFINE n == accounts[sessions[b].page.of].name
           i == The(Named(accounts, n))
<1>1. sessions[b] # None /\ sessions[b].page.kind = "profile"
  BY DEF RegenerateKey, OnPage
<1>2. n = Person[b] \/ WasAdmin(Person[b])
  BY <1>1, OwnRights DEF SessionOK, WasAdmin
<1>3. CASE /\ Unique(Named(accounts, n))
           /\ accounts' = [accounts EXCEPT ![i].key = @ + 1]
           /\ ShowsKey(Person[b], i)
           /\ UNCHANGED <<submissions, sessions, held>>
  <2>1. i \in DOMAIN accounts /\ accounts[i].name = n
    BY <1>3, TheNamed DEF IInv, TypeOK
  <2>2. accounts[i] \in AccountRow
    BY <2>1 DEF IInv, TypeOK
  <2> DEFINE k == accounts[i].key + 1
             q == [accounts[i] EXCEPT !.key = k]
  <2>0. k \in Nat
    BY <2>2 DEF AccountRow
  <2> HIDE DEF k
  <2>3. /\ q \in AccountRow /\ q.name = accounts[i].name
        /\ q.role = accounts[i].role /\ q.nick = accounts[i].nick
    BY <2>2, <2>0 DEF AccountRow
  <2>4. accounts' = [accounts EXCEPT ![i] = q]
    BY <1>3 DEF k
  <2> HIDE DEF q
  <2>5. /\ accounts' \in Seq(AccountRow) /\ DOMAIN accounts' = DOMAIN accounts
        /\ \A j \in DOMAIN accounts : /\ accounts'[j].name = accounts[j].name
                                      /\ accounts'[j].role = accounts[j].role
                                      /\ accounts'[j].nick = accounts[j].nick
    BY <2>1, <2>3, <2>4, RowReplaced
  <2>6. Follows(accounts, held, accounts', held')
    BY <1>3, <2>5 DEF Follows
  <2>7. TablesOK(accounts', submissions', held')
    <3>1. \A j \in DOMAIN accounts' : <<accounts'[j].name, accounts'[j].role>> \in held'
      <4>1. \A j \in DOMAIN accounts : <<accounts[j].name, accounts[j].role>> \in held
        BY DEF IInv, TablesOK
      <4>2. \A j \in DOMAIN accounts :
              <<accounts'[j].name, accounts'[j].role>> = <<accounts[j].name, accounts[j].role>>
        BY <2>5
      <4> HIDE DEF i, n
      <4> QED
        BY <1>3, <2>5, <4>1, <4>2
    <3> QED
      BY <1>3, <2>6, <3>1, OwnersFollow
  <2>8. \A c \in Browsers : sessions'[c] # None => SessionOK(c, sessions'[c], accounts', held')
    BY <1>3, <2>5, <2>6, SessionsFollow
  <2>9. TypeOK'
    BY <1>3, <2>5 DEF IInv, TypeOK
  <2>10. AnswerOK'
    BY <1>2, <1>3, <2>1, ShownKey
  <2> QED
    BY <2>7, <2>8, <2>9, <2>10 DEF IInv
<1>4. CASE Dies(b)
  BY <1>4, DiesStep
<1> QED
  BY <1>3, <1>4 DEF RegenerateKey

LEMMA AdminAddsUserStep ==
  ASSUME IInv, NEW b \in Browsers, NEW n \in Names, AdminAddsUser(b, n)
  PROVE  IInv'
<1>1. "student" \in Roles
  BY DEF Roles, Rank
<1> QED
  BY <1>1, AddedStep DEF AdminAddsUser

LEMMA AdminSwitchesStep ==
  ASSUME IInv, NEW b \in Browsers, NEW n \in Names, AdminSwitches(b, n)
  PROVE  IInv'
BY DiesStep DEF AdminSwitches

\* Nothing but submissions changes.
LEMMA SubmissionsStep ==
  ASSUME IInv, UNCHANGED <<accounts, sessions, held>>, SubmissionsOK(submissions'), AnswerOK'
  PROVE  IInv'
<1>1. TypeOK'
  BY DEF IInv, TypeOK, SubmissionsOK
<1>2. TablesOK(accounts, submissions, held)'
  BY DEF IInv, TablesOK, SubmissionsOK
<1> QED
  BY <1>1, <1>2 DEF IInv

LEMMA AdminTypesStudentStep ==
  ASSUME IInv, NEW b \in Browsers, NEW n \in Names, AdminTypesStudent(b, n)
  PROVE  IInv'
<1> DEFINE i == The(Named(accounts, n))
<1>1. CASE /\ Unique(Named(accounts, n))
           /\ submissions' = FirstTouch(submissions, i)
           /\ Quietly /\ UNCHANGED <<accounts, sessions, writes, held>>
  <2>1. i \in DOMAIN accounts
    BY <1>1, TheNamed DEF IInv, TypeOK
  <2>2. SubmissionsOK(submissions')
    BY <1>1, <2>1, FirstTouched
  <2> QED
    BY <1>1, <2>2, SubmissionsStep, QuietIsOK
<1>2. CASE Dies(b)
  BY <1>2, DiesStep
<1> QED
  BY <1>1, <1>2 DEF AdminTypesStudent

LEMMA AdminJumpsNowhereStep ==
  ASSUME IInv, NEW b \in Browsers, NEW n \in Names, AdminJumpsNowhere(b, n)
  PROVE  IInv'
<1>1. CASE sessions' = [c \in Browsers |-> None]
  <2>1. TypeOK' /\ TablesOK(accounts, submissions, held)'
    BY <1>1 DEF AdminJumpsNowhere, tables, IInv, TypeOK, TablesOK
  <2> QED
    BY <1>1, <2>1, QuietIsOK DEF AdminJumpsNowhere, IInv
<1>2. CASE sessions' = [sessions EXCEPT ![b] = None]
  BY <1>2, LookStep, QuietIsOK, SubmissionsAsTheyAre DEF AdminJumpsNowhere, tables
<1> QED
  BY <1>1, <1>2 DEF AdminJumpsNowhere
-----------------------------------------------------------------------------
(* Requests *)

\* The account that a key belongs to is that of who holds the key.
LEMMA RequesterHolds ==
  ASSUME NEW key, FindByKey(key) # {}
  PROVE  /\ Requester(key) \in Live /\ KeyOf(Requester(key)) = key
         /\ Requester(key) = key[1]
         /\ \A p : KeyHolder(p, key) => accounts[Requester(key)].name = p
<1>1. \A i : KeyOf(i) = key => i = key[1]
  BY DEF KeyOf
<1>2. Requester(key) \in FindByKey(key)
  BY DEF Requester, The
<1> QED
  BY <1>1, <1>2 DEF FindByKey, KeyHolder

LEMMA GetUserStep ==
  ASSUME IInv, NEW p \in Names, NEW key, NEW n \in Names, GetUser(p, key, n)
  PROVE  IInv'
<1> DEFINE i == The(Named(accounts, n))
           s == SubmissionOf(FirstTouch(submissions, i), i)
           me == accounts[Requester(key)]
<1>1. i \in DOMAIN accounts /\ accounts[i].name = n
  BY TheNamed DEF GetUser, LoadUser, IInv, TypeOK
<1>2. SubmissionsOK(submissions') /\ s \in submissions' /\ i \in OwnersOf(s)
  BY <1>1, FirstTouched DEF GetUser
<1>3. Requester(key) \in DOMAIN accounts /\ me.name = p
  BY RequesterHolds DEF GetUser, LoadUser, Live
<1>4. CanAdmin(me.role) => WasAdmin(p)
  BY <1>3 DEF CanAdmin, WasAdmin, IInv, TablesOK
<1>5. p = n \/ WasAdmin(p)
  BY <1>3, <1>4 DEF GetUser, LoadUser, CanView
<1>6. WasAdmin(p) \/ p \in NamesOf(OwnersOf(s))
  BY <1>1, <1>2, <1>5 DEF NamesOf
<1>7. Shows(p, OwnersOf(s)) /\ UNCHANGED <<accounts, sessions, held>>
  BY DEF GetUser
<1> HIDE DEF s
<1> QED
  BY <1>2, <1>6, <1>7, ShownWork, SubmissionsStep

LEMMA PostUserStep ==
  ASSUME IInv, NEW key, NEW n \in Names, NEW role \in Roles, PostUser(key, n, role)
  PROVE  IInv'
BY AddedStep DEF PostUser

\* Whatever a request writes, sessions that hold the row hold an old copy.
LEMMA RequestStep ==
  ASSUME IInv, NEW i \in DOMAIN accounts, NEW q \in AccountRow,
         accounts' = [accounts EXCEPT ![i] = q], q.name = accounts[i].name,
         held \subseteq held', <<q.name, q.role>> \in held',
         sessions' = Outdated(None, i),
         SubmissionsOK(submissions'),
         Quietly
  PROVE  IInv'
<1>1. /\ accounts' \in Seq(AccountRow) /\ DOMAIN accounts' = DOMAIN accounts
      /\ accounts'[i] = q
      /\ \A j \in DOMAIN accounts \ {i} : accounts'[j] = accounts[j]
  BY RowReplaced
<1>2. Follows(accounts, held, accounts', held')
  BY <1>1 DEF Follows
<1>3. \A c \in Browsers : c # None
  BY AccountsAssumption
<1>4. \A c \in Browsers : sessions'[c] \in SessionRow \cup {None}
  BY <1>1, <1>2, <1>3, OthersOutdated DEF IInv
<1>5. sessions' \in [Browsers -> SessionRow \cup {None}]
  BY <1>4 DEF Outdated
<1>6. AnswerOK'
  BY QuietIsOK
<1> QED
  BY <1>1, <1>3, <1>5, <1>6, RowStep

LEMMA PatchRoleStep ==
  ASSUME IInv, NEW key, NEW n \in Names, NEW role \in Roles, PatchRole(key, n, role)
  PROVE  IInv'
<1> DEFINE i == The(Named(accounts, n))
           q == [accounts[i] EXCEPT !.role = role]
<1>1. i \in DOMAIN accounts
  BY TheNamed DEF PatchRole, LoadUser, IInv, TypeOK
<1>2. accounts[i] \in AccountRow
  BY <1>1 DEF IInv, TypeOK
<1>3. q \in AccountRow /\ q.name = accounts[i].name
  BY <1>2 DEF AccountRow
<1>4. accounts' = [accounts EXCEPT ![i] = q]
  BY DEF PatchRole
<1> HIDE DEF q
<1>5. accounts'[i] = q /\ DOMAIN accounts' = DOMAIN accounts
  BY <1>1, <1>3, <1>4, RowReplaced
<1>6. held \subseteq held' /\ <<q.name, q.role>> \in held'
  BY <1>1, <1>5, HoldingKeeps DEF PatchRole
<1>7. sessions' = Outdated(None, i) /\ Quietly /\ SubmissionsOK(submissions')
  BY SubmissionsAsTheyAre DEF PatchRole
<1> QED
  BY <1>1, <1>3, <1>4, <1>6, <1>7, RequestStep

LEMMA DeleteUserStep ==
  ASSUME IInv, NEW key, NEW n \in Names, DeleteUser(key, n)
  PROVE  IInv'
<1> DEFINE i == The(Named(accounts, n))
           q == [accounts[i] EXCEPT !.live = FALSE]
<1>1. i \in DOMAIN accounts
  BY TheNamed DEF DeleteUser, LoadUser, IInv, TypeOK
<1>2. accounts[i] \in AccountRow
  BY <1>1 DEF IInv, TypeOK
<1>3. q \in AccountRow /\ q.name = accounts[i].name /\ q.role = accounts[i].role
  BY <1>2 DEF AccountRow
<1>4. accounts' = [accounts EXCEPT ![i] = q]
  BY DEF DeleteUser
<1>5. held' = held /\ <<q.name, q.role>> \in held
  BY <1>1, <1>3 DEF DeleteUser, IInv, TablesOK
<1>6. SubmissionsOK(submissions')
  <2> DEFINE Without(s) == IF s.second = i THEN [s EXCEPT !.second = None] ELSE s
  <2>1. \A s \in submissions : Without(s) \in SubmissionRow /\ OwnersOf(Without(s)) \subseteq OwnersOf(s)
    BY DEF IInv, TypeOK, SubmissionRow, OwnersOf
  <2>2. submissions' = {Without(s) : s \in {t \in submissions : t.first # i}}
    BY DEF DeleteUser
  <2> HIDE DEF Without
  <2> QED
    BY <2>1, <2>2, SubmissionsAsTheyAre DEF SubmissionsOK
<1>7. sessions' = Outdated(None, i) /\ Quietly
  BY DEF DeleteUser
<1> HIDE DEF q
<1> QED
  BY <1>1, <1>3, <1>4, <1>5, <1>6, <1>7, RequestStep

LEMMA JoinStep ==
  ASSUME IInv, NEW s \in submissions, NEW t \in submissions, Join(s, t)
  PROVE  IInv'
<1> DEFINE joint == [first |-> s.first, second |-> t.first]
<1>1. s \in SubmissionRow /\ t \in SubmissionRow
  BY DEF IInv, TypeOK
<1>2. s.first # None /\ t.first # None
  BY <1>1, AccountsAssumption DEF SubmissionRow
<1>3. joint \in SubmissionRow /\ OwnersOf(joint) \subseteq OwnersOf(s) \cup OwnersOf(t)
  BY <1>1, <1>2 DEF SubmissionRow, OwnersOf
<1>4. SubmissionsOK(submissions')
  BY <1>3, SubmissionsAsTheyAre DEF Join, SubmissionsOK
<1> QED
  BY <1>4, SubmissionsStep, QuietIsOK DEF Join

LEMMA SplitStep ==
  ASSUME IInv, NEW s \in submissions, Split(s)
  PROVE  IInv'
<1> DEFINE own(i) == [first |-> i, second |-> None]
<1>1. OwnersOf(s) \subseteq Nat
  BY DEF IInv, TypeOK, SubmissionRow, OwnersOf
<1>2. \A i \in OwnersOf(s) : own(i) \in SubmissionRow /\ OwnersOf(own(i)) \subseteq OwnersOf(s)
  BY <1>1 DEF SubmissionRow, OwnersOf
<1>3. submissions' = (submissions \ {s}) \cup {own(i) : i \in OwnersOf(s)}
  BY DEF Split
<1> HIDE DEF own
<1>4. SubmissionsOK(submissions')
  BY <1>2, <1>3, SubmissionsAsTheyAre DEF SubmissionsOK
<1> QED
  BY <1>4, SubmissionsStep, QuietIsOK DEF Split
-----------------------------------------------------------------------------
(* All steps *)

LEMMA InitIsOK == Init => IInv
<1> SUFFICES ASSUME Init PROVE IInv
  OBVIOUS
<1>1. "admin" \in Roles
  BY DEF Roles, Rank
<1>2. Account(FirstAdmin, "admin") \in AccountRow
  BY <1>1, AccountsAssumption DEF Account, AccountRow
<1>3. accounts \in Seq(AccountRow) /\ DOMAIN accounts = {1} /\ accounts[1] = Account(FirstAdmin, "admin")
  BY <1>2 DEF Init
<1>4. TypeOK
  BY <1>3 DEF Init, TypeOK
<1>5. TablesOK(accounts, submissions, held)
  BY <1>3 DEF Init, TablesOK, Account
<1>6. AnswerOK
  BY DEF Init, AnswerOK, Nothing
<1> QED
  BY <1>4, <1>5, <1>6 DEF Init, IInv

LEMMA WebStepKeeps ==
  ASSUME IInv, NEW b \in Browsers, WebStep(b)
  PROVE  IInv'
<1>1. CASE \E whoami \in (Names \ {Person[b]}) \cup {None} : Visit(b, whoami)
  BY <1>1, VisitStep
<1>2. CASE Close(b)
  BY <1>2, CloseStep
<1>3. CASE \E path \in Paths :
             \/ GoPlain(b, path) \/ GoMissingUser(b, path) \/ GoHome(b, path) \/ GoProfile(b, path)
             \/ \E duePassed, inRange \in BOOLEAN : GoSubmission(b, path, duePassed, inRange)
  BY <1>3, GoPlainStep, GoMissingUserStep, GoHomeStep, GoProfileStep, GoSubmissionStep
<1>4. CASE \E nick \in {0, 1} : SaveCallMe(b, nick)
  BY <1>4, SaveCallMeStep
<1>5. CASE RegenerateKey(b)
  BY <1>5, RegenerateKeyStep
<1>6. CASE \E n \in Names :
             \/ AdminAddsUser(b, n) \/ AdminSwitches(b, n) \/ AdminTypesStudent(b, n) \/ AdminJumpsNowhere(b, n)
             \/ \E role \in Roles : AdminChangesRole(b, n, role)
  BY <1>6, AdminAddsUserStep, AdminSwitchesStep, AdminTypesStudentStep, AdminJumpsNowhereStep,
     AdminChangesRoleStep
<1> QED
  BY <1>1, <1>2, <1>3, <1>4, <1>5, <1>6 DEF WebStep

LEMMA RequestKeeps ==
  ASSUME IInv, Request
  PROVE  IInv'
BY GetUserStep, PostUserStep, PatchRoleStep, DeleteUserStep DEF Request

LEMMA NextKeeps == IInv /\ [Next]_vars => IInv'
<1> SUFFICES ASSUME IInv, [Next]_vars PROVE IInv'
  OBVIOUS
<1>1. CASE \E b \in Browsers : WebStep(b)
  BY <1>1, WebStepKeeps
<1>2. CASE Request
  BY <1>2, RequestKeeps
<1>3. CASE \E s, t \in submissions : Join(s, t)
  BY <1>3, JoinStep
<1>4. CASE \E s \in submissions : Split(s)
  BY <1>4, SplitStep
<1>5. CASE UNCHANGED vars
  <2>1. UNCHANGED <<accounts, sessions, held>> /\ SubmissionsOK(submissions')
    BY <1>5, SubmissionsAsTheyAre DEF vars
  <2>2. AnswerOK'
    BY <1>5 DEF vars, IInv, AnswerOK, WasAdmin, ShareWork, NamesOf, OwnersOf
  <2> QED
    BY <2>1, <2>2, SubmissionsStep
<1> QED
  BY <1>1, <1>2, <1>3, <1>4, <1>5 DEF Next

-----------------------------------------------------------------------------
(* Theorems *)

\* Tables and sessions keep their types (Session.h, model/auth/User.h).
THEOREM TypeCorrect == Spec => []TypeOK
<1>1. IInv => TypeOK
  BY DEF IInv
<1> QED
  BY <1>1, InitIsOK, NextKeeps, PTL DEF Spec

LEMMA Powers == IInv => PowersFromAdmins
<1> SUFFICES ASSUME IInv, NEW b \in Browsers, sessions[b] # None,
                    accounts[sessions[b].as].name # Person[b] \/ sessions[b].page.kind = "admin"
             PROVE  WasAdmin(Person[b])
  BY DEF PowersFromAdmins
<1> QED
  BY OwnRights DEF SessionOK, WasAdmin

\* Only who has been an administrator acts for others or has the page with the
\* powers over accounts, however old the copies are that sessions decide on
\* (Session.C:319-325, Application_controller.C:398-403).
THEOREM PowersComeFromAdmins == Spec => []PowersFromAdmins
BY Powers, InitIsOK, NextKeeps, PTL DEF Spec

LEMMA Gate == IInv => GateKept
<1> SUFFICES ASSUME IInv, NEW n \in Names, NEW role \in Roles, NEW key \in InUse,
                    CheckUser(n, role, key), NEW p \in Names, KeyHolder(p, key)
             PROVE  \E r \in Roles : <<p, r>> \in held /\ Rank[r] >= Rank[role]
  BY DEF GateKept
<1> DEFINE i == The(Named(accounts, n))
<1>1. i \in DOMAIN accounts
  BY TheNamed DEF CheckUser, IInv, TypeOK
<1>2. key[1] = i
  BY DEF CheckUser, KeyOf
<1>3. accounts[i].name = p
  BY <1>2 DEF KeyHolder
<1>4. accounts[i].role \in Roles
  <2>1. accounts[i] \in AccountRow
    BY <1>1 DEF IInv, TypeOK
  <2> QED
    BY <2>1 DEF AccountRow
<1>5. <<p, accounts[i].role>> \in held
  BY <1>1, <1>3 DEF IInv, TablesOK
<1> QED
  BY <1>4, <1>5 DEF CheckUser

\* gsc-auth lets nobody in who has not had the role, or a higher one: keys that
\* were replaced or whose account is gone open nothing (gsc-auth.C:91-131).
THEOREM GateIsKept == Spec => []GateKept
BY Gate, InitIsOK, NextKeeps, PTL DEF Spec

\* What people may ask for over REST and as files.
LEMMA Answers ==
  ASSUME IInv, NEW p \in Names, ~WasAdmin(p)
  PROVE  /\ \A s \in submissions : (\E key \in InUse : GetsSubmission(p, key, s)) => p \in NamesOf(OwnersOf(s))
         /\ \A n \in Names : (\E whoami \in Names \cup {None} : GetsFile(p, whoami, n)) => ShareWork({p, n})
<1>1. ASSUME NEW s \in submissions, NEW key \in InUse, GetsSubmission(p, key, s)
      PROVE  p \in NamesOf(OwnersOf(s))
  <2>1. Requester(key) \in DOMAIN accounts /\ accounts[Requester(key)].name = p
    BY <1>1, RequesterHolds DEF GetsSubmission, Live
  <2>2. ~CanAdmin(accounts[Requester(key)].role)
    BY <2>1 DEF CanAdmin, WasAdmin, IInv, TablesOK
  <2> QED
    BY <1>1, <2>1, <2>2 DEF GetsSubmission, CanViewSubmission, NamesOf
<1>2. ASSUME NEW n \in Names, NEW whoami \in Names \cup {None}, GetsFile(p, whoami, n)
      PROVE  ShareWork({p, n})
  <2> DEFINE found == Authenticated(p, whoami)
             me == found.id
             owner == The(Named(found.table, n))
             s == SubmissionOf(submissions, owner)
  <2>1. /\ me # None /\ Unique(Named(found.table, n))
        /\ HasSubmission(submissions, owner)
        /\ CanViewSubmission(found.table[me].role, me, s)
    BY <1>2 DEF GetsFile
  <2>2. /\ Extends(accounts, found.table)
        /\ me \in DOMAIN found.table
        /\ found.table[me].name = p
    BY <2>1, AuthenticatedAs DEF IInv
  <2>3. found.table[owner].name = n
    BY <2>1, <2>2, TheNamed DEF Extends
  <2>4. s \in submissions /\ owner \in OwnersOf(s)
    BY <2>1 DEF HasSubmission, SubmissionOf
  <2> HIDE DEF found, s, owner
  <2>5. OwnersOf(s) \subseteq DOMAIN accounts
    BY <2>4 DEF IInv, TablesOK
  <2>6. ~CanAdmin(found.table[me].role)
    <3>1. CASE me \in DOMAIN accounts
      BY <2>2, <3>1 DEF Extends, CanAdmin, WasAdmin, IInv, TablesOK
    <3>2. CASE me \notin DOMAIN accounts
      BY <2>2, <3>2 DEF Extends, CanAdmin
    <3> QED
      BY <3>1, <3>2
  <2>7. me \in OwnersOf(s)
    BY <2>1, <2>6 DEF CanViewSubmission
  <2>8. accounts[me].name = p /\ accounts[owner].name = n
    BY <2>2, <2>3, <2>4, <2>5, <2>7 DEF Extends
  <2> QED
    BY <2>4, <2>7, <2>8 DEF ShareWork, NamesOf
<1> QED
  BY <1>1, <1>2

LEMMA Entitled == IInv => ShownToEntitled
<1> SUFFICES ASSUME IInv PROVE ShownToEntitled
  OBVIOUS
<1>1. AnswerOK
  BY DEF IInv
<1>2. \A p \in Names :
        \/ WasAdmin(p)
        \/ /\ \A s \in submissions : (\E key \in InUse : GetsSubmission(p, key, s)) => p \in NamesOf(OwnersOf(s))
           /\ \A n \in Names : (\E whoami \in Names \cup {None} : GetsFile(p, whoami, n)) => ShareWork({p, n})
  BY Answers
<1> QED
  BY <1>1, <1>2 DEF ShownToEntitled, AnswerOK

\* Work is shown to its owners and to administrators only, and keys to their
\* owners and to administrators, by any path, request or file
\* (Application_controller.C:304-366, resources.C:310-336, view/files/Resource.C:57-72).
THEOREM WorkIsShownToTheEntitled == Spec => []ShownToEntitled
BY Entitled, InitIsOK, NextKeeps, PTL DEF Spec

OneField ==
  \A i \in DOMAIN accounts : accounts'[i].role = accounts[i].role \/ accounts'[i].nick = accounts[i].nick

\* A page that may write has a copy that agrees with the row, in which it
\* changes one field.
LEMMA WriteRowOneField ==
  ASSUME IInv, NEW b \in Browsers, sessions[b] # None, NEW i \in DOMAIN accounts,
         MayWrite(b, i), NEW row, WriteRow(b, i, row),
         row.role = Base(b, i).role \/ row.nick = Base(b, i).nick
  PROVE  OneField
<1>1. Base(b, i).role = accounts[i].role /\ Base(b, i).nick = accounts[i].nick
  BY BaseOK DEF MayWrite, CopyOK
<1>2. accounts[i] \in AccountRow /\ accounts \in Seq(AccountRow)
  BY DEF IInv, TypeOK
<1> DEFINE q == [accounts[i] EXCEPT !.role = row.role, !.nick = row.nick]
<1>3. q.role = row.role /\ q.nick = row.nick
  BY <1>2 DEF AccountRow
<1>4. accounts' = [accounts EXCEPT ![i] = q]
  BY DEF WriteRow
<1> HIDE DEF q
<1>5. accounts'[i] = q /\ \A j \in DOMAIN accounts \ {i} : accounts'[j] = accounts[j]
  BY <1>2, <1>4
<1> QED
  BY <1>1, <1>3, <1>5 DEF OneField

\* One field of one row, or a new row.
LEMMA FieldReplaced ==
  ASSUME IInv,
         \/ UNCHANGED accounts
         \/ \E n \in Names, r \in Roles : accounts' = Created(accounts, n, r)
         \/ Extends(accounts, accounts')
         \/ \E i \in DOMAIN accounts : \E v :
              \/ accounts' = [accounts EXCEPT ![i].key = v]
              \/ accounts' = [accounts EXCEPT ![i].live = v]
              \/ accounts' = [accounts EXCEPT ![i].role = v]
  PROVE  OneField
<1>1. accounts \in Seq(AccountRow) /\ \A i \in DOMAIN accounts : accounts[i] \in AccountRow
  BY DEF IInv, TypeOK
<1>2. ASSUME NEW n \in Names, NEW r \in Roles, accounts' = Created(accounts, n, r)
      PROVE  OneField
  <2>1. \A i \in DOMAIN accounts : Created(accounts, n, r)[i] = accounts[i]
    BY <1>1, CreatedExtends
  <2> QED
    BY <1>2, <2>1 DEF OneField
<1>3. ASSUME NEW i \in DOMAIN accounts, NEW v,
             \/ accounts' = [accounts EXCEPT ![i].key = v]
             \/ accounts' = [accounts EXCEPT ![i].live = v]
             \/ accounts' = [accounts EXCEPT ![i].role = v]
      PROVE  OneField
  <2>1. \A j \in DOMAIN accounts \ {i} : accounts'[j] = accounts[j]
    BY <1>1, <1>3
  <2>2. accounts'[i].nick = accounts[i].nick
    BY <1>1, <1>3 DEF AccountRow
  <2> QED
    BY <2>1, <2>2 DEF OneField
<1>4. CASE UNCHANGED accounts \/ Extends(accounts, accounts')
  BY <1>4 DEF Extends, OneField
<1> QED
  BY <1>2, <1>3, <1>4

LEMMA WebStepOneField ==
  ASSUME IInv, NEW b \in Browsers, WebStep(b)
  PROVE  OneField
<1>1. ASSUME Dies(b) PROVE OneField
  BY <1>1, FieldReplaced DEF Dies, tables
<1>2. ASSUME NEW whoami \in Names \cup {None}, Visit(b, whoami) PROVE OneField
  BY <1>2, AuthenticatedAs, AccountsAssumption, FieldReplaced DEF Visit, IInv
<1>3. ASSUME NEW path,
             \/ GoPlain(b, path) \/ GoMissingUser(b, path) \/ GoHome(b, path) \/ GoProfile(b, path)
             \/ \E duePassed, inRange : GoSubmission(b, path, duePassed, inRange)
      PROVE  OneField
  <2>1. Dies(b) \/ UNCHANGED accounts
    BY <1>3 DEF GoPlain, GoMissingUser, GoHome, GoProfile, GoSubmission, Refused, tables
  <2> QED
    BY <1>1, <2>1, FieldReplaced
<1>4. ASSUME NEW nick \in {0, 1}, SaveCallMe(b, nick) PROVE OneField
  <2> DEFINE i == sessions[b].page.of
             row == [Base(b, i) EXCEPT !.nick = nick]
  <2>1. CASE MayWrite(b, i) /\ WriteRow(b, i, row)
    <3>1. sessions[b] # None /\ sessions[b].page.kind = "profile"
      BY <1>4 DEF SaveCallMe, OnPage
    <3>2. i \in DOMAIN accounts
      BY <3>1, OwnRights DEF SessionOK
    <3>3. row.role = Base(b, i).role
      BY <3>1, <3>2, BaseOK DEF Copy
    <3> HIDE DEF i, row
    <3> QED
      BY <2>1, <3>1, <3>2, <3>3, WriteRowOneField
  <2> QED
    BY <1>1, <1>4, <2>1 DEF SaveCallMe
<1>5. ASSUME RegenerateKey(b) PROVE OneField
  <2> DEFINE found == Named(accounts, accounts[sessions[b].page.of].name)
             i == The(found)
  <2>1. CASE Unique(found) /\ accounts' = [accounts EXCEPT ![i].key = @ + 1]
    <3>1. i \in DOMAIN accounts
      BY <2>1, TheNamed DEF IInv, TypeOK
    <3> QED
      BY <2>1, <3>1, FieldReplaced
  <2> QED
    BY <1>1, <1>5, <2>1 DEF RegenerateKey
<1>6. ASSUME NEW n \in Names, NEW role \in Roles, AdminChangesRole(b, n, role) PROVE OneField
  <2> DEFINE i == The(Named(accounts, n))
             row == [Base(b, i) EXCEPT !.role = role]
  <2>1. CASE Unique(Named(accounts, n)) /\ MayWrite(b, i) /\ WriteRow(b, i, row)
    <3>1. sessions[b] # None
      BY <1>6 DEF AdminChangesRole, OnPage
    <3>2. i \in DOMAIN accounts
      BY <2>1, TheNamed DEF IInv, TypeOK
    <3>3. row.nick = Base(b, i).nick
      BY <3>1, <3>2, BaseOK DEF Copy
    <3> HIDE DEF i, row
    <3> QED
      BY <2>1, <3>1, <3>2, <3>3, WriteRowOneField
  <2> QED
    BY <1>1, <1>6, <2>1 DEF AdminChangesRole
<1>7. ASSUME NEW n \in Names, AdminAddsUser(b, n) PROVE OneField
  <2>1. "student" \in Roles
    BY DEF Roles, Rank
  <2> QED
    BY <1>7, <2>1, FieldReplaced DEF AdminAddsUser
<1>8. ASSUME NEW n \in Names, AdminSwitches(b, n) \/ AdminTypesStudent(b, n) \/ AdminJumpsNowhere(b, n)
      PROVE  OneField
  <2>1. Dies(b) \/ UNCHANGED accounts
    BY <1>8 DEF AdminSwitches, AdminTypesStudent, AdminJumpsNowhere, tables
  <2> QED
    BY <1>1, <2>1, FieldReplaced
<1> QED
  BY <1>1, <1>2, <1>3, <1>4, <1>5, <1>6, <1>7, <1>8 DEF WebStep, Close

LEMMA RequestOneField ==
  ASSUME IInv, Request
  PROVE  OneField
<1>1. ASSUME NEW key, NEW n \in Names, \E p \in Names : GetUser(p, key, n)
      PROVE  OneField
  BY <1>1, FieldReplaced DEF GetUser
<1>2. ASSUME NEW key, NEW n \in Names, DeleteUser(key, n)
      PROVE  OneField
  <2>1. The(Named(accounts, n)) \in DOMAIN accounts
    BY <1>2, TheNamed DEF DeleteUser, LoadUser, IInv, TypeOK
  <2> QED
    BY <1>2, <2>1, FieldReplaced DEF DeleteUser
<1>3. ASSUME NEW key, NEW n \in Names, NEW role \in Roles, PostUser(key, n, role)
      PROVE  OneField
  BY <1>3, FieldReplaced DEF PostUser
<1>4. ASSUME NEW key, NEW n \in Names, NEW role \in Roles, PatchRole(key, n, role)
      PROVE  OneField
  <2>1. The(Named(accounts, n)) \in DOMAIN accounts
    BY <1>4, TheNamed DEF PatchRole, LoadUser, IInv, TypeOK
  <2> QED
    BY <1>4, <2>1, FieldReplaced DEF PatchRole
<1> QED
  BY <1>1, <1>2, <1>3, <1>4 DEF Request

\* A page that writes the whole row of an account from its copy undoes nobody
\* else's change: a stale copy ends the session instead (Profile_view.C:101-111,
\* Admin_view.C:224-236).
THEOREM OneFieldIsWritten == Spec => WritesOneField
<1>1. IInv /\ [Next]_vars => [OneField]_vars
  <2> SUFFICES ASSUME IInv, Next PROVE OneField
    OBVIOUS
  <2>1. CASE \E b \in Browsers : WebStep(b)
    BY <2>1, WebStepOneField
  <2>2. CASE Request
    BY <2>2, RequestOneField
  <2>3. CASE \/ \E s, t \in submissions : Join(s, t)
             \/ \E s \in submissions : Split(s)
    BY <2>3, FieldReplaced DEF Join, Split
  <2> QED
    BY <2>1, <2>2, <2>3 DEF Next
<1>2. [OneField]_vars => [\A i \in DOMAIN accounts :
                            accounts'[i].role = accounts[i].role \/ accounts'[i].nick = accounts[i].nick]_vars
  BY DEF OneField
<1> QED
  BY <1>1, <1>2, InitIsOK, NextKeeps, PTL DEF Spec, WritesOneField
=============================================================================
