------------------------------ MODULE Accounts ------------------------------
(***************************************************************************)
(* Accounts, sessions and the rights they carry: logging in from the       *)
(* environment, switching users, the paths of the site with their checks,  *)
(* the administrator's page, profiles with their API keys, requests over   *)
(* REST and for files, and the gate that gsc-auth keeps (Session.C,        *)
(* Application_controller.C, model/auth/, view/api/, view/files/,          *)
(* view/web/view/Admin_view.C and Profile_view.C, gsc-auth.C).             *)
(*                                                                         *)
(* A web session keeps the rows it has loaded for as long as a page or the *)
(* login refers to them: rights are decided on the session's own copy of   *)
(* its account, which another session may have changed since.  A write     *)
(* from a stale copy ends the session and leaves the database alone.       *)
(* Requests over REST and for files start from the database each time.     *)
(*                                                                         *)
(* An exception that is not a Load_error ends a web session; in a request  *)
(* it becomes an answer.  Either way the transaction is rolled back.       *)
(* People are known by their names; the row of an account is an index that *)
(* is never used again.                                                    *)
(***************************************************************************)
EXTENDS Integers, Sequences, FiniteSets

CONSTANTS
  Names,        \* people, who are also the names of accounts
  FirstAdmin,   \* GSC_ADMIN_USERNAME
  Browsers,     \* each with one web session at a time
  Person,       \* Person[b]: whom the environment of browser b names
  AutoCreate,   \* the setting auto_create_accounts
  Visited,      \* the kinds of paths that browsers go to
  MaxAccounts,  \* bound: accounts ever created
  MaxKeys,      \* bound: how often one key is regenerated
  MaxWrites,    \* bound: changes of accounts and owners, other than by logging in
  None

ASSUME AccountsAssumption ==
  /\ FirstAdmin \in Names /\ AutoCreate \in BOOLEAN /\ Person \in [Browsers -> Names]
  /\ MaxAccounts \in Nat \ {0} /\ MaxKeys \in Nat /\ MaxWrites \in Nat
  /\ None \notin Names \cup Browsers \cup Nat

Rank == [student |-> 0, grader |-> 1, admin |-> 2]
Roles == DOMAIN Rank

VARIABLES
  accounts,     \* the rows of gsc_user with their login and key
  submissions,  \* the submissions to one assignment: the first owner and the second or None
  sessions,     \* what each browser's session holds, or None
  writes,       \* how many changes there have been
  answer,       \* what the last step told whom: nothing of note, or the work or the key of others
  held          \* history: <<p, r>> when an account of p has had role r

vars == <<accounts, submissions, sessions, writes, answer, held>>
tables == <<accounts, submissions>>

(* Rows and what is found among them.  A name that two accounts share is found by no query: each expects one row. *)
Ids == 1 .. MaxAccounts
Live == {i \in DOMAIN accounts : accounts[i].live}
Named(table, n) == {i \in DOMAIN table : table[i].live /\ table[i].name = n}
Unique(S) == Cardinality(S) = 1
The(S) == CHOOSE x \in S : TRUE
KeyOf(i) == <<i, accounts[i].key>>
Account(n, r) == [name |-> n, role |-> r, nick |-> 0, key |-> 0, live |-> TRUE]
Row(table, i) == [role |-> table[i].role, nick |-> table[i].nick, stale |-> FALSE]
OwnersOf(s) == {s.first, s.second} \ {None}
NamesOf(ids) == {accounts[i].name : i \in ids}
HasSubmission(subs, i) == \E s \in subs : i \in OwnersOf(s)
FirstTouch(subs, i) == IF HasSubmission(subs, i) THEN subs ELSE subs \cup {[first |-> i, second |-> None]}
SubmissionOf(subs, i) == CHOOSE s \in subs : i \in OwnersOf(s)

(* What the session of browser b decides on. *)
Own(b) == sessions[b].rows[sessions[b].as]
MyName(b) == accounts[sessions[b].as].name
CanAdmin(role) == role = "admin"
CanGrade(role) == role \in {"grader", "admin"}
CanView(role, me, n) == CanAdmin(role) \/ me = n
(* Mutant: graders see every submission. *)
GradersView(role, i, s) == CanGrade(role) \/ i \in OwnersOf(s)
CanViewSubmission(role, i, s) == CanAdmin(role) \/ i \in OwnersOf(s)

Page(kind, i) == [kind |-> kind, of |-> i]
OtherPage == Page("other", None)  \* a page that changes no account
ErrorPage == Page("error", None)
Nothing == [kind |-> "nothing"]
WorkOf(p, others) == [kind |-> "work", to |-> p, of |-> others]
KeyShown(p, other) == [kind |-> "key", to |-> p, of |-> other]
Quietly == answer' = Nothing
Shows(p, owners) == answer' = IF NamesOf(owners) \subseteq {p} THEN Nothing ELSE WorkOf(p, NamesOf(owners) \ {p})
ShowsKey(p, i) == answer' = IF accounts[i].name = p THEN Nothing ELSE KeyShown(p, accounts[i].name)
Enough == writes < MaxWrites /\ writes' = writes + 1
Holding(table) == held \cup {<<table[i].name, table[i].role>> : i \in DOMAIN table}

(* The other sessions that hold row i now hold an old copy of it. *)
Outdated(b, i) ==
  [c \in Browsers |->
     IF c # b /\ sessions[c] # None /\ i \in DOMAIN sessions[c].rows
     THEN [sessions[c] EXCEPT !.rows[i].stale = TRUE] ELSE sessions[c]]

Dies(b) == sessions' = [sessions EXCEPT ![b] = None] /\ Quietly /\ UNCHANGED <<tables, writes, held>>

Init ==
  /\ accounts = <<Account(FirstAdmin, "admin")>>
  /\ submissions = {} /\ sessions = [b \in Browsers |-> None]
  /\ writes = 0 /\ answer = Nothing
  /\ held = {<<FirstAdmin, "admin">>}

-----------------------------------------------------------------------------
(* Logging in *)

Created(table, n, r) == Append(table, Account(n, r))

FindByLogin(table, n, create) ==
  IF Unique(Named(table, n)) THEN [table |-> table, id |-> The(Named(table, n))]
  ELSE IF Named(table, n) = {} /\ create THEN [table |-> Created(table, n, "student"), id |-> Len(table) + 1]
  ELSE [table |-> table, id |-> None]

(* Mutant: anybody may say as whom. *)
AnybodySwitches(p, whoami) ==
  LET found == FindByLogin(accounts, p, AutoCreate)
  IN IF found.id # None /\ whoami # None THEN FindByLogin(found.table, whoami, TRUE) ELSE found

(* Whoever the environment names logs in; an administrator may say as whom. *)
Authenticated(p, whoami) ==
  LET found == FindByLogin(accounts, p, AutoCreate)
  IN IF found.id # None /\ whoami # None /\ CanAdmin(found.table[found.id].role)
     THEN FindByLogin(found.table, whoami, TRUE)
     ELSE found

LoggedIn(found) ==
  [as |-> found.id, page |-> OtherPage, rows |-> [i \in {found.id} |-> Row(found.table, i)]]

(* A browser starts a session; a session that is not logged in shows nothing and is left out. *)
Visit(b, whoami) ==
  LET found == Authenticated(Person[b], whoami) IN
  /\ sessions[b] = None
  /\ found.id # None /\ Len(found.table) <= MaxAccounts
  /\ accounts' = found.table /\ held' = Holding(found.table)
  /\ sessions' = [sessions EXCEPT ![b] = LoggedIn(found)]
  /\ Quietly
  /\ UNCHANGED <<submissions, writes>>

Close(b) == sessions[b] # None /\ Dies(b)

-----------------------------------------------------------------------------
(* The paths of the site *)

PlainPaths == {"root", "hw", "profile", "grade", "grading_stats", "permalink", "game", "high_scores", "hw_N",
               "hw_N_eval", "admin", "held_back", "nowhere"}
UserPaths == {"user", "user_hw", "user_hw_N", "user_hw_N_eval", "user_hw_N_eval_M", "user_profile"}
Paths == [kind : PlainPaths \cap Visited, of : {None}] \cup [kind : UserPaths \cap Visited, of : Names]

(* Where the redirections of a path end. *)
Target(b, path) ==
  LET role == Own(b).role
      mine(kind) == [kind |-> kind, of |-> MyName(b)]
  IN CASE path.kind = "root" /\ role = "grader" -> [kind |-> "grade", of |-> None]
       [] path.kind = "root" /\ role = "admin" -> [kind |-> "admin", of |-> None]
       [] path.kind \in {"root", "hw"} /\ role = "student" -> mine("user_hw")
       [] path.kind = "profile" -> mine("user_profile")
       [] path.kind = "hw_N" /\ ~CanAdmin(role) -> mine("user_hw_N")
       [] path.kind = "hw_N_eval" -> mine("user_hw_N_eval")
       [] path.kind = "user" -> [kind |-> "user_hw", of |-> path.of]
       [] OTHER -> path

(* Paths that need a right, and what becomes of a session without it: an *)
(* error page for a Load_error, the end of the session for a failed      *)
(* check.                                                                *)
Allowed(b, t) ==
  CASE t.kind \in {"grade", "grading_stats", "permalink"} -> CanGrade(Own(b).role)
    [] t.kind \in {"admin", "held_back", "hw_N", "hw"} -> CanAdmin(Own(b).role)
    [] OTHER -> t.kind # "nowhere"
RefusedOnAPage == {"admin", "held_back", "hw", "nowhere"}

ShowPage(b, page, rows) == sessions' = [sessions EXCEPT ![b].page = page, ![b].rows = rows]

(* The copy of row i that the session has or loads. *)
Base(b, i) == IF i \in DOMAIN sessions[b].rows THEN sessions[b].rows[i] ELSE Row(accounts, i)
RowsKept(b, I) == [i \in I |-> Base(b, i)]
OwnRow(b) == RowsKept(b, {sessions[b].as})
Refused(b) ==
  /\ ShowPage(b, ErrorPage, OwnRow(b)) /\ Quietly
  /\ UNCHANGED <<tables, writes, held>>

GoPlain(b, path) ==
  LET t == Target(b, path) IN
  /\ sessions[b] # None /\ t.kind \in PlainPaths
  /\ \/ Allowed(b, t) /\ ShowPage(b, IF t.kind = "admin" THEN Page("admin", None) ELSE OtherPage, OwnRow(b)) /\ Quietly
        /\ UNCHANGED <<tables, writes, held>>
     \/ ~Allowed(b, t) /\ t.kind \in RefusedOnAPage /\ Refused(b)
     \/ ~Allowed(b, t) /\ t.kind \notin RefusedOnAPage /\ Dies(b)

(* find_user shows an error for a name that no account has, and throws for one that several have. *)
GoMissingUser(b, path) ==
  LET t == Target(b, path) IN
  /\ sessions[b] # None /\ t.kind \in UserPaths
  /\ \/ Named(accounts, t.of) = {} /\ Refused(b)
     \/ Cardinality(Named(accounts, t.of)) > 1 /\ Dies(b)

(* The list of a user's submissions makes those that are missing, once the check has passed. *)
GoHome(b, path) ==
  LET t == Target(b, path)
      i == The(Named(accounts, t.of))
  IN
  /\ sessions[b] # None /\ t.kind = "user_hw" /\ Unique(Named(accounts, t.of))
  /\ \/ /\ CanView(Own(b).role, MyName(b), t.of)
        /\ submissions' = FirstTouch(submissions, i)
        /\ ShowPage(b, OtherPage, OwnRow(b))
        /\ Shows(Person[b], OwnersOf(SubmissionOf(submissions', i)))
        /\ UNCHANGED <<accounts, writes, held>>
     \/ ~CanView(Own(b).role, MyName(b), t.of) /\ Dies(b)

(* One submission, its files or its evaluation: it is made first and checked after.  The evaluation waits for the *)
(* due date to pass, and a question that does not exist is a Load_error.                                            *)
GoSubmission(b, path, duePassed, inRange) ==
  LET t == Target(b, path)
      i == The(Named(accounts, t.of))
      made == FirstTouch(submissions, i)
      s == SubmissionOf(made, i)
      granted == /\ CanViewSubmission(Own(b).role, sessions[b].as, s)
                 /\ t.kind = "user_hw_N" \/ CanAdmin(Own(b).role) \/ duePassed
  IN
  /\ sessions[b] # None /\ t.kind \in {"user_hw_N", "user_hw_N_eval", "user_hw_N_eval_M"}
  /\ Unique(Named(accounts, t.of))
  /\ \/ t.kind = "user_hw_N_eval_M" /\ ~inRange /\ Refused(b)
     \/ /\ t.kind = "user_hw_N_eval_M" => inRange
        /\ granted
        /\ submissions' = made
        /\ ShowPage(b, OtherPage, OwnRow(b))
        /\ Shows(Person[b], OwnersOf(s))
        /\ UNCHANGED <<accounts, writes, held>>
     \/ /\ t.kind = "user_hw_N_eval_M" => inRange
        /\ ~granted /\ Dies(b)

(* A profile shows the key of its account. *)
GoProfile(b, path) ==
  LET t == Target(b, path)
      i == The(Named(accounts, t.of))
  IN
  /\ sessions[b] # None /\ t.kind = "user_profile" /\ Unique(Named(accounts, t.of))
  /\ \/ /\ CanView(Own(b).role, MyName(b), t.of)
        /\ ShowPage(b, Page("profile", i), RowsKept(b, {sessions[b].as, i}))
        /\ ShowsKey(Person[b], i)
        /\ UNCHANGED <<tables, writes, held>>
     \/ ~CanView(Own(b).role, MyName(b), t.of) /\ Dies(b)

-----------------------------------------------------------------------------
(* Writing from a page *)

(* What a session writes is the copy it has, with one field changed. *)
MayWrite(b, i) == accounts[i].live /\ ~Base(b, i).stale

WriteRow(b, i, row) ==
  /\ Enough
  /\ accounts' = [accounts EXCEPT ![i].role = row.role, ![i].nick = row.nick]
  /\ sessions' = [c \in Browsers |->
                    IF c = b /\ i \in DOMAIN sessions[b].rows THEN [sessions[b] EXCEPT !.rows[i] = row]
                    ELSE Outdated(b, i)[c]]
  /\ held' = Holding(accounts') /\ Quietly
  /\ UNCHANGED <<submissions>>

OnPage(b, kind) == sessions[b] # None /\ sessions[b].page.kind = kind

(* Mutant: the copy is written whatever has become of the row. *)
SaveCallMeFromStale(b, nick) ==
  LET i == sessions[b].page.of IN
  /\ OnPage(b, "profile") /\ accounts[i].live
  /\ nick # Base(b, i).nick
  /\ WriteRow(b, i, [Base(b, i) EXCEPT !.nick = nick])

SaveCallMe(b, nick) ==
  LET i == sessions[b].page.of IN
  /\ OnPage(b, "profile")
  /\ nick # Base(b, i).nick
  /\ \/ MayWrite(b, i) /\ WriteRow(b, i, [Base(b, i) EXCEPT !.nick = nick])
     \/ ~MayWrite(b, i) /\ Dies(b)

(* The key is replaced for the account that has the page's name by now. *)
RegenerateKey(b) ==
  LET found == Named(accounts, accounts[sessions[b].page.of].name)
      i == The(found)
  IN
  /\ OnPage(b, "profile")
  /\ \/ /\ Unique(found) /\ accounts[i].key < MaxKeys /\ Enough
        /\ accounts' = [accounts EXCEPT ![i].key = @ + 1]
        /\ ShowsKey(Person[b], i)
        /\ UNCHANGED <<submissions, sessions, held>>
     \/ ~Unique(found) /\ Dies(b)

AdminChangesRole(b, n, role) ==
  LET found == Named(accounts, n)
      i == The(found)
  IN
  /\ OnPage(b, "admin")
  /\ \/ Unique(found) /\ MayWrite(b, i) /\ WriteRow(b, i, [Base(b, i) EXCEPT !.role = role])
     \/ Unique(found) /\ ~MayWrite(b, i) /\ Dies(b)
     \/ Cardinality(found) > 1 /\ Dies(b)

(* A new user is not looked up first. *)
AdminAddsUser(b, n) ==
  /\ OnPage(b, "admin") /\ Len(accounts) < MaxAccounts /\ Enough
  /\ accounts' = Created(accounts, n, "student") /\ held' = Holding(accounts')
  /\ Quietly
  /\ UNCHANGED <<submissions, sessions>>

(* Switching users leaves the session, as does a name that several have; the browser starts another that says as whom. *)
AdminSwitches(b, n) ==
  /\ OnPage(b, "admin")
  /\ Named(accounts, n) # {} /\ Dies(b)

(* Typing a name lists the submissions of that user, and makes those that are missing. *)
AdminTypesStudent(b, n) ==
  LET found == Named(accounts, n) IN
  /\ OnPage(b, "admin")
  /\ \/ /\ Unique(found)
        /\ submissions' = FirstTouch(submissions, The(found))
        /\ Quietly /\ UNCHANGED <<accounts, sessions, writes, held>>
     \/ Cardinality(found) > 1 /\ Dies(b)

(* Enter with nobody found takes element -1 of an empty list: the server stops, or the list yields no submission. *)
AdminJumpsNowhere(b, n) ==
  /\ OnPage(b, "admin") /\ Named(accounts, n) = {}
  /\ \/ sessions' = [c \in Browsers |-> None]
     \/ sessions' = [sessions EXCEPT ![b] = None]
  /\ Quietly /\ UNCHANGED <<tables, writes, held>>

-----------------------------------------------------------------------------
(* Requests: each finds its account anew.  One that is refused is rolled back and is no step here. *)

(* A key that was replaced, or whose account is gone, finds nobody.  People send the keys of their own accounts. *)
FindByKey(key) == {i \in Live : KeyOf(i) = key}
Requester(key) == The(FindByKey(key))
KeyHolder(p, key) == key[1] \in DOMAIN accounts /\ accounts[key[1]].name = p /\ key[2] <= accounts[key[1]].key

LoadUser(key, n) ==
  /\ FindByKey(key) # {}
  /\ CanView(accounts[Requester(key)].role, accounts[Requester(key)].name, n)
  /\ Unique(Named(accounts, n))
CheckCanAdmin(key) == FindByKey(key) # {} /\ CanAdmin(accounts[Requester(key)].role)

GetUser(p, key, n) ==
  LET i == The(Named(accounts, n)) IN
  /\ KeyHolder(p, key) /\ LoadUser(key, n)
  /\ submissions' = FirstTouch(submissions, i)
  /\ Shows(p, OwnersOf(SubmissionOf(submissions', i)))
  /\ UNCHANGED <<accounts, sessions, writes, held>>

PostUser(key, n, role) ==
  /\ CheckCanAdmin(key) /\ Named(accounts, n) = {}
  /\ Len(accounts) < MaxAccounts /\ Enough
  /\ accounts' = Created(accounts, n, role) /\ held' = Holding(accounts')
  /\ Quietly /\ UNCHANGED <<submissions, sessions>>

PatchRole(key, n, role) ==
  LET i == The(Named(accounts, n)) IN
  /\ LoadUser(key, n) /\ CheckCanAdmin(key) /\ Enough
  /\ accounts' = [accounts EXCEPT ![i].role = role] /\ held' = Holding(accounts')
  /\ sessions' = Outdated(None, i)
  /\ Quietly /\ UNCHANGED <<submissions>>

(* The submissions that a deleted user owns first go along; the second owner of one is forgotten. *)
DeleteUser(key, n) ==
  LET i == The(Named(accounts, n)) IN
  /\ LoadUser(key, n) /\ CheckCanAdmin(key) /\ Enough
  /\ accounts' = [accounts EXCEPT ![i].live = FALSE]
  /\ submissions' = {IF s.second = i THEN [s EXCEPT !.second = None] ELSE s : s \in {t \in submissions : t.first # i}}
  /\ sessions' = Outdated(None, i)
  /\ Quietly /\ UNCHANGED held

(* Questions that change nothing: what they need to be answered. *)

GetsSubmission(p, key, s) ==
  /\ KeyHolder(p, key) /\ FindByKey(key) # {}
  /\ CanViewSubmission(accounts[Requester(key)].role, Requester(key), s)

(* A file is asked for with the environment of the request, which logs in like a visit.  An account made on the way *)
(* owns nothing: the request is refused and the account with it.                                                     *)
GetsFile(p, whoami, n) ==
  LET found == Authenticated(p, whoami)
      owner == Named(found.table, n)
  IN
  /\ found.id # None
  /\ Unique(owner) /\ HasSubmission(submissions, The(owner))
  /\ CanViewSubmission(found.table[found.id].role, found.id, SubmissionOf(submissions, The(owner)))

(* Mutant: any valid key will do. *)
AnyKey(n, role, key) ==
  /\ Unique(Named(accounts, n))
  /\ Rank[accounts[The(Named(accounts, n))].role] >= Rank[role]
  /\ FindByKey(key) # {}

(* gsc-auth: a name and a key open the gate to those of a role or above. *)
CheckUser(n, role, key) ==
  /\ Unique(Named(accounts, n))
  /\ Rank[accounts[The(Named(accounts, n))].role] >= Rank[role]
  /\ key = KeyOf(The(Named(accounts, n)))

-----------------------------------------------------------------------------
(* What partnership does to owners (module Partnership has the requests that lead there). *)

Join(s, t) ==
  /\ {s, t} \subseteq submissions /\ s # t /\ s.second = None /\ t.second = None /\ Enough
  /\ submissions' = (submissions \ {s, t}) \cup {[first |-> s.first, second |-> t.first]}
  /\ Quietly /\ UNCHANGED <<accounts, sessions, held>>

Split(s) ==
  /\ s \in submissions /\ s.second # None /\ Enough
  /\ submissions' = (submissions \ {s}) \cup {[first |-> i, second |-> None] : i \in OwnersOf(s)}
  /\ Quietly /\ UNCHANGED <<accounts, sessions, held>>

AllKeys == Ids \X (0 .. MaxKeys)

WebStep(b) ==
  \/ \E whoami \in (Names \ {Person[b]}) \cup {None} : Visit(b, whoami)
  \/ Close(b)
  \/ \E path \in Paths :
       \/ GoPlain(b, path) \/ GoMissingUser(b, path) \/ GoHome(b, path) \/ GoProfile(b, path)
       \/ \E duePassed, inRange \in BOOLEAN :
            (inRange \/ (path.kind = "user_hw_N_eval_M" /\ duePassed)) /\ GoSubmission(b, path, duePassed, inRange)
  \/ \E nick \in {0, 1} : SaveCallMe(b, nick)
  \/ RegenerateKey(b)
  \/ \E n \in Names :
       \/ AdminAddsUser(b, n) \/ AdminSwitches(b, n) \/ AdminTypesStudent(b, n) \/ AdminJumpsNowhere(b, n)
       \/ \E role \in Roles : AdminChangesRole(b, n, role)

InUse == {key \in AllKeys : \E p \in Names : KeyHolder(p, key)}

Request ==
  \E key \in InUse, n \in Names :
    \/ \E p \in Names : GetUser(p, key, n)
    \/ DeleteUser(key, n)
    \/ \E role \in Roles : PostUser(key, n, role) \/ PatchRole(key, n, role)

Next ==
  \/ \E b \in Browsers : WebStep(b)
  \/ Request
  \/ \E s, t \in submissions : Join(s, t)
  \/ \E s \in submissions : Split(s)

Spec == Init /\ [][Next]_vars
-----------------------------------------------------------------------------
(* Properties *)

WasAdmin(p) == <<p, "admin">> \in held

(* Work is shown to its owners, who may be partners, and to administrators: by pages, over REST and as files,      *)
(* whoever the session has switched to; the key of an account to its owner and to administrators                   *)
(* (Application_controller.C:304-366, resources.C:310-336, view/files/Resource.C:57-72, Profile_view.C:53).        *)
ShareWork(ps) == \E s \in submissions : ps \subseteq NamesOf(OwnersOf(s))
ShownToEntitled ==
  /\ answer.kind = "work" => WasAdmin(answer.to) \/ ShareWork({answer.to} \cup answer.of)
  /\ answer.kind = "key" => WasAdmin(answer.to)
  /\ \A p \in Names :
       \/ WasAdmin(p)
       \/ /\ \A s \in submissions : (\E key \in InUse : GetsSubmission(p, key, s)) => p \in NamesOf(OwnersOf(s))
          /\ \A n \in Names : (\E whoami \in Names \cup {None} : GetsFile(p, whoami, n)) => ShareWork({p, n})

(* A session that acts for another account, or that has the page with the powers over accounts, belongs to someone *)
(* who has been an administrator (Session.C:319-325, Application_controller.C:398-403).                            *)
PowersFromAdmins ==
  \A b \in Browsers :
    sessions[b] # None /\ (accounts[sessions[b].as].name # Person[b] \/ sessions[b].page.kind = "admin")
      => WasAdmin(Person[b])

(* gsc-auth lets in for a role only who has had that role or a higher one (gsc-auth.C:91-131). *)
GateKept ==
  \A n \in Names, role \in Roles, key \in InUse :
    CheckUser(n, role, key) =>
      \A p \in Names : KeyHolder(p, key) => \E r \in Roles : <<p, r>> \in held /\ Rank[r] >= Rank[role]

(* A page that saves a nickname does not undo a change of role made meanwhile, nor the other way round, though     *)
(* each writes the whole row (Profile_view.C:101-111, Admin_view.C:224-236).                                       *)
WritesOneField == [][\A i \in DOMAIN accounts : accounts'[i].role = accounts[i].role \/ accounts'[i].nick = accounts[i].nick]_vars
=============================================================================
