------------------------------- MODULE Files -------------------------------
(***************************************************************************)
(* The files of the submissions: uploading within a quota, renaming and    *)
(* moving over REST, deleting, and what happens to them when submissions   *)
(* are joined and split (model/File_meta.C, model/Submission.C,            *)
(* view/web/view/File_manager_view.C, view/api/resources.C).               *)
(*                                                                         *)
(* A request over REST is one transaction that starts from the database.   *)
(* A student's page keeps a copy of its submission with a byte count that  *)
(* it has added up once.  The copy is stale once another session has       *)
(* written the submission: whatever the page then tries to write ends its  *)
(* session, so that a page whose copy goes stale is dropped here at once.  *)
(* Files that are changed without touching their submission do not make a  *)
(* copy stale.                                                             *)
(*                                                                         *)
(* Who asks whom to be partners is the subject of module Partnership: here *)
(* any two students without partners may be joined.                        *)
(***************************************************************************)
EXTENDS Integers, FiniteSets, FiniteSetsExt

CONSTANTS
  NumStudents,  \* students are numbered in the alphabetical order of their names
  Admin,        \* an administrator
  Assignments,
  WebAllowed,   \* the assignments whose files may be changed on the web
  Homework,     \* names of submissions, <<first owner, assignment>>: who may have a submission to what: <<student, assignment>>
  Names,        \* names of files
  Matches,      \* Matches[n]: the patterns that a name matches, and "text" for
                \* names whose media type is text/plain
  MaxBytes,     \* the largest file
  Quotas,       \* quotas in use
  InitialQuota,
  Periods,      \* in BOOLEAN: whether submissions may be in their submit period
  GivenPurposes, \* purposes that requests give to files
  MaxFiles,     \* bound: files in the database
  None

Purposes == {"source", "test", "config", "resource", "log", "forbidden"}

Students == 1..NumStudents
Users == Students \cup {Admin}
Sizes == 1..MaxBytes

ASSUME FilesAssumption ==
  /\ NumStudents \in Nat /\ MaxBytes \in Nat /\ MaxFiles \in Nat
  /\ Admin \notin Students /\ None \notin Users
  /\ Matches \in [Names -> SUBSET {"config", "log", "forbidden", "resource", "test", "text"}]
  /\ WebAllowed \subseteq Assignments
  /\ Homework \subseteq Students \X Assignments
  /\ Quotas \subseteq Nat \ {0} /\ InitialQuota \in Quotas
  /\ Periods \subseteq BOOLEAN /\ GivenPurposes \subseteq Purposes

SubmissionRow == [user2 : Students \cup {None}, quota : Quotas, open : Periods]

Row == [sub : Homework, name : Names, by : Users, bytes : Sizes, purpose : Purposes]

ASSUME NoneAssumption ==
  None \notin SubmissionRow \cup [by : Users, bytes : Sizes, cheap : BOOLEAN]

VARIABLES
  subs,     \* the submissions, or None: the second owner, the quota, and
            \* whether the submission is in its submit period
  files,    \* the rows of file_meta, each with its file_data
  page,     \* page[u]: what a file page that can still write has loaded, or None
  overrun   \* history: submissions whose quota was passed by in a known way

vars == <<subs, files, page, overrun>>

Page == [sub : Homework, bytes : Nat]

-----------------------------------------------------------------------------
\* classify_file_type: the first pattern that matches decides.
ClassOf(n) ==
  LET matches(pattern) == pattern \in Matches[n]
  IN IF matches("config") THEN "config"
     ELSE IF matches("log") THEN "log"
     ELSE IF matches("forbidden") THEN "forbidden"
     ELSE IF matches("resource") \/ ~matches("text") THEN "resource"
     ELSE IF matches("test") THEN "test" ELSE "source"

Existing == {s \in Homework : subs[s] # None}

Owners(s) == {s[1], subs[s].user2} \ {None}

SubmissionsOf(u, a) == {s \in Existing : s[2] = a /\ u \in Owners(s)}

CanView(u, s) == u = Admin \/ u \in Owners(s)

CanSubmit(u, s) == u = Admin \/ (u \in Owners(s) /\ subs[s].open)

Of(fs, s) == {f \in fs : f.sub = s}

Named(fs, s, n) == {f \in fs : f.sub = s /\ f.name = n}

\* The files of administrators do not count.
ByteCount(fs, s) ==
  MapThenSumSet(LAMBDA f : f.bytes, {f \in Of(fs, s) : f.by # Admin})

\* has_sufficient_space: the file that is replaced makes room.
HasSufficientSpace(s, counted, n, bytes) ==
  subs[s].quota - counted + MapThenSumSet(LAMBDA f : f.bytes, Named(files, s, n)) >= bytes

\* What File_meta::upload leaves when it does not throw.
Stored(fs, u, s, n, bytes) ==
  (fs \ Named(fs, s, n))
    \cup {[sub |-> s, name |-> n, by |-> u, bytes |-> bytes, purpose |-> ClassOf(n)]}

MayBeStored(s, counted, n, bytes) ==
  /\ ClassOf(n) # "forbidden"
  /\ bytes <= MaxBytes
  /\ HasSufficientSpace(s, counted, n, bytes)

\* An upload over a file of an administrator gets room that was never taken.
AdminsRoom(s, n) == IF \E f \in Named(files, s, n) : f.by = Admin THEN {s} ELSE {}

\* Mutant: writing a submission does not make copies of it stale.
TouchedNone(s) == page

\* Writing a submission makes the copies of it stale.
Touched(s) ==
  [v \in Students |-> IF page[v] # None /\ page[v].sub = s THEN None ELSE page[v]]

Init ==
  /\ subs = [s \in Homework |-> None]
  /\ files = {}
  /\ page = [u \in Students |-> None]
  /\ overrun = {}

-----------------------------------------------------------------------------
(* Pages of students. *)

\* Dates, the clock and self evaluation open and close a submission.
Calendar(s) ==
  /\ s \in Existing
  /\ \E isOpen \in Periods : subs' = [subs EXCEPT ![s].open = isOpen]
  /\ UNCHANGED <<files, page, overrun>>

New(isOpen) == [user2 |-> None, quota |-> InitialQuota, open |-> isOpen]

\* A visit creates the submission if there is none; what matters here is a page
\* that lets its user change files.  A page on the same submission that is still
\* open lends its copy to the new one.
OpenPage(u, a) ==
  LET known == SubmissionsOf(u, a)
      s     == IF known = {} THEN <<u, a>> ELSE CHOOSE t \in known : TRUE
  IN /\ a \in WebAllowed
     /\ s \in Homework
     /\ \E isOpen \in Periods :
          subs' = IF known = {} THEN [subs EXCEPT ![s] = New(isOpen)] ELSE subs
     /\ page' = [page EXCEPT ![u] =
          IF @ # None /\ @.sub = s THEN @ ELSE [sub |-> s, bytes |-> ByteCount(files, s)]]
     /\ UNCHANGED <<files, overrun>>

\* Listing a student's submissions, on a page or over REST, creates them.
CreateSubmission(u, a) ==
  /\ SubmissionsOf(u, a) = {} /\ <<u, a>> \in Homework
  /\ \E isOpen \in Periods : subs' = [subs EXCEPT ![<<u, a>>] = New(isOpen)]
  /\ UNCHANGED <<files, page, overrun>>

\* The student leaves the page, or an exception ends the session.
ClosePage(u) ==
  /\ page[u] # None
  /\ page' = [page EXCEPT ![u] = None]
  /\ UNCHANGED <<subs, files, overrun>>

\* After a change the page, whose copy was touched, adds up again to show the
\* quota that remains (the configuration's default); the copies of others are stale.
Refreshed(u, s, fs) == [Touched(s) EXCEPT ![u] = [sub |-> s, bytes |-> ByteCount(fs, s)]]

\* File_uploader::uploaded_, one file at a time.  A refusal is a notification: it
\* changes nothing.
WebUpload(u, n, bytes) ==
  LET s == page[u].sub
      stored == Stored(files, u, s, n, bytes)
  IN /\ page[u] # None
     /\ CanSubmit(u, s)
     /\ Cardinality(stored) <= MaxFiles
     /\ MayBeStored(s, page[u].bytes, n, bytes)
     /\ files' = stored
     /\ page' = Refreshed(u, s, stored)
     /\ overrun' = overrun \cup AdminsRoom(s, n)
     /\ UNCHANGED subs

\* File_deleter::go
WebDelete(u, f) ==
  LET s == page[u].sub
  IN /\ page[u] # None
     /\ CanSubmit(u, s)
     /\ f \in Of(files, s)
     /\ files' = files \ {f}
     /\ page' = Refreshed(u, s, files \ {f})
     /\ UNCHANGED <<subs, overrun>>

-----------------------------------------------------------------------------
(* Requests over REST, by owners and administrators. *)

\* PUT of a file
RestPut(u, s, n, bytes) ==
  LET stored == Stored(files, u, s, n, bytes)
  IN /\ s \in Existing /\ CanView(u, s)
     /\ CanSubmit(u, s)
     /\ MayBeStored(s, ByteCount(files, s), n, bytes)
     /\ Cardinality(stored) <= MaxFiles
     /\ files' = stored
     /\ page' = Touched(s)
     /\ overrun' = overrun \cup AdminsRoom(s, n)
     /\ UNCHANGED subs

\* DELETE of a file asks neither for the period nor touches the submission.
RestDelete(s, n) ==
  /\ s \in Existing /\ \E u \in Users : CanView(u, s)
  /\ Named(files, s, n) # {}
  /\ files' = files \ Named(files, s, n)
  /\ UNCHANGED <<subs, page, overrun>>

MovedTo(f, t, m, purpose) == [f EXCEPT !.sub = t, !.name = m, !.purpose = purpose]

\* Mutant: whatever has the name is left there.
MovedBeside(fs, f, t, m, purpose) ==
  (fs \ {f}) \cup {MovedTo(f, t, m, purpose)}

\* What File_meta::move leaves when it does not throw.
Moved(fs, f, t, m, purpose) ==
  ((fs \ {f}) \ Named(fs, t, m)) \cup {MovedTo(f, t, m, purpose)}

\* PATCH of a file: another name, another assignment (then the submission there
\* of whoever asks, who must be allowed to submit to it), and a purpose, given or
\* read off the name.  What is in the way is overwritten: without that option it
\* is an error.
RestPatch(f, t, name, purpose) ==
  /\ \E u \in Users :
       /\ CanView(u, f.sub)
       /\ t # f.sub => t[2] # f.sub[2] /\ t \in SubmissionsOf(u, t[2]) /\ CanSubmit(u, t)
  /\ files' = Moved(files, f, t, name, purpose)
  /\ overrun' = IF t = f.sub THEN overrun ELSE overrun \cup {t}
  /\ UNCHANGED <<subs, page>>

\* Mutant: the files are not taken along.
RestDeleteSubmissionOnly(s) ==
  /\ s \in Existing /\ \E u \in Users : CanSubmit(u, s)
  /\ subs' = [subs EXCEPT ![s] = None]
  /\ page' = Touched(s)
  /\ overrun' = overrun \ {s}
  /\ UNCHANGED files

\* DELETE of a submission takes its files along.
RestDeleteSubmission(s) ==
  /\ s \in Existing /\ \E u \in Users : CanSubmit(u, s)
  /\ subs' = [subs EXCEPT ![s] = None]
  /\ files' = files \ Of(files, s)
  /\ page' = Touched(s)
  /\ overrun' = overrun \ {s}

\* PATCH of a submission by an administrator.
SetQuota(s, quota) ==
  /\ s \in Existing
  /\ subs' = [subs EXCEPT ![s].quota = quota]
  /\ page' = Touched(s)
  /\ overrun' = IF ByteCount(files, s) > quota THEN overrun \cup {s} ELSE overrun
  /\ UNCHANGED files

-----------------------------------------------------------------------------
(* Joining and splitting. *)

\* partition_files: pairs of files of the same name.
Shared(s, t) == {f \in Of(files, s) \cup Of(files, t) :
                   Named(files, s, f.name) # {} /\ Named(files, t, f.name) # {}}

\* Mutant: files of the same name are dropped without asking whether they are logs.
DisjointAnyway(s, t) == TRUE

\* ensure_disjoint throws on a file that is not automatically deletable.
Disjoint(s, t) == \A f \in Shared(s, t) : f.purpose = "log"

\* Mutant: logs are not moved along.
JoinedWithoutLogs(s, t) ==
  {[f EXCEPT !.sub = IF @ = t THEN s ELSE @] :
     f \in {g \in files : g.sub # t \/ g.purpose # "log"}}

Joined(s, t) == {[f EXCEPT !.sub = IF @ = t THEN s ELSE @] : f \in files \ Shared(s, t)}

\* Submission::join_together, and the page of whoever is joining: it shows the
\* joint submission, with the copy that it has if that one was on the page.
Join(u, v, by) ==
  \E a \in Assignments :
    LET keep   == <<u, a>>
        kill   == <<v, a>>
        joined == Joined(keep, kill)
    IN /\ u < v /\ keep \in Existing /\ kill \in Existing
       /\ subs[keep].user2 = None /\ subs[kill].user2 = None
       /\ Disjoint(keep, kill)
       /\ files' = joined
       /\ subs' = [subs EXCEPT ![keep].user2 = v, ![kill] = None]
       /\ LET stale == [w \in Students |->
                          IF page[w] # None /\ page[w].sub \in {keep, kill}
                          THEN None ELSE page[w]]
              count == ByteCount(joined, keep)
          IN IF by = None THEN page' = stale
             ELSE /\ page[by] # None /\ page[by].sub \in {keep, kill}
                  /\ page' = [stale EXCEPT ![by] =
                       [sub   |-> keep,
                        bytes |-> IF page[by].sub = keep THEN page[by].bytes ELSE count]]
       /\ overrun' = (overrun \ {kill}) \cup
            (IF ByteCount(joined, keep) > subs[keep].quota \/ kill \in overrun \/ by = u
             THEN {keep} ELSE {})
  
\* Files that neither partner uploaded, and that are not logs.
WhoseFilesAreThese(s, v) ==
  {f \in Of(files, s) : f.by \notin {s[1], v} /\ f.purpose # "log"}

\* give_back_files
GivenBack(s, v) ==
  {IF f.sub = s /\ f.by = v THEN [f EXCEPT !.sub = <<v, s[2]>>] ELSE f : f \in files}

\* Submission::divorce, by an administrator.
Divorce(s) ==
  LET v == subs[s].user2
  IN /\ s \in Existing /\ v # None
     /\ WhoseFilesAreThese(s, v) = {}
     /\ \E isOpen \in Periods :
          subs' = [subs EXCEPT ![s].user2 = None, ![<<v, s[2]>>] = New(isOpen)]
     /\ files' = GivenBack(s, v)
     /\ page' = Touched(s)
     /\ overrun' = IF ByteCount(GivenBack(s, v), <<v, s[2]>>) > InitialQuota
                   THEN overrun \cup {<<v, s[2]>>} ELSE overrun

-----------------------------------------------------------------------------
StudentNext ==
  \E u \in Students :
    \/ \E a \in Assignments : OpenPage(u, a) \/ CreateSubmission(u, a)
    \/ ClosePage(u)
    \/ \E n \in Names, b \in Sizes : WebUpload(u, n, b)
    \/ \E f \in files : WebDelete(u, f)

RestNext ==
  \/ \E s \in Homework :
       \/ \E u \in Users, n \in Names, b \in Sizes : RestPut(u, s, n, b)
       \/ \E n \in Names : RestDelete(s, n)
       \/ RestDeleteSubmission(s)
  \/ \E f \in files, t \in Homework, n \in Names : \E p \in GivenPurposes \cup {ClassOf(n)} :
       RestPatch(f, t, n, p)

PartnersNext ==
  \/ \E u, v \in Students : \E by \in {u, v, None} : Join(u, v, by)
  \/ \E s \in Homework : Divorce(s)

Next ==
  \/ StudentNext
  \/ RestNext
  \/ PartnersNext
  \/ \E s \in Homework : Calendar(s) \/ \E q \in Quotas : SetQuota(s, q)

Spec == Init /\ [][Next]_vars

-----------------------------------------------------------------------------
(* Properties *)

\* Every column keeps its type, and a file belongs to a submission that exists:
\* removing or joining submissions leaves no orphans.
TypeOK ==
  /\ subs \in [Homework -> SubmissionRow \cup {None}]
  /\ files \subseteq Row
  /\ \A f \in files : f.sub \in Existing
  /\ page \in [Students -> Page \cup {None}]
  /\ overrun \subseteq Existing

\* In a submission a name belongs to one file.  Nothing in the database says
\* so; find_file_by_name throws on two rows, and neither of them could be
\* read, replaced or deleted over REST again.
NamesDistinct ==
  \A f, g \in files : f.sub = g.sub /\ f.name = g.name => f = g

\* What students stored fits into the quota, although pages reckon with a byte
\* count they added up earlier.  Known ways past it are the quota being
\* lowered, files that come along when submissions are joined or are moved in
\* over REST, an upload over a file of an administrator, and the page that
\* joined, which goes on with the count it had.
QuotaKept ==
  \A s \in Existing : s \notin overrun => ByteCount(files, s) <= subs[s].quota

Work(fs) == {[name |-> f.name, by |-> f.by, bytes |-> f.bytes] : f \in {g \in fs : g.purpose # "log"}}

PartnersChange(s) ==
  /\ s \in Existing /\ s \in Existing'
  /\ subs'[s].user2 # subs[s].user2

\* Joining and splitting move files one by one and stop on some of them: no
\* matter what, no file that is not a log is lost, and none changes hands.
\* After a split each partner has the work they uploaded themselves, and none
\* of it stays with somebody else.
WorkSurvives ==
  [][\A s \in Homework : PartnersChange(s) =>
       /\ Work(files') = Work(files)
       /\ subs'[s].user2 = None =>
            \A f \in files' :
              f.sub \in {s, <<subs[s].user2, s[2]>>} /\ f.purpose # "log" => f.by = f.sub[1]]_vars

ContentOf(f) == [by |-> f.by, bytes |-> f.bytes, cheap |-> f.purpose = "log"]

FolderFrom(fs) ==
  [s \in Homework |-> [n \in Names |->
    IF Named(fs, s, n) = {} THEN None
    ELSE ContentOf(CHOOSE f \in Named(fs, s, n) : TRUE)]]

FolderOf == FolderFrom(files)

Folder == INSTANCE Folders WITH Authors <- Users, Bytes <- Sizes, folder <- FolderOf

\* Rows, pages and requests together keep what module Folders promises.
KeepsFolders == Folder!Spec
=============================================================================
