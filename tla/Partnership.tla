----------------------------- MODULE Partnership -----------------------------
(***************************************************************************)
(* Who works with whom on one assignment: the submissions and their owners *)
(* (model/Submission.C), and the partner requests that lead to joint       *)
(* submissions (model/Partner_request.C), with the pages and REST requests *)
(* that act on them.                                                       *)
(*                                                                         *)
(* One action is one database transaction.  The files that move along when *)
(* submissions are joined or split are left out; a collision of files      *)
(* rolls the transaction back, which is a step that does not happen.       *)
(***************************************************************************)
EXTENDS Integers, FiniteSets

CONSTANTS
  NumUsers,   \* users are numbered in the alphabetical order of their names
  Students,   \* the users whose role is Student
  Admins,     \* the users whose role is Admin
  None        \* no partner

Users == 1..NumUsers

ASSUME UsersAssumption ==
  /\ NumUsers \in Nat
  /\ Students \subseteq Users
  /\ Admins \subseteq Users
  /\ None \notin Users

\* open: whether the submission is in its submit period.
Submissions == [user1 : Users, user2 : Users \cup {None}, open : BOOLEAN]

VARIABLES
  submissions,  \* the submissions to the assignment
  requests,     \* pairs <<requestor, requestee>>
  partner,      \* does the assignment allow partners?
  accepting     \* would a submission created now be in its submit period?

vars == <<submissions, requests, partner, accepting>>

-----------------------------------------------------------------------------
Owners(s) == {s.user1, s.user2} \ {None}

OwnedBy(subs, u) == {s \in subs : u \in Owners(s)}

\* Mutant: a second owner is not looked for.
WithSubmissionOfFirst(subs, u) ==
  IF \E s \in subs : s.user1 = u THEN subs
  ELSE subs \cup {[user1 |-> u, user2 |-> None, open |-> accepting]}

\* find_by_assignment_and_user creates the submission if it does not exist.
WithSubmission(subs, u) ==
  IF OwnedBy(subs, u) # {} THEN subs
  ELSE subs \cup {[user1 |-> u, user2 |-> None, open |-> accepting]}

SubmissionOf(subs, u) == CHOOSE s \in subs : u \in Owners(s)

HasPartner(subs, u) == SubmissionOf(subs, u).user2 # None

CanSubmit(subs, u) == u \in Admins \/ SubmissionOf(subs, u).open

Outgoing(u) == {r \in requests : r[1] = u}

Involving(u) == {r \in requests : u \in {r[1], r[2]}}

First(u, v) == IF u < v THEN u ELSE v
Second(u, v) == IF u < v THEN v ELSE u

Init ==
  /\ submissions = {}
  /\ requests = {}
  /\ partner \in BOOLEAN
  /\ accepting = TRUE

-----------------------------------------------------------------------------
\* Opening a page or listing a user's submissions makes sure they exist.
FindOrCreate(u) ==
  /\ submissions' = WithSubmission(submissions, u)
  /\ UNCHANGED <<requests, partner, accepting>>

\* Mutant: any number of outgoing requests.
CreateAnotherRequest(u, v) ==
  LET mine   == WithSubmission(submissions, u)
      both   == WithSubmission(mine, v)
      myTurn == /\ ~HasPartner(mine, u)
                /\ <<u, v>> \notin requests /\ <<v, u>> \notin requests
                /\ CanSubmit(mine, u)
                /\ v \in Students
      yours  == ~HasPartner(both, v) /\ CanSubmit(both, v)
  IN /\ partner /\ u # v
     /\ submissions' = IF myTurn THEN both ELSE mine
     /\ requests' = IF myTurn /\ yours THEN requests \cup {<<u, v>>} ELSE requests
     /\ UNCHANGED <<partner, accepting>>

\* Partner_request::create.  A refusal may come after the submissions that it
\* looked at were created, and those stay.
CreateRequest(u, v) ==
  LET mine   == WithSubmission(submissions, u)
      both   == WithSubmission(mine, v)
      myTurn == /\ ~HasPartner(mine, u)
                /\ <<u, v>> \notin requests /\ <<v, u>> \notin requests
                /\ CanSubmit(mine, u)
                /\ v \in Students
      yours  == /\ ~HasPartner(both, v) /\ CanSubmit(both, v)
                /\ Outgoing(u) = {}
  IN /\ partner /\ u # v
     /\ submissions' = IF myTurn THEN both ELSE mine
     /\ requests' = IF myTurn /\ yours THEN requests \cup {<<u, v>>} ELSE requests
     /\ UNCHANGED <<partner, accepting>>

\* Mutant: only the request that was accepted is dropped.
ConfirmDroppingOne(u, v) ==
  LET both == WithSubmission(WithSubmission(submissions, u), v)
      keep == SubmissionOf(both, First(u, v))
      kill == SubmissionOf(both, Second(u, v))
  IN /\ keep.user2 = None /\ kill.user2 = None
     /\ keep.user1 # kill.user1
     /\ submissions' = (both \ {keep, kill}) \cup {[keep EXCEPT !.user2 = kill.user1]}
     /\ requests' = requests \ {<<u, v>>}
     /\ UNCHANGED <<partner, accepting>>

\* Partner_request::confirm for two users: whoever comes first in the alphabet
\* keeps the submission, and every request of either is dropped.  When one of
\* them has a partner already, or they are the same, it throws.
Confirm(u, v) ==
  LET both == WithSubmission(WithSubmission(submissions, u), v)
      keep == SubmissionOf(both, First(u, v))
      kill == SubmissionOf(both, Second(u, v))
  IN /\ keep.user2 = None /\ kill.user2 = None
     /\ keep.user1 # kill.user1
     /\ submissions' = (both \ {keep, kill}) \cup {[keep EXCEPT !.user2 = kill.user1]}
     /\ requests' = requests \ (Involving(u) \cup Involving(v))
     /\ UNCHANGED <<partner, accepting>>

\* Mutant: the request may have been cancelled meanwhile.
AcceptUnasked(u, v) == Confirm(u, v)

\* The Accept button and the status "accepted" of the REST interface: the
\* request must still be there, and nothing else is asked.
Accept(u, v) == <<u, v>> \in requests /\ Confirm(u, v)

\* Asking somebody who has asked already accepts their request.
SendRequest(u, v) ==
  IF <<v, u>> \in requests THEN Confirm(v, u) ELSE CreateRequest(u, v)

\* The Cancel and Reject buttons.
RemoveRequest(u, v) ==
  /\ <<u, v>> \in requests
  /\ requests' = requests \ {<<u, v>>}
  /\ UNCHANGED <<submissions, partner, accepting>>

\* The status "canceled" of the REST interface removes both directions.
CancelRequests(u, v) ==
  /\ requests' = requests \ {<<u, v>>, <<v, u>>}
  /\ UNCHANGED <<submissions, partner, accepting>>

\* DELETE of a submission, by any owner while in its submit period.
DeleteSubmission(s, u) ==
  /\ u \in Admins \/ (u \in Owners(s) /\ s.open)
  /\ submissions' = submissions \ {s}
  /\ UNCHANGED <<requests, partner, accepting>>

-----------------------------------------------------------------------------
(* Administrators and the calendar.                                        *)

\* "Make it so": an administrator names a partner for the submission's owner.
\* The field is shown while the assignment allows partners; a page drawn before
\* that changed still has it, and confirm does not ask.
AdminJoin(s, v) == s.user2 = None /\ Confirm(s.user1, v)

\* Mutant: the second owner is read after having been cleared.
DivorceClearingFirst(s) ==
  /\ s.user2 # None
  /\ submissions' = (submissions \ {s}) \cup
                      {[s EXCEPT !.user2 = None],
                       [user1 |-> None, user2 |-> None, open |-> accepting]}
  /\ UNCHANGED <<requests, partner, accepting>>

\* The second owner leaves with a submission of their own.  The X button is shown
\* while the submission is open or extended, but clearing "owner2" over REST,
\* which ends in the same call, asks for nothing.
Divorce(s) ==
  /\ s.user2 # None
  /\ submissions' = (submissions \ {s}) \cup
                      {[s EXCEPT !.user2 = None],
                       [user1 |-> s.user2, user2 |-> None, open |-> accepting]}
  /\ UNCHANGED <<requests, partner, accepting>>

\* Removing an account takes the submissions it owns first and its requests
\* along; where it is the second owner, the first stays.
DeleteUser(u) ==
  /\ submissions' = {IF s.user2 = u THEN [s EXCEPT !.user2 = None] ELSE s :
                       s \in {t \in submissions : t.user1 # u}}
  /\ requests' = requests \ Involving(u)
  /\ UNCHANGED <<partner, accepting>>

AdminSetPartner ==
  /\ partner' = ~partner
  /\ UNCHANGED <<submissions, requests, accepting>>

\* Time passes, or somebody moves a date or starts a self evaluation
\* (module Deadlines says when a submission is in its submit period).
Calendar ==
  /\ UNCHANGED <<requests, partner>>
  /\ \/ accepting' = ~accepting /\ submissions' = submissions
     \/ /\ accepting' = accepting
        /\ \E s \in submissions :
             submissions' = (submissions \ {s}) \cup {[s EXCEPT !.open = ~s.open]}

Next ==
  \/ \E u \in Users : FindOrCreate(u) \/ DeleteUser(u)
  \/ \E u, v \in Users :
       \/ SendRequest(u, v)
       \/ Accept(u, v)
       \/ RemoveRequest(u, v)
       \/ CancelRequests(u, v)
  \/ \E s \in submissions, u \in Users : DeleteSubmission(s, u) \/ AdminJoin(s, u)
  \/ \E s \in submissions : Divorce(s)
  \/ AdminSetPartner
  \/ Calendar

Spec == Init /\ [][Next]_vars

-----------------------------------------------------------------------------
(* Properties.                                                             *)

TypeOK ==
  /\ submissions \subseteq Submissions
  /\ requests \subseteq Users \X Users
  /\ partner \in BOOLEAN /\ accepting \in BOOLEAN

\* Nobody owns two submissions to an assignment, alone or with a partner: no
\* constraint of the database says so, only the order of the code's checks.
OneSubmissionEach ==
  \A s, t \in submissions : Owners(s) \cap Owners(t) # {} => s = t

\* Nobody is their own partner, and joint submissions list their owners in
\* alphabetical order, whoever asked and whoever joined them.
OwnersInOrder ==
  \A s \in submissions : s.user2 # None => s.user1 < s.user2

\* A user has at most one outgoing request, and two users never have requests
\* to each other: the finders that return a single row rely on it.
RequestsDistinct ==
  \A q, r \in requests :
    /\ q[1] = r[1] => q = r
    /\ q # <<r[2], r[1]>>

\* No request to or from somebody who has found a partner outlives the joining:
\* accepting it could only fail.
PartneredUsersUnasked ==
  \A r \in requests, s \in submissions : s.user2 # None =>
    Owners(s) \cap {r[1], r[2]} = {}

\* Whatever users ask of each other, two of them become partners only when one
\* had asked before and the other agrees.
PartnersByConsent ==
  [][(\E u, v \in Users : SendRequest(u, v) \/ Accept(u, v)) =>
       \A t \in submissions' :
         /\ t.user2 # None
         /\ \A s \in submissions : Owners(s) # Owners(t)
         => {<<t.user1, t.user2>>, <<t.user2, t.user1>>} \cap requests # {}]_vars
=============================================================================
