------------------------- MODULE Partnership_proofs -------------------------
(***************************************************************************)
(* What module Partnership promises, proved for any number of users.       *)
(***************************************************************************)
EXTENDS Partnership, TLAPS

\* A set of submissions in which every user has at most one, and owners are in
\* alphabetical order.
Tidy(subs) ==
  /\ subs \subseteq Submissions
  /\ \A s, t \in subs : Owners(s) \cap Owners(t) # {} => s = t
  /\ \A s \in subs : s.user2 # None => s.user1 < s.user2

\* Requests that are distinct, and none of which involves a partnered user.
Waiting(subs, reqs) ==
  /\ reqs \subseteq Users \X Users
  /\ \A q, r \in reqs : (q[1] = r[1] => q = r) /\ q # <<r[2], r[1]>>
  /\ \A r \in reqs, s \in subs :
       s.user2 # None => Owners(s) \cap {r[1], r[2]} = {}

IInv ==
  /\ Tidy(submissions)
  /\ Waiting(submissions, requests)
  /\ partner \in BOOLEAN /\ accepting \in BOOLEAN

LEMMA IInvImplies ==
  IInv => /\ TypeOK /\ OneSubmissionEach /\ OwnersInOrder
          /\ RequestsDistinct /\ PartneredUsersUnasked
  BY DEF IInv, Tidy, Waiting, TypeOK, OneSubmissionEach, OwnersInOrder,
    RequestsDistinct, PartneredUsersUnasked

-----------------------------------------------------------------------------
(* Finding and creating submissions.                                       *)

\* Making sure that a user has a submission keeps the set tidy, and creates no
\* partnership.
LEMMA WithSubmissionOK ==
  ASSUME NEW subs, Tidy(subs), NEW u \in Users, accepting \in BOOLEAN
  PROVE  /\ Tidy(WithSubmission(subs, u))
         /\ subs \subseteq WithSubmission(subs, u)
         /\ \E s \in WithSubmission(subs, u) : u \in Owners(s)
         /\ \A s \in WithSubmission(subs, u) : s.user2 # None => s \in subs
<1>1. CASE OwnedBy(subs, u) # {}
  BY <1>1 DEF WithSubmission, OwnedBy
<1>2. CASE OwnedBy(subs, u) = {}
  <2> DEFINE new == [user1 |-> u, user2 |-> None, open |-> accepting]
  <2>1. WithSubmission(subs, u) = subs \cup {new}
    BY <1>2 DEF WithSubmission
  <2>2. new \in Submissions /\ Owners(new) = {u} /\ new.user2 = None
    BY UsersAssumption DEF Submissions, Owners
  <2>3. \A s \in subs : u \notin Owners(s)
    BY <1>2 DEF OwnedBy
  <2> HIDE DEF new
  <2> QED BY <2>1, <2>2, <2>3 DEF Tidy
<1> QED BY <1>1, <1>2

\* The submission found for a user is one of theirs.
LEMMA SubmissionOfOK ==
  ASSUME NEW subs, NEW u, \E s \in subs : u \in Owners(s)
  PROVE  SubmissionOf(subs, u) \in subs /\ u \in Owners(SubmissionOf(subs, u))
  BY DEF SubmissionOf

\* Creating submissions does not disturb the requests.
LEMMA StillWaiting ==
  ASSUME NEW subs, NEW more, NEW reqs, Waiting(subs, reqs),
         \A s \in more : s.user2 # None => s \in subs
  PROVE  Waiting(more, reqs)
  BY DEF Waiting

LEMMA FewerRequests ==
  ASSUME NEW subs, NEW reqs, Waiting(subs, reqs), NEW fewer \in SUBSET reqs
  PROVE  Waiting(subs, fewer)
  BY DEF Waiting

-----------------------------------------------------------------------------
(* Each action preserves the invariant.                                    *)

LEMMA FindOrCreateStep ==
  ASSUME IInv, NEW u \in Users, FindOrCreate(u)
  PROVE  IInv'
<1>1. /\ Tidy(submissions') /\ Waiting(submissions', requests)
      /\ requests' = requests /\ partner' = partner /\ accepting' = accepting
  BY WithSubmissionOK, StillWaiting DEF FindOrCreate, IInv
<1> QED BY <1>1 DEF IInv, Tidy, Waiting, Owners

LEMMA CreateRequestStep ==
  ASSUME IInv, NEW u \in Users, NEW v \in Users, CreateRequest(u, v)
  PROVE  IInv'
<1> DEFINE mine   == WithSubmission(submissions, u)
           both   == WithSubmission(mine, v)
           myTurn == /\ ~HasPartner(mine, u)
                     /\ <<u, v>> \notin requests /\ <<v, u>> \notin requests
                     /\ CanSubmit(mine, u)
                     /\ v \in Students
           yours  == /\ ~HasPartner(both, v) /\ CanSubmit(both, v)
                     /\ Outgoing(u) = {}
<1>1. /\ Tidy(mine) /\ \E s \in mine : u \in Owners(s)
      /\ \A s \in mine : s.user2 # None => s \in submissions
  BY WithSubmissionOK DEF IInv
<1>2. /\ Tidy(both) /\ mine \subseteq both /\ \E s \in both : v \in Owners(s)
      /\ \A s \in both : s.user2 # None => s \in mine
  BY <1>1, WithSubmissionOK DEF IInv
<1>3. Waiting(mine, requests) /\ Waiting(both, requests)
  BY <1>1, <1>2, StillWaiting DEF IInv
<1>4. /\ submissions' = IF myTurn THEN both ELSE mine
      /\ requests' = IF myTurn /\ yours THEN requests \cup {<<u, v>>} ELSE requests
      /\ u # v /\ partner' = partner /\ accepting' = accepting
  BY DEF CreateRequest
<1>5. ASSUME myTurn, yours
      PROVE  Waiting(both, requests \cup {<<u, v>>})
  <2>1. /\ SubmissionOf(mine, u) \in mine /\ u \in Owners(SubmissionOf(mine, u))
        /\ SubmissionOf(mine, u).user2 = None
    BY <1>1, <1>5, SubmissionOfOK DEF HasPartner
  <2>2. /\ SubmissionOf(both, v) \in both /\ v \in Owners(SubmissionOf(both, v))
        /\ SubmissionOf(both, v).user2 = None
    BY <1>2, <1>5, SubmissionOfOK DEF HasPartner
  <2>3. ASSUME NEW s \in both, s.user2 # None
        PROVE  u \notin Owners(s) /\ v \notin Owners(s)
    BY <1>2, <2>1, <2>2, <2>3 DEF Tidy
  <2>4. \A r \in requests : r[1] # u /\ r # <<v, u>>
    BY <1>5 DEF Outgoing
  <2> HIDE DEF both, mine
  <2> QED BY <1>3, <1>4, <2>3, <2>4 DEF Waiting
<1> HIDE DEF mine, both, myTurn, yours
<1>6. Tidy(submissions') /\ Waiting(submissions', requests')
  BY <1>1, <1>2, <1>3, <1>4, <1>5
<1> QED BY <1>4, <1>6 DEF IInv, Tidy, Waiting, Owners

LEMMA ConfirmStep ==
  ASSUME IInv, NEW u \in Users, NEW v \in Users, Confirm(u, v)
  PROVE  IInv'
<1> DEFINE a    == First(u, v)
           b    == Second(u, v)
           both == WithSubmission(WithSubmission(submissions, u), v)
           keep == SubmissionOf(both, a)
           kill == SubmissionOf(both, b)
           join == [keep EXCEPT !.user2 = kill.user1]
           reqs == requests \ (Involving(u) \cup Involving(v))
<1>1. /\ Tidy(both)
      /\ \E s \in both : u \in Owners(s)
      /\ \E s \in both : v \in Owners(s)
      /\ \A s \in both : s.user2 # None => s \in submissions
  BY WithSubmissionOK DEF IInv
<1>2. /\ a \in Users /\ b \in Users /\ {a, b} = {u, v}
      /\ u # v => a < b
  BY UsersAssumption DEF First, Second, Users
<1>3. /\ keep.user2 = None /\ kill.user2 = None /\ keep.user1 # kill.user1
      /\ submissions' = (both \ {keep, kill}) \cup {join}
      /\ requests' = reqs
      /\ partner' = partner /\ accepting' = accepting
  BY DEF Confirm
<1>4. /\ keep \in both /\ a \in Owners(keep)
      /\ kill \in both /\ b \in Owners(kill)
  BY <1>1, <1>2, SubmissionOfOK
<1> HIDE DEF both, keep, kill, a, b
<1>5. /\ keep.user1 = a /\ kill.user1 = b
      /\ Owners(keep) = {a} /\ Owners(kill) = {b}
  BY <1>2, <1>3, <1>4, UsersAssumption DEF Owners
<1>6. join \in Submissions /\ join.user1 = a /\ join.user2 = b /\ a < b
  BY <1>1, <1>2, <1>3, <1>4, <1>5 DEF Tidy, Submissions
<1> HIDE DEF join
<1>7. Owners(join) = {a, b}
  BY <1>2, <1>6, UsersAssumption DEF Owners
<1>8. Tidy(submissions')
  <2>1. submissions' \subseteq Submissions
    BY <1>1, <1>3, <1>6 DEF Tidy
  <2>2. ASSUME NEW s \in both, s \notin {keep, kill}
        PROVE  Owners(s) \cap {a, b} = {}
    BY <1>1, <1>4, <1>5, <2>2 DEF Tidy
  <2>3. \A s, t \in submissions' : Owners(s) \cap Owners(t) # {} => s = t
    BY <1>1, <1>3, <1>7, <2>2 DEF Tidy
  <2>4. \A s \in submissions' : s.user2 # None => s.user1 < s.user2
    BY <1>1, <1>3, <1>6 DEF Tidy
  <2> QED BY <2>1, <2>3, <2>4 DEF Tidy
<1>9. Waiting(submissions', requests')
  <2>1. Waiting(both, requests)
    BY <1>1, StillWaiting DEF IInv
  <2>2. Waiting(both, reqs)
    BY <2>1, FewerRequests
  <2>3. \A r \in reqs : {r[1], r[2]} \cap {a, b} = {}
    BY <1>2 DEF Involving
  <2>4. \A r \in reqs, s \in submissions' :
          s.user2 # None => Owners(s) \cap {r[1], r[2]} = {}
    BY <1>3, <1>7, <2>2, <2>3 DEF Waiting
  <2> QED BY <1>3, <2>2, <2>4 DEF Waiting
<1> QED BY <1>3, <1>8, <1>9 DEF IInv, Tidy, Waiting, Owners

LEMMA DropRequests ==
  ASSUME IInv, requests' \subseteq requests, UNCHANGED <<submissions, partner, accepting>>
  PROVE  IInv'
<1>1. Waiting(submissions, requests')
  BY FewerRequests DEF IInv
<1> QED BY <1>1 DEF IInv, Tidy, Waiting, Owners

LEMMA DeleteSubmissionStep ==
  ASSUME IInv, NEW s \in submissions, NEW u \in Users, DeleteSubmission(s, u)
  PROVE  IInv'
  BY DEF DeleteSubmission, IInv, Tidy, Waiting, Owners

LEMMA DivorceStep ==
  ASSUME IInv, NEW s \in submissions, Divorce(s)
  PROVE  IInv'
<1> DEFINE mine == [s EXCEPT !.user2 = None]
           new  == [user1 |-> s.user2, user2 |-> None, open |-> accepting]
<1>1. /\ s \in Submissions /\ s.user1 \in Users /\ s.user2 \in Users
      /\ s.user1 # s.user2 /\ None \notin Users
  BY UsersAssumption DEF Divorce, IInv, Tidy, Submissions, Users
<1>2. /\ mine \in Submissions /\ new \in Submissions
      /\ mine.user1 = s.user1 /\ mine.user2 = None
      /\ new.user1 = s.user2 /\ new.user2 = None
  BY <1>1 DEF Submissions, IInv
<1>3. submissions' = (submissions \ {s}) \cup {mine, new}
  BY DEF Divorce
<1> HIDE DEF mine, new
<1>4. /\ Owners(mine) = {s.user1} /\ Owners(new) = {s.user2}
      /\ Owners(s) = {s.user1, s.user2}
  BY <1>1, <1>2 DEF Owners
<1>5. Tidy(submissions')
  <2>1. submissions' \subseteq Submissions
    BY <1>2, <1>3 DEF IInv, Tidy
  <2>2. \A t \in submissions \ {s} : Owners(t) \cap {s.user1, s.user2} = {}
    BY <1>4 DEF IInv, Tidy
  <2>3. \A t \in submissions \ {s} : Owners(t) \cap Owners(mine) = {} /\ Owners(t) \cap Owners(new) = {}
    BY <1>4, <2>2
  <2>4. \A t, w \in submissions \ {s} : Owners(t) \cap Owners(w) # {} => t = w
    BY DEF IInv, Tidy
  <2>5. Owners(mine) \cap Owners(new) = {}
    BY <1>1, <1>4
  <2>6. \A t, w \in submissions' : Owners(t) \cap Owners(w) # {} => t = w
    BY <1>3, <2>3, <2>4, <2>5
  <2>7. \A t \in submissions' : t.user2 # None => t.user1 < t.user2
    BY <1>2, <1>3 DEF IInv, Tidy
  <2> QED BY <2>1, <2>6, <2>7 DEF Tidy
<1>6. Waiting(submissions', requests)
  BY <1>2, <1>3, StillWaiting DEF IInv
<1> QED BY <1>5, <1>6 DEF Divorce, IInv, Tidy, Waiting, Owners

LEMMA DeleteUserStep ==
  ASSUME IInv, NEW u \in Users, DeleteUser(u)
  PROVE  IInv'
<1> DEFINE Left(s) == IF s.user2 = u THEN [s EXCEPT !.user2 = None] ELSE s
<1>1. submissions' = {Left(s) : s \in {t \in submissions : t.user1 # u}}
  BY DEF DeleteUser
<1>2. ASSUME NEW s \in submissions
      PROVE  /\ Left(s) \in Submissions
             /\ Left(s).user1 = s.user1
             /\ Owners(Left(s)) \subseteq Owners(s)
             /\ Left(s).user2 # None => Left(s) = s
  BY UsersAssumption DEF IInv, Tidy, Submissions, Owners
<1> HIDE DEF Left
<1>3. Tidy(submissions')
  <2>1. submissions' \subseteq Submissions
    BY <1>1, <1>2
  <2>2. ASSUME NEW s \in submissions, NEW t \in submissions,
               Owners(Left(s)) \cap Owners(Left(t)) # {}
        PROVE  s = t
    BY <1>2, <2>2 DEF IInv, Tidy
  <2>3. \A s, t \in submissions' : Owners(s) \cap Owners(t) # {} => s = t
    BY <1>1, <2>2
  <2>4. \A s \in submissions' : s.user2 # None => s.user1 < s.user2
    BY <1>1, <1>2 DEF IInv, Tidy
  <2> QED BY <2>1, <2>3, <2>4 DEF Tidy
<1>4. \A s \in submissions' : s.user2 # None => s \in submissions
  BY <1>1, <1>2
<1>5. Waiting(submissions', requests) /\ requests' \subseteq requests
  BY <1>4, StillWaiting DEF DeleteUser, IInv
<1>6. Waiting(submissions', requests')
  BY <1>5, FewerRequests
<1> QED BY <1>3, <1>6 DEF DeleteUser, IInv, Tidy, Waiting, Owners

LEMMA CalendarStep ==
  ASSUME IInv, Calendar
  PROVE  IInv'
<1>1. CASE submissions' = submissions
  BY <1>1 DEF Calendar, IInv, Tidy, Waiting, Owners
<1>2. ASSUME NEW s \in submissions,
             submissions' = (submissions \ {s}) \cup {[s EXCEPT !.open = ~s.open]},
             accepting' = accepting
      PROVE  IInv'
  <2> DEFINE new == [s EXCEPT !.open = ~s.open]
  <2>1. /\ new \in Submissions /\ new.user1 = s.user1 /\ new.user2 = s.user2
        /\ Owners(new) = Owners(s)
    BY DEF IInv, Tidy, Submissions, Owners
  <2> HIDE DEF new
  <2>2. submissions' = (submissions \ {s}) \cup {new}
    BY <1>2 DEF new
  <2>3. Tidy(submissions')
    BY <2>1, <2>2 DEF IInv, Tidy
  <2>4. Waiting(submissions', requests)
    BY <2>1, <2>2 DEF IInv, Waiting
  <2> QED BY <1>2, <2>3, <2>4 DEF Calendar, IInv, Tidy, Waiting, Owners
<1> QED BY <1>1, <1>2 DEF Calendar

LEMMA InitOK == Init => IInv
  BY DEF Init, IInv, Tidy, Waiting

LEMMA StepOK == IInv /\ [Next]_vars => IInv'
<1> SUFFICES ASSUME IInv, [Next]_vars PROVE IInv'
  OBVIOUS
<1>1. ASSUME NEW u \in Users, FindOrCreate(u) \/ DeleteUser(u)
      PROVE  IInv'
  BY <1>1, FindOrCreateStep, DeleteUserStep
<1>2. ASSUME NEW u \in Users, NEW v \in Users, SendRequest(u, v) \/ Accept(u, v)
      PROVE  IInv'
  BY <1>2, CreateRequestStep, ConfirmStep DEF SendRequest, Accept
<1>3. ASSUME NEW u \in Users, NEW v \in Users, RemoveRequest(u, v) \/ CancelRequests(u, v)
      PROVE  IInv'
  BY <1>3, DropRequests DEF RemoveRequest, CancelRequests
<1>4. ASSUME NEW s \in submissions, NEW u \in Users, DeleteSubmission(s, u)
      PROVE  IInv'
  BY <1>4, DeleteSubmissionStep
<1>5. ASSUME NEW s \in submissions, NEW u \in Users, AdminJoin(s, u)
      PROVE  IInv'
  <2>1. s.user1 \in Users
    BY DEF IInv, Tidy, Submissions
  <2> QED BY <1>5, <2>1, ConfirmStep DEF AdminJoin
<1>6. ASSUME NEW s \in submissions, Divorce(s)
      PROVE  IInv'
  BY <1>6, DivorceStep
<1>7. CASE AdminSetPartner
  BY <1>7 DEF AdminSetPartner, IInv, Tidy, Waiting, Owners
<1>8. CASE Calendar
  BY <1>8, CalendarStep
<1>9. CASE UNCHANGED vars
  BY <1>9 DEF vars, IInv, Tidy, Waiting, Owners
<1> QED BY <1>1, <1>2, <1>3, <1>4, <1>5, <1>6, <1>7, <1>8, <1>9 DEF Next

LEMMA Invariance == Spec => []IInv
  BY InitOK, StepOK, PTL DEF Spec

-----------------------------------------------------------------------------
(* The theorems.                                                           *)

\* Submissions and requests are sets of what the tables can hold.
THEOREM TypeCorrect == Spec => []TypeOK
  BY Invariance, IInvImplies, PTL

\* No user ever owns two submissions to an assignment.
THEOREM OneSubmissionPerUser == Spec => []OneSubmissionEach
  BY Invariance, IInvImplies, PTL

\* Joint submissions list two different owners in alphabetical order.
THEOREM OwnersAreOrdered == Spec => []OwnersInOrder
  BY Invariance, IInvImplies, PTL

\* The finders that expect a single request find at most one.
THEOREM RequestsAreDistinct == Spec => []RequestsDistinct
  BY Invariance, IInvImplies, PTL

\* Nobody who has a partner has requests left to answer.
THEOREM PartneredAreUnasked == Spec => []PartneredUsersUnasked
  BY Invariance, IInvImplies, PTL

\* A new pair of owners comes from Confirm alone.
LEMMA NewPair ==
  ASSUME IInv, NEW u \in Users, NEW v \in Users, Confirm(u, v),
         NEW t \in submissions', t.user2 # None,
         \A s \in submissions : Owners(s) # Owners(t)
  PROVE  {t.user1, t.user2} = {u, v}
<1> DEFINE both == WithSubmission(WithSubmission(submissions, u), v)
           keep == SubmissionOf(both, First(u, v))
           kill == SubmissionOf(both, Second(u, v))
<1>1. /\ \E s \in both : u \in Owners(s)
      /\ \E s \in both : v \in Owners(s)
      /\ \A s \in both : s.user2 # None => s \in submissions
      /\ Tidy(both)
  BY WithSubmissionOK DEF IInv
<1>2. /\ First(u, v) \in {u, v} /\ Second(u, v) \in {u, v}
      /\ {First(u, v), Second(u, v)} = {u, v}
  BY DEF First, Second
<1>3. /\ keep.user2 = None /\ kill.user2 = None
      /\ submissions' = (both \ {keep, kill}) \cup {[keep EXCEPT !.user2 = kill.user1]}
  BY DEF Confirm
<1>4. /\ keep \in both /\ First(u, v) \in Owners(keep)
      /\ kill \in both /\ Second(u, v) \in Owners(kill)
  BY <1>1, <1>2, SubmissionOfOK
<1> HIDE DEF both, keep, kill
<1>5. keep.user1 = First(u, v) /\ kill.user1 = Second(u, v)
  BY <1>3, <1>4 DEF Owners
<1>6. t \notin both
  BY <1>1
<1>7. t = [keep EXCEPT !.user2 = kill.user1] /\ keep \in Submissions
  BY <1>1, <1>3, <1>4, <1>6 DEF Tidy
<1>8. t.user1 = First(u, v) /\ t.user2 = Second(u, v)
  BY <1>5, <1>7 DEF Submissions
<1> QED BY <1>2, <1>8

\* Two users who deal with each other come to share a submission only if one of
\* them had asked the other.
THEOREM PartnersConsented == Spec => PartnersByConsent
<1> DEFINE Deal == \E u, v \in Users : SendRequest(u, v) \/ Accept(u, v)
           Agreed == \A t \in submissions' :
             /\ t.user2 # None
             /\ \A s \in submissions : Owners(s) # Owners(t)
             => {<<t.user1, t.user2>>, <<t.user2, t.user1>>} \cap requests # {}
<1>1. ASSUME IInv, IInv', Deal PROVE Agreed
  <2> SUFFICES ASSUME NEW t \in submissions', t.user2 # None,
                      \A s \in submissions : Owners(s) # Owners(t)
               PROVE  <<t.user1, t.user2>> \in requests \/ <<t.user2, t.user1>> \in requests
    OBVIOUS
  <2>1. ASSUME NEW u \in Users, NEW v \in Users, Confirm(u, v), <<u, v>> \in requests
        PROVE  <<t.user1, t.user2>> \in requests \/ <<t.user2, t.user1>> \in requests
    BY <1>1, <2>1, NewPair
  <2>2. ASSUME NEW u \in Users, NEW v \in Users, CreateRequest(u, v) PROVE FALSE
    <3>1. submissions' \in {WithSubmission(submissions, u),
                            WithSubmission(WithSubmission(submissions, u), v)}
      BY <2>2 DEF CreateRequest
    <3>2. /\ Tidy(WithSubmission(submissions, u))
          /\ \A s \in WithSubmission(submissions, u) : s.user2 # None => s \in submissions
      BY <1>1, WithSubmissionOK DEF IInv
    <3>3. \A s \in WithSubmission(WithSubmission(submissions, u), v) :
            s.user2 # None => s \in WithSubmission(submissions, u)
      BY <1>1, <3>2, WithSubmissionOK DEF IInv
    <3> QED BY <3>1, <3>2, <3>3
  <2> QED BY <1>1, <2>1, <2>2 DEF SendRequest, Accept
<1>2. ASSUME IInv, IInv' PROVE [Deal => Agreed]_vars
  BY <1>1, <1>2
<1> QED BY <1>2, Invariance, PTL DEF Spec, PartnersByConsent
=============================================================================
