---------------------------- MODULE Files_proofs ----------------------------
(***************************************************************************)
(* What module Files promises, proved for any students, assignments, names *)
(* and sizes of files: no sequence of uploads, moves, deletions, joins and *)
(* splits leaves a file without its submission, or two files of one name;  *)
(* the quota is kept except in the known ways past it; joining and         *)
(* splitting lose no work; and the rows of the database implement the      *)
(* folders of module Folders.                                              *)
(***************************************************************************)
EXTENDS Files, FiniteSetTheorems, WellFoundedInduction, TLAPS

\* Tables of files in which a name of a submission belongs to one file.
Tidy(fs) ==
  /\ fs \subseteq Row
  /\ \A f, g \in fs : f.sub = g.sub /\ f.name = g.name => f = g

\* Who is the second owner of a submission has no other to that assignment.
PartnersOnce ==
  \A s \in Existing : subs[s].user2 # None =>
    /\ <<subs[s].user2, s[2]>> \in Homework \ Existing
    /\ \A t \in Existing : t[2] = s[2] /\ subs[t].user2 = subs[s].user2 => t = s

IInv ==
  /\ subs \in [Homework -> SubmissionRow \cup {None}]
  /\ Tidy(files)
  /\ \A f \in files : f.sub \in Existing
  /\ DOMAIN page = Students
  /\ \A u \in Students : page[u] # None => page[u].sub \in Existing
  /\ PartnersOnce

-----------------------------------------------------------------------------
(* Tables of files. *)

LEMMA HomeworkPairs ==
  ASSUME NEW s \in Homework
  PROVE  s[1] \in Students /\ s[2] \in Assignments /\ s = <<s[1], s[2]>>
  BY FilesAssumption

LEMMA ClassIsPurpose ==
  ASSUME NEW n
  PROVE  ClassOf(n) \in Purposes
  BY DEF ClassOf, Purposes

LEMMA SubsetTidy ==
  ASSUME NEW fs, Tidy(fs), NEW gs \in SUBSET fs
  PROVE  Tidy(gs)
  BY DEF Tidy

\* A table to which a file is added whose name nobody has.
LEMMA AddTidy ==
  ASSUME NEW fs, Tidy(fs), NEW f \in Row, \A g \in fs : ~(g.sub = f.sub /\ g.name = f.name)
  PROVE  Tidy(fs \cup {f})
  BY DEF Tidy

LEMMA StoredTidy ==
  ASSUME NEW fs, Tidy(fs), NEW u \in Users, NEW s \in Homework, NEW n \in Names,
         NEW bytes \in Sizes
  PROVE  Tidy(Stored(fs, u, s, n, bytes))
<1> DEFINE f == [sub |-> s, name |-> n, by |-> u, bytes |-> bytes, purpose |-> ClassOf(n)]
           rest == fs \ Named(fs, s, n)
<1>1. f \in Row
  BY ClassIsPurpose DEF Row
<1>2. Tidy(rest)
  BY SubsetTidy
<1>3. \A g \in rest : ~(g.sub = f.sub /\ g.name = f.name)
  BY DEF Named
<1> HIDE DEF f, rest
<1>4. Tidy(rest \cup {f})
  BY <1>1, <1>2, <1>3, AddTidy
<1> QED BY <1>4 DEF Stored, f, rest

LEMMA MovedFile ==
  ASSUME NEW f \in Row, NEW t \in Homework, NEW m \in Names, NEW purpose \in Purposes
  PROVE  /\ MovedTo(f, t, m, purpose) \in Row
         /\ MovedTo(f, t, m, purpose).sub = t
         /\ MovedTo(f, t, m, purpose).name = m
         /\ MovedTo(f, t, m, purpose).purpose = purpose
         /\ MovedTo(f, t, m, purpose).by = f.by
         /\ MovedTo(f, t, m, purpose).bytes = f.bytes
<1> DEFINE g1 == [f EXCEPT !.sub = t]
           g2 == [g1 EXCEPT !.name = m]
           g3 == [g2 EXCEPT !.purpose = purpose]
<1>1. /\ g1 \in Row /\ g1.sub = t /\ g1.name = f.name /\ g1.by = f.by
      /\ g1.bytes = f.bytes /\ g1.purpose = f.purpose
  BY DEF Row
<1> HIDE DEF g1
<1>2. /\ g2 \in Row /\ g2.sub = t /\ g2.name = m /\ g2.by = f.by
      /\ g2.bytes = f.bytes /\ g2.purpose = f.purpose
  BY <1>1 DEF Row
<1> HIDE DEF g2
<1>3. /\ g3 \in Row /\ g3.sub = t /\ g3.name = m /\ g3.by = f.by
      /\ g3.bytes = f.bytes /\ g3.purpose = purpose
  BY <1>2 DEF Row
<1> QED BY <1>3 DEF g1, g2, MovedTo

LEMMA MovedTidy ==
  ASSUME NEW fs, Tidy(fs), NEW f \in fs, NEW t \in Homework, NEW m \in Names,
         NEW purpose \in Purposes
  PROVE  Tidy(Moved(fs, f, t, m, purpose))
<1> DEFINE g == MovedTo(f, t, m, purpose)
           rest == (fs \ {f}) \ Named(fs, t, m)
<1>0. f \in Row
  BY DEF Tidy
<1>1. g \in Row /\ g.sub = t /\ g.name = m
  BY <1>0, MovedFile
<1>2. Tidy(rest)
  BY SubsetTidy
<1>3. \A h \in rest : ~(h.sub = t /\ h.name = m)
  BY DEF Named
<1> HIDE DEF g, rest
<1>4. Tidy(rest \cup {g})
  BY <1>1, <1>2, <1>3, AddTidy
<1> QED BY <1>4 DEF Moved, g, rest

-----------------------------------------------------------------------------
(* Tables as folders. *)

LEMMA ContentType ==
  ASSUME NEW f \in Row
  PROVE  ContentOf(f) \in Folder!Content /\ ContentOf(f) # None
<1>1. ContentOf(f) \in [by : Users, bytes : Sizes, cheap : BOOLEAN]
  BY DEF ContentOf, Row
<1> QED BY <1>1, NoneAssumption DEF Folder!Content

\* What is under a name.
LEMMA FolderAt ==
  ASSUME NEW fs, Tidy(fs), NEW s \in Homework, NEW n \in Names
  PROVE  /\ \A f \in fs : f.sub = s /\ f.name = n => FolderFrom(fs)[s][n] = ContentOf(f)
         /\ (\A f \in fs : ~(f.sub = s /\ f.name = n)) => FolderFrom(fs)[s][n] = None
<1>1. ASSUME NEW f \in fs, f.sub = s, f.name = n
      PROVE  FolderFrom(fs)[s][n] = ContentOf(f)
  <2>1. Named(fs, s, n) = {f}
    BY <1>1 DEF Named, Tidy
  <2> QED BY <2>1 DEF FolderFrom
<1>2. ASSUME \A f \in fs : ~(f.sub = s /\ f.name = n)
      PROVE  FolderFrom(fs)[s][n] = None
  BY <1>2 DEF FolderFrom, Named
<1> QED BY <1>1, <1>2

LEMMA FolderType ==
  ASSUME NEW fs, Tidy(fs)
  PROVE  FolderFrom(fs) \in [Homework -> [Names -> Folder!Content \cup {None}]]
<1>1. ASSUME NEW s \in Homework, NEW n \in Names
      PROVE  FolderFrom(fs)[s][n] \in Folder!Content \cup {None}
  <2>1. CASE \E f \in fs : f.sub = s /\ f.name = n
    BY <2>1, FolderAt, ContentType DEF Tidy
  <2>2. CASE ~\E f \in fs : f.sub = s /\ f.name = n
    BY <2>2, FolderAt
  <2> QED BY <2>1, <2>2
<1> QED BY <1>1 DEF FolderFrom

\* Folders are the same when every name leads to the same.
LEMMA Extensional ==
  ASSUME NEW T, NEW F \in [Homework -> [Names -> T]], NEW G \in [Homework -> [Names -> T]],
         \A s \in Homework, n \in Names : F[s][n] = G[s][n]
  PROVE  F = G
<1>1. ASSUME NEW s \in Homework
      PROVE  F[s] = G[s]
  <2>1. F[s] \in [Names -> T] /\ G[s] \in [Names -> T]
    OBVIOUS
  <2> QED BY <2>1
<1> QED BY <1>1

\* A name leads to the same in two tables with the same file of that name.
LEMMA SameAt ==
  ASSUME NEW fs, Tidy(fs), NEW gs, Tidy(gs), NEW s \in Homework, NEW n \in Names,
         \A g \in Row : g.sub = s /\ g.name = n => (g \in gs <=> g \in fs)
  PROVE  FolderFrom(gs)[s][n] = FolderFrom(fs)[s][n]
<1>1. CASE \E g \in fs : g.sub = s /\ g.name = n
  <2>1. PICK g \in fs : g.sub = s /\ g.name = n
    BY <1>1
  <2>2. g \in gs
    BY <2>1 DEF Tidy
  <2> QED BY <2>1, <2>2, FolderAt
<1>2. CASE ~\E g \in fs : g.sub = s /\ g.name = n
  BY <1>2, FolderAt DEF Tidy
<1> QED BY <1>1, <1>2

LEMMA StoredPuts ==
  ASSUME NEW fs, Tidy(fs), NEW u \in Users, NEW s \in Homework, NEW n \in Names,
         NEW bytes \in Sizes
  PROVE  \E c \in Folder!Content :
           FolderFrom(Stored(fs, u, s, n, bytes)) = [FolderFrom(fs) EXCEPT ![s][n] = c]
<1> DEFINE f == [sub |-> s, name |-> n, by |-> u, bytes |-> bytes, purpose |-> ClassOf(n)]
           gs == Stored(fs, u, s, n, bytes)
           F == FolderFrom(fs)
           G == [F EXCEPT ![s][n] = ContentOf(f)]
<1>1. f \in Row /\ f.sub = s /\ f.name = n
  BY ClassIsPurpose DEF Row
<1>2. Tidy(gs)
  BY StoredTidy
<1>3. /\ f \in gs
      /\ \A g \in Row : ~(g.sub = s /\ g.name = n) => (g \in gs <=> g \in fs)
  BY <1>1 DEF Stored, Named
<1>4. F \in [Homework -> [Names -> Folder!Content \cup {None}]]
  BY FolderType
<1>5. ContentOf(f) \in Folder!Content
  BY <1>1, ContentType
<1> HIDE DEF f, gs, F
<1>6. G \in [Homework -> [Names -> Folder!Content \cup {None}]]
  BY <1>4, <1>5
<1>7. ASSUME NEW x \in Homework, NEW m \in Names
      PROVE  FolderFrom(gs)[x][m] = G[x][m]
  <2>1. CASE x = s /\ m = n
    BY <1>1, <1>2, <1>3, <1>4, <2>1, FolderAt
  <2>2. CASE ~(x = s /\ m = n)
    <3>1. G[x][m] = F[x][m]
      BY <1>4, <2>2
    <3>2. \A g \in Row : g.sub = x /\ g.name = m => (g \in gs <=> g \in fs)
      BY <1>3, <2>2
    <3> QED BY <1>2, <3>1, <3>2, SameAt DEF F
  <2> QED BY <2>1, <2>2
<1>8. FolderFrom(gs) \in [Homework -> [Names -> Folder!Content \cup {None}]]
  BY <1>2, FolderType
<1>9. FolderFrom(gs) = G
  BY <1>6, <1>7, <1>8, Extensional
<1> QED BY <1>5, <1>9 DEF gs, F

LEMMA RemovedDeletes ==
  ASSUME NEW fs, Tidy(fs), NEW s \in Homework, NEW n \in Names
  PROVE  FolderFrom(fs \ Named(fs, s, n)) = [FolderFrom(fs) EXCEPT ![s][n] = None]
<1> DEFINE gs == fs \ Named(fs, s, n)
           F == FolderFrom(fs)
           G == [F EXCEPT ![s][n] = None]
<1>1. Tidy(gs)
  BY SubsetTidy
<1>2. /\ \A g \in gs : ~(g.sub = s /\ g.name = n)
      /\ \A g \in Row : ~(g.sub = s /\ g.name = n) => (g \in gs <=> g \in fs)
  BY DEF Named
<1>3. /\ F \in [Homework -> [Names -> Folder!Content \cup {None}]]
      /\ FolderFrom(gs) \in [Homework -> [Names -> Folder!Content \cup {None}]]
  BY <1>1, FolderType
<1> HIDE DEF gs, F
<1>4. G \in [Homework -> [Names -> Folder!Content \cup {None}]]
  BY <1>3
<1>5. ASSUME NEW x \in Homework, NEW m \in Names
      PROVE  FolderFrom(gs)[x][m] = G[x][m]
  <2>1. CASE x = s /\ m = n
    BY <1>1, <1>2, <1>3, <2>1, FolderAt
  <2>2. CASE ~(x = s /\ m = n)
    BY <1>1, <1>2, <1>3, <2>2, SameAt DEF F
  <2> QED BY <2>1, <2>2
<1>6. FolderFrom(gs) = G
  BY <1>3, <1>4, <1>5, Extensional
<1> QED BY <1>6 DEF gs, F

LEMMA RemovedDiscards ==
  ASSUME NEW fs, Tidy(fs), NEW s \in Homework
  PROVE  FolderFrom(fs \ Of(fs, s)) = [FolderFrom(fs) EXCEPT ![s] = Folder!Empty]
<1> DEFINE gs == fs \ Of(fs, s)
           F == FolderFrom(fs)
           G == [F EXCEPT ![s] = Folder!Empty]
<1>1. Tidy(gs)
  BY SubsetTidy
<1>2. /\ \A g \in gs : g.sub # s
      /\ \A g \in Row : g.sub # s => (g \in gs <=> g \in fs)
  BY DEF Of
<1>3. /\ F \in [Homework -> [Names -> Folder!Content \cup {None}]]
      /\ FolderFrom(gs) \in [Homework -> [Names -> Folder!Content \cup {None}]]
      /\ Folder!Empty \in [Names -> Folder!Content \cup {None}]
      /\ \A n \in Names : Folder!Empty[n] = None
  BY <1>1, FolderType DEF Folder!Empty
<1> HIDE DEF gs, F
<1>4. G \in [Homework -> [Names -> Folder!Content \cup {None}]]
  BY <1>3
<1>5. ASSUME NEW x \in Homework, NEW m \in Names
      PROVE  FolderFrom(gs)[x][m] = G[x][m]
  <2>1. CASE x = s
    BY <1>1, <1>2, <1>3, <2>1, FolderAt
  <2>2. CASE x # s
    BY <1>1, <1>2, <1>3, <2>2, SameAt DEF F
  <2> QED BY <2>1, <2>2
<1>6. FolderFrom(gs) = G
  BY <1>3, <1>4, <1>5, Extensional
<1> QED BY <1>6 DEF gs, F

LEMMA MovedMoves ==
  ASSUME NEW fs, Tidy(fs), NEW f \in fs, NEW t \in Homework, NEW m \in Names,
         NEW purpose \in Purposes
  PROVE  /\ FolderFrom(fs)[f.sub][f.name] # None
         /\ \E cheap \in BOOLEAN :
              FolderFrom(Moved(fs, f, t, m, purpose)) =
                [FolderFrom(fs) EXCEPT
                   ![f.sub][f.name] = None,
                   ![t][m] = [FolderFrom(fs)[f.sub][f.name] EXCEPT !.cheap = cheap]]
<1> DEFINE s == f.sub
           n == f.name
           g == MovedTo(f, t, m, purpose)
           gs == Moved(fs, f, t, m, purpose)
           F == FolderFrom(fs)
           c == ContentOf(g)
           G == [F EXCEPT ![s][n] = None, ![t][m] = c]
<1>1. f \in Row /\ s \in Homework /\ n \in Names
  BY DEF Tidy, Row
<1>2. /\ g \in Row /\ g.sub = t /\ g.name = m
      /\ g.purpose = purpose /\ g.by = f.by /\ g.bytes = f.bytes
  BY <1>1, MovedFile
<1>3. Tidy(gs)
  BY MovedTidy
<1>4. gs = ((fs \ {f}) \ Named(fs, t, m)) \cup {g}
  BY DEF Moved
<1>5. F[s][n] = ContentOf(f) /\ F[s][n] # None
  BY <1>1, FolderAt, ContentType
<1>6. c = [F[s][n] EXCEPT !.cheap = (purpose = "log")]
  BY <1>2, <1>5 DEF ContentOf
<1>7. /\ F \in [Homework -> [Names -> Folder!Content \cup {None}]]
      /\ FolderFrom(gs) \in [Homework -> [Names -> Folder!Content \cup {None}]]
      /\ c \in Folder!Content
  BY <1>2, <1>3, FolderType, ContentType
<1> HIDE DEF g, gs, F, s, n, c
<1>8. G \in [Homework -> [Names -> Folder!Content \cup {None}]]
  BY <1>7
<1>9. ASSUME NEW x \in Homework, NEW k \in Names
      PROVE  FolderFrom(gs)[x][k] = G[x][k]
  <2>1. CASE x = t /\ k = m
    <3>1. FolderFrom(gs)[x][k] = ContentOf(g)
      BY <1>2, <1>3, <1>4, <2>1, FolderAt
    <3> QED BY <1>1, <1>7, <2>1, <3>1 DEF c
  <2>2. CASE x = s /\ k = n /\ ~(x = t /\ k = m)
    <3>1. \A h \in fs : h.sub = x /\ h.name = k => h = f
      BY <2>2 DEF Tidy, s, n
    <3>2. \A h \in gs : ~(h.sub = x /\ h.name = k)
      BY <1>2, <1>4, <2>2, <3>1
    <3>3. FolderFrom(gs)[x][k] = None
      BY <1>3, <3>2, FolderAt
    <3> QED BY <1>7, <2>2, <3>3
  <2>3. CASE ~(x = s /\ k = n) /\ ~(x = t /\ k = m)
    <3>1. \A h \in Row : h.sub = x /\ h.name = k => (h \in gs <=> h \in fs)
      BY <1>2, <1>4, <2>3 DEF Named, s, n
    <3>2. FolderFrom(gs)[x][k] = F[x][k]
      BY <1>3, <3>1, SameAt DEF F
    <3> QED BY <1>7, <2>3, <3>2
  <2> QED BY <2>1, <2>2, <2>3
<1> HIDE DEF G
<1>10. FolderFrom(gs) = G
  BY <1>7, <1>8, <1>9, Extensional
<1>11. FolderFrom(gs) = [F EXCEPT ![s][n] = None,
                                  ![t][m] = [F[s][n] EXCEPT !.cheap = (purpose = "log")]]
  BY <1>6, <1>10 DEF G
<1>12. (purpose = "log") \in BOOLEAN
  OBVIOUS
<1> QED BY <1>5, <1>11, <1>12 DEF gs, F, s, n

-----------------------------------------------------------------------------
(* Joining and splitting. *)

\* The same file, but perhaps of another submission.
SameFile(g, f) ==
  /\ g \in Row /\ g.name = f.name /\ g.by = f.by /\ g.bytes = f.bytes
  /\ g.purpose = f.purpose /\ ContentOf(g) = ContentOf(f)

\* A file that is taken to another submission stays what it is.
LEMMA TakenFile ==
  ASSUME NEW f \in Row, NEW s \in Homework
  PROVE  LET g == [f EXCEPT !.sub = s]
         IN /\ g \in Row /\ g.sub = s /\ g.name = f.name /\ g.by = f.by
            /\ g.bytes = f.bytes /\ g.purpose = f.purpose /\ ContentOf(g) = ContentOf(f)
<1> DEFINE g == [f EXCEPT !.sub = s]
<1>1. /\ g \in Row /\ g.sub = s /\ g.name = f.name /\ g.by = f.by
      /\ g.bytes = f.bytes /\ g.purpose = f.purpose
  BY DEF Row
<1> QED BY <1>1 DEF ContentOf

\* The files of two submissions that are joined.
LEMMA JoinedFiles ==
  ASSUME Tidy(files), NEW s \in Homework, NEW t \in Homework, s # t
  PROVE  /\ \A g \in Joined(s, t) : \E f \in files \ Shared(s, t) :
              /\ g.sub = IF f.sub = t THEN s ELSE f.sub
              /\ SameFile(g, f)
              /\ f.sub # t => g = f
         /\ \A f \in files \ Shared(s, t) : \E g \in Joined(s, t) :
              /\ g.sub = IF f.sub = t THEN s ELSE f.sub
              /\ SameFile(g, f)
              /\ f.sub # t => g = f
<1> DEFINE Into(f) == [f EXCEPT !.sub = IF @ = t THEN s ELSE @]
<1>1. Joined(s, t) = {Into(f) : f \in files \ Shared(s, t)}
  BY DEF Joined
<1>2. ASSUME NEW f \in files
      PROVE  /\ Into(f).sub = IF f.sub = t THEN s ELSE f.sub
             /\ Into(f) \in Row /\ Into(f).name = f.name /\ Into(f).by = f.by
             /\ Into(f).bytes = f.bytes /\ Into(f).purpose = f.purpose
             /\ ContentOf(Into(f)) = ContentOf(f)
             /\ f.sub # t => Into(f) = f
  <2>1. f \in Row
    BY DEF Tidy
  <2>2. CASE f.sub = t
    <3>1. Into(f) = [f EXCEPT !.sub = s]
      BY <2>2
    <3> HIDE DEF Into
    <3> QED BY <2>1, <2>2, <3>1, TakenFile
  <2>3. CASE f.sub # t
    <3>1. Into(f) = f
      BY <2>1, <2>3 DEF Row
    <3> HIDE DEF Into
    <3> QED BY <2>1, <2>3, <3>1
  <2> QED BY <2>2, <2>3
<1> HIDE DEF Into
<1> QED BY <1>1, <1>2 DEF SameFile

LEMMA JoinedTidy ==
  ASSUME Tidy(files), NEW s \in Homework, NEW t \in Homework, s # t
  PROVE  Tidy(Joined(s, t))
<1>1. Joined(s, t) \subseteq Row
  BY JoinedFiles DEF SameFile
<1>2. ASSUME NEW g \in Joined(s, t), NEW h \in Joined(s, t), g.sub = h.sub, g.name = h.name
      PROVE  g = h
  <2>1. PICK f \in files \ Shared(s, t) :
          /\ g.sub = IF f.sub = t THEN s ELSE f.sub
          /\ SameFile(g, f)
    BY JoinedFiles
  <2>2. PICK e \in files \ Shared(s, t) :
          /\ h.sub = IF e.sub = t THEN s ELSE e.sub
          /\ SameFile(h, e)
    BY JoinedFiles
  <2>3. f.name = e.name
    BY <1>2, <2>1, <2>2 DEF SameFile
  <2>4. f.sub = e.sub
    BY <1>2, <2>1, <2>2, <2>3 DEF Shared, Of, Named
  <2>5. f = e
    BY <2>3, <2>4 DEF Tidy
  <2>6. g \in Row /\ h \in Row
    BY <1>1
  <2>7. /\ g = [sub |-> g.sub, name |-> g.name, by |-> g.by, bytes |-> g.bytes, purpose |-> g.purpose]
        /\ h = [sub |-> h.sub, name |-> h.name, by |-> h.by, bytes |-> h.bytes, purpose |-> h.purpose]
    BY <2>6 DEF Row
  <2> QED BY <1>2, <2>1, <2>2, <2>5, <2>7 DEF SameFile
<1> QED BY <1>1, <1>2 DEF Tidy

LEMMA JoinedMerges ==
  ASSUME Tidy(files), NEW s \in Homework, NEW t \in Homework, s # t, Disjoint(s, t)
  PROVE  LET F == FolderFrom(files)
         IN /\ \A n \in Names : F[s][n] # None /\ F[t][n] # None =>
                 F[s][n].cheap /\ F[t][n].cheap
            /\ FolderFrom(Joined(s, t)) =
                 [F EXCEPT ![s] = [n \in Names |-> IF F[t][n] = None THEN F[s][n]
                                                   ELSE IF F[s][n] = None THEN F[t][n]
                                                   ELSE None],
                           ![t] = Folder!Empty]
<1> DEFINE F == FolderFrom(files)
           gs == Joined(s, t)
           both == [n \in Names |-> IF F[t][n] = None THEN F[s][n]
                                    ELSE IF F[s][n] = None THEN F[t][n] ELSE None]
           G == [F EXCEPT ![s] = both, ![t] = Folder!Empty]
<1>1. Tidy(gs)
  BY JoinedTidy
<1>2. /\ F \in [Homework -> [Names -> Folder!Content \cup {None}]]
      /\ FolderFrom(gs) \in [Homework -> [Names -> Folder!Content \cup {None}]]
  BY <1>1, FolderType
<1>3. /\ Folder!Empty \in [Names -> Folder!Content \cup {None}]
      /\ \A n \in Names : Folder!Empty[n] = None
  BY DEF Folder!Empty
<1>4. ASSUME NEW x \in Homework, NEW n \in Names
      PROVE  /\ \A f \in files : f.sub = x /\ f.name = n =>
                  F[x][n] = ContentOf(f) /\ F[x][n] # None
             /\ F[x][n] # None => \E f \in files : f.sub = x /\ f.name = n
  BY FolderAt, ContentType DEF Tidy
<1>5. ASSUME NEW n \in Names, F[s][n] # None, F[t][n] # None
      PROVE  F[s][n].cheap /\ F[t][n].cheap
  <2>1. PICK f \in files : f.sub = s /\ f.name = n
    BY <1>4, <1>5
  <2>2. PICK g \in files : g.sub = t /\ g.name = n
    BY <1>4, <1>5
  <2>3. f \in Shared(s, t) /\ g \in Shared(s, t)
    BY <2>1, <2>2 DEF Shared, Of, Named
  <2>4. f.purpose = "log" /\ g.purpose = "log"
    BY <2>3 DEF Disjoint
  <2>5. F[s][n] = ContentOf(f) /\ F[t][n] = ContentOf(g)
    BY <1>4, <2>1, <2>2
  <2>6. ContentOf(f).cheap /\ ContentOf(g).cheap
    BY <2>4 DEF ContentOf
  <2> HIDE DEF F
  <2> QED BY <2>5, <2>6
<1> HIDE DEF F, gs
<1>6. both \in [Names -> Folder!Content \cup {None}]
  BY <1>2
<1>7. \A n \in Names : both[n] = IF F[t][n] = None THEN F[s][n]
                                 ELSE IF F[s][n] = None THEN F[t][n] ELSE None
  OBVIOUS
<1> HIDE DEF both
<1>8. G \in [Homework -> [Names -> Folder!Content \cup {None}]]
  BY <1>2, <1>3, <1>6
<1>9. /\ G[t] = Folder!Empty /\ G[s] = both
      /\ \A x \in Homework : x # s /\ x # t => G[x] = F[x]
  BY <1>2
<1> HIDE DEF G
<1>10. ASSUME NEW x \in Homework, NEW n \in Names
       PROVE  FolderFrom(gs)[x][n] = G[x][n]
  <2>1. CASE x = t
    <3>1. \A g \in gs : g.sub # t
      BY JoinedFiles DEF gs, SameFile
    <3> QED BY <1>1, <1>3, <1>9, <2>1, <3>1, FolderAt
  <2>2. CASE x # s /\ x # t
    <3>1. \A f \in files : f.sub = x => f \notin Shared(s, t)
      BY <2>2 DEF Shared, Of
    <3>2. \A g \in Row : g.sub = x /\ g.name = n => (g \in gs <=> g \in files)
      BY <2>2, <3>1, JoinedFiles DEF gs, SameFile
    <3> QED BY <1>1, <1>9, <2>2, <3>2, SameAt DEF F
  <2>3. CASE x = s
    <3>0. G[x][n] = both[n]
      BY <1>9, <2>3
    <3>1. CASE F[t][n] = None
      <4>1. \A f \in files : ~(f.sub = t /\ f.name = n)
        BY <1>4, <3>1
      <4>2. \A f \in files : f.name = n => f \notin Shared(s, t)
        BY <4>1 DEF Shared, Named
      <4>3. \A g \in Row : g.sub = s /\ g.name = n => (g \in gs <=> g \in files)
        BY <4>1, <4>2, JoinedFiles DEF gs, SameFile
      <4>4. FolderFrom(gs)[s][n] = F[s][n]
        BY <1>1, <4>3, SameAt DEF F
      <4> QED BY <1>7, <2>3, <3>0, <3>1, <4>4
    <3>2. CASE F[t][n] # None /\ F[s][n] = None
      <4>1. \A f \in files : ~(f.sub = s /\ f.name = n)
        BY <1>4, <3>2
      <4>2. PICK f \in files : f.sub = t /\ f.name = n
        BY <1>4, <3>2
      <4>3. f \notin Shared(s, t)
        BY <4>1, <4>2 DEF Shared, Named
      <4>4. PICK g \in gs : g.sub = s /\ g.name = n /\ ContentOf(g) = ContentOf(f)
        BY <4>2, <4>3, JoinedFiles DEF gs, SameFile
      <4>5. FolderFrom(gs)[s][n] = ContentOf(f)
        BY <1>1, <4>4, FolderAt
      <4>6. F[t][n] = ContentOf(f)
        BY <1>4, <4>2
      <4> QED BY <1>7, <2>3, <3>0, <3>2, <4>5, <4>6
    <3>3. CASE F[t][n] # None /\ F[s][n] # None
      <4>1. PICK f \in files : f.sub = s /\ f.name = n
        BY <1>4, <3>3
      <4>2. PICK e \in files : e.sub = t /\ e.name = n
        BY <1>4, <3>3
      <4>3. \A h \in files : h.name = n /\ (h.sub = s \/ h.sub = t) => h \in Shared(s, t)
        BY <4>1, <4>2 DEF Shared, Of, Named
      <4>4. \A g \in gs : ~(g.sub = s /\ g.name = n)
        BY <4>3, JoinedFiles DEF gs, SameFile
      <4>5. FolderFrom(gs)[s][n] = None
        BY <1>1, <4>4, FolderAt
      <4> QED BY <1>7, <2>3, <3>0, <3>3, <4>5
    <3> QED BY <3>1, <3>2, <3>3
  <2> QED BY <2>1, <2>2, <2>3
<1>11. FolderFrom(gs) = G
  BY <1>2, <1>8, <1>10, Extensional
<1> QED BY <1>5, <1>11 DEF G, F, gs, both

\* The files of a submission that is split.
LEMMA GivenBackFiles ==
  ASSUME Tidy(files), NEW s \in Homework, NEW v, NEW t \in Homework,
         t = <<v, s[2]>>, t # s, Of(files, t) = {}
  PROVE     /\ \A g \in GivenBack(s, v) : \E f \in files :
                 /\ g.sub = IF f.sub = s /\ f.by = v THEN t ELSE f.sub
                 /\ SameFile(g, f)
                 /\ ~(f.sub = s /\ f.by = v) => g = f
            /\ \A f \in files : \E g \in GivenBack(s, v) :
                 /\ g.sub = IF f.sub = s /\ f.by = v THEN t ELSE f.sub
                 /\ SameFile(g, f)
                 /\ ~(f.sub = s /\ f.by = v) => g = f
<1> DEFINE Back(f) == IF f.sub = s /\ f.by = v THEN [f EXCEPT !.sub = t] ELSE f
<1>1. GivenBack(s, v) = {Back(f) : f \in files}
  BY DEF GivenBack
<1>3. ASSUME NEW f \in files
      PROVE  /\ Back(f).sub = IF f.sub = s /\ f.by = v THEN t ELSE f.sub
             /\ Back(f) \in Row /\ Back(f).name = f.name /\ Back(f).by = f.by
             /\ Back(f).bytes = f.bytes /\ Back(f).purpose = f.purpose
             /\ ContentOf(Back(f)) = ContentOf(f)
             /\ ~(f.sub = s /\ f.by = v) => Back(f) = f
  <2>1. f \in Row
    BY DEF Tidy
  <2>2. CASE f.sub = s /\ f.by = v
    <3>1. Back(f) = [f EXCEPT !.sub = t]
      BY <2>2
    <3> HIDE DEF Back
    <3> QED BY <2>1, <2>2, <3>1, TakenFile
  <2>3. CASE ~(f.sub = s /\ f.by = v)
    BY <2>1, <2>3
  <2> QED BY <2>2, <2>3
<1> HIDE DEF Back
<1>4. /\ \A g \in GivenBack(s, v) : \E f \in files :
           /\ g.sub = IF f.sub = s /\ f.by = v THEN t ELSE f.sub
           /\ SameFile(g, f)
           /\ ~(f.sub = s /\ f.by = v) => g = f
      /\ \A f \in files : \E g \in GivenBack(s, v) :
           /\ g.sub = IF f.sub = s /\ f.by = v THEN t ELSE f.sub
           /\ SameFile(g, f)
           /\ ~(f.sub = s /\ f.by = v) => g = f
  BY <1>1, <1>3 DEF SameFile
<1> QED BY <1>4

LEMMA GivenBackTidy ==
  ASSUME Tidy(files), NEW s \in Homework, NEW v, NEW t \in Homework,
         t = <<v, s[2]>>, t # s, Of(files, t) = {}
  PROVE  Tidy(GivenBack(s, v))
<1>1. GivenBack(s, v) \subseteq Row
  BY GivenBackFiles DEF SameFile
<1>0. \A g \in GivenBack(s, v) : \E f \in files :
        /\ g.sub = IF f.sub = s /\ f.by = v THEN t ELSE f.sub
        /\ SameFile(g, f)
  BY GivenBackFiles
<1>2. ASSUME NEW g \in GivenBack(s, v), NEW h \in GivenBack(s, v),
             g.sub = h.sub, g.name = h.name
      PROVE  g = h
  <2>1. PICK f \in files :
          /\ g.sub = IF f.sub = s /\ f.by = v THEN t ELSE f.sub
          /\ SameFile(g, f)
    BY <1>0
  <2>2. PICK e \in files :
          /\ h.sub = IF e.sub = s /\ e.by = v THEN t ELSE e.sub
          /\ SameFile(h, e)
    BY <1>0
  <2>3. f.name = e.name
    BY <1>2, <2>1, <2>2 DEF SameFile
  <2>4. f.sub # t /\ e.sub # t
    BY DEF Of
  <2>5. f.sub = e.sub
    BY <1>2, <2>1, <2>2, <2>3, <2>4
  <2>6. f = e
    BY <2>3, <2>5 DEF Tidy
  <2>7. g \in Row /\ h \in Row
    BY <1>1
  <2>8. /\ g = [sub |-> g.sub, name |-> g.name, by |-> g.by, bytes |-> g.bytes, purpose |-> g.purpose]
        /\ h = [sub |-> h.sub, name |-> h.name, by |-> h.by, bytes |-> h.bytes, purpose |-> h.purpose]
    BY <2>7 DEF Row
  <2> QED BY <1>2, <2>1, <2>2, <2>6, <2>8 DEF SameFile
<1> QED BY <1>1, <1>2 DEF Tidy

LEMMA GivenBackSplits ==
  ASSUME Tidy(files), NEW s \in Homework, NEW v, NEW t \in Homework,
         t = <<v, s[2]>>, t # s, Of(files, t) = {}
  PROVE  LET F == FolderFrom(files)
             Theirs(n) == F[s][n] # None /\ F[s][n].by = v
         IN /\ F[t] = Folder!Empty
            /\ FolderFrom(GivenBack(s, v)) =
                 [F EXCEPT ![s] = [n \in Names |-> IF Theirs(n) THEN None ELSE F[s][n]],
                           ![t] = [n \in Names |-> IF Theirs(n) THEN F[s][n] ELSE None]]
<1> DEFINE F == FolderFrom(files)
           gs == GivenBack(s, v)
           Theirs(n) == F[s][n] # None /\ F[s][n].by = v
           stay == [n \in Names |-> IF Theirs(n) THEN None ELSE F[s][n]]
           go == [n \in Names |-> IF Theirs(n) THEN F[s][n] ELSE None]
           G == [F EXCEPT ![s] = stay, ![t] = go]
<1>0. t \in Homework /\ t # s /\ \A f \in files : f.sub # t
  BY DEF Of
<1>1. Tidy(gs)
  BY GivenBackTidy
<1>2. /\ F \in [Homework -> [Names -> Folder!Content \cup {None}]]
      /\ FolderFrom(gs) \in [Homework -> [Names -> Folder!Content \cup {None}]]
  BY <1>1, FolderType
<1>3. /\ \A g \in gs : \E f \in files :
           /\ g.sub = IF f.sub = s /\ f.by = v THEN t ELSE f.sub
           /\ SameFile(g, f)
           /\ ~(f.sub = s /\ f.by = v) => g = f
      /\ \A f \in files : \E g \in gs :
           /\ g.sub = IF f.sub = s /\ f.by = v THEN t ELSE f.sub
           /\ SameFile(g, f)
           /\ ~(f.sub = s /\ f.by = v) => g = f
  BY GivenBackFiles
<1> HIDE DEF gs
<1>4. ASSUME NEW x \in Homework, NEW n \in Names
      PROVE  /\ \A f \in files : f.sub = x /\ f.name = n =>
                  F[x][n] = ContentOf(f) /\ F[x][n] # None
             /\ F[x][n] # None => \E f \in files : f.sub = x /\ f.name = n
  BY FolderAt, ContentType DEF Tidy
<1> HIDE DEF F
<1>5. ASSUME NEW n \in Names
      PROVE  \A f \in files : f.sub = s /\ f.name = n => (Theirs(n) <=> f.by = v)
  <2> SUFFICES ASSUME NEW f \in files, f.sub = s, f.name = n
               PROVE  Theirs(n) <=> f.by = v
    OBVIOUS
  <2>1. F[s][n] = ContentOf(f) /\ F[s][n] # None
    BY <1>4
  <2>2. ContentOf(f).by = f.by
    BY DEF ContentOf
  <2> QED BY <2>1, <2>2
<1>6. \A n \in Names : Theirs(n) => \E f \in files : f.sub = s /\ f.name = n
  BY <1>4
<1> HIDE DEF Theirs
<1>7. /\ stay \in [Names -> Folder!Content \cup {None}]
      /\ go \in [Names -> Folder!Content \cup {None}]
      /\ \A n \in Names : /\ stay[n] = IF Theirs(n) THEN None ELSE F[s][n]
                          /\ go[n] = IF Theirs(n) THEN F[s][n] ELSE None
  BY <1>2
<1> HIDE DEF stay, go
<1>8. /\ G \in [Homework -> [Names -> Folder!Content \cup {None}]]
      /\ G[t] = go /\ G[s] = stay
      /\ \A x \in Homework : x # s /\ x # t => G[x] = F[x]
  BY <1>0, <1>2, <1>7
<1> HIDE DEF G
<1>9. ASSUME NEW x \in Homework, NEW n \in Names
      PROVE  FolderFrom(gs)[x][n] = G[x][n]
  <2>1. CASE x # s /\ x # t
    <3>1. \A g \in Row : g.sub = x /\ g.name = n => (g \in gs <=> g \in files)
      BY <1>3, <2>1 DEF SameFile
    <3> QED BY <1>1, <1>8, <2>1, <3>1, SameAt DEF F
  <2>2. CASE x = s /\ ~Theirs(n)
    <3>1. \A f \in files : f.sub = s /\ f.name = n => f.by # v
      BY <1>5, <2>2
    <3>2. \A g \in Row : g.sub = s /\ g.name = n => (g \in gs <=> g \in files)
      BY <1>0, <1>3, <3>1 DEF SameFile
    <3>3. FolderFrom(gs)[s][n] = F[s][n]
      BY <1>1, <3>2, SameAt DEF F
    <3> QED BY <1>7, <1>8, <2>2, <3>3
  <2>3. CASE x = s /\ Theirs(n)
    <3>1. \A f \in files : f.sub = s /\ f.name = n => f.by = v
      BY <1>5, <2>3
    <3>2. \A g \in gs : ~(g.sub = s /\ g.name = n)
      BY <1>0, <1>3, <3>1 DEF SameFile
    <3>3. FolderFrom(gs)[s][n] = None
      BY <1>1, <3>2, FolderAt
    <3> QED BY <1>7, <1>8, <2>3, <3>3
  <2>4. CASE x = t /\ Theirs(n)
    <3>1. PICK f \in files : f.sub = s /\ f.name = n
      BY <1>6, <2>4
    <3>2. f.by = v
      BY <1>5, <2>4, <3>1
    <3>3. PICK g \in gs : g.sub = t /\ g.name = n /\ ContentOf(g) = ContentOf(f)
      BY <1>3, <3>1, <3>2 DEF SameFile
    <3>4. FolderFrom(gs)[t][n] = ContentOf(f)
      BY <1>0, <1>1, <3>3, FolderAt
    <3>5. F[s][n] = ContentOf(f)
      BY <1>4, <3>1
    <3> QED BY <1>7, <1>8, <2>4, <3>4, <3>5
  <2>5. CASE x = t /\ ~Theirs(n)
    <3>1. \A g \in gs : ~(g.sub = t /\ g.name = n)
      BY <1>0, <1>3, <1>5, <2>5 DEF SameFile
    <3>2. FolderFrom(gs)[t][n] = None
      BY <1>0, <1>1, <3>1, FolderAt
    <3> QED BY <1>7, <1>8, <2>5, <3>2
  <2> QED BY <2>1, <2>2, <2>3, <2>4, <2>5
<1>10. FolderFrom(gs) = G
  BY <1>2, <1>8, <1>9, Extensional
<1>11. F[t] = Folder!Empty
  <2>1. \A n \in Names : F[t][n] = None
    BY <1>0, FolderAt DEF F
  <2>2. F[t] \in [Names -> Folder!Content \cup {None}]
    BY <1>0, <1>2
  <2> QED BY <2>1, <2>2 DEF Folder!Empty
<1> QED BY <1>10, <1>11 DEF G, F, gs, stay, go, Theirs

-----------------------------------------------------------------------------
(* The steps.                                                              *)

WorkStep ==
  \A s \in Homework : PartnersChange(s) =>
    /\ Work(files') = Work(files)
    /\ subs'[s].user2 = None =>
         \A f \in files' :
           f.sub \in {s, <<subs[s].user2, s[2]>>} /\ f.purpose # "log" => f.by = f.sub[1]

\* What is shown of every step.
StepOK == IInv' /\ (Folder!Next \/ UNCHANGED FolderOf) /\ WorkStep

LEMMA SubmissionExists ==
  ASSUME NEW r \in SubmissionRow
  PROVE  r # None
  BY NoneAssumption

\* A step that changes neither which submissions there are nor whose they are.
LEMMA SameOwners ==
  ASSUME IInv, subs' \in [Homework -> SubmissionRow \cup {None}],
         \A s \in Homework : /\ subs'[s] = None <=> subs[s] = None
                             /\ subs[s] # None => subs'[s].user2 = subs[s].user2
  PROVE  PartnersOnce' /\ WorkStep /\ Existing' = Existing
<1>1. Existing' = Existing
  BY DEF Existing
<1>2. \A s \in Existing : subs'[s].user2 = subs[s].user2
  BY DEF Existing
<1> QED BY <1>1, <1>2 DEF IInv, PartnersOnce, WorkStep, PartnersChange

LEMMA TouchedPages ==
  ASSUME IInv, NEW s, page' = Touched(s)
  PROVE  /\ DOMAIN page' = Students
         /\ \A v \in Students : page'[v] # None =>
              page'[v] = page[v] /\ page'[v].sub # s /\ page'[v].sub \in Existing
  BY DEF Touched, IInv

LEMMA RefreshedPages ==
  ASSUME IInv, NEW s \in Existing, NEW u \in Students, NEW fs, page' = Refreshed(u, s, fs)
  PROVE  /\ DOMAIN page' = Students
         /\ \A v \in Students : page'[v] # None => page'[v].sub \in Existing
<1>1. /\ DOMAIN Touched(s) = Students
      /\ \A v \in Students : Touched(s)[v] # None => Touched(s)[v].sub \in Existing
  BY DEF Touched, IInv
<1> HIDE DEF Touched
<1>2. page' = [Touched(s) EXCEPT ![u] = [sub |-> s, bytes |-> ByteCount(fs, s)]]
  BY DEF Refreshed
<1> QED BY <1>1, <1>2

\* A step of the files alone.
LEMMA FilesStep ==
  ASSUME IInv, subs' = subs, Tidy(files'), \A f \in files' : f.sub \in Existing,
         DOMAIN page' = Students,
         \A v \in Students : page'[v] # None => page'[v].sub \in Existing,
         Folder!Next \/ UNCHANGED FolderOf
  PROVE  StepOK
<1>1. PartnersOnce' /\ WorkStep /\ Existing' = Existing
  BY SameOwners DEF IInv
<1>2. IInv'
  BY <1>1 DEF IInv
<1> QED BY <1>1, <1>2 DEF StepOK

LEMMA PutStep ==
  ASSUME IInv, NEW u \in Users, NEW s \in Existing, NEW n \in Names, NEW bytes \in Sizes,
         files' = Stored(files, u, s, n, bytes)
  PROVE  /\ Tidy(files') /\ \A f \in files' : f.sub \in Existing
         /\ Folder!Next
<1>0. s \in Homework /\ Tidy(files)
  BY DEF Existing, IInv
<1>1. Tidy(files')
  BY <1>0, StoredTidy
<1>2. \A f \in files' : f.sub \in Existing
  BY DEF Stored, IInv
<1>3. \E c \in Folder!Content : FolderOf' = [FolderOf EXCEPT ![s][n] = c]
  BY <1>0, StoredPuts DEF FolderOf
<1>4. Folder!Put(s, n)
  BY <1>3 DEF Folder!Put
<1>5. Folder!Next
  BY <1>0, <1>4 DEF Folder!Next
<1> QED BY <1>1, <1>2, <1>5

LEMMA DeleteStep ==
  ASSUME IInv, NEW s \in Homework, NEW n \in Names, files' = files \ Named(files, s, n)
  PROVE  /\ Tidy(files') /\ \A f \in files' : f.sub \in Existing
         /\ Folder!Next
<1>1. Tidy(files')
  BY SubsetTidy DEF IInv
<1>2. \A f \in files' : f.sub \in Existing
  BY DEF IInv
<1>3. FolderOf' = [FolderOf EXCEPT ![s][n] = None]
  BY RemovedDeletes DEF FolderOf, IInv
<1>4. Folder!Delete(s, n)
  BY <1>3 DEF Folder!Delete
<1>5. Folder!Next
  BY <1>4 DEF Folder!Next
<1> QED BY <1>1, <1>2, <1>5

LEMMA CalendarStep ==
  ASSUME IInv, NEW s \in Homework, Calendar(s)
  PROVE  StepOK
<1>1. PICK isOpen \in Periods : subs' = [subs EXCEPT ![s].open = isOpen]
  BY DEF Calendar
<1> DEFINE r == [subs[s] EXCEPT !.open = isOpen]
<1>2. subs[s] \in SubmissionRow
  BY DEF Calendar, Existing, IInv
<1>3. r \in SubmissionRow /\ r.user2 = subs[s].user2
  BY <1>2 DEF SubmissionRow
<1>4. subs' = [subs EXCEPT ![s] = r]
  BY <1>1
<1> HIDE DEF r
<1>5. /\ subs' \in [Homework -> SubmissionRow \cup {None}]
      /\ \A t \in Homework : /\ subs'[t] = None <=> subs[t] = None
                             /\ subs[t] # None => subs'[t].user2 = subs[t].user2
  BY <1>2, <1>3, <1>4, SubmissionExists DEF IInv
<1>6. PartnersOnce' /\ WorkStep /\ Existing' = Existing
  BY <1>5, SameOwners
<1>7. files' = files /\ page' = page
  BY DEF Calendar
<1> QED BY <1>5, <1>6, <1>7 DEF StepOK, IInv, FolderOf

LEMMA SetQuotaStep ==
  ASSUME IInv, NEW s \in Homework, NEW quota \in Quotas, SetQuota(s, quota)
  PROVE  StepOK
<1> DEFINE r == [subs[s] EXCEPT !.quota = quota]
<1>2. subs[s] \in SubmissionRow
  BY DEF SetQuota, Existing, IInv
<1>3. r \in SubmissionRow /\ r.user2 = subs[s].user2
  BY <1>2 DEF SubmissionRow
<1>4. subs' = [subs EXCEPT ![s] = r]
  BY DEF SetQuota
<1> HIDE DEF r
<1>5. /\ subs' \in [Homework -> SubmissionRow \cup {None}]
      /\ \A t \in Homework : /\ subs'[t] = None <=> subs[t] = None
                             /\ subs[t] # None => subs'[t].user2 = subs[t].user2
  BY <1>2, <1>3, <1>4, SubmissionExists DEF IInv
<1>6. PartnersOnce' /\ WorkStep /\ Existing' = Existing
  BY <1>5, SameOwners
<1>7. files' = files /\ page' = Touched(s)
  BY DEF SetQuota
<1>8. /\ DOMAIN page' = Students
      /\ \A v \in Students : page'[v] # None => page'[v].sub \in Existing
  BY <1>7, TouchedPages
<1> QED BY <1>5, <1>6, <1>7, <1>8 DEF StepOK, IInv, FolderOf

LEMMA NewSubmission ==
  ASSUME NEW isOpen \in Periods
  PROVE  New(isOpen) \in SubmissionRow /\ New(isOpen) # None /\ New(isOpen).user2 = None
<1>1. New(isOpen) \in SubmissionRow
  BY FilesAssumption DEF New, SubmissionRow
<1> QED BY <1>1, SubmissionExists DEF New

\* A first submission: its owner owns no other to the assignment.
LEMMA Created ==
  ASSUME IInv, NEW u \in Students, NEW a, SubmissionsOf(u, a) = {}, <<u, a>> \in Homework,
         NEW isOpen \in Periods, subs' = [subs EXCEPT ![<<u, a>>] = New(isOpen)]
  PROVE  /\ subs' \in [Homework -> SubmissionRow \cup {None}]
         /\ Existing' = Existing \cup {<<u, a>>}
         /\ PartnersOnce' /\ WorkStep
<1> DEFINE s == <<u, a>>
<1>1. s[1] = u /\ s[2] = a /\ u # None /\ s \in Homework
  BY FilesAssumption DEF Users
<1> HIDE DEF s
<1>2. subs' = [subs EXCEPT ![s] = New(isOpen)]
  BY DEF s
<1>3. \A t \in Existing : t[2] = a => t[1] # u /\ subs[t].user2 # u
  BY <1>1 DEF SubmissionsOf, Owners
<1>4. s \notin Existing
  BY <1>1, <1>3
<1>5. /\ subs' \in [Homework -> SubmissionRow \cup {None}]
      /\ subs'[s] # None /\ subs'[s].user2 = None
      /\ \A t \in Homework : t # s => subs'[t] = subs[t]
  BY <1>1, <1>2, NewSubmission DEF IInv
<1>6. Existing' = Existing \cup {s}
  BY <1>1, <1>5 DEF Existing
<1>7. \A t \in Existing : subs'[t] = subs[t]
  BY <1>4, <1>5 DEF Existing
<1>8. WorkStep
  BY <1>4, <1>7 DEF WorkStep, PartnersChange
<1>9. ASSUME NEW t \in Existing', subs'[t].user2 # None
      PROVE  /\ <<subs'[t].user2, t[2]>> \in Homework \ Existing'
             /\ \A x \in Existing' : x[2] = t[2] /\ subs'[x].user2 = subs'[t].user2 => x = t
  <2>1. t \in Existing /\ subs'[t] = subs[t]
    BY <1>5, <1>6, <1>7, <1>9
  <2>2. /\ <<subs[t].user2, t[2]>> \in Homework \ Existing
        /\ \A x \in Existing : x[2] = t[2] /\ subs[x].user2 = subs[t].user2 => x = t
    BY <1>9, <2>1 DEF IInv, PartnersOnce
  <2>3. <<subs[t].user2, t[2]>> # s
    BY <1>3, <2>1 DEF s
  <2> QED BY <1>5, <1>6, <1>7, <1>9, <2>1, <2>2, <2>3
<1>10. PartnersOnce'
  BY <1>9 DEF PartnersOnce
<1> QED BY <1>5, <1>6, <1>8, <1>10 DEF s

LEMMA CreateStep ==
  ASSUME IInv, NEW u \in Students, NEW a \in Assignments, CreateSubmission(u, a)
  PROVE  StepOK
<1>1. /\ subs' \in [Homework -> SubmissionRow \cup {None}]
      /\ Existing' = Existing \cup {<<u, a>>}
      /\ PartnersOnce' /\ WorkStep
  BY Created DEF CreateSubmission
<1>2. files' = files /\ page' = page
  BY DEF CreateSubmission
<1> QED BY <1>1, <1>2 DEF StepOK, IInv, FolderOf

LEMMA OpenPageStep ==
  ASSUME IInv, NEW u \in Students, NEW a \in Assignments, OpenPage(u, a)
  PROVE  StepOK
<1> DEFINE known == SubmissionsOf(u, a)
           s == IF known = {} THEN <<u, a>> ELSE CHOOSE t \in known : TRUE
<1>1. /\ s \in Homework /\ files' = files
      /\ \E isOpen \in Periods :
           subs' = IF known = {} THEN [subs EXCEPT ![s] = New(isOpen)] ELSE subs
      /\ page' = [page EXCEPT ![u] =
           IF @ # None /\ @.sub = s THEN @ ELSE [sub |-> s, bytes |-> ByteCount(files, s)]]
  BY DEF OpenPage
<1>2. CASE known = {}
  <2>1. s = <<u, a>>
    BY <1>2
  <2>2. /\ subs' \in [Homework -> SubmissionRow \cup {None}]
        /\ Existing' = Existing \cup {s}
        /\ PartnersOnce' /\ WorkStep
    BY <1>1, <1>2, <2>1, Created
  <2> HIDE DEF s
  <2>3. /\ DOMAIN page' = Students
        /\ \A v \in Students : page'[v] # None => page'[v].sub \in Existing'
    BY <1>1, <2>2 DEF IInv
  <2> QED BY <1>1, <2>2, <2>3 DEF StepOK, IInv, FolderOf
<1>3. CASE known # {}
  <2>1. s \in known
    BY <1>3
  <2>2. s \in Existing /\ subs' = subs
    BY <1>1, <1>3, <2>1 DEF SubmissionsOf
  <2> HIDE DEF s, known
  <2>3. /\ DOMAIN page' = Students
        /\ \A v \in Students : page'[v] # None => page'[v].sub \in Existing
    BY <1>1, <2>2 DEF IInv
  <2> QED BY <1>1, <2>2, <2>3, FilesStep DEF IInv, FolderOf
<1> QED BY <1>2, <1>3

LEMMA ClosePageStep ==
  ASSUME IInv, NEW u \in Students, ClosePage(u)
  PROVE  StepOK
<1>1. /\ subs' = subs /\ files' = files /\ DOMAIN page' = Students
      /\ \A v \in Students : page'[v] # None => page'[v].sub \in Existing
  BY DEF ClosePage, IInv
<1> QED BY <1>1, FilesStep DEF IInv, FolderOf

LEMMA WebUploadStep ==
  ASSUME IInv, NEW u \in Students, NEW n \in Names, NEW bytes \in Sizes, WebUpload(u, n, bytes)
  PROVE  StepOK
<1> DEFINE s == page[u].sub
<1>1. s \in Existing /\ u \in Users
  BY DEF WebUpload, IInv, Users
<1>2. /\ files' = Stored(files, u, s, n, bytes) /\ subs' = subs
      /\ page' = Refreshed(u, s, Stored(files, u, s, n, bytes))
  BY DEF WebUpload
<1> HIDE DEF s
<1>3. /\ Tidy(files') /\ \A f \in files' : f.sub \in Existing
      /\ Folder!Next
  BY <1>1, <1>2, PutStep
<1>4. /\ DOMAIN page' = Students
      /\ \A v \in Students : page'[v] # None => page'[v].sub \in Existing
  BY <1>1, <1>2, RefreshedPages
<1> QED BY <1>2, <1>3, <1>4, FilesStep

LEMMA WebDeleteStep ==
  ASSUME IInv, NEW u \in Students, NEW f \in files, WebDelete(u, f)
  PROVE  StepOK
<1> DEFINE s == page[u].sub
<1>1. s \in Existing /\ f.sub = s
  BY DEF WebDelete, IInv, Of
<1>2. f \in Row /\ s \in Homework /\ f.name \in Names /\ Named(files, s, f.name) = {f}
  BY <1>1 DEF IInv, Tidy, Row, Named
<1>3. /\ files' = files \ {f} /\ subs' = subs
      /\ page' = Refreshed(u, s, files \ {f})
  BY DEF WebDelete
<1> HIDE DEF s
<1>4. /\ Tidy(files') /\ \A g \in files' : g.sub \in Existing
      /\ Folder!Next
  BY <1>2, <1>3, DeleteStep
<1>5. /\ DOMAIN page' = Students
      /\ \A v \in Students : page'[v] # None => page'[v].sub \in Existing
  BY <1>1, <1>3, RefreshedPages
<1> QED BY <1>3, <1>4, <1>5, FilesStep

LEMMA RestPutStep ==
  ASSUME IInv, NEW u \in Users, NEW s \in Homework, NEW n \in Names, NEW bytes \in Sizes,
         RestPut(u, s, n, bytes)
  PROVE  StepOK
<1>1. /\ s \in Existing /\ files' = Stored(files, u, s, n, bytes) /\ subs' = subs
      /\ page' = Touched(s)
  BY DEF RestPut
<1>2. /\ Tidy(files') /\ \A f \in files' : f.sub \in Existing
      /\ Folder!Next
  BY <1>1, PutStep
<1>3. /\ DOMAIN page' = Students
      /\ \A v \in Students : page'[v] # None => page'[v].sub \in Existing
  BY <1>1, TouchedPages
<1> QED BY <1>1, <1>2, <1>3, FilesStep

LEMMA RestDeleteStep ==
  ASSUME IInv, NEW s \in Homework, NEW n \in Names, RestDelete(s, n)
  PROVE  StepOK
<1>1. files' = files \ Named(files, s, n) /\ subs' = subs /\ page' = page
  BY DEF RestDelete
<1>2. /\ Tidy(files') /\ \A f \in files' : f.sub \in Existing
      /\ Folder!Next
  BY <1>1, DeleteStep
<1> QED BY <1>1, <1>2, FilesStep DEF IInv

LEMMA RestPatchStep ==
  ASSUME IInv, NEW f \in files, NEW t \in Homework, NEW m \in Names,
         NEW purpose \in Purposes, RestPatch(f, t, m, purpose)
  PROVE  StepOK
<1>1. files' = Moved(files, f, t, m, purpose) /\ subs' = subs /\ page' = page
  BY DEF RestPatch
<1>2. f \in Row /\ f.sub \in Homework /\ f.name \in Names /\ f.sub \in Existing
  BY DEF IInv, Tidy, Row
<1>3. t \in Existing
  BY <1>2 DEF RestPatch, SubmissionsOf
<1>4. MovedTo(f, t, m, purpose).sub = t
  BY <1>2, MovedFile
<1>5. \A g \in files' : g.sub \in Existing
  BY <1>1, <1>3, <1>4 DEF Moved, IInv
<1>6. Tidy(files')
  BY <1>1, MovedTidy DEF IInv
<1>7. /\ FolderOf[f.sub][f.name] # None
      /\ \E cheap \in BOOLEAN :
           FolderOf' = [FolderOf EXCEPT
                          ![f.sub][f.name] = None,
                          ![t][m] = [FolderOf[f.sub][f.name] EXCEPT !.cheap = cheap]]
  BY <1>1, MovedMoves DEF FolderOf, IInv
<1>8. Folder!Move(f.sub, f.name, t, m)
  BY <1>7 DEF Folder!Move
<1>9. Folder!Next
  BY <1>2, <1>8 DEF Folder!Next
<1> QED BY <1>1, <1>5, <1>6, <1>9, FilesStep DEF IInv

LEMMA DiscardStep ==
  ASSUME IInv, NEW s \in Homework, RestDeleteSubmission(s)
  PROVE  StepOK
<1>1. /\ subs' = [subs EXCEPT ![s] = None] /\ files' = files \ Of(files, s)
      /\ page' = Touched(s)
  BY DEF RestDeleteSubmission
<1>2. /\ subs' \in [Homework -> SubmissionRow \cup {None}]
      /\ subs'[s] = None /\ \A t \in Homework : t # s => subs'[t] = subs[t]
  BY <1>1 DEF IInv
<1>3. Existing' = Existing \ {s}
  BY <1>2 DEF Existing
<1>4. \A t \in Existing' : subs'[t] = subs[t]
  BY <1>2, <1>3 DEF Existing
<1>5. PartnersOnce' /\ WorkStep
  BY <1>3, <1>4 DEF IInv, PartnersOnce, WorkStep, PartnersChange
<1>6. Tidy(files') /\ \A f \in files' : f.sub \in Existing'
  BY <1>1, <1>3, SubsetTidy DEF IInv, Of
<1>7. /\ DOMAIN page' = Students
      /\ \A v \in Students : page'[v] # None => page'[v].sub \in Existing'
  BY <1>1, <1>3, TouchedPages
<1>8. FolderOf' = [FolderOf EXCEPT ![s] = Folder!Empty]
  BY <1>1, RemovedDiscards DEF FolderOf, IInv
<1>9. Folder!Discard(s)
  BY <1>8 DEF Folder!Discard
<1>10. Folder!Next
  BY <1>9 DEF Folder!Next
<1> QED BY <1>2, <1>5, <1>6, <1>7, <1>10 DEF StepOK, IInv

\* Only logs that both partners have are dropped.
LEMMA JoinedWork ==
  ASSUME Tidy(files), NEW s \in Homework, NEW t \in Homework, s # t, Disjoint(s, t)
  PROVE  Work(Joined(s, t)) = Work(files)
<1>1. \A f \in Shared(s, t) : f.purpose = "log"
  BY DEF Disjoint
<1>2. /\ \A g \in Joined(s, t) : \E f \in files : SameFile(g, f)
      /\ \A f \in files : f.purpose # "log" => \E g \in Joined(s, t) : SameFile(g, f)
  BY <1>1, JoinedFiles
<1> QED BY <1>2 DEF Work, SameFile

LEMMA JoinStep ==
  ASSUME IInv, NEW u \in Students, NEW v \in Students, NEW by \in {u, v, None}, Join(u, v, by)
  PROVE  StepOK
<1>1. PICK a \in Assignments :
        LET keep == <<u, a>>
            kill == <<v, a>>
            stale == [w \in Students |->
                        IF page[w] # None /\ page[w].sub \in {keep, kill}
                        THEN None ELSE page[w]]
        IN /\ u < v /\ keep \in Existing /\ kill \in Existing
           /\ subs[keep].user2 = None /\ subs[kill].user2 = None
           /\ Disjoint(keep, kill)
           /\ files' = Joined(keep, kill)
           /\ subs' = [subs EXCEPT ![keep].user2 = v, ![kill] = None]
           /\ \/ page' = stale
              \/ \E bytes : page' = [stale EXCEPT ![by] = [sub |-> keep, bytes |-> bytes]]
  BY DEF Join
<1> DEFINE keep == <<u, a>>
           kill == <<v, a>>
           stale == [w \in Students |->
                       IF page[w] # None /\ page[w].sub \in {keep, kill}
                       THEN None ELSE page[w]]
           r == [subs[keep] EXCEPT !.user2 = v]
<1>2. keep # kill /\ keep[2] = a /\ kill[2] = a
  BY <1>1, FilesAssumption DEF Students
<1>3. /\ keep \in Existing /\ kill \in Existing
      /\ keep \in Homework /\ kill \in Homework
      /\ subs[keep].user2 = None /\ subs[kill].user2 = None
      /\ Disjoint(keep, kill) /\ files' = Joined(keep, kill)
      /\ \/ page' = stale
         \/ \E bytes : page' = [stale EXCEPT ![by] = [sub |-> keep, bytes |-> bytes]]
  BY <1>1 DEF Existing
<1>4. v # None
  BY FilesAssumption DEF Users
<1>5. subs[keep] \in SubmissionRow
  BY <1>3 DEF IInv, Existing
<1>6. r \in SubmissionRow /\ r.user2 = v
  BY <1>5 DEF SubmissionRow
<1>7. subs' = [subs EXCEPT ![keep] = r, ![kill] = None]
  BY <1>1
<1> HIDE DEF r
<1>8. v \in Students /\ <<v, a>> = kill
  OBVIOUS
<1>9. /\ stale \in [Students -> {None} \cup {page[w] : w \in Students}]
      /\ \A w \in Students : stale[w] # None =>
           stale[w] = page[w] /\ page[w].sub # kill /\ page[w].sub \in Existing
  BY DEF IInv
<1> HIDE DEF keep, stale
<1>10. /\ subs' \in [Homework -> SubmissionRow \cup {None}]
       /\ subs'[kill] = None /\ subs'[keep] # None /\ subs'[keep].user2 = v
       /\ \A t \in Homework : t # keep /\ t # kill => subs'[t] = subs[t]
  BY <1>2, <1>3, <1>6, <1>7, SubmissionExists DEF IInv
<1>11. Existing' = Existing \ {kill}
  BY <1>3, <1>10 DEF Existing
<1>12. \A t \in Existing' : t # keep => t \in Existing /\ subs'[t] = subs[t]
  BY <1>10, <1>11 DEF Existing
<1>13. \A t \in Existing : t[2] = a => subs[t].user2 # v
  BY <1>3, <1>4, <1>8 DEF IInv, PartnersOnce
<1>14. PartnersOnce'
  <2>1. ASSUME NEW t \in Existing', subs'[t].user2 # None
        PROVE  /\ <<subs'[t].user2, t[2]>> \in Homework \ Existing'
               /\ \A x \in Existing' : x[2] = t[2] /\ subs'[x].user2 = subs'[t].user2 => x = t
    <3>1. CASE t = keep
      <4>1. <<subs'[t].user2, t[2]>> = kill
        BY <1>2, <1>8, <1>10, <3>1
      <4> QED BY <1>2, <1>3, <1>10, <1>11, <1>12, <1>13, <3>1, <4>1
    <3>2. CASE t # keep
      <4>1. t \in Existing /\ subs'[t] = subs[t] /\ subs[t].user2 # None
        BY <1>12, <2>1, <3>2
      <4>2. /\ <<subs[t].user2, t[2]>> \in Homework \ Existing
            /\ \A x \in Existing : x[2] = t[2] /\ subs[x].user2 = subs[t].user2 => x = t
        BY <4>1 DEF IInv, PartnersOnce
      <4> QED BY <1>2, <1>10, <1>11, <1>12, <1>13, <4>1, <4>2
    <3> QED BY <3>1, <3>2
  <2> QED BY <2>1 DEF PartnersOnce
<1>15. WorkStep
  <2>1. \A s \in Homework : PartnersChange(s) => s = keep
    BY <1>12 DEF PartnersChange
  <2>2. Work(files') = Work(files)
    BY <1>2, <1>3, JoinedWork DEF IInv
  <2> QED BY <1>4, <1>10, <2>1, <2>2 DEF WorkStep
<1>16. Tidy(files')
  BY <1>2, <1>3, JoinedTidy DEF IInv
<1>17. \A g \in files' : g.sub \in Existing'
  BY <1>2, <1>3, <1>11, JoinedFiles DEF IInv
<1>18. /\ DOMAIN page' = Students
       /\ \A w \in Students : page'[w] # None => page'[w].sub \in Existing'
  BY <1>2, <1>3, <1>9, <1>11
<1>19. IInv'
  BY <1>10, <1>14, <1>16, <1>17, <1>18 DEF IInv
<1>20. Folder!Merge(keep, kill)
  BY <1>2, <1>3, JoinedMerges DEF Folder!Merge, FolderOf, IInv
<1>21. Folder!Next
  BY <1>3, <1>20 DEF Folder!Next
<1> QED BY <1>15, <1>19, <1>21 DEF StepOK

LEMMA DivorceStep ==
  ASSUME IInv, NEW s \in Homework, Divorce(s)
  PROVE  StepOK
<1> DEFINE v == subs[s].user2
           t == <<v, s[2]>>
           r == [subs[s] EXCEPT !.user2 = None]
<1>1. PICK isOpen \in Periods :
        subs' = [subs EXCEPT ![s].user2 = None, ![t] = New(isOpen)]
  BY DEF Divorce
<1>2. /\ s \in Existing /\ v # None /\ WhoseFilesAreThese(s, v) = {}
      /\ files' = GivenBack(s, v) /\ page' = Touched(s)
  BY DEF Divorce
<1>3. subs[s] \in SubmissionRow
  BY <1>2 DEF IInv, Existing
<1>4. v \in Students /\ v \in Users
  BY <1>2, <1>3 DEF SubmissionRow, Users
<1>5. /\ t \in Homework \ Existing
      /\ \A x \in Existing : x[2] = s[2] /\ subs[x].user2 = v => x = s
  BY <1>2 DEF IInv, PartnersOnce
<1>6. r \in SubmissionRow /\ r.user2 = None
  BY <1>3 DEF SubmissionRow
<1>7. subs' = [subs EXCEPT ![s] = r, ![t] = New(isOpen)]
  BY <1>1
<1>8. t # s /\ Of(files, t) = {} /\ t[1] = v
  BY <1>2, <1>5 DEF IInv, Of
<1> HIDE DEF r
<1>9. \A x \in Homework : x[2] = s[2] /\ subs[x].user2 = v => <<subs[x].user2, x[2]>> = t
  OBVIOUS
<1>10. \A x \in Existing : <<subs[x].user2, x[2]>> = t => x = s
  BY <1>5
<1>11. \A x \in {s, <<subs[s].user2, s[2]>>} : x = s \/ x = t
  OBVIOUS
<1>12. ASSUME NEW f \in Row, f.sub = s, f.by = v
       PROVE  [f EXCEPT !.sub = t].by = t[1]
  BY <1>5, <1>8, <1>12, TakenFile
<1>13. t = <<v, s[2]>>
  OBVIOUS
<1> HIDE DEF t
<1>14. /\ subs' \in [Homework -> SubmissionRow \cup {None}]
       /\ subs'[s] # None /\ subs'[s].user2 = None
       /\ subs'[t] # None /\ subs'[t].user2 = None
       /\ \A x \in Homework : x # s /\ x # t => subs'[x] = subs[x]
  BY <1>5, <1>6, <1>7, <1>8, NewSubmission, SubmissionExists DEF IInv
<1>15. Existing' = Existing \cup {t}
  BY <1>2, <1>5, <1>14 DEF Existing
<1>16. \A x \in Existing' : x # s /\ x # t => x \in Existing /\ subs'[x] = subs[x]
  BY <1>14, <1>15 DEF Existing
<1>17. PartnersOnce'
  <2>1. ASSUME NEW x \in Existing', subs'[x].user2 # None
        PROVE  /\ <<subs'[x].user2, x[2]>> \in Homework \ Existing'
               /\ \A y \in Existing' : y[2] = x[2] /\ subs'[y].user2 = subs'[x].user2 => y = x
    <3>1. x # s /\ x \in Existing /\ subs'[x] = subs[x]
      BY <1>14, <1>16, <2>1
    <3>2. /\ <<subs[x].user2, x[2]>> \in Homework \ Existing
          /\ \A y \in Existing : y[2] = x[2] /\ subs[y].user2 = subs[x].user2 => y = x
      BY <2>1, <3>1 DEF IInv, PartnersOnce
    <3>3. <<subs[x].user2, x[2]>> # t
      BY <1>10, <3>1
    <3> QED BY <1>14, <1>15, <1>16, <2>1, <3>1, <3>2, <3>3
  <2> QED BY <2>1 DEF PartnersOnce
<1>18. /\ \A g \in files' : \E f \in files :
            /\ g.sub = IF f.sub = s /\ f.by = v THEN t ELSE f.sub
            /\ SameFile(g, f)
       /\ \A f \in files : \E g \in files' : SameFile(g, f)
  <2>1. Tidy(files) /\ t \in Homework
    BY <1>5 DEF IInv
  <2> HIDE DEF v
  <2> QED BY <1>2, <1>8, <1>13, <2>1, GivenBackFiles
<1>19. WorkStep
  <2>1. \A x \in Homework : PartnersChange(x) => x = s
    BY <1>5, <1>16 DEF PartnersChange
  <2>2. Work(files') = Work(files)
    BY <1>18 DEF Work, SameFile
  <2>3. ASSUME NEW g \in files', g.sub \in {s, t}, g.purpose # "log"
        PROVE  g.by = g.sub[1]
    <3>1. PICK f \in files :
            /\ g.sub = IF f.sub = s /\ f.by = v THEN t ELSE f.sub
            /\ SameFile(g, f)
      BY <1>18
    <3>2. f.sub = s
      BY <1>8, <2>3, <3>1 DEF Of
    <3>3. f.by \in {s[1], v}
      BY <1>2, <2>3, <3>1, <3>2 DEF WhoseFilesAreThese, Of, SameFile
    <3> QED BY <1>8, <3>1, <3>2, <3>3 DEF SameFile
  <2> QED BY <1>13, <2>1, <2>2, <2>3 DEF WorkStep
<1>20. Tidy(files')
  BY <1>2, <1>5, <1>8, <1>13, GivenBackTidy DEF IInv
<1>21. \A g \in files' : g.sub \in Existing'
  BY <1>15, <1>18 DEF IInv
<1>22. /\ DOMAIN page' = Students
       /\ \A w \in Students : page'[w] # None => page'[w].sub \in Existing'
  BY <1>2, <1>15, TouchedPages
<1>23. IInv'
  BY <1>14, <1>17, <1>20, <1>21, <1>22 DEF IInv
<1>24. Folder!Split(s, t, v)
  <2>1. Tidy(files) /\ t \in Homework /\ FolderOf = FolderFrom(files)
        /\ FolderOf' = FolderFrom(GivenBack(s, v))
    BY <1>2, <1>5 DEF IInv, FolderOf
  <2> HIDE DEF v
  <2>2. /\ FolderOf[t] = Folder!Empty
        /\ FolderOf' = [FolderOf EXCEPT
             ![s] = [n \in Names |-> IF FolderOf[s][n] # None /\ FolderOf[s][n].by = v
                                     THEN None ELSE FolderOf[s][n]],
             ![t] = [n \in Names |-> IF FolderOf[s][n] # None /\ FolderOf[s][n].by = v
                                     THEN FolderOf[s][n] ELSE None]]
    BY <1>8, <1>13, <2>1, GivenBackSplits
  <2> QED BY <1>8, <2>2 DEF Folder!Split
<1>25. Folder!Next
  BY <1>4, <1>5, <1>24 DEF Folder!Next
<1> QED BY <1>19, <1>23, <1>25 DEF StepOK

-----------------------------------------------------------------------------
(* The invariant *)

LEMMA Initially == Init => IInv /\ Folder!Init
<1> SUFFICES ASSUME Init PROVE IInv /\ Folder!Init
  OBVIOUS
<1>1. IInv
  BY DEF Init, IInv, Tidy, PartnersOnce, Existing
<1>2. ASSUME NEW s \in Homework, NEW n \in Names
      PROVE  FolderOf[s][n] = None
  BY <1>1, FolderAt DEF Init, FolderOf, IInv
<1>3. FolderOf \in [Homework -> [Names -> Folder!Content \cup {None}]]
  BY <1>1, FolderType DEF FolderOf, IInv
<1>4. [s \in Homework |-> Folder!Empty] \in [Homework -> [Names -> Folder!Content \cup {None}]]
  BY DEF Folder!Empty
<1>5. \A s \in Homework, n \in Names : [x \in Homework |-> Folder!Empty][s][n] = None
  BY DEF Folder!Empty
<1>6. FolderOf = [s \in Homework |-> Folder!Empty]
  BY <1>2, <1>3, <1>4, <1>5, Extensional
<1> QED BY <1>1, <1>6 DEF Folder!Init

LEMMA EveryStep == IInv /\ [Next]_vars => StepOK
<1> SUFFICES ASSUME IInv, [Next]_vars PROVE StepOK
  OBVIOUS
<1>1. ASSUME StudentNext PROVE StepOK
  BY <1>1, CreateStep, OpenPageStep, ClosePageStep, WebUploadStep, WebDeleteStep
    DEF StudentNext
<1>2. ASSUME RestNext PROVE StepOK
  <2>1. \A p, n : p \in GivenPurposes \cup {ClassOf(n)} => p \in Purposes
    BY FilesAssumption, ClassIsPurpose
  <2> QED BY <1>2, <2>1, RestPutStep, RestDeleteStep, DiscardStep, RestPatchStep DEF RestNext
<1>3. ASSUME PartnersNext PROVE StepOK
  BY <1>3, JoinStep, DivorceStep DEF PartnersNext
<1>4. ASSUME UNCHANGED vars PROVE StepOK
  <2>1. subs' = subs /\ files' = files /\ page' = page
    BY <1>4 DEF vars
  <2> QED BY <2>1, FilesStep DEF IInv, FolderOf
<1> QED BY <1>1, <1>2, <1>3, <1>4, CalendarStep, SetQuotaStep DEF Next

LEMMA Invariance == Spec => []IInv
<1>1. IInv /\ [Next]_vars => IInv'
  BY EveryStep DEF StepOK
<1> QED BY <1>1, Initially, PTL DEF Spec

-----------------------------------------------------------------------------
(* Adding up bytes. *)

LEMMA SetInduction ==
  ASSUME NEW S \in SUBSET Nat, 0 \in S, \A n \in S : n + 1 \in S
  PROVE  S = Nat
<1> SUFFICES ASSUME Nat \ S # {} PROVE FALSE
  OBVIOUS
<1>1. \E R : R = {m \in Nat \X Nat : m[1] < m[2]} /\ IsWellFoundedOn(R, Nat)
  <2>1. OpToRel(<, Nat) = {m \in Nat \X Nat : m[1] < m[2]}
    BY DEF OpToRel
  <2>2. IsWellFoundedOn(OpToRel(<, Nat), Nat)
    BY NatLessThanWellFounded
  <2>3. IsWellFoundedOn({m \in Nat \X Nat : m[1] < m[2]}, Nat)
    BY <2>1, <2>2
  <2> QED
    BY <2>3
<1>2. PICK R : R = {m \in Nat \X Nat : m[1] < m[2]} /\ IsWellFoundedOn(R, Nat)
  BY <1>1
<1>3. PICK x \in Nat \ S : \A y \in Nat \ S : ~(<<y, x>> \in R)
  BY <1>2, WFMin
<1>4. \A y \in Nat \ S : ~(y < x)
  BY <1>2, <1>3
<1>5. x # 0 /\ x - 1 \in Nat /\ x - 1 < x
  BY <1>3
<1>6. x - 1 \in S
  BY <1>4, <1>5
<1>7. (x - 1) + 1 = x
  BY <1>3
<1> QED
  BY <1>3, <1>6, <1>7

\* What holds of a set as soon as it holds with any one element less holds of
\* every finite set.
LEMMA SubsetInduction ==
  ASSUME NEW S, IsFiniteSet(S), NEW P \in SUBSET (SUBSET S),
         \A T \in SUBSET S : (\A x \in T : T \ {x} \in P) => T \in P
  PROVE  P = SUBSET S
<1> DEFINE N == {n \in Nat : \A T \in SUBSET S : Cardinality(T) = n => T \in P}
<1>1. \A T \in SUBSET S : IsFiniteSet(T) /\ Cardinality(T) \in Nat
  BY FS_Subset, FS_CardinalityType
<1>2. 0 \in N
  <2>1. \A T \in SUBSET S : Cardinality(T) = 0 => T = {}
    BY <1>1, FS_EmptySet
  <2> QED
    BY <2>1
<1>3. ASSUME NEW n \in N
      PROVE  n + 1 \in N
  <2>1. ASSUME NEW T \in SUBSET S, Cardinality(T) = n + 1, NEW x \in T
        PROVE  T \ {x} \in P
    <3>1. Cardinality(T \ {x}) = Cardinality(T) - 1
      BY <1>1, FS_RemoveElement
    <3>2. Cardinality(T \ {x}) = n
      BY <2>1, <3>1
    <3> QED
      BY <3>2
  <2> QED
    BY <2>1
<1>4. N = Nat
  <2> HIDE DEF N
  <2>1. N \subseteq Nat
    BY DEF N
  <2> QED
    BY <1>2, <1>3, <2>1, SetInduction
<1> QED
  BY <1>1, <1>4

Bytes(S) == MapThenSumSet(LAMBDA f : f.bytes, S)

Pick(S) == CHOOSE x \in S : TRUE

\* The function by which the bytes of the subsets of a set are added up.
Adds(g, S) ==
  g = [s \in SUBSET S |-> IF s = {} THEN 0 ELSE Pick(s).bytes + g[s \ {Pick(s)}]]

LEMMA BytesAdded ==
  ASSUME NEW S
  PROVE  Bytes(S) = (CHOOSE g : Adds(g, S))[S]
  BY DEF Bytes, Adds, Pick, MapThenSumSet, MapThenFoldSet

LEMMA AddsAt ==
  ASSUME NEW S, NEW g, Adds(g, S), NEW T \in SUBSET S
  PROVE  g[T] = IF T = {} THEN 0 ELSE Pick(T).bytes + g[T \ {Pick(T)}]
<1> DEFINE h == [s \in SUBSET S |-> IF s = {} THEN 0 ELSE Pick(s).bytes + g[s \ {Pick(s)}]]
<1>1. g = h
  BY DEF Adds
<1>2. h[T] = IF T = {} THEN 0 ELSE Pick(T).bytes + g[T \ {Pick(T)}]
  OBVIOUS
<1> HIDE DEF h
<1> QED
  BY <1>1, <1>2

LEMMA Picked ==
  ASSUME NEW S, S # {}
  PROVE  Pick(S) \in S
  BY DEF Pick

LEMMA AddingUp ==
  ASSUME NEW S, IsFiniteSet(S)
  PROVE  \E g : Adds(g, S)
<1> DEFINE Sound(g, n) == \A T \in SUBSET S : Cardinality(T) <= n =>
             g[T] = IF T = {} THEN 0 ELSE Pick(T).bytes + g[T \ {Pick(T)}]
           N == {n \in Nat : \E g : Sound(g, n)}
<1>1. \A T \in SUBSET S : IsFiniteSet(T) /\ Cardinality(T) \in Nat
  BY FS_Subset, FS_CardinalityType
<1>2. 0 \in N
  <2>1. \A T \in SUBSET S : Cardinality(T) <= 0 => T = {}
    BY <1>1, FS_EmptySet
  <2>2. Sound([T \in SUBSET S |-> 0], 0)
    BY <2>1
  <2> QED
    BY <2>2
<1>3. ASSUME NEW n \in N
      PROVE  n + 1 \in N
  <2>1. PICK g : Sound(g, n)
    BY <1>3
  <2> DEFINE h == [T \in SUBSET S |-> IF T = {} THEN 0 ELSE Pick(T).bytes + g[T \ {Pick(T)}]]
  <2>2. ASSUME NEW T \in SUBSET S, Cardinality(T) <= n
        PROVE  h[T] = g[T]
    BY <2>1, <2>2
  <2>3. ASSUME NEW T \in SUBSET S, Cardinality(T) <= n + 1, T # {}
        PROVE  h[T \ {Pick(T)}] = g[T \ {Pick(T)}]
    <3>1. Cardinality(T \ {Pick(T)}) = Cardinality(T) - 1
      BY <1>1, <2>3, Picked, FS_RemoveElement
    <3>2. Cardinality(T \ {Pick(T)}) <= n
      BY <1>1, <1>3, <2>3, <3>1
    <3> HIDE DEF h
    <3> QED
      BY <2>2, <3>2
  <2>4. \A T \in SUBSET S : h[T] = IF T = {} THEN 0 ELSE Pick(T).bytes + g[T \ {Pick(T)}]
    OBVIOUS
  <2> HIDE DEF h
  <2>5. Sound(h, n + 1)
    BY <2>3, <2>4
  <2> HIDE DEF Sound
  <2>6. n + 1 \in Nat /\ \E x : Sound(x, n + 1)
    BY <1>3, <2>5
  <2> QED
    BY <2>6
<1>4. N = Nat
  <2> HIDE DEF N
  <2>1. N \subseteq Nat
    BY DEF N
  <2> QED
    BY <1>2, <1>3, <2>1, SetInduction
<1>5. PICK g : Sound(g, Cardinality(S))
  BY <1>1, <1>4
<1>6. \A T \in SUBSET S : Cardinality(T) <= Cardinality(S)
  BY FS_Subset
<1>7. \A T \in SUBSET S : g[T] = IF T = {} THEN 0 ELSE Pick(T).bytes + g[T \ {Pick(T)}]
  BY <1>5, <1>6
<1> DEFINE h == [T \in SUBSET S |-> g[T]]
<1>8. \A T \in SUBSET S : h[T] = IF T = {} THEN 0 ELSE Pick(T).bytes + h[T \ {Pick(T)}]
  BY <1>7
<1>9. h = [T \in SUBSET S |-> h[T]]
  OBVIOUS
<1> HIDE DEF h
<1>10. Adds(h, S)
  BY <1>8, <1>9 DEF Adds
<1> QED
  BY <1>10

LEMMA SameSums ==
  ASSUME NEW S, IsFiniteSet(S), NEW U \in SUBSET S, NEW g, NEW h, Adds(g, S), Adds(h, U)
  PROVE  g[U] = h[U]
<1> DEFINE P == {T \in SUBSET U : g[T] = h[T]}
<1>0. /\ \A T \in SUBSET S : g[T] = IF T = {} THEN 0 ELSE Pick(T).bytes + g[T \ {Pick(T)}]
      /\ \A T \in SUBSET U : h[T] = IF T = {} THEN 0 ELSE Pick(T).bytes + h[T \ {Pick(T)}]
  <2> HIDE DEF P
  <2>1. \A T \in SUBSET S : g[T] = IF T = {} THEN 0 ELSE Pick(T).bytes + g[T \ {Pick(T)}]
    BY AddsAt
  <2>2. \A T \in SUBSET U : h[T] = IF T = {} THEN 0 ELSE Pick(T).bytes + h[T \ {Pick(T)}]
    BY AddsAt
  <2> QED
    BY <2>1, <2>2
<1>1. ASSUME NEW T \in SUBSET U, \A x \in T : T \ {x} \in P
      PROVE  T \in P
  <2>1. /\ g[T] = IF T = {} THEN 0 ELSE Pick(T).bytes + g[T \ {Pick(T)}]
        /\ h[T] = IF T = {} THEN 0 ELSE Pick(T).bytes + h[T \ {Pick(T)}]
    BY <1>0
  <2>2. T # {} => g[T \ {Pick(T)}] = h[T \ {Pick(T)}]
    BY <1>1, Picked
  <2> QED
    BY <2>1, <2>2
<1>2. P = SUBSET U
  <2> HIDE DEF P
  <2>1. P \subseteq SUBSET U
    BY DEF P
  <2> QED
    BY <1>1, <2>1, FS_Subset, SubsetInduction
<1> QED
  BY <1>2

LEMMA BytesPicked ==
  ASSUME NEW S, IsFiniteSet(S)
  PROVE  Bytes(S) = IF S = {} THEN 0 ELSE Pick(S).bytes + Bytes(S \ {Pick(S)})
<1> DEFINE g == CHOOSE g : Adds(g, S)
           U == S \ {Pick(S)}
           h == CHOOSE h : Adds(h, U)
<1>1. IsFiniteSet(U)
  BY FS_Subset
<1>2. Adds(g, S) /\ Adds(h, U)
  BY <1>1, AddingUp
<1>3. Bytes(S) = g[S] /\ Bytes(U) = h[U]
  BY BytesAdded
<1> HIDE DEF g, h
<1>4. g[U] = h[U]
  BY <1>2, SameSums
<1>5. g[S] = IF S = {} THEN 0 ELSE Pick(S).bytes + g[U]
  <2>1. S \in SUBSET S /\ Adds(g, S)
    BY <1>2
  <2>2. g[S] = IF S = {} THEN 0 ELSE Pick(S).bytes + g[S \ {Pick(S)}]
    BY <2>1, AddsAt
  <2> QED
    BY <2>2
<1> QED
  BY <1>3, <1>4, <1>5

LEMMA BytesType ==
  ASSUME NEW S \in SUBSET Row, IsFiniteSet(S)
  PROVE  Bytes(S) \in Nat
<1> DEFINE P == {T \in SUBSET S : Bytes(T) \in Nat}
<1>1. ASSUME NEW T \in SUBSET S, \A x \in T : T \ {x} \in P
      PROVE  T \in P
  <2>1. Bytes(T) = IF T = {} THEN 0 ELSE Pick(T).bytes + Bytes(T \ {Pick(T)})
    BY FS_Subset, BytesPicked
  <2>2. T # {} => Pick(T).bytes \in Nat /\ Bytes(T \ {Pick(T)}) \in Nat
    BY <1>1, Picked DEF Row, Sizes
  <2> QED
    BY <2>1, <2>2
<1>2. P = SUBSET S
  <2> HIDE DEF P
  <2>1. P \subseteq SUBSET S
    BY DEF P
  <2> QED
    BY <1>1, <2>1, SubsetInduction
<1> QED
  BY <1>2

\* In whichever order the bytes are added.
LEMMA BytesWithout ==
  ASSUME NEW S \in SUBSET Row, IsFiniteSet(S), NEW f \in S
  PROVE  Bytes(S) = f.bytes + Bytes(S \ {f})
<1> DEFINE P == {T \in SUBSET S : \A x \in T : Bytes(T) = x.bytes + Bytes(T \ {x})}
<1>0. /\ \A T \in SUBSET S : IsFiniteSet(T) /\ Bytes(T) \in Nat
      /\ \A x \in S : x.bytes \in Nat
  BY FS_Subset, BytesType DEF Row, Sizes
<1>1. ASSUME NEW T \in SUBSET S, \A x \in T : T \ {x} \in P
      PROVE  T \in P
  <2> SUFFICES ASSUME NEW x \in T
               PROVE  Bytes(T) = x.bytes + Bytes(T \ {x})
    OBVIOUS
  <2> DEFINE c == Pick(T)
  <2>1. c \in T /\ Bytes(T) = c.bytes + Bytes(T \ {c})
    BY <1>0, Picked, BytesPicked
  <2> HIDE DEF c
  <2>2. CASE c = x
    BY <2>1, <2>2
  <2>3. CASE c # x
    <3>1. Bytes(T \ {c}) = x.bytes + Bytes((T \ {c}) \ {x})
      BY <1>1, <2>1, <2>3
    <3>2. Bytes(T \ {x}) = c.bytes + Bytes((T \ {x}) \ {c})
      BY <1>1, <2>1, <2>3
    <3>3. (T \ {c}) \ {x} = (T \ {x}) \ {c}
      OBVIOUS
    <3>4. Bytes((T \ {c}) \ {x}) \in Nat /\ x.bytes \in Nat /\ c.bytes \in Nat
      BY <1>0, <2>1
    <3> DEFINE rest == Bytes((T \ {c}) \ {x})
    <3>5. Bytes(T) = c.bytes + (x.bytes + rest)
      BY <2>1, <3>1
    <3>6. Bytes(T \ {x}) = c.bytes + rest
      BY <3>2, <3>3
    <3> HIDE DEF rest
    <3>7. \A i, j, k \in Nat : i + (j + k) = j + (i + k)
      OBVIOUS
    <3>8. rest \in Nat
      BY <3>4 DEF rest
    <3> QED
      BY <3>4, <3>5, <3>6, <3>7, <3>8
  <2> QED
    BY <2>2, <2>3
<1>2. P = SUBSET S
  <2> HIDE DEF P
  <2>1. P \subseteq SUBSET S
    BY DEF P
  <2> QED
    BY <1>1, <2>1, SubsetInduction
<1> QED
  BY <1>2

LEMMA BytesSplit ==
  ASSUME NEW S \in SUBSET Row, IsFiniteSet(S), NEW U \in SUBSET S
  PROVE  Bytes(S) = Bytes(U) + Bytes(S \ U)
<1> DEFINE P == {T \in SUBSET U : Bytes(S) = Bytes(T) + Bytes(S \ T)}
<1>0. /\ \A T \in SUBSET S : T \in SUBSET Row /\ IsFiniteSet(T) /\ Bytes(T) \in Nat
      /\ \A x \in S : x.bytes \in Nat
  BY FS_Subset, BytesType DEF Row, Sizes
<1>1. ASSUME NEW T \in SUBSET U, \A x \in T : T \ {x} \in P
      PROVE  T \in P
  <2>1. CASE T = {}
    <3>1. Bytes(T) = 0 /\ S \ T = S
      BY <1>0, <2>1, BytesPicked
    <3>2. Bytes(S) \in Nat
      BY <1>0
    <3>3. Bytes(S) = Bytes(T) + Bytes(S \ T)
      BY <3>1, <3>2
    <3> QED
      BY <3>3
  <2>2. CASE T # {}
    <3>1. PICK x \in T : TRUE
      BY <2>2
    <3>2. Bytes(S) = Bytes(T \ {x}) + Bytes(S \ (T \ {x}))
      BY <1>1
    <3>3. Bytes(T) = x.bytes + Bytes(T \ {x})
      BY <1>0, BytesWithout
    <3>4. (S \ (T \ {x})) \ {x} = S \ T /\ x \in S \ (T \ {x})
      OBVIOUS
    <3>5. Bytes(S \ (T \ {x})) = x.bytes + Bytes(S \ T)
      BY <1>0, <3>4, BytesWithout
    <3>6. Bytes(T \ {x}) \in Nat /\ Bytes(S \ T) \in Nat /\ x.bytes \in Nat
      BY <1>0
    <3> QED
      BY <3>2, <3>3, <3>5, <3>6
  <2> QED
    BY <2>1, <2>2
<1>2. P = SUBSET U
  <2> HIDE DEF P
  <2>1. P \subseteq SUBSET U
    BY DEF P
  <2> QED
    BY <1>0, <1>1, <2>1, SubsetInduction
<1> QED
  BY <1>2

-----------------------------------------------------------------------------
(* The bytes of a submission. *)

Counted(fs, s) == {f \in Of(fs, s) : f.by # Admin}

LEMMA CountIsSum ==
  ASSUME NEW fs, NEW s
  PROVE  ByteCount(fs, s) = Bytes(Counted(fs, s))
  BY DEF ByteCount, Bytes, Counted

LEMMA CountType ==
  ASSUME NEW fs \in SUBSET Row, IsFiniteSet(fs), NEW s
  PROVE  /\ Counted(fs, s) \in SUBSET Row /\ IsFiniteSet(Counted(fs, s))
         /\ ByteCount(fs, s) \in Nat
<1>1. Counted(fs, s) \in SUBSET fs
  BY DEF Counted, Of
<1>2. Counted(fs, s) \in SUBSET Row /\ IsFiniteSet(Counted(fs, s))
  BY <1>1, FS_Subset
<1> QED
  BY <1>2, CountIsSum, BytesType

LEMMA FewerBytes ==
  ASSUME NEW fs \in SUBSET Row, IsFiniteSet(fs), NEW gs \in SUBSET Row, IsFiniteSet(gs), NEW s,
         Counted(gs, s) \subseteq Counted(fs, s)
  PROVE  ByteCount(gs, s) <= ByteCount(fs, s)
<1> DEFINE S == Counted(fs, s)
           T == Counted(gs, s)
<1>1. S \in SUBSET Row /\ IsFiniteSet(S) /\ T \in SUBSET S
  BY CountType
<1>2. S \ T \in SUBSET Row /\ IsFiniteSet(S \ T) /\ T \in SUBSET Row /\ IsFiniteSet(T)
  BY <1>1, CountType, FS_Subset
<1>3. Bytes(S) = Bytes(T) + Bytes(S \ T)
  BY <1>1, BytesSplit
<1>4. Bytes(T) \in Nat /\ Bytes(S \ T) \in Nat
  BY <1>2, BytesType
<1>5. Bytes(T) <= Bytes(S)
  BY <1>3, <1>4
<1> QED
  BY <1>5, CountIsSum

\* A subset of a finite set of rows, counted in any submission.
LEMMA SubsetBytes ==
  ASSUME NEW fs \in SUBSET Row, IsFiniteSet(fs), NEW gs \in SUBSET fs, NEW s
  PROVE  IsFiniteSet(gs) /\ ByteCount(gs, s) <= ByteCount(fs, s)
<1>1. IsFiniteSet(gs)
  BY FS_Subset
<1>2. Counted(gs, s) \subseteq Counted(fs, s)
  BY DEF Counted, Of
<1> QED
  BY <1>1, <1>2, FewerBytes

LEMMA NoFilesNoBytes ==
  ASSUME NEW fs, NEW s, \A f \in fs : f.sub # s
  PROVE  ByteCount(fs, s) = 0
<1>1. Counted(fs, s) = {}
  BY DEF Counted, Of
<1> QED
  BY <1>1, CountIsSum, BytesPicked, FS_EmptySet

\* What is replaced makes room for what is stored.
LEMMA StoredBytes ==
  ASSUME NEW fs, Tidy(fs), IsFiniteSet(fs), NEW u \in Users, NEW s \in Homework, NEW n \in Names,
         NEW bytes \in Sizes
  PROVE  LET named == Named(fs, s, n)
             gs    == Stored(fs, u, s, n, bytes)
         IN /\ IsFiniteSet(gs) /\ Bytes(named) \in Nat
            /\ \A t : t # s => ByteCount(gs, t) <= ByteCount(fs, t)
            /\ (\A f \in named : f.by # Admin) =>
                 ByteCount(gs, s) <= (ByteCount(fs, s) - Bytes(named)) + bytes
<1> DEFINE named == Named(fs, s, n)
           gs == Stored(fs, u, s, n, bytes)
           new == [sub |-> s, name |-> n, by |-> u, bytes |-> bytes, purpose |-> ClassOf(n)]
           rest == Counted(fs, s) \ named
<1>1. /\ fs \in SUBSET Row /\ gs \in SUBSET Row
  BY StoredTidy DEF Tidy
<1>2. named \in SUBSET fs /\ fs \ named \in SUBSET fs /\ gs = (fs \ named) \cup {new}
  BY DEF Named, Stored
<1>3. new.sub = s /\ new.name = n /\ new.by = u /\ new.bytes = bytes /\ new \in Row
  BY <1>1, <1>2
<1> HIDE DEF new, gs
<1>4. IsFiniteSet(gs) /\ IsFiniteSet(named)
  BY <1>2, FS_Subset, FS_AddElement
<1>5. Bytes(named) \in Nat
  BY <1>1, <1>2, <1>4, BytesType
<1>6. ASSUME NEW t, t # s
      PROVE  ByteCount(gs, t) <= ByteCount(fs, t)
  <2>1. Counted(gs, t) \subseteq Counted(fs, t)
    BY <1>2, <1>3, <1>6 DEF Counted, Of
  <2> QED
    BY <1>1, <1>4, <2>1, FewerBytes
<1>7. ASSUME \A f \in named : f.by # Admin
      PROVE  ByteCount(gs, s) <= (ByteCount(fs, s) - Bytes(named)) + bytes
  <2>1. named \in SUBSET Counted(fs, s)
    BY <1>7 DEF Named, Counted, Of
  <2>2. Counted(fs, s) \in SUBSET Row /\ IsFiniteSet(Counted(fs, s)) /\ ByteCount(fs, s) \in Nat
        /\ Counted(gs, s) \in SUBSET Row /\ IsFiniteSet(Counted(gs, s)) /\ ByteCount(gs, s) \in Nat
    BY <1>1, <1>4, CountType
  <2>3. ByteCount(fs, s) = Bytes(named) + Bytes(rest)
    BY <2>1, <2>2, BytesSplit, CountIsSum
  <2>4. rest \in SUBSET Row /\ IsFiniteSet(rest) /\ Bytes(rest) \in Nat
    BY <2>2, FS_Subset, BytesType
  <2>5. ByteCount(fs, s) - Bytes(named) = Bytes(rest)
    <3>1. \A i, j \in Nat : (i + j) - i = j
      OBVIOUS
    <3> HIDE DEF named, rest
    <3> QED
      BY <1>5, <2>3, <2>4, <3>1
  <2>6. Counted(gs, s) \ {new} \subseteq rest
    BY <1>2 DEF Counted, Of
  <2>7. Bytes(rest) = Bytes(Counted(gs, s) \ {new}) + Bytes(rest \ (Counted(gs, s) \ {new}))
        /\ Bytes(Counted(gs, s) \ {new}) \in Nat /\ Bytes(rest \ (Counted(gs, s) \ {new})) \in Nat
    <3>1. \A T \in SUBSET rest : T \in SUBSET Row /\ IsFiniteSet(T)
      BY <2>4, FS_Subset
    <3> QED
      BY <2>4, <2>6, <3>1, BytesSplit, BytesType
  <2>8. Bytes(Counted(gs, s) \ {new}) <= Bytes(rest)
    BY <2>7
  <2>9. ByteCount(gs, s) <= Bytes(rest) + bytes
    <3>0. bytes \in Nat
      BY DEF Sizes
    <3>1. CASE new \in Counted(gs, s)
      <4>1. ByteCount(gs, s) = bytes + Bytes(Counted(gs, s) \ {new})
        BY <1>3, <2>2, <3>1, BytesWithout, CountIsSum
      <4> QED
        BY <2>4, <2>7, <2>8, <3>0, <4>1
    <3>2. CASE new \notin Counted(gs, s)
      <4>1. ByteCount(gs, s) = Bytes(Counted(gs, s) \ {new})
        <5>1. Counted(gs, s) \ {new} = Counted(gs, s)
          BY <3>2
        <5> QED
          BY <5>1, CountIsSum
      <4> QED
        BY <2>4, <2>7, <2>8, <3>0, <4>1
    <3> QED
      BY <3>1, <3>2
  <2> QED
    BY <2>5, <2>9
<1> QED
  BY <1>4, <1>5, <1>6, <1>7 DEF gs

\* Within a submission a move adds nothing, and to others it takes nothing away.
LEMMA MovedBytes ==
  ASSUME NEW fs, Tidy(fs), IsFiniteSet(fs), NEW f \in fs, NEW t \in Homework, NEW m \in Names,
         NEW purpose \in Purposes
  PROVE  LET gs == Moved(fs, f, t, m, purpose)
         IN /\ IsFiniteSet(gs)
            /\ \A s : s # t \/ s = f.sub => ByteCount(gs, s) <= ByteCount(fs, s)
<1> DEFINE gs == Moved(fs, f, t, m, purpose)
           g == MovedTo(f, t, m, purpose)
           rest == (fs \ {f}) \ Named(fs, t, m)
<1>1. fs \in SUBSET Row /\ f \in Row /\ gs \in SUBSET Row
  BY MovedTidy DEF Tidy
<1>2. g.sub = t /\ g.by = f.by /\ g.bytes = f.bytes /\ f.bytes \in Nat
  BY <1>1, MovedFile DEF Row, Sizes
<1>3. gs = rest \cup {g} /\ rest \in SUBSET fs /\ f \notin rest
  BY DEF Moved
<1> HIDE DEF g, gs, rest
<1>4. IsFiniteSet(gs)
  BY <1>3, FS_Subset, FS_AddElement
<1>5. ASSUME NEW s, s # t \/ s = f.sub
      PROVE  ByteCount(gs, s) <= ByteCount(fs, s)
  <2>1. CASE g \notin Counted(gs, s)
    <3>1. Counted(gs, s) \subseteq Counted(fs, s)
      BY <1>3, <2>1 DEF Counted, Of
    <3> QED
      BY <1>1, <1>4, <3>1, FewerBytes
  <2>2. CASE g \in Counted(gs, s)
    <3>1. s = t /\ f \in Counted(fs, s)
      BY <1>2, <1>5, <2>2 DEF Counted, Of
    <3> DEFINE C == Counted(fs, s)
               D == Counted(gs, s)
    <3>2. C \in SUBSET Row /\ IsFiniteSet(C) /\ D \in SUBSET Row /\ IsFiniteSet(D)
      BY <1>1, <1>4, CountType
    <3>3. Bytes(C) = f.bytes + Bytes(C \ {f}) /\ Bytes(D) = f.bytes + Bytes(D \ {g})
      BY <1>2, <2>2, <3>1, <3>2, BytesWithout
    <3>4. D \ {g} \in SUBSET (C \ {f})
      BY <1>3 DEF Counted, Of
    <3> HIDE DEF C, D
    <3>5. C \ {f} \in SUBSET Row /\ IsFiniteSet(C \ {f})
      BY <3>2, FS_Subset
    <3> DEFINE X == C \ {f}
               Y == D \ {g}
    <3>6. Bytes(X) = Bytes(Y) + Bytes(X \ Y)
      BY <3>4, <3>5, BytesSplit
    <3>7. \A T \in SUBSET X : Bytes(T) \in Nat
      BY <3>5, FS_Subset, BytesType
    <3>8. Bytes(Y) \in Nat /\ Bytes(X \ Y) \in Nat
      BY <3>4, <3>7
    <3>9. Bytes(D) <= Bytes(C)
      <4> HIDE DEF X, Y
      <4>1. Bytes(C) = f.bytes + Bytes(X) /\ Bytes(D) = f.bytes + Bytes(Y)
        BY <3>3 DEF X, Y
      <4> QED
        BY <1>2, <3>6, <3>8, <4>1
    <3> QED
      BY <3>9, CountIsSum DEF C, D
  <2> QED
    BY <2>1, <2>2
<1> QED
  BY <1>4, <1>5 DEF gs

LEMMA ImageFinite ==
  ASSUME NEW S, IsFiniteSet(S), NEW f, DOMAIN f = S
  PROVE  IsFiniteSet({f[x] : x \in S})
<1> DEFINE T == {f[x] : x \in S}
           g == [x \in S |-> f[x]]
<1>1. g \in Surjection(S, T)
  BY DEF Surjection
<1> HIDE DEF g, T
<1>2. IsFiniteSet(T)
  BY <1>1, FS_Surjection
<1> QED
  BY <1>2 DEF T

LEMMA JoinedBytes ==
  ASSUME Tidy(files), IsFiniteSet(files), NEW s \in Homework, NEW t \in Homework, s # t
  PROVE  /\ IsFiniteSet(Joined(s, t))
         /\ \A x : x # s => ByteCount(Joined(s, t), x) <= ByteCount(files, x)
<1> DEFINE Into == [f \in files \ Shared(s, t) |-> [f EXCEPT !.sub = IF @ = t THEN s ELSE @]]
<1>1. Joined(s, t) = {Into[f] : f \in files \ Shared(s, t)}
  BY DEF Joined
<1>2. IsFiniteSet(files \ Shared(s, t))
  BY FS_Subset
<1>3. DOMAIN Into = files \ Shared(s, t)
  OBVIOUS
<1> HIDE DEF Into
<1>4. IsFiniteSet(Joined(s, t))
  BY <1>1, <1>2, <1>3, ImageFinite
<1>5. files \in SUBSET Row /\ Joined(s, t) \in SUBSET Row
  BY JoinedTidy DEF Tidy
<1>6. ASSUME NEW x, x # s
      PROVE  Counted(Joined(s, t), x) \subseteq Counted(files, x)
  BY <1>6, JoinedFiles DEF Counted, Of
<1> QED
  BY <1>4, <1>5, <1>6, FewerBytes

LEMMA GivenBackBytes ==
  ASSUME Tidy(files), IsFiniteSet(files), NEW s \in Homework, NEW v, NEW t \in Homework,
         t = <<v, s[2]>>, t # s, Of(files, t) = {}
  PROVE  /\ IsFiniteSet(GivenBack(s, v))
         /\ \A x : x # t => ByteCount(GivenBack(s, v), x) <= ByteCount(files, x)
<1> DEFINE Back == [f \in files |-> IF f.sub = s /\ f.by = v THEN [f EXCEPT !.sub = <<v, s[2]>>] ELSE f]
<1>1. GivenBack(s, v) = {Back[f] : f \in files}
  BY DEF GivenBack
<1>2. DOMAIN Back = files
  OBVIOUS
<1> HIDE DEF Back
<1>3. IsFiniteSet(GivenBack(s, v))
  BY <1>1, <1>2, ImageFinite
<1>4. files \in SUBSET Row /\ GivenBack(s, v) \in SUBSET Row
  BY GivenBackTidy DEF Tidy
<1>5. ASSUME NEW x, x # t
      PROVE  Counted(GivenBack(s, v), x) \subseteq Counted(files, x)
  <2>1. \A g \in GivenBack(s, v) : \E f \in files :
          /\ g.sub = IF f.sub = s /\ f.by = v THEN t ELSE f.sub
          /\ ~(f.sub = s /\ f.by = v) => g = f
    BY GivenBackFiles
  <2> QED
    BY <1>5, <2>1 DEF Counted, Of
<1> QED
  BY <1>3, <1>4, <1>5, FewerBytes

-----------------------------------------------------------------------------
(* The quota is kept. *)

\* A page that has counted: the count is high enough unless the submission is
\* known to have passed its quota.
Reckons(p, u) ==
  /\ p \in Page
  /\ u \in Owners(p.sub)
  /\ p.sub \notin overrun => ByteCount(files, p.sub) <= p.bytes

QuotaInv ==
  /\ IsFiniteSet(files)
  /\ overrun \subseteq Existing
  /\ DOMAIN page = Students
  /\ \A u \in Students : page[u] # None => Reckons(page[u], u)
  /\ QuotaKept

\* A submission that a step does not harm: quota and owners stay, and the step
\* adds no bytes unless it says so.
Unharmed(s) ==
  /\ s \in Existing /\ s \in Homework
  /\ subs'[s].quota = subs[s].quota
  /\ Owners(s) \subseteq Owners(s)'
  /\ s \notin overrun' => s \notin overrun /\ ByteCount(files', s) <= ByteCount(files, s)

LEMMA UnharmedKept ==
  ASSUME IInv, IInv', QuotaInv, IsFiniteSet(files'), NEW s, Unharmed(s)
  PROVE  /\ s \notin overrun' => ByteCount(files', s) <= subs'[s].quota
         /\ \A u \in Students, p \in Page : p.sub = s /\ Reckons(p, u) => Reckons(p, u)'
<1>1. /\ ByteCount(files, s) \in Nat /\ ByteCount(files', s) \in Nat
  BY CountType DEF IInv, Tidy, QuotaInv
<1>2. subs[s] \in SubmissionRow /\ subs[s].quota \in Nat
  BY SubmissionExists, FilesAssumption DEF Unharmed, IInv, Existing, SubmissionRow
<1>3. s \notin overrun => ByteCount(files, s) <= subs[s].quota
  BY DEF Unharmed, QuotaInv, QuotaKept
<1>4. s \notin overrun' => ByteCount(files', s) <= subs'[s].quota
  BY <1>1, <1>2, <1>3 DEF Unharmed
<1>5. ASSUME NEW u \in Students, NEW p \in Page, p.sub = s, Reckons(p, u)
      PROVE  Reckons(p, u)'
  <2>1. u \in Owners(p.sub)'
    BY <1>5 DEF Reckons, Unharmed
  <2>2. p.bytes \in Nat
    BY DEF Page
  <2>3. p.sub \notin overrun' => ByteCount(files', p.sub) <= p.bytes
    BY <1>1, <1>5, <2>2 DEF Reckons, Unharmed
  <2> QED
    BY <2>1, <2>3 DEF Reckons
<1> QED
  BY <1>4, <1>5

\* A step harms no submission but those that fit or are known not to, and a copy
\* that has survived it is of a submission that was not harmed.
LEMMA QuotaStep ==
  ASSUME IInv, IInv', QuotaInv, IsFiniteSet(files'), overrun' \subseteq Existing',
         \A t \in Existing' :
           Unharmed(t) \/ t \in overrun' \/ ByteCount(files', t) <= subs'[t].quota,
         \A u \in Students : page'[u] # None =>
           \/ page'[u] = page[u] /\ Unharmed(page[u].sub)
           \/ Reckons(page[u], u)'
  PROVE  QuotaInv'
<1>1. QuotaKept'
  <2> SUFFICES ASSUME NEW t \in Existing', t \notin overrun'
               PROVE  ByteCount(files', t) <= subs'[t].quota
    BY DEF QuotaKept
  <2> QED
    BY UnharmedKept
<1>2. ASSUME NEW u \in Students, page'[u] # None
      PROVE  Reckons(page[u], u)'
  <2>1. CASE page'[u] = page[u] /\ Unharmed(page[u].sub)
    <3>1. Reckons(page[u], u) /\ page[u] \in Page
      BY <1>2, <2>1 DEF QuotaInv, Reckons
    <3>2. \A p \in Page : p = page[u] => Reckons(p, u)'
      BY <2>1, <3>1, UnharmedKept
    <3> QED
      BY <2>1, <3>1, <3>2 DEF Reckons
  <2> QED
    BY <1>2, <2>1
<1>3. DOMAIN page' = Students
  BY DEF IInv
<1> QED
  BY <1>1, <1>2, <1>3 DEF QuotaInv

LEMMA Stays ==
  ASSUME NEW t \in Existing, subs'[t].quota = subs[t].quota, subs'[t].user2 = subs[t].user2,
         t \notin overrun' => t \notin overrun /\ ByteCount(files', t) <= ByteCount(files, t)
  PROVE  Unharmed(t)
  BY DEF Unharmed, Existing, Owners

LEMMA CountsNow ==
  ASSUME IInv, QuotaInv
  PROVE  \A t : ByteCount(files, t) \in Nat /\ ByteCount(files, t) <= ByteCount(files, t)
<1>1. \A t : ByteCount(files, t) \in Nat
  BY CountType DEF IInv, Tidy, QuotaInv
<1> QED
  BY <1>1

\* Pages whose copies are of submissions that the step does not harm.
LEMMA TouchedKept ==
  ASSUME IInv, NEW s, page' = Touched(s), \A t \in Existing : t # s => Unharmed(t)
  PROVE  \A u \in Students : page'[u] # None => page'[u] = page[u] /\ Unharmed(page[u].sub)
  BY TouchedPages

LEMMA CalendarQuota ==
  ASSUME IInv, IInv', QuotaInv, NEW s \in Homework, Calendar(s)
  PROVE  QuotaInv'
<1>1. PICK isOpen \in Periods : subs' = [subs EXCEPT ![s].open = isOpen]
  BY DEF Calendar
<1> DEFINE r == [subs[s] EXCEPT !.open = isOpen]
<1>2. s \in Existing /\ subs[s] \in SubmissionRow /\ files' = files /\ page' = page /\ overrun' = overrun
  BY DEF Calendar, Existing, IInv
<1>3. r \in SubmissionRow /\ r.user2 = subs[s].user2 /\ r.quota = subs[s].quota
  BY <1>2 DEF SubmissionRow
<1>4. subs' = [subs EXCEPT ![s] = r]
  BY <1>1
<1> HIDE DEF r
<1>5. subs'[s] = r /\ \A t \in Homework : t # s => subs'[t] = subs[t]
  BY <1>4 DEF IInv
<1>6. Existing' = Existing
  BY <1>2, <1>3, <1>5, SubmissionExists DEF Existing
<1>7. \A t \in Existing : subs'[t].quota = subs[t].quota /\ subs'[t].user2 = subs[t].user2
  BY <1>3, <1>5 DEF Existing
<1>8. \A t \in Existing : Unharmed(t)
  BY <1>2, <1>7, CountsNow, Stays
<1> QED
  BY <1>2, <1>6, <1>8, QuotaStep DEF IInv, QuotaInv

LEMMA SetQuotaQuota ==
  ASSUME IInv, IInv', QuotaInv, NEW s \in Homework, NEW quota \in Quotas, SetQuota(s, quota)
  PROVE  QuotaInv'
<1> DEFINE r == [subs[s] EXCEPT !.quota = quota]
<1>1. /\ s \in Existing /\ subs[s] \in SubmissionRow /\ subs' = [subs EXCEPT ![s] = r]
      /\ files' = files /\ page' = Touched(s)
      /\ overrun' = IF ByteCount(files, s) > quota THEN overrun \cup {s} ELSE overrun
  BY DEF SetQuota, Existing, IInv
<1>2. r \in SubmissionRow /\ r.quota = quota
  BY <1>1 DEF SubmissionRow
<1> HIDE DEF r
<1>3. subs'[s] = r /\ \A t \in Homework : t # s => subs'[t] = subs[t]
  BY <1>1 DEF IInv
<1>4. Existing' = Existing
  BY <1>1, <1>2, <1>3, SubmissionExists DEF Existing
<1>5. \A t \in Existing : t # s => subs'[t] = subs[t]
  BY <1>3 DEF Existing
<1>6. \A t \in Existing : t # s => Unharmed(t)
  BY <1>1, <1>5, CountsNow, Stays
<1>7. s \in overrun' \/ ByteCount(files', s) <= subs'[s].quota
  <2>1. ByteCount(files, s) \in Nat /\ quota \in Nat
    BY CountsNow, FilesAssumption
  <2> QED
    BY <1>1, <1>2, <1>3, <2>1
<1>8. overrun' \subseteq Existing' /\ IsFiniteSet(files')
  BY <1>1, <1>4 DEF QuotaInv
<1>9. \A u \in Students : page'[u] # None => page'[u] = page[u] /\ Unharmed(page[u].sub)
  BY <1>1, <1>6, TouchedKept
<1> QED
  BY <1>4, <1>6, <1>7, <1>8, <1>9, QuotaStep

\* A first submission has no files yet.
LEMMA CreatedQuota ==
  ASSUME IInv, QuotaInv, NEW u \in Students, NEW a, SubmissionsOf(u, a) = {}, <<u, a>> \in Homework,
         NEW isOpen \in Periods, subs' = [subs EXCEPT ![<<u, a>>] = New(isOpen)],
         files' = files, overrun' = overrun
  PROVE  /\ <<u, a>> \notin Existing /\ Existing' = Existing \cup {<<u, a>>}
         /\ \A t \in Existing : Unharmed(t)
         /\ u \in Owners(<<u, a>>)'
         /\ ByteCount(files', <<u, a>>) <= subs'[<<u, a>>].quota
<1> DEFINE s == <<u, a>>
<1>1. Existing' = Existing \cup {s}
  BY Created
<1>2. s[1] = u /\ s[2] = a /\ s \in Homework /\ u # None
  BY FilesAssumption DEF Users
<1>3. s \notin Existing
  BY <1>2 DEF SubmissionsOf, Owners
<1> HIDE DEF s
<1>4. subs' = [subs EXCEPT ![s] = New(isOpen)]
  BY DEF s
<1>5. subs'[s] = New(isOpen) /\ \A t \in Existing : subs'[t] = subs[t]
  BY <1>2, <1>3, <1>4 DEF IInv, Existing
<1>6. \A t \in Existing : Unharmed(t)
  BY <1>5, CountsNow, Stays
<1>7. u \in Owners(s)'
  BY <1>2 DEF Owners
<1>8. \A f \in files : f.sub # s
  BY <1>3 DEF IInv
<1>9. ByteCount(files', s) = 0
  BY <1>8, NoFilesNoBytes
<1>10. subs'[s].quota = InitialQuota
  BY <1>5 DEF New
<1>11. ByteCount(files', s) <= subs'[s].quota
  BY <1>9, <1>10, FilesAssumption
<1> QED
  BY <1>1, <1>3, <1>6, <1>7, <1>11 DEF s

LEMMA CreateQuota ==
  ASSUME IInv, IInv', QuotaInv, NEW u \in Students, NEW a \in Assignments, CreateSubmission(u, a)
  PROVE  QuotaInv'
<1>1. /\ <<u, a>> \notin Existing /\ Existing' = Existing \cup {<<u, a>>}
      /\ \A t \in Existing : Unharmed(t)
      /\ ByteCount(files', <<u, a>>) <= subs'[<<u, a>>].quota
  BY CreatedQuota DEF CreateSubmission
<1>2. files' = files /\ page' = page /\ overrun' = overrun
  BY DEF CreateSubmission
<1> QED
  BY <1>1, <1>2, QuotaStep DEF IInv, QuotaInv

LEMMA OpenPageQuota ==
  ASSUME IInv, IInv', QuotaInv, NEW u \in Students, NEW a \in Assignments, OpenPage(u, a)
  PROVE  QuotaInv'
<1> DEFINE known == SubmissionsOf(u, a)
<1>0. PICK s : s = IF known = {} THEN <<u, a>> ELSE CHOOSE t \in known : TRUE
  OBVIOUS
<1>1. /\ s \in Homework /\ files' = files /\ overrun' = overrun
      /\ \E isOpen \in Periods :
           subs' = IF known = {} THEN [subs EXCEPT ![s] = New(isOpen)] ELSE subs
      /\ page' = [page EXCEPT ![u] =
           IF @ # None /\ @.sub = s THEN @ ELSE [sub |-> s, bytes |-> ByteCount(files, s)]]
  BY <1>0 DEF OpenPage
<1>2. PICK p \in Page : p = [sub |-> s, bytes |-> ByteCount(files, s)]
  BY <1>1, CountsNow DEF Page
<1>3. p.sub = s /\ p.bytes = ByteCount(files, s)
  BY <1>2
<1>4. /\ Existing' = Existing \cup {s} /\ u \in Owners(s)'
      /\ \A t \in Existing : Unharmed(t)
      /\ s \in Existing \/ ByteCount(files', s) <= subs'[s].quota
  <2>1. CASE known = {}
    <3>1. s = <<u, a>>
      BY <1>0, <2>1
    <3>2. /\ SubmissionsOf(u, a) = {} /\ <<u, a>> \in Homework
          /\ \E isOpen \in Periods : subs' = [subs EXCEPT ![<<u, a>>] = New(isOpen)]
      BY <1>1, <2>1, <3>1
    <3>3. /\ Existing' = Existing \cup {<<u, a>>} /\ u \in Owners(<<u, a>>)'
          /\ \A t \in Existing : Unharmed(t)
          /\ ByteCount(files', <<u, a>>) <= subs'[<<u, a>>].quota
      BY <1>1, <3>2, CreatedQuota
    <3> QED
      BY <3>1, <3>3
  <2>2. CASE known # {}
    <3>1. s \in known
      BY <1>0, <2>2
    <3>2. s \in Existing /\ subs' = subs /\ u \in Owners(s)
      BY <1>1, <2>2, <3>1 DEF SubmissionsOf
    <3>3. \A t \in Existing : Unharmed(t)
      BY <1>1, <3>2, CountsNow, Stays
    <3> QED
      BY <3>2, <3>3 DEF Existing, Owners
  <2> QED
    BY <2>1, <2>2
<1>5. ASSUME NEW v \in Students, page'[v] # None
      PROVE  (page'[v] = page[v] /\ Unharmed(page[v].sub)) \/ Reckons(page[v], v)'
  <2>1. CASE page'[v] = page[v]
    BY <1>4, <1>5, <2>1 DEF IInv
  <2>2. CASE page'[v] # page[v]
    <3>1. v = u /\ page'[v] = p
      BY <1>1, <1>2, <2>2 DEF IInv
    <3>2. ByteCount(files', s) <= p.bytes
      BY <1>1, <1>3, CountsNow
    <3> QED
      BY <1>3, <1>4, <3>1, <3>2 DEF Reckons
  <2> QED
    BY <2>1, <2>2
<1> QED
  BY <1>1, <1>4, <1>5, QuotaStep DEF QuotaInv

LEMMA ClosePageQuota ==
  ASSUME IInv, IInv', QuotaInv, NEW u \in Students, ClosePage(u)
  PROVE  QuotaInv'
<1>1. /\ subs' = subs /\ files' = files /\ overrun' = overrun
      /\ \A v \in Students : page'[v] # None => page'[v] = page[v]
  BY DEF ClosePage, IInv
<1>2. Existing' = Existing /\ \A t \in Existing : Unharmed(t)
  BY <1>1, CountsNow, Stays DEF Existing
<1> QED
  BY <1>1, <1>2, QuotaStep DEF IInv, QuotaInv

\* A step of the files alone that adds to one submission at most.
LEMMA FilesQuota ==
  ASSUME IInv, IInv', QuotaInv, subs' = subs, IsFiniteSet(files'), NEW s \in Existing,
         overrun \subseteq overrun', overrun' \subseteq overrun \cup {s},
         \A t \in Existing : t # s => ByteCount(files', t) <= ByteCount(files, t),
         s \in overrun' \/ ByteCount(files', s) <= subs[s].quota,
         page' = Touched(s) \/
           \E u \in Students : u \in Owners(s) /\ page' = Refreshed(u, s, files')
  PROVE  QuotaInv'
<1>1. Existing' = Existing
  BY DEF Existing
<1>2. \A t \in Existing : t # s => Unharmed(t)
  BY Stays
<1>3. overrun' \subseteq Existing'
  BY <1>1 DEF QuotaInv
<1>4. CASE page' = Touched(s)
  <2>1. \A u \in Students : page'[u] # None => page'[u] = page[u] /\ Unharmed(page[u].sub)
    BY <1>2, <1>4, TouchedKept
  <2> QED
    BY <1>1, <1>2, <1>3, <2>1, QuotaStep
<1>5. ASSUME NEW u \in Students, u \in Owners(s), page' = Refreshed(u, s, files')
      PROVE  QuotaInv'
  <2>1. PICK p : p = [sub |-> s, bytes |-> ByteCount(files', s)]
    OBVIOUS
  <2>2. ByteCount(files', s) \in Nat /\ s \in Homework
    BY CountType DEF IInv, Tidy, Existing
  <2>3. p \in Page /\ p.sub = s /\ ByteCount(files', p.sub) <= p.bytes
    BY <2>1, <2>2 DEF Page
  <2>4. page' = [Touched(s) EXCEPT ![u] = p]
    BY <1>5, <2>1 DEF Refreshed
  <2>5. DOMAIN Touched(s) = Students
        /\ \A v \in Students : Touched(s)[v] # None =>
             Touched(s)[v] = page[v] /\ page[v].sub # s /\ page[v].sub \in Existing
    BY DEF Touched, IInv
  <2>6. u \in Owners(s)'
    BY <1>5 DEF Owners
  <2>7. ASSUME NEW v \in Students, page'[v] # None
        PROVE  (page'[v] = page[v] /\ Unharmed(page[v].sub)) \/ Reckons(page[v], v)'
    <3>1. CASE v = u
      <4>1. page'[v] = p
        BY <2>4, <2>5, <3>1
      <4> QED
        BY <2>3, <2>6, <3>1, <4>1 DEF Reckons
    <3>2. CASE v # u
      <4>1. page'[v] = Touched(s)[v]
        BY <2>4, <2>5, <3>2
      <4> QED
        BY <1>2, <2>5, <2>7, <4>1
    <3> QED
      BY <3>1, <3>2
  <2> QED
    BY <1>1, <1>2, <1>3, <2>7, QuotaStep
<1> QED
  BY <1>4, <1>5

\* What has room fits, if the count it was measured by was high enough.
LEMMA RoomFits ==
  ASSUME IInv, QuotaInv, NEW u \in Users, NEW s \in Existing, NEW n \in Names, NEW bytes \in Sizes,
         NEW counted \in Nat, s \notin overrun => ByteCount(files, s) <= counted,
         HasSufficientSpace(s, counted, n, bytes),
         files' = Stored(files, u, s, n, bytes), overrun' = overrun \cup AdminsRoom(s, n)
  PROVE  /\ IsFiniteSet(files')
         /\ \A t \in Existing : t # s => ByteCount(files', t) <= ByteCount(files, t)
         /\ s \in overrun' \/ ByteCount(files', s) <= subs[s].quota
         /\ overrun' \subseteq overrun \cup {s}
<1> DEFINE named == Named(files, s, n)
<1>0. Tidy(files) /\ IsFiniteSet(files) /\ s \in Homework
  BY DEF IInv, QuotaInv, Existing
<1>1. /\ IsFiniteSet(files') /\ Bytes(named) \in Nat
      /\ \A t : t # s => ByteCount(files', t) <= ByteCount(files, t)
      /\ (\A f \in named : f.by # Admin) =>
           ByteCount(files', s) <= (ByteCount(files, s) - Bytes(named)) + bytes
  BY <1>0, StoredBytes
<1>2. overrun' \subseteq overrun \cup {s}
  BY DEF AdminsRoom
<1>3. (subs[s].quota - counted) + Bytes(named) >= bytes
  BY DEF HasSufficientSpace, Bytes
<1> HIDE DEF named
<1>4. ASSUME s \notin overrun'
      PROVE  ByteCount(files', s) <= subs[s].quota
  <2>1. s \notin overrun /\ \A f \in named : f.by # Admin
    BY <1>4 DEF AdminsRoom, named
  <2>2. subs[s].quota \in Nat
    BY SubmissionExists, FilesAssumption DEF IInv, Existing, SubmissionRow
  <2>3. ByteCount(files, s) \in Nat /\ ByteCount(files', s) \in Nat /\ bytes \in Nat
    <3>1. Tidy(files')
      BY <1>0, StoredTidy
    <3> QED
      BY <1>0, <1>1, <3>1, CountType DEF Tidy, Sizes
  <2>4. ByteCount(files', s) <= (ByteCount(files, s) - Bytes(named)) + bytes
    BY <1>1, <2>1
  <2>5. ByteCount(files, s) <= counted
    BY <2>1
  <2>6. \A new, old, room, size, count, quota \in Nat :
          new <= (old - room) + size /\ old <= count /\ (quota - count) + room >= size => new <= quota
    OBVIOUS
  <2> QED
    BY <1>1, <1>3, <2>2, <2>3, <2>4, <2>5, <2>6
<1> QED
  BY <1>1, <1>2, <1>4

LEMMA WebUploadQuota ==
  ASSUME IInv, IInv', QuotaInv, NEW u \in Students, NEW n \in Names, NEW bytes \in Sizes,
         WebUpload(u, n, bytes)
  PROVE  QuotaInv'
<1>1. PICK s, counted : s = page[u].sub /\ counted = page[u].bytes
  OBVIOUS
<1>2. page[u] # None /\ s \in Existing /\ u \in Users /\ subs' = subs
  BY <1>1 DEF WebUpload, IInv, Users
<1>3. /\ HasSufficientSpace(s, counted, n, bytes)
      /\ files' = Stored(files, u, s, n, bytes) /\ overrun' = overrun \cup AdminsRoom(s, n)
      /\ page' = Refreshed(u, s, files')
  BY <1>1 DEF WebUpload, MayBeStored
<1>4. counted \in Nat /\ u \in Owners(s) /\ (s \notin overrun => ByteCount(files, s) <= counted)
  BY <1>1, <1>2 DEF QuotaInv, Reckons, Page
<1>5. /\ IsFiniteSet(files')
      /\ \A t \in Existing : t # s => ByteCount(files', t) <= ByteCount(files, t)
      /\ s \in overrun' \/ ByteCount(files', s) <= subs[s].quota
      /\ overrun' \subseteq overrun \cup {s}
  BY <1>2, <1>3, <1>4, RoomFits
<1> QED
  BY <1>2, <1>3, <1>4, <1>5, FilesQuota

LEMMA RestPutQuota ==
  ASSUME IInv, IInv', QuotaInv, NEW u \in Users, NEW s \in Homework, NEW n \in Names,
         NEW bytes \in Sizes, RestPut(u, s, n, bytes)
  PROVE  QuotaInv'
<1>1. PICK counted : counted = ByteCount(files, s)
  OBVIOUS
<1>2. /\ s \in Existing /\ subs' = subs /\ page' = Touched(s)
      /\ HasSufficientSpace(s, counted, n, bytes)
      /\ files' = Stored(files, u, s, n, bytes) /\ overrun' = overrun \cup AdminsRoom(s, n)
  BY <1>1 DEF RestPut, MayBeStored
<1>3. counted \in Nat /\ ByteCount(files, s) <= counted
  BY <1>1, CountsNow
<1>4. /\ IsFiniteSet(files')
      /\ \A t \in Existing : t # s => ByteCount(files', t) <= ByteCount(files, t)
      /\ s \in overrun' \/ ByteCount(files', s) <= subs[s].quota
      /\ overrun' \subseteq overrun \cup {s}
  BY <1>2, <1>3, RoomFits
<1> QED
  BY <1>2, <1>4, FilesQuota

\* Files that go take their bytes along.
LEMMA FewerFiles ==
  ASSUME IInv, QuotaInv, files' \in SUBSET files, subs' = subs, overrun' = overrun
  PROVE  /\ IsFiniteSet(files') /\ Existing' = Existing
         /\ \A t : ByteCount(files', t) <= ByteCount(files, t)
         /\ \A t \in Existing : Unharmed(t) /\ (t \in overrun' \/ ByteCount(files', t) <= subs[t].quota)
<1>1. IsFiniteSet(files') /\ \A t : ByteCount(files', t) <= ByteCount(files, t)
  BY SubsetBytes DEF IInv, Tidy, QuotaInv
<1>2. Existing' = Existing
  BY DEF Existing
<1>3. ASSUME NEW t \in Existing, t \notin overrun'
      PROVE  ByteCount(files', t) <= subs[t].quota
  <2>1. ByteCount(files, t) <= subs[t].quota
    BY <1>3 DEF QuotaInv, QuotaKept
  <2>2. subs[t].quota \in Nat
    BY SubmissionExists, FilesAssumption DEF IInv, Existing, SubmissionRow
  <2>3. ByteCount(files, t) \in Nat /\ ByteCount(files', t) \in Nat
    BY <1>1, CountType DEF IInv, Tidy, QuotaInv
  <2> QED
    BY <1>1, <2>1, <2>2, <2>3
<1> QED
  BY <1>1, <1>2, <1>3, Stays

LEMMA WebDeleteQuota ==
  ASSUME IInv, IInv', QuotaInv, NEW u \in Students, NEW f \in files, WebDelete(u, f)
  PROVE  QuotaInv'
<1>1. PICK s : s = page[u].sub
  OBVIOUS
<1>2. s \in Existing /\ u \in Owners(s)
  BY <1>1 DEF WebDelete, IInv, QuotaInv, Reckons
<1>3. /\ files' \in SUBSET files /\ subs' = subs /\ overrun' = overrun
      /\ page' = Refreshed(u, s, files')
  BY <1>1 DEF WebDelete
<1> QED
  BY <1>2, <1>3, FewerFiles, FilesQuota

LEMMA RestDeleteQuota ==
  ASSUME IInv, IInv', QuotaInv, NEW s \in Homework, NEW n \in Names, RestDelete(s, n)
  PROVE  QuotaInv'
<1>1. /\ files' \in SUBSET files /\ subs' = subs /\ overrun' = overrun /\ page' = page
  BY DEF RestDelete
<1>2. IsFiniteSet(files') /\ Existing' = Existing /\ \A t \in Existing : Unharmed(t)
  BY <1>1, FewerFiles
<1> QED
  BY <1>1, <1>2, QuotaStep DEF IInv, QuotaInv

LEMMA RestPatchQuota ==
  ASSUME IInv, IInv', QuotaInv, NEW f \in files, NEW t \in Homework, NEW m \in Names,
         NEW purpose \in Purposes, RestPatch(f, t, m, purpose)
  PROVE  QuotaInv'
<1>1. /\ files' = Moved(files, f, t, m, purpose) /\ subs' = subs /\ page' = page
      /\ overrun' = IF t = f.sub THEN overrun ELSE overrun \cup {t}
      /\ t # f.sub => t \in Existing
  BY DEF RestPatch, SubmissionsOf
<1>2. /\ IsFiniteSet(files')
      /\ \A s : s # t \/ s = f.sub => ByteCount(files', s) <= ByteCount(files, s)
  BY <1>1, MovedBytes DEF IInv, QuotaInv
<1>3. Existing' = Existing
  BY <1>1 DEF Existing
<1>4. \A s \in Existing : Unharmed(s)
  BY <1>1, <1>2, Stays
<1> QED
  BY <1>1, <1>2, <1>3, <1>4, QuotaStep DEF IInv, QuotaInv

LEMMA DiscardQuota ==
  ASSUME IInv, IInv', QuotaInv, NEW s \in Homework, RestDeleteSubmission(s)
  PROVE  QuotaInv'
<1>1. /\ subs' = [subs EXCEPT ![s] = None] /\ files' \in SUBSET files
      /\ page' = Touched(s) /\ overrun' = overrun \ {s}
  BY DEF RestDeleteSubmission
<1>2. /\ subs'[s] = None /\ \A t \in Homework : t # s => subs'[t] = subs[t]
  BY <1>1 DEF IInv
<1>3. Existing' = Existing \ {s}
  BY <1>2 DEF Existing
<1>4. IsFiniteSet(files') /\ \A t : ByteCount(files', t) <= ByteCount(files, t)
  BY <1>1, SubsetBytes DEF IInv, Tidy, QuotaInv
<1>5. \A t \in Existing : t # s => Unharmed(t)
  <2>1. \A t \in Existing : t # s => subs'[t] = subs[t]
    BY <1>2 DEF Existing
  <2> QED
    BY <1>1, <1>4, <2>1, Stays
<1>6. \A u \in Students : page'[u] # None => page'[u] = page[u] /\ Unharmed(page[u].sub)
  BY <1>1, <1>5, TouchedKept
<1>7. overrun' \subseteq Existing'
  BY <1>1, <1>3 DEF QuotaInv
<1> QED
  BY <1>3, <1>4, <1>5, <1>6, <1>7, QuotaStep

LEMMA JoinQuota ==
  ASSUME IInv, IInv', QuotaInv, NEW u \in Students, NEW v \in Students, NEW by \in {u, v, None},
         Join(u, v, by)
  PROVE  QuotaInv'
<1>1. PICK a \in Assignments :
        LET keep == <<u, a>>
            kill == <<v, a>>
            stale == [w \in Students |->
                        IF page[w] # None /\ page[w].sub \in {keep, kill}
                        THEN None ELSE page[w]]
            count == ByteCount(Joined(keep, kill), keep)
        IN /\ u < v /\ keep \in Existing /\ kill \in Existing
           /\ subs[keep].user2 = None
           /\ files' = Joined(keep, kill)
           /\ subs' = [subs EXCEPT ![keep].user2 = v, ![kill] = None]
           /\ IF by = None THEN page' = stale
              ELSE /\ page[by] # None /\ page[by].sub \in {keep, kill}
                   /\ page' = [stale EXCEPT ![by] =
                        [sub   |-> keep,
                         bytes |-> IF page[by].sub = keep THEN page[by].bytes ELSE count]]
           /\ overrun' = (overrun \ {kill}) \cup
                (IF count > subs[keep].quota \/ kill \in overrun \/ by = u
                 THEN {keep} ELSE {})
  BY DEF Join
<1>2. PICK keep, kill : keep = <<u, a>> /\ kill = <<v, a>>
  OBVIOUS
<1>3. PICK count : count = ByteCount(Joined(keep, kill), keep)
  OBVIOUS
<1>4. /\ keep # kill /\ keep \in Existing /\ kill \in Existing
      /\ keep \in Homework /\ kill \in Homework /\ keep[1] = u
      /\ subs[keep].user2 = None /\ u # v /\ u # None /\ v # None
  BY <1>1, <1>2, FilesAssumption DEF Existing, Students, Users
<1>5. /\ files' = Joined(keep, kill) /\ count = ByteCount(files', keep)
      /\ subs' = [subs EXCEPT ![keep].user2 = v, ![kill] = None]
      /\ overrun' = (overrun \ {kill}) \cup
           (IF count > subs[keep].quota \/ kill \in overrun \/ by = u THEN {keep} ELSE {})
  BY <1>1, <1>2, <1>3
<1>6. PICK r : r = [subs[keep] EXCEPT !.user2 = v]
  OBVIOUS
<1>7. r.user2 = v /\ r.quota = subs[keep].quota /\ r # None /\ subs[keep].quota \in Nat
  <2>1. subs[keep] \in SubmissionRow
    BY <1>4, SubmissionExists DEF IInv, Existing
  <2>2. r \in SubmissionRow /\ r.user2 = v /\ r.quota = subs[keep].quota
    BY <1>6, <2>1 DEF SubmissionRow
  <2> QED
    BY <2>1, <2>2, SubmissionExists, FilesAssumption DEF SubmissionRow
<1>8. /\ subs'[kill] = None /\ subs'[keep] = r
      /\ \A t \in Homework : t # keep /\ t # kill => subs'[t] = subs[t]
  <2>1. subs' = [subs EXCEPT ![keep] = r, ![kill] = None]
    BY <1>5, <1>6
  <2> QED
    BY <1>4, <2>1 DEF IInv
<1>9. Existing' = Existing \ {kill}
  BY <1>4, <1>7, <1>8 DEF Existing
<1>10. /\ IsFiniteSet(files')
       /\ \A t : t # keep => ByteCount(files', t) <= ByteCount(files, t)
  BY <1>4, <1>5, JoinedBytes DEF IInv, QuotaInv
<1>11. \A t \in Existing' : t # keep => Unharmed(t)
  <2>1. \A t \in Existing' : t # keep => t \in Existing /\ subs'[t] = subs[t] /\ t # kill
    BY <1>8, <1>9 DEF Existing
  <2> QED
    BY <1>5, <1>10, <2>1, Stays
<1>12. count \in Nat
  BY <1>5, <1>10, CountType DEF IInv, Tidy
<1>13. keep \in overrun' \/ ByteCount(files', keep) <= subs'[keep].quota
  BY <1>5, <1>7, <1>8, <1>12
<1>14. overrun' \subseteq Existing'
  BY <1>4, <1>5, <1>9 DEF QuotaInv
<1>15. u \in Owners(keep)' /\ v \in Owners(keep)'
  BY <1>4, <1>7, <1>8 DEF Owners
<1>16. ASSUME NEW w \in Students, page'[w] # None
       PROVE  (page'[w] = page[w] /\ Unharmed(page[w].sub)) \/ Reckons(page[w], w)'
  <2>1. PICK stale : stale = [x \in Students |->
                       IF page[x] # None /\ page[x].sub \in {keep, kill} THEN None ELSE page[x]]
    OBVIOUS
  <2>2. IF by = None THEN page' = stale
        ELSE /\ page[by] # None /\ page[by].sub \in {keep, kill}
             /\ page' = [stale EXCEPT ![by] =
                  [sub |-> keep, bytes |-> IF page[by].sub = keep THEN page[by].bytes ELSE count]]
    BY <1>1, <1>2, <1>3, <2>1
  <2>3. CASE page'[w] = stale[w]
    <3>1. page'[w] = page[w] /\ page[w].sub \notin {keep, kill}
      BY <1>16, <2>1, <2>3
    <3>2. page[w].sub \in Existing'
      BY <1>9, <1>16, <3>1 DEF IInv
    <3> QED
      BY <1>11, <3>1, <3>2
  <2>4. CASE page'[w] # stale[w]
    <3>1. /\ w = by /\ by # None /\ page[w] # None
          /\ page'[w] = [sub |-> keep, bytes |-> IF page[w].sub = keep THEN page[w].bytes ELSE count]
      BY <2>1, <2>2, <2>4
    <3>2. w = u \/ w = v
      BY <3>1
    <3>3. page[w].bytes \in Nat /\ w \in Owners(page[w].sub)
      BY <3>1 DEF QuotaInv, Reckons, Page
    <3>4. page'[w] \in Page /\ page'[w].sub = keep
      BY <1>4, <1>12, <3>1, <3>3 DEF Page
    <3>5. keep \notin overrun' => ByteCount(files', keep) <= page'[w].bytes
      <4>1. ASSUME keep \notin overrun'
            PROVE  w = v
        BY <1>5, <3>1, <3>2, <4>1
      <4>2. ASSUME w = v
            PROVE  page[w].sub # keep
        BY <1>4, <3>3, <4>2 DEF Owners
      <4> QED
        BY <1>5, <1>12, <3>1, <4>1, <4>2
    <3> QED
      BY <1>15, <3>2, <3>4, <3>5 DEF Reckons
  <2> QED
    BY <2>3, <2>4
<1> QED
  BY <1>10, <1>11, <1>13, <1>14, <1>16, QuotaStep

LEMMA DivorceQuota ==
  ASSUME IInv, IInv', QuotaInv, NEW s \in Homework, Divorce(s)
  PROVE  QuotaInv'
<1>1. PICK v : v = subs[s].user2
  OBVIOUS
<1>2. PICK t : t = <<v, s[2]>>
  OBVIOUS
<1>3. PICK isOpen \in Periods :
        subs' = [subs EXCEPT ![s].user2 = None, ![t] = New(isOpen)]
  BY <1>1, <1>2 DEF Divorce
<1>4. /\ s \in Existing /\ v # None /\ files' = GivenBack(s, v) /\ page' = Touched(s)
      /\ overrun' = IF ByteCount(files', t) > InitialQuota THEN overrun \cup {t} ELSE overrun
  BY <1>1, <1>2 DEF Divorce
<1>5. t \in Homework \ Existing /\ t # s /\ Of(files, t) = {}
  BY <1>1, <1>2, <1>4 DEF IInv, PartnersOnce, Of
<1>6. PICK r : r = [subs[s] EXCEPT !.user2 = None]
  OBVIOUS
<1>7. r # None /\ r.quota = subs[s].quota /\ subs[s].quota \in Nat
  <2>1. subs[s] \in SubmissionRow
    BY <1>4, SubmissionExists DEF IInv, Existing
  <2>2. r \in SubmissionRow /\ r.quota = subs[s].quota
    BY <1>6, <2>1 DEF SubmissionRow
  <2> QED
    BY <2>1, <2>2, SubmissionExists, FilesAssumption DEF SubmissionRow
<1>8. /\ subs'[s] = r /\ subs'[t] = New(isOpen)
      /\ \A x \in Homework : x # s /\ x # t => subs'[x] = subs[x]
  <2>1. subs' = [subs EXCEPT ![s] = r, ![t] = New(isOpen)]
    BY <1>3, <1>6
  <2> QED
    BY <1>5, <2>1 DEF IInv
<1>9. Existing' = Existing \cup {t}
  BY <1>4, <1>5, <1>7, <1>8, NewSubmission DEF Existing
<1>10. /\ IsFiniteSet(files')
       /\ \A x : x # t => ByteCount(files', x) <= ByteCount(files, x)
  BY <1>2, <1>4, <1>5, GivenBackBytes DEF IInv, QuotaInv
<1>11. \A x \in Existing : x # s => Unharmed(x)
  <2>1. \A x \in Existing : x # s => subs'[x] = subs[x] /\ x # t
    BY <1>5, <1>8 DEF Existing
  <2> QED
    BY <1>4, <1>10, <2>1, Stays
<1>12. \A x : ByteCount(files, x) \in Nat /\ ByteCount(files', x) \in Nat
  BY <1>10, CountType DEF IInv, Tidy, QuotaInv
<1>13. t \in overrun' \/ ByteCount(files', t) <= subs'[t].quota
  <2>1. subs'[t].quota = InitialQuota /\ InitialQuota \in Nat
    BY <1>8, FilesAssumption DEF New
  <2>2. ByteCount(files', t) \in Nat
    BY <1>12
  <2> QED
    BY <1>4, <2>1, <2>2
<1>14. s \in overrun' \/ ByteCount(files', s) <= subs'[s].quota
  <2>1. s \in overrun \/ ByteCount(files, s) <= subs[s].quota
    BY <1>4 DEF QuotaInv, QuotaKept
  <2> QED
    BY <1>4, <1>5, <1>7, <1>8, <1>10, <1>12, <2>1
<1>15. overrun' \subseteq Existing'
  BY <1>4, <1>9 DEF QuotaInv
<1>16. \A u \in Students : page'[u] # None => page'[u] = page[u] /\ Unharmed(page[u].sub)
  BY <1>4, <1>11, TouchedKept
<1> QED
  BY <1>9, <1>10, <1>11, <1>13, <1>14, <1>15, <1>16, QuotaStep

LEMMA QuotaAtFirst == Init => QuotaInv
<1> SUFFICES ASSUME Init PROVE QuotaInv
  OBVIOUS
<1>1. Existing = {} /\ IsFiniteSet(files)
  BY FS_EmptySet DEF Init, Existing
<1> QED
  BY <1>1 DEF Init, QuotaInv, QuotaKept

LEMMA QuotaOnward == IInv /\ IInv' /\ QuotaInv /\ [Next]_vars => QuotaInv'
<1> SUFFICES ASSUME IInv, IInv', QuotaInv, [Next]_vars PROVE QuotaInv'
  OBVIOUS
<1>1. ASSUME StudentNext PROVE QuotaInv'
  BY <1>1, CreateQuota, OpenPageQuota, ClosePageQuota, WebUploadQuota, WebDeleteQuota
    DEF StudentNext
<1>2. ASSUME RestNext PROVE QuotaInv'
  <2>1. \A p, n : p \in GivenPurposes \cup {ClassOf(n)} => p \in Purposes
    BY FilesAssumption, ClassIsPurpose
  <2> QED
    BY <1>2, <2>1, RestPutQuota, RestDeleteQuota, DiscardQuota, RestPatchQuota DEF RestNext
<1>3. ASSUME PartnersNext PROVE QuotaInv'
  BY <1>3, JoinQuota, DivorceQuota DEF PartnersNext
<1>4. ASSUME UNCHANGED vars PROVE QuotaInv'
  <2>1. subs' = subs /\ files' = files /\ page' = page /\ overrun' = overrun
    BY <1>4 DEF vars
  <2>2. Existing' = Existing /\ \A t : ByteCount(files', t) = ByteCount(files, t)
    BY <2>1 DEF Existing
  <2>3. \A t \in Existing : Unharmed(t)
    BY <2>1, CountsNow, Stays
  <2> QED
    BY <2>1, <2>2, <2>3, QuotaStep DEF IInv, QuotaInv
<1> QED
  BY <1>1, <1>2, <1>3, <1>4, CalendarQuota, SetQuotaQuota DEF Next

\* There is a place for the page of every student, and for none else.
Paged == page = [u \in Students |-> page[u]]

LEMMA PagedAlways == Spec => []Paged
<1>1. Init => Paged
  BY DEF Init, Paged
<1>2. ASSUME Paged, [Next]_vars
      PROVE  Paged'
  <2>1. ASSUME NEW s, page' = Touched(s)
        PROVE  Paged'
    BY <2>1 DEF Paged, Touched
  <2>2. ASSUME NEW u, NEW s, NEW fs, page' = Refreshed(u, s, fs)
        PROVE  Paged'
    BY <2>2 DEF Paged, Refreshed, Touched
  <2>3. ASSUME page' = page
        PROVE  Paged'
    BY <1>2, <2>3 DEF Paged
  <2>4. ASSUME NEW u, NEW p, page' = [page EXCEPT ![u] = p]
        PROVE  Paged'
    BY <1>2, <2>4 DEF Paged
  <2>5. ASSUME StudentNext PROVE Paged'
    <3>1. PICK u \in Students :
            \/ \E a \in Assignments : OpenPage(u, a) \/ CreateSubmission(u, a)
            \/ ClosePage(u)
            \/ \E n \in Names, b \in Sizes : WebUpload(u, n, b)
            \/ \E f \in files : WebDelete(u, f)
      BY <2>5 DEF StudentNext
    <3>2. ASSUME NEW a, OpenPage(u, a) PROVE Paged'
      <4>1. \E p : page' = [page EXCEPT ![u] = p]
        BY <3>2 DEF OpenPage
      <4> QED
        BY <2>4, <4>1
    <3> QED
      BY <2>2, <2>3, <2>4, <3>1, <3>2 DEF CreateSubmission, ClosePage, WebUpload, WebDelete
  <2>6. ASSUME RestNext PROVE Paged'
    BY <2>1, <2>3, <2>6 DEF RestNext, RestPut, RestDelete, RestDeleteSubmission, RestPatch
  <2>7. ASSUME PartnersNext PROVE Paged'
    <3>1. ASSUME NEW u, NEW v, NEW by, Join(u, v, by) PROVE Paged'
      <4> DEFINE Stale(keep, kill) ==
             [w \in Students |-> IF page[w] # None /\ page[w].sub \in {keep, kill} THEN None ELSE page[w]]
      <4>1. PICK a \in Assignments :
              LET keep == <<u, a>>
                  kill == <<v, a>>
                  count == ByteCount(Joined(keep, kill), keep)
              IN IF by = None THEN page' = Stale(keep, kill)
                 ELSE page' = [Stale(keep, kill) EXCEPT ![by] =
                        [sub   |-> keep,
                         bytes |-> IF page[by].sub = keep THEN page[by].bytes ELSE count]]
        BY <3>1 DEF Join
      <4>2. \E keep, kill : page' = Stale(keep, kill) \/ \E w, p : page' = [Stale(keep, kill) EXCEPT ![w] = p]
        <5> HIDE DEF Stale
        <5> QED
          BY <4>1
      <4> QED
        BY <4>2 DEF Paged
    <3> QED
      BY <2>1, <2>7, <3>1 DEF PartnersNext, Divorce
  <2>8. ASSUME NEW s, NEW q, Calendar(s) \/ SetQuota(s, q) PROVE Paged'
    BY <2>1, <2>3, <2>8 DEF Calendar, SetQuota
  <2>9. ASSUME UNCHANGED vars PROVE Paged'
    BY <2>3, <2>9 DEF vars
  <2> QED
    BY <1>2, <2>5, <2>6, <2>7, <2>8, <2>9 DEF Next
<1> QED
  BY <1>1, <1>2, PTL DEF Spec

LEMMA QuotaInvariance == Spec => []QuotaInv
<1>1. IInv /\ [Next]_vars => IInv'
  BY EveryStep DEF StepOK
<1>2. IInv /\ QuotaInv /\ [Next]_vars => QuotaInv'
  BY <1>1, QuotaOnward
<1> QED
  BY <1>2, Invariance, QuotaAtFirst, PTL DEF Spec

-----------------------------------------------------------------------------
(* What is promised. *)

\* Every row of the table belongs to a submission that exists, whichever of
\* the ways there are has removed, joined or split the others.
THEOREM NoOrphans == Spec => [](files \subseteq Row /\ \A f \in files : f.sub \in Existing)
<1>1. IInv => files \subseteq Row /\ \A f \in files : f.sub \in Existing
  BY DEF IInv, Tidy
<1> QED BY <1>1, Invariance, PTL

\* Every column and every copy on a page keeps its type, and no file and no
\* excuse is left of a submission that is gone.
THEOREM TypeCorrect == Spec => []TypeOK
<1>1. IInv /\ QuotaInv /\ Paged => TypeOK
  <2> SUFFICES ASSUME IInv, QuotaInv, Paged PROVE TypeOK
    OBVIOUS
  <2>1. \A u \in Students : page[u] \in Page \cup {None}
    BY DEF QuotaInv, Reckons
  <2>2. page \in [Students -> Page \cup {None}]
    BY <2>1 DEF Paged
  <2> QED
    BY <2>2 DEF TypeOK, IInv, Tidy, QuotaInv
<1> QED
  BY <1>1, Invariance, QuotaInvariance, PagedAlways, PTL

\* No upload, move, join or split makes a second file of a name, though the
\* database would not refuse it.
THEOREM NamesAreDistinct == Spec => []NamesDistinct
<1>1. IInv => NamesDistinct
  BY DEF IInv, Tidy, NamesDistinct
<1> QED BY <1>1, Invariance, PTL

\* Uploads fit into the quota though pages reckon with counts they made earlier,
\* whoever else uploads, deletes, moves, joins or splits in between.
THEOREM QuotaIsKept == Spec => []QuotaKept
<1>1. QuotaInv => QuotaKept
  BY DEF QuotaInv
<1> QED
  BY <1>1, QuotaInvariance, PTL

\* Joining and splitting lose and change no work, and a split gives each
\* partner their own.
THEOREM WorkIsKept == Spec => WorkSurvives
<1>1. IInv /\ [Next]_vars =>
        [\A s \in Homework : PartnersChange(s) =>
           /\ Work(files') = Work(files)
           /\ subs'[s].user2 = None =>
                \A f \in files' :
                  f.sub \in {s, <<subs[s].user2, s[2]>>} /\ f.purpose # "log" => f.by = f.sub[1]]_vars
  BY EveryStep DEF StepOK, WorkStep
<1> QED BY <1>1, Invariance, PTL DEF Spec, WorkSurvives

\* The rows of the database are the folders that module Folders promises:
\* every step puts, deletes, moves, merges, splits or discards, or is none.
THEOREM ImplementsFolders == Spec => KeepsFolders
<1>1. Init => Folder!Init
  BY Initially
<1>2. IInv /\ [Next]_vars => [Folder!Next]_FolderOf
  BY EveryStep DEF StepOK
<1> QED BY <1>1, <1>2, Invariance, PTL DEF Spec, KeepsFolders, Folder!Spec
=============================================================================
