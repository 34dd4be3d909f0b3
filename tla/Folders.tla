------------------------------ MODULE Folders ------------------------------
(***************************************************************************)
(* What the file store of the server promises: each submission is a folder *)
(* in which a name leads to one file at most.  A file stands for its       *)
(* author and its size, and is precious unless it is a log.                *)
(*                                                                         *)
(* Folders are changed by putting a file under a name, deleting one,       *)
(* moving one to another name or folder, merging two folders, splitting    *)
(* one by author, and discarding one.  Nothing else ever happens to a      *)
(* file: in particular neither merging nor splitting loses or changes one  *)
(* that is precious.  Module Files shows that the code does this.          *)
(***************************************************************************)
CONSTANTS
  Homework,  \* the folders
  Names,     \* names of files
  Authors,   \* who may have uploaded a file
  Bytes,     \* sizes of files
  None       \* no file

Content == [by : Authors, bytes : Bytes, cheap : BOOLEAN]

VARIABLE folder   \* folder[s][n]: the file that name n leads to, or None

Empty == [n \in Names |-> None]

Init == folder = [s \in Homework |-> Empty]

\* Put a file under a name, in place of what had it.
Put(s, n) == \E c \in Content : folder' = [folder EXCEPT ![s][n] = c]

Delete(s, n) == folder' = [folder EXCEPT ![s][n] = None]

\* Move a file to name m of folder t, in place of what had it; its purpose, and
\* with it whether it is cheap, may change on the way.
Move(s, n, t, m) ==
  /\ folder[s][n] # None
  /\ \E cheap \in BOOLEAN :
       folder' = [folder EXCEPT ![s][n] = None,
                                ![t][m] = [folder[s][n] EXCEPT !.cheap = cheap]]

\* Merge folder t into s.  A name they share is given up if both files are
\* cheap, and otherwise they are not merged.
Merge(s, t) ==
  /\ s # t
  /\ \A n \in Names : folder[s][n] # None /\ folder[t][n] # None =>
       folder[s][n].cheap /\ folder[t][n].cheap
  /\ folder' = [folder EXCEPT
       ![s] = [n \in Names |-> IF folder[t][n] = None THEN folder[s][n]
                               ELSE IF folder[s][n] = None THEN folder[t][n]
                               ELSE None],
       ![t] = Empty]

\* Split folder s: what was put there by author u goes to the empty folder t.
Split(s, t, u) ==
  LET Theirs(n) == folder[s][n] # None /\ folder[s][n].by = u
  IN /\ s # t /\ folder[t] = Empty
     /\ folder' = [folder EXCEPT
          ![s] = [n \in Names |-> IF Theirs(n) THEN None ELSE folder[s][n]],
          ![t] = [n \in Names |-> IF Theirs(n) THEN folder[s][n] ELSE None]]

Discard(s) == folder' = [folder EXCEPT ![s] = Empty]

Next ==
  \E s \in Homework :
    \/ Discard(s)
    \/ \E n \in Names : Put(s, n) \/ Delete(s, n)
    \/ \E t \in Homework :
         \/ Merge(s, t)
         \/ \E n, m \in Names : Move(s, n, t, m)
         \/ \E u \in Authors : Split(s, t, u)

Spec == Init /\ [][Next]_folder
=============================================================================
